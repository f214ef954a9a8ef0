------------------------------ MODULE LutCreate ------------------------------
(***************************************************************************)
(* create_lut and extend_lut of src/solana/lut.rs: the lookup table of a   *)
(* launch is created together with its first chunk of addresses, then      *)
(* extended chunk by chunk, one transaction at a time.  Every retry of a   *)
(* transaction is signed over the blockhash read before its loop, so the   *)
(* chain executes it at most once, and not at all once that hash is old.   *)
(***************************************************************************)
EXTENDS Integers, Sequences

CONSTANTS Sizes,      \* lengths of the address list considered
          Take,       \* addresses used at most (240)
          ChunkSize,  \* addresses per extend instruction (25)
          MaxTries    \* MAX_RETRIES of the extend loop (10)

ASSUME LutAssumption ==
    /\ Sizes \subseteq Nat \ {0}
    /\ Take \in Nat \ {0}
    /\ ChunkSize \in Nat \ {0}
    /\ MaxTries \in Nat \ {0}

VARIABLES n,        \* addresses.len()
          pc,       \* "start", "create", "extend", or how the call ended
          chunk,    \* the chunk whose transaction is being sent
          tries,    \* retries of the extend loop
          waiting,  \* the confirming call has not returned yet
          hash,     \* the blockhash of that transaction: "fresh" or "old"
          fate,     \* that transaction: "unsent", "inflight", "landed", "failed"
          table     \* the chunks in the table on the chain, in order

createVars == <<n, pc, chunk, tries, waiting, hash, fate, table>>
chainVars == <<hash, fate, table>>

Ended == {"ok", "err", "panic"}

\* addresses.chunks(25) of the addresses kept.
NumChunks ==
    LET used == IF n < Take THEN n ELSE Take
    IN  (used + ChunkSize - 1) \div ChunkSize

CreateInit ==
    /\ n \in Sizes
    /\ pc = "start" /\ chunk = 1 /\ tries = 0 /\ waiting = FALSE
    /\ hash = "fresh" /\ fate = "unsent" /\ table = <<>>

-----------------------------------------------------------------------------
(* The chain. *)

\* The transaction executes, or fails there: too old a slot, no funds.
Land ==
    /\ fate = "inflight" /\ hash = "fresh"
    /\ \/ fate' = "landed" /\ table' = Append(table, chunk)
       \/ fate' = "failed" /\ UNCHANGED table
    /\ UNCHANGED <<n, pc, chunk, tries, waiting, hash>>

\* About a minute after it was read the blockhash is refused.
Age ==
    /\ hash = "fresh" /\ pc # "start"
    /\ hash' = "old"
    /\ fate' = IF fate = "inflight" THEN "unsent" ELSE fate
    /\ UNCHANGED <<n, pc, chunk, tries, waiting, table>>

-----------------------------------------------------------------------------
(* The code. *)

\* get_slot_and_blockhash is unwrapped.
Start ==
    /\ pc = "start"
    /\ pc' \in {"create", "panic"}
    /\ UNCHANGED <<n, chunk, tries, waiting, chainVars>>

\* send_and_confirm_transaction_with_spinner_and_config.  Sending again what
\* has landed changes nothing.
Send ==
    /\ pc \in {"create", "extend"} /\ ~waiting
    /\ waiting' = TRUE
    /\ fate' \in {fate} \cup (IF fate = "unsent" /\ hash = "fresh" THEN {"inflight"} ELSE {})
    /\ UNCHANGED <<n, pc, chunk, tries, hash, table>>

\* The next extend instruction, with a blockhash of its own; reading that
\* is unwrapped.  SkipLast stops one chunk early.
SkipLast == chunk + 1 >= NumChunks
NoMoreChunks == chunk >= NumChunks

Confirmed ==
    /\ waiting /\ fate = "landed"
    /\ waiting' = FALSE /\ tries' = 0
    /\ \/ NoMoreChunks /\ pc' = "ok" /\ UNCHANGED <<chunk, hash, fate>>
       \/ ~NoMoreChunks /\ pc' = "panic" /\ UNCHANGED <<chunk, hash, fate>>
       \/ /\ ~NoMoreChunks
          /\ pc' = "extend" /\ chunk' = chunk + 1
          /\ hash' = "fresh" /\ fate' = "unsent"
    /\ UNCHANGED <<n, table>>

\* The transaction of the next try is the same one.  NewHash signs it anew.
NewHash == hash' = "fresh" /\ fate' = "unsent"
SameTx == UNCHANGED <<hash, fate>>

\* The extend loop counts its tries.  Uncounted starts each from where it was.
Uncounted == tries
Counted == tries + 1

\* and gives up after the last.  OneMoreTry does not.
OneMoreTry == Counted <= MaxTries
TriesLeft == Counted < MaxTries

\* The call returns an error, whatever became of the transaction: it failed,
\* its blockhash went old, or the RPC node did not answer.
NotConfirmed ==
    /\ waiting
    /\ waiting' = FALSE
    /\ \/ /\ pc = "create"
          /\ SameTx
          /\ UNCHANGED <<pc, tries>>
       \/ /\ pc = "extend"
          /\ tries' = Counted
          /\ \/ TriesLeft /\ SameTx /\ UNCHANGED pc
             \/ ~TriesLeft /\ pc' = "err" /\ UNCHANGED <<hash, fate>>
    /\ UNCHANGED <<n, chunk, table>>

Code == Start \/ Send \/ Confirmed \/ NotConfirmed

CreateNext == Code \/ Land \/ Age

\* The task runs and every RPC call returns; blockhashes grow old.  Nothing
\* is assumed about transactions landing.
CreateSpec == CreateInit /\ [][CreateNext]_createVars /\ WF_createVars(Code) /\ WF_createVars(Age)

-----------------------------------------------------------------------------
(* Properties. *)

\* Every variable keeps to its set of values, and an extend transaction is
\* tried at most MaxTries times.
CreateTypeOK ==
    /\ n \in Sizes
    /\ pc \in {"start", "create", "extend"} \cup Ended
    /\ chunk \in 1..NumChunks
    /\ tries \in 0..MaxTries
    /\ waiting \in BOOLEAN
    /\ hash \in {"fresh", "old"}
    /\ fate \in {"unsent", "inflight", "landed", "failed"}
    /\ table \in Seq(1..NumChunks)

\* Although an error says nothing about what the chain did, and every error
\* is answered by sending again, no chunk is ever written twice, skipped or
\* out of order: the table holds a prefix of the chunks, up to the current.
TableIsPrefix ==
    /\ Len(table) \in {chunk - 1, chunk}
    /\ \A k \in DOMAIN table : table[k] = k

\* create_lut answers with the table only when all its chunks are in it.
OkMeansFull == pc = "ok" => Len(table) = NumChunks

\* The call ends, unless the blockhash of the creation goes old in the loop
\* at lut.rs:75, which is the one wait that has no end: it sends the old
\* transaction again and again.
EndsUnlessCreationAges == <>(pc \in Ended) \/ <>[](pc = "create" /\ hash = "old")
==============================================================================
