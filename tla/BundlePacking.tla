---------------------------- MODULE BundlePacking ----------------------------
(***************************************************************************)
(* How process_bundle turns the list of buyers into the transactions of    *)
(* the first bundle (collect_first_bundle_txs) and of the late bundles     *)
(* (collect_rest_txs), src/jito/help.rs.  One step is one turn of a loop.  *)
(*                                                                         *)
(* A transaction is abstracted to what the later stages tell apart: does   *)
(* it create the token, the positions of the buyers whose buy instructions *)
(* it holds, and does it end in the tip to the block engine.  Buyers are   *)
(* the positions 0..n-1 of keypairs_to_treat.                              *)
(***************************************************************************)
EXTENDS Integers, Sequences, FiniteSets

CONSTANTS MaxFirst,   \* MAX_BUYERS_FIRST_BUNDLE of config.rs (19)
          PerTx,      \* buyers per transaction (5)
          ChunkTxs,   \* transactions per bundle (5)
          MaxBuyers   \* bound: the longest list of buyers considered

ASSUME PackingAssumption ==
    /\ MaxFirst \in Nat
    /\ PerTx \in Nat /\ PerTx > 1
    /\ ChunkTxs \in Nat /\ ChunkTxs > 1
    /\ MaxBuyers \in Nat /\ MaxBuyers > 0

VARIABLES n,          \* keypairs_to_treat.len(); get_splits returns at least one
          withDelay,  \* with_delay of the request
          pc,         \* the loop process_bundle is in
          index,      \* index of the loop
          cur,        \* tx_ixs: buyers of the transaction being filled
          first,      \* all_ixs of collect_first_bundle_txs
          rest        \* transactions of collect_rest_txs

packVars == <<n, withDelay, pc, index, cur, first, rest>>

Tx(create, buyers, tip) == [create |-> create, buyers |-> buyers, tip |-> tip]

Txs == [create : BOOLEAN, buyers : SUBSET (0..MaxBuyers-1), tip : BOOLEAN]

\* The buyers collect_rest_txs skips.  SkipTwice goes one buyer too far.
SkipTwice == IF withDelay THEN 0 ELSE MaxFirst + 2
Skip == IF withDelay THEN 0 ELSE MaxFirst

\* Only a delayed launch tips in the developer's transaction.
DevTips == withDelay

\* The buyer at index ends the first bundle.
ClosesFirst == index = MaxFirst \/ index = n - 1

\* A transaction is full.  FullLate notices one buyer too late.
FullLate == index > 0 /\ index % PerTx = 0
FullTx == (index + 1) % PerTx = 0

\* tx_ixs after a turn: emptied when the transaction was pushed.
KeepFilling(pushed, buyers) == buyers
Refill(pushed, buyers) == IF pushed THEN {} ELSE buyers

PackInit ==
    /\ n \in 1..MaxBuyers
    /\ withDelay \in BOOLEAN
    /\ pc = "create"
    /\ index = 0
    /\ cur = {}
    /\ first = <<>>
    /\ rest = <<>>

\* The developer's transaction: creates the token and buys.  With a delay it
\* is the whole bundle.
CreateTx ==
    /\ pc = "create"
    /\ first' = <<Tx(TRUE, {}, DevTips)>>
    /\ pc' = IF withDelay THEN "rest" ELSE "first"
    /\ UNCHANGED <<n, withDelay, index, cur, rest>>

\* One buyer of the first bundle.  The bundle ends with the last buyer or with
\* the one at MaxFirst, so the push after the loop (help.rs:206) never happens.
FirstBuyer ==
    LET buyers == cur \cup {index}
        pushed == ClosesFirst \/ FullTx
    IN
    /\ pc = "first"
    /\ first' = IF pushed THEN Append(first, Tx(FALSE, buyers, ClosesFirst)) ELSE first
    /\ cur' = Refill(pushed, buyers)
    /\ \/ ClosesFirst /\ pc' = "rest" /\ index' = 0
       \/ ~ClosesFirst /\ pc' = pc /\ index' = index + 1
    /\ UNCHANGED <<n, withDelay, rest>>

\* The test for a tip at the end of a full late bundle, with the precedence
\* the source gives it: the remainder binds tighter than the sum.
TipsFullChunk ==
    /\ Len(rest) + (1 % ChunkTxs) = 0
    /\ (index + 1) % (PerTx - 1) = 0

LastRest == index = n - Skip - 1

\* Buyers remain for the late bundles.
OneMoreRest == Skip + index <= n
MoreRest == Skip + index < n

\* One buyer of the late bundles.
RestBuyer ==
    LET buyers == cur \cup {Skip + index}
        tipped == TipsFullChunk \/ LastRest
        pushed == tipped \/ FullTx
    IN
    /\ pc = "rest"
    /\ MoreRest
    /\ rest' = IF pushed THEN Append(rest, Tx(FALSE, buyers, tipped)) ELSE rest
    /\ cur' = Refill(pushed, buyers)
    /\ index' = index + 1
    /\ UNCHANGED <<n, withDelay, pc, first>>

RestEnd ==
    /\ pc = "rest"
    /\ ~MoreRest
    /\ pc' = "packed"
    /\ UNCHANGED <<n, withDelay, index, cur, first, rest>>

PackNext == CreateTx \/ FirstBuyer \/ RestBuyer \/ RestEnd

PackSpec == PackInit /\ [][PackNext]_packVars

\* has_delayed_bundle: does process_bundle start the delayed task?
DelayedPastFirst == n > MaxFirst + 1 \/ withDelay
HasDelayedBundle == n >= MaxFirst + 1 \/ withDelay

\* late_txs.chunks(5): the transactions of late bundle c, for c in LateChunks.
LateChunks == 1..((Len(rest) + ChunkTxs - 1) \div ChunkTxs)

LateChunk(c) ==
    {rest[k] : k \in ((c - 1) * ChunkTxs + 1)..(c * ChunkTxs) \cap 1..Len(rest)}

-----------------------------------------------------------------------------
(* Properties. *)

\* Every variable keeps to its set of values.
PackTypeOK ==
    /\ n \in 1..MaxBuyers
    /\ withDelay \in BOOLEAN
    /\ pc \in {"create", "first", "rest", "packed"}
    /\ index \in 0..MaxBuyers
    /\ cur \subseteq 0..MaxBuyers-1
    /\ first \in Seq(Txs)
    /\ rest \in Seq(Txs)

BuyersOf(txs) == UNION {txs[k].buyers : k \in DOMAIN txs}

Disjoint(txs) ==
    \A j, k \in DOMAIN txs : j # k => txs[j].buyers \cap txs[k].buyers = {}

\* No buyer is lost: once both loops have run, every buyer of the request is
\* in some transaction (help.rs, collect_first_bundle_txs and
\* collect_rest_txs), whatever the length of the list and the delay.
NoBuyerLost ==
    pc = "packed" => BuyersOf(first) \cup BuyersOf(rest) = 0..n-1

\* Within one of the two groups of transactions no buyer appears twice: a
\* group never asks the same wallet to buy again.
OncePerGroup == Disjoint(first) /\ Disjoint(rest)

\* The first bundle has at most the number of transactions a bundle can
\* hold, and no transaction more buyers than its size allows (help.rs:33-38).
FitsBundle ==
    /\ Len(first) <= ChunkTxs
    /\ \A k \in DOMAIN first : Cardinality(first[k].buyers) <= PerTx
    /\ \A k \in DOMAIN rest : Cardinality(rest[k].buyers) <= PerTx

Tips(txs) == {k \in DOMAIN txs : txs[k].tip}

\* A group pays one tip, in its last transaction: a tip before that would be
\* paid for a bundle, or a list of bundles, that is not complete.
FirstTippedAtEnd == pc \in {"rest", "packed"} => Tips(first) = {Len(first)}
RestTippedAtEnd ==
    pc = "packed" => Tips(rest) = IF rest = <<>> THEN {} ELSE {Len(rest)}

\* The two groups as they are built: the first bundle is one that the engine
\* takes, with its transactions, its buyers and its tip where they belong.
\* The late transactions are of a size the chain takes, and whatever their
\* number they pay a single tip, in the very last: the late bundles before
\* the last have none (help.rs:167-270; EveryLateBundleTipped).
SizesAndTips == FitsBundle /\ FirstTippedAtEnd /\ RestTippedAtEnd

\* The delayed task is started exactly when there is a late transaction to
\* send: has_delayed_bundle (>= 20) agrees with what collect_rest_txs left.
DelayedIffRest == pc = "packed" => (HasDelayedBundle <=> rest # <<>>)

\* What help.rs:106 and :217 say: the buyers of the first bundle have been
\* treated, so none of them is in a late bundle.  The code breaks after
\* index 19 and skips 19, so buyer 19 is in both.
TreatedOnce == pc = "packed" => BuyersOf(first) \cap BuyersOf(rest) = {}

\* What help.rs:252 says: a full late bundle is tipped too.  Because of the
\* precedence in its test only the last late transaction ever has a tip.
EveryLateBundleTipped ==
    pc = "packed" => \A c \in LateChunks : \E tx \in LateChunk(c) : tx.tip

==============================================================================
