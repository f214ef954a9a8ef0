----------------------------- MODULE JitoSubmit -----------------------------
(***************************************************************************)
(* One call of JitoBundle::submit_bundle, src/jito/jito.rs, with           *)
(* process_bundle, validate_bundle and check_final_bundle_status (jito/    *)
(* utils.rs) inlined: send the bundle, poll the engine at most MaxRetries  *)
(* times, after "Landed" poll the final status at most FinalRetries times, *)
(* and look the bonding curve up when that fails and a client was passed.  *)
(* Each step is one remote call and what the code does with its answer.    *)
(***************************************************************************)
EXTENDS Naturals

CONSTANTS MaxRetries,     \* MAX_RETRIES of config.rs (15)
          FinalRetries,   \* max_retries of check_final_bundle_status (10)
          MayLandFailed   \* may a landed bundle report a transaction error?

ASSUME SubmitAssumption ==
    /\ MaxRetries \in Nat /\ MaxRetries > 0
    /\ FinalRetries \in Nat /\ FinalRetries > 0
    /\ MayLandFailed \in BOOLEAN

VARIABLES caller, fate, curve, verdict,   \* as in Submission
          failed,    \* the landed bundle holds a failed transaction
          pc,        \* the remote call the code makes next
          attempt,   \* attempt of the polling loop it is in
          pending    \* is_pending: "Pending" was seen

vars == <<caller, fate, curve, verdict, failed, pc, attempt, pending>>
engineVars == <<caller, fate, curve, failed>>

HasClient == caller # "plain"

Init ==
    /\ caller \in {"launch", "late", "plain"}
    /\ fate = "unsent"
    /\ curve = IF caller = "launch" THEN "none" ELSE "live"
    /\ verdict = "none"
    /\ failed = FALSE
    /\ pc = "send"
    /\ attempt = 1
    /\ pending = FALSE

-----------------------------------------------------------------------------
(* The block engine and the chain. *)

\* A bundle is atomic: a launch cannot land on a token that already exists.
Land ==
    /\ fate = "inflight"
    /\ caller = "launch" => curve = "none"
    /\ fate' = "landed"
    /\ failed' \in (IF MayLandFailed THEN BOOLEAN ELSE {FALSE})
    /\ curve' = IF caller = "launch" /\ ~failed' THEN "live" ELSE curve
    /\ UNCHANGED <<caller, verdict, pc, attempt, pending>>

Drop ==
    /\ fate = "inflight"
    /\ fate' = "dropped"
    /\ UNCHANGED <<caller, curve, verdict, failed, pc, attempt, pending>>

\* The token appears through an earlier bundle of the launch loop, or its
\* curve is bought out.
CurveMoves ==
    /\ \/ curve = "none" /\ curve' = "live"
       \/ curve = "live" /\ curve' = "complete"
    /\ UNCHANGED <<caller, fate, verdict, failed, pc, attempt, pending>>

\* The in-flight status the engine may report: only "Landed" is reliable.
\* "other" stands for every answer the loop waits on.
Statuses == {"Pending", "Invalid", "other"} \cup IF fate = "landed" THEN {"Landed"} ELSE {}

\* The err field of a final status, and what indexing it with "Ok" gives.
Errs == IF failed THEN {"Err"} ELSE {"absent", "OkNull"}
OkField == [OkNull |-> "null", Err |-> "null", OkValue |-> "value"]

-----------------------------------------------------------------------------
(* The code. *)

Return(v) == pc' = "done" /\ verdict' = v

\* process_bundle ended with an error: with a client, submit_bundle looks the
\* bonding curve up (jito.rs:101-118).
Fail ==
    IF HasClient THEN pc' = "lookup" /\ UNCHANGED verdict ELSE Return("err")

\* send_bundle: the call fails, with the bundle sent or not; or the engine
\* refuses it and names no UUID; or it takes it.
Send ==
    /\ pc = "send"
    /\ \/ fate' \in {"inflight", "dropped"} /\ Fail
       \/ fate' = "inflight" /\ pc' = "poll" /\ UNCHANGED verdict
    /\ UNCHANGED <<caller, curve, failed, attempt, pending>>

\* One turn of a polling loop that goes on, or gives up after the last.
\* PollOnceMore counts one too many.
PollOnceMore(max) ==
    IF attempt <= max
    THEN attempt' = attempt + 1 /\ UNCHANGED <<pc, verdict>>
    ELSE Fail /\ UNCHANGED attempt
PollAgain(max) ==
    IF attempt < max
    THEN attempt' = attempt + 1 /\ UNCHANGED <<pc, verdict>>
    ELSE Fail /\ UNCHANGED attempt

PollFails == pc = "poll" /\ Fail /\ UNCHANGED <<attempt, pending>>

\* "Invalid" ends the loop once the bundle has been seen pending.
\* InvalidIsDone takes a vanished bundle for a finished one.
InvalidIsDone == IF HasClient THEN pc' = "lookupInvalid" /\ UNCHANGED verdict ELSE Return("ok")
GiveUpInvalid == IF HasClient THEN pc' = "lookupInvalid" /\ UNCHANGED verdict ELSE Return("err")

Poll(status) ==
    /\ pc = "poll"
    /\ pending' = (pending \/ status = "Pending")
    /\ \/ status = "Landed" /\ pc' = "final" /\ attempt' = 1 /\ UNCHANGED verdict
       \/ status = "Invalid" /\ pending /\ GiveUpInvalid /\ UNCHANGED attempt
       \/ status = "Invalid" /\ ~pending /\ PollAgain(MaxRetries)
       \/ status \in {"Pending", "other"} /\ PollAgain(MaxRetries)

\* check_transaction_error: an error only when indexing err with "Ok" gives
\* something (jito/utils.rs:65-77).
TransactionError(err) == err # "absent" /\ OkField[err] # "null"

\* The call fails, or the answer holds no status at all.
FinalFails == pc = "final" /\ Fail /\ UNCHANGED <<attempt, pending>>

FinalPoll(status, err) ==
    /\ pc = "final"
    /\ \/ /\ status \in {"confirmed", "finalized"}
          /\ TransactionError(err)
          /\ Fail /\ UNCHANGED attempt
       \/ /\ status = "finalized"
          /\ ~TransactionError(err)
          /\ Return("ok") /\ UNCHANGED attempt
       \/ /\ status = "other" \/ (status = "confirmed" /\ ~TransactionError(err))
          /\ PollAgain(FinalRetries)
    /\ UNCHANGED pending

\* get_pool_information finds the curve account; its unwrap of the price
\* panics once the curve is complete (pump.rs:551-553).  FoundAlways takes
\* any answer for a curve.
FoundAlways == TRUE
Found == curve = "live"

Lookup ==
    /\ pc \in {"lookup", "lookupInvalid"}
    /\ \/ Found /\ Return("ok")
       \/ curve = "complete" /\ Return("panic")
       \/ pc = "lookupInvalid" /\ Fail                \* none, or the call fails
       \/ pc = "lookup" /\ Return("err")
    /\ UNCHANGED <<attempt, pending>>

Code ==
    \/ Send
    \/ /\ \/ PollFails
          \/ \E status \in Statuses : Poll(status)
          \/ FinalFails
          \/ \E status \in {"confirmed", "finalized", "other"}, err \in Errs : FinalPoll(status, err)
          \/ Lookup
       /\ UNCHANGED engineVars

Next == Code \/ Land \/ Drop \/ CurveMoves

\* Every remote call returns, and tokio runs the task that awaits it.
Spec == Init /\ [][Next]_vars /\ WF_vars(Code)

-----------------------------------------------------------------------------
(* Properties. *)

\* Every variable keeps to its set of values, and neither loop makes more
\* attempts than its limit.
TypeOK ==
    /\ caller \in {"launch", "late", "plain"}
    /\ fate \in {"unsent", "inflight", "landed", "dropped"}
    /\ curve \in {"none", "live", "complete"}
    /\ verdict \in {"none", "ok", "err", "panic"}
    /\ failed \in BOOLEAN
    /\ pc \in {"send", "poll", "final", "lookup", "lookupInvalid", "done"}
    /\ attempt \in Nat \ {0}
    /\ pc = "poll" => attempt <= MaxRetries
    /\ pc = "final" => attempt <= FinalRetries
    /\ pending \in BOOLEAN

\* What an Ok of submit_bundle means (jito.rs:92-124): without a client the
\* bundle landed; with one the token exists, which for a launch is the
\* question asked, although another bundle than this one may have made it.
OkMeans ==
    verdict = "ok" => IF HasClient THEN curve # "none" ELSE fate = "landed"

\* submit_bundle implements the contract its callers are modelled with; it
\* returns, whatever the engine answers, because both loops are bounded.
Contract == INSTANCE Submission
ImplementsSubmission == Contract!SubSpec
==============================================================================
