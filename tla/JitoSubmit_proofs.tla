-------------------------- MODULE JitoSubmit_proofs --------------------------
(***************************************************************************)
(* submit_bundle for every number of retries: what its Ok means, and that  *)
(* its steps are steps of the contract its callers rely on.                *)
(***************************************************************************)
EXTENDS JitoSubmit, TLAPS

USE SubmitAssumption

\* Where the call stands: it returns once, it queries only what it sent, the
\* lookups need a client, and the final status is that of a landed bundle.
Stand ==
    /\ pc = "done" <=> verdict # "none"
    /\ pc # "send" <=> fate # "unsent"
    /\ pc = "send" => attempt = 1
    /\ pc \in {"lookup", "lookupInvalid"} => HasClient
    /\ pc = "final" => fate = "landed"

\* An Ok without a client: this needs nothing of the engine.
PlainOkMeans == verdict = "ok" /\ ~HasClient => fate = "landed"

SInv == TypeOK /\ Stand /\ PlainOkMeans

\* The token: a launch that landed has made it, if no landed bundle fails.
Token ==
    /\ caller # "launch" => curve # "none"
    /\ fate = "landed" => curve # "none"
    /\ ~failed

IInv == SInv /\ Token /\ OkMeans

\* Both invariants hold when submit_bundle is called.
LEMMA InitIInv == Init => SInv /\ IInv
<1>. SUFFICES ASSUME Init PROVE SInv /\ IInv
  OBVIOUS
<1>1. TypeOK
  <2>1. failed \in BOOLEAN /\ pending \in BOOLEAN
    BY Zenon DEF Init
  <2>2. curve \in {"none", "live", "complete"}
    BY DEF Init
  <2>3. /\ attempt \in Nat \ {0}
        /\ pc = "poll" => attempt <= MaxRetries
        /\ pc = "final" => attempt <= FinalRetries
    BY DEF Init
  <2>. QED BY <2>1, <2>2, <2>3, Zenon DEF Init, TypeOK
<1>2. ~failed
  BY Zenon DEF Init
<1>3. Stand /\ Token /\ OkMeans /\ PlainOkMeans
  BY <1>2 DEF Init, Stand, Token, OkMeans, PlainOkMeans, HasClient
<1>. QED BY <1>1, <1>3 DEF SInv, IInv

\* What the engine and the chain do keeps them, the second one as long as the
\* engine lands no failed bundle.
LEMMA EngineSInv == ASSUME SInv, Land \/ Drop \/ CurveMoves PROVE SInv'
<1>1. CASE Land
  BY <1>1 DEF SInv, TypeOK, Stand, PlainOkMeans, HasClient, Land
<1>2. CASE Drop
  BY <1>2 DEF SInv, TypeOK, Stand, PlainOkMeans, HasClient, Drop
<1>3. CASE CurveMoves
  BY <1>3 DEF SInv, TypeOK, Stand, PlainOkMeans, HasClient, CurveMoves
<1>. QED BY <1>1, <1>2, <1>3

LEMMA EngineToken ==
    ASSUME MayLandFailed = FALSE, IInv, Land \/ Drop \/ CurveMoves
    PROVE  Token' /\ OkMeans'
<1>. USE DEF IInv, SInv, TypeOK, Stand, Token, OkMeans, HasClient
<1>1. CASE Land
  BY <1>1 DEF Land
<1>2. CASE Drop
  BY <1>2 DEF Drop
<1>3. CASE CurveMoves
  BY <1>3 DEF CurveMoves
<1>. QED BY <1>1, <1>2, <1>3

\* So does every step of the code.
LEMMA CodeSInv == ASSUME SInv, Code PROVE SInv'
<1>. USE DEF SInv, TypeOK, Stand, PlainOkMeans, HasClient, engineVars, Fail, Return
<1>1. CASE Send
  BY <1>1 DEF Send
<1>2. CASE PollFails /\ UNCHANGED engineVars
  BY <1>2 DEF PollFails
<1>3. ASSUME NEW status \in Statuses, Poll(status), UNCHANGED engineVars PROVE SInv'
  <2>1. CASE status = "Landed"
    BY <1>3, <2>1 DEF Poll, Statuses
  <2>2. CASE status = "Invalid" /\ pending
    BY <1>3, <2>2 DEF Poll, GiveUpInvalid
  <2>3. CASE status # "Landed" /\ ~(status = "Invalid" /\ pending)
    BY <1>3, <2>3 DEF Poll, PollAgain
  <2>. QED BY <2>1, <2>2, <2>3
<1>4. CASE FinalFails /\ UNCHANGED engineVars
  BY <1>4 DEF FinalFails
<1>5. ASSUME NEW status, NEW err, FinalPoll(status, err), UNCHANGED engineVars PROVE SInv'
  BY <1>5 DEF FinalPoll, PollAgain
<1>6. CASE Lookup /\ UNCHANGED engineVars
  BY <1>6 DEF Lookup, Found
<1>. QED BY <1>1, <1>2, <1>3, <1>4, <1>5, <1>6, Code DEF Code

LEMMA CodeToken == ASSUME IInv, Code PROVE Token' /\ OkMeans'
<1>. USE DEF IInv, SInv, TypeOK, Stand, Token, OkMeans, HasClient, engineVars, Fail, Return
<1>1. CASE Send
  BY <1>1 DEF Send
<1>2. CASE (PollFails \/ FinalFails) /\ UNCHANGED engineVars
  BY <1>2 DEF PollFails, FinalFails
<1>3. ASSUME NEW status \in Statuses, Poll(status), UNCHANGED engineVars PROVE Token' /\ OkMeans'
  BY <1>3 DEF Poll, Statuses, GiveUpInvalid, PollAgain
<1>4. ASSUME NEW status, NEW err, FinalPoll(status, err), UNCHANGED engineVars
      PROVE  Token' /\ OkMeans'
  BY <1>4 DEF FinalPoll, PollAgain
<1>5. CASE Lookup /\ UNCHANGED engineVars
  BY <1>5 DEF Lookup, Found
<1>. QED BY <1>1, <1>2, <1>3, <1>4, <1>5 DEF Code

\* The first invariant holds in every state of a call.
THEOREM CallInvariant == Spec => []SInv
<1>1. SInv /\ [Next]_vars => SInv'
  <2>1. CASE UNCHANGED vars
    BY <2>1 DEF vars, SInv, TypeOK, Stand, PlainOkMeans, HasClient
  <2>. QED BY <2>1, EngineSInv, CodeSInv DEF Next
<1>. QED BY InitIInv, <1>1, PTL DEF Spec

\* The second one too, as long as the engine lands no failed bundle.
THEOREM Invariant == ASSUME MayLandFailed = FALSE PROVE Spec => []IInv
<1>1. IInv /\ [Next]_vars => IInv'
  <2>1. CASE UNCHANGED vars
    BY <2>1 DEF vars, IInv, SInv, TypeOK, Stand, PlainOkMeans, Token, OkMeans, HasClient
  <2>2. CASE Next
    BY <2>2, EngineSInv, EngineToken, CodeSInv, CodeToken DEF Next, IInv
  <2>. QED BY <2>1, <2>2
<1>. QED BY InitIInv, <1>1, PTL DEF Spec

\* Every variable keeps to its set of values, whatever the engine lands.
THEOREM TypeCorrect == Spec => []TypeOK
<1>1. SInv => TypeOK BY DEF SInv
<1>. QED BY CallInvariant, <1>1, PTL

\* An Ok without a client means that the bundle landed, also when landed
\* bundles may fail: what sell_all_leftover_tokens relies on.
THEOREM PlainOkCorrect == Spec => []PlainOkMeans
<1>1. SInv => PlainOkMeans BY DEF SInv
<1>. QED BY CallInvariant, <1>1, PTL

\* An Ok without a client means the bundle landed, with one that the token
\* exists, as long as the engine lands no failed bundle.
THEOREM OkMeansCorrect == ASSUME MayLandFailed = FALSE PROVE Spec => []OkMeans
<1>1. IInv => OkMeans BY DEF IInv
<1>. QED BY Invariant, <1>1, PTL
-----------------------------------------------------------------------------
(* The contract. *)

\* What the engine and the chain do is a step of the contract.
LEMMA EngineRefines ==
    ASSUME MayLandFailed = FALSE, IInv, Land \/ Drop \/ CurveMoves
    PROVE  Contract!Decide \/ Contract!CurveMoves
<1>1. CASE Land
  BY <1>1 DEF Land, Contract!Decide
<1>2. CASE Drop
  BY <1>2 DEF Drop, Contract!Decide
<1>3. CASE CurveMoves
  BY <1>3 DEF CurveMoves, Contract!CurveMoves
<1>. QED BY <1>1, <1>2, <1>3

\* A step of the code is the sending, an answer, or hidden from the caller.
LEMMA CodeRefines ==
    ASSUME IInv, Code
    PROVE  Contract!Send \/ Contract!Answer \/ UNCHANGED Contract!subVars
<1>. USE DEF IInv, SInv, TypeOK, Stand, Token, Fail, Return, HasClient, Contract!HasClient,
             Contract!Answer, Contract!AnswerErr, Contract!AnswerOk, Contract!OkEarned,
             Contract!subVars, engineVars
<1>1. CASE Send
  BY <1>1 DEF Send, Contract!Send
<1>2. CASE (PollFails \/ FinalFails) /\ UNCHANGED engineVars
  BY <1>2 DEF PollFails, FinalFails
<1>3. ASSUME NEW status \in Statuses, Poll(status), UNCHANGED engineVars
      PROVE  Contract!Answer \/ UNCHANGED Contract!subVars
  BY <1>3 DEF Poll, PollAgain, GiveUpInvalid
<1>4. ASSUME NEW status, NEW err, FinalPoll(status, err), UNCHANGED engineVars
      PROVE  Contract!Answer \/ UNCHANGED Contract!subVars
  BY <1>4 DEF FinalPoll, PollAgain
<1>5. CASE Lookup /\ UNCHANGED engineVars
  BY <1>5 DEF Lookup, Found, Contract!Panic
<1>. QED BY <1>1, <1>2, <1>3, <1>4, <1>5 DEF Code

\* Every behaviour of submit_bundle is one of the contract (its safety part:
\* TLC checks the fairness).
THEOREM RefinesSubmission ==
    ASSUME MayLandFailed = FALSE
    PROVE  Spec => Contract!SubInit /\ [][Contract!SubNext]_(Contract!subVars)
<1>1. Init => Contract!SubInit
  BY DEF Init, Contract!SubInit
<1>2. IInv /\ [Next]_vars => [Contract!SubNext]_(Contract!subVars)
  <2>1. CASE UNCHANGED vars
    BY <2>1 DEF vars, Contract!subVars
  <2>. QED BY <2>1, EngineRefines, CodeRefines DEF Next, Contract!SubNext
<1>. QED BY Invariant, <1>1, <1>2, PTL DEF Spec
==============================================================================
