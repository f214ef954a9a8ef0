------------------------------ MODULE Submission ------------------------------
(***************************************************************************)
(* What a caller of submit_bundle may rely on, src/jito/jito.rs: one       *)
(* bundle, its fate at the block engine, the token's bonding curve and the *)
(* verdict the call returns.  The polling is hidden: JitoSubmit implements *)
(* this specification, and Launch uses submit_bundle through AnswerOk and  *)
(* AnswerErr only.                                                         *)
(***************************************************************************)
VARIABLES caller,   \* "launch": the bundle creates the token; "late": it buys
                    \* after the launch; "plain": no pumpfun client is passed
          fate,     \* the bundle: "unsent", "inflight", "landed" or "dropped"
          curve,    \* the bonding curve account: "none", "live" or "complete"
          verdict   \* "none" until the call ends: "ok", "err" or "panic"

subVars == <<caller, fate, curve, verdict>>

HasClient == caller # "plain"

\* What an Ok promises.  With a client it is about the token, not the bundle.
OkEarned == IF HasClient THEN curve # "none" ELSE fate = "landed"

SubInit ==
    /\ caller \in {"launch", "late", "plain"}
    /\ fate = "unsent"
    /\ curve = IF caller = "launch" THEN "none" ELSE "live"
    /\ verdict = "none"

\* The bundle reaches the engine, or is lost or refused on the way.
Send ==
    /\ fate = "unsent" /\ verdict = "none"
    /\ fate' \in {"inflight", "dropped"}
    /\ \/ UNCHANGED verdict
       \/ ~HasClient /\ verdict' = "err"
    /\ UNCHANGED <<caller, curve>>

\* The engine decides, whether the call is still running or not.
Decide ==
    /\ fate = "inflight"
    /\ \/ fate' = "dropped" /\ UNCHANGED curve
       \/ /\ caller = "launch" => curve = "none"
          /\ fate' = "landed"
          /\ curve' = IF caller = "launch" THEN "live" ELSE curve
    /\ UNCHANGED <<caller, verdict>>

\* An earlier launch bundle creates the token; trading completes its curve.
CurveMoves ==
    /\ \/ curve = "none" /\ curve' = "live"
       \/ curve = "live" /\ curve' = "complete"
    /\ UNCHANGED <<caller, fate, verdict>>

AnswerOk  == verdict = "none" /\ fate # "unsent" /\ OkEarned /\ verdict' = "ok"
AnswerErr == verdict = "none" /\ fate # "unsent" /\ verdict' = "err"
Panic     == verdict = "none" /\ fate # "unsent" /\ HasClient
                /\ curve = "complete" /\ verdict' = "panic"

Answer == (AnswerOk \/ AnswerErr \/ Panic) /\ UNCHANGED <<caller, fate, curve>>

SubNext == Send \/ Decide \/ CurveMoves \/ Answer

SubSpec == SubInit /\ [][SubNext]_subVars /\ WF_subVars(Send \/ Answer)
==============================================================================
