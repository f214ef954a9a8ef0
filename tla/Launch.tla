-------------------------------- MODULE Launch --------------------------------
(***************************************************************************)
(* The launch of one token: process_bundle of src/jito/bundle.rs from the  *)
(* packing of the buyers (BundlePacking) to its return, the delayed task   *)
(* it spawns, the insertion into the lookup table map by the task of       *)
(* handle_post_bundle, and the chain.  The two tasks share nothing but the *)
(* chain; both call submit_bundle, of which they know what Submission      *)
(* promises.                                                               *)
(***************************************************************************)
EXTENDS BundlePacking

VARIABLES
    curve,        \* the token's bonding curve: "none", "live" or "complete"
    bought,       \* buyers whose buy landed; their SOL is spent
    inflight,     \* bundles at the engine: 0 the first, c late bundle c
    mainPc, mainVerdict,   \* process_bundle and its call of submit_bundle
    latePc, lateVerdict,   \* the delayed task and its call
    chunk,        \* the late bundle the delayed task is at
    sent,         \* late bundles submitted so far
    expired,      \* 120 seconds have passed since the task was spawned
    announced,    \* the callback has reached the orchestrator
    registered    \* the lookup table is in the map of main.rs:47

chainVars == <<curve, bought, inflight>>
mainVars == <<mainPc, mainVerdict, registered>>
lateVars == <<latePc, lateVerdict, chunk, sent>>
vars == <<packVars, chainVars, mainVars, lateVars, expired, announced>>

Init ==
    /\ PackInit
    /\ curve = "none" /\ bought = {} /\ inflight = {}
    /\ mainPc = "pack" /\ mainVerdict = "none"
    /\ latePc = "off" /\ lateVerdict = "none"
    /\ chunk = 0 /\ sent = {}
    /\ expired = FALSE /\ announced = FALSE /\ registered = FALSE

\* The two calls of submit_bundle, each through its contract.
MainCall == INSTANCE Submission WITH caller <- "launch", verdict <- mainVerdict,
                fate <- IF mainPc = "wait" THEN "inflight" ELSE "unsent"
LateCall == INSTANCE Submission WITH caller <- "late", verdict <- lateVerdict,
                fate <- IF latePc = "wait" THEN "inflight" ELSE "unsent"

-----------------------------------------------------------------------------
(* The chain and the engine. *)

Bundle(b) == IF b = 0 THEN {first[k] : k \in DOMAIN first} ELSE LateChunk(b)

Buyers(b) == UNION {tx.buyers : tx \in Bundle(b)}

\* A bundle executes as a whole or not at all: it needs a tip, a token that
\* is (not) there yet, and every wallet's SOL.  A buy spends the balance less
\* 0.01 SOL, so no wallet can pay twice.
Executes(b) ==
    /\ \E tx \in Bundle(b) : tx.tip
    /\ curve = IF b = 0 THEN "none" ELSE "live"
    /\ Buyers(b) \cap bought = {}

\* A copy sent with another blockhash may still be in flight afterwards.
Land(b) ==
    /\ b \in inflight
    /\ Executes(b)
    /\ curve' = "live"
    /\ bought' = bought \cup Buyers(b)
    /\ inflight' \in {inflight, inflight \ {b}}
    /\ UNCHANGED <<packVars, mainVars, lateVars, expired, announced>>

Lose(b) ==
    /\ b \in inflight
    /\ inflight' = inflight \ {b}
    /\ UNCHANGED <<packVars, curve, bought, mainVars, lateVars, expired, announced>>

Complete ==
    /\ curve = "live"
    /\ curve' = "complete"
    /\ UNCHANGED <<packVars, bought, inflight, mainVars, lateVars, expired, announced>>

\* Sending may fail before the bundle reaches the engine.
Submit(b) == inflight' \in {inflight, inflight \cup {b}}

\* get_token_account_balance of the developer gives a positive amount, on a
\* completed curve too.  SeesAnything skips the test, SeesLive reads the curve.
SeesAnything == TRUE
SeesLive == curve = "live"
DevHolds == curve # "none"

-----------------------------------------------------------------------------
(* process_bundle. *)

Pack ==
    /\ mainPc = "pack"
    /\ PackNext
    /\ UNCHANGED <<chainVars, mainVars, lateVars, expired, announced>>

\* The delayed task is spawned when there is something for it, and the loop
\* of the first bundle starts.
Spawn ==
    /\ mainPc = "pack" /\ pc = "packed"
    /\ mainPc' = "submit"
    /\ latePc' = IF HasDelayedBundle THEN "top" ELSE "off"
    /\ UNCHANGED <<packVars, chainVars, mainVerdict, registered,
                   lateVerdict, chunk, sent, expired, announced>>

\* get_txs with a new blockhash, and the call.
MainSubmit ==
    /\ mainPc = "submit"
    /\ mainPc' = "wait"
    /\ Submit(0)
    /\ UNCHANGED <<packVars, curve, bought, mainVerdict, registered,
                   lateVars, expired, announced>>

\* A balance or a blockhash that cannot be read is unwrapped.
MainPanic ==
    /\ mainPc \in {"pack", "submit"}
    /\ mainPc' = "panicked"
    /\ UNCHANGED <<packVars, chainVars, mainVerdict, registered,
                   lateVars, expired, announced>>

MainCallEnds ==
    /\ mainPc = "wait"
    /\ MainCall!AnswerOk \/ MainCall!AnswerErr \/ MainCall!Panic
    /\ UNCHANGED <<packVars, chainVars, mainPc, registered, lateVars,
                   expired, announced>>

\* The verdict is ignored, unless the call panicked; the developer's balance
\* decides.  The balance may be unreadable.
MainCheck ==
    /\ mainPc = "wait" /\ mainVerdict # "none"
    /\ mainVerdict' = "none"
    /\ \/ mainVerdict = "panic" /\ mainPc' = "panicked"
       \/ mainVerdict # "panic" /\ DevHolds /\ mainPc' = "return"
       \/ mainVerdict # "panic" /\ mainPc' = "submit"
    /\ UNCHANGED <<packVars, chainVars, registered, lateVars, expired, announced>>

\* The callback is a task of its own, spawned before process_bundle returns.
Announce ==
    /\ mainPc \in {"return", "done"} /\ ~announced
    /\ announced' = TRUE
    /\ UNCHANGED <<packVars, chainVars, mainVars, lateVars, expired>>

\* handle_post_bundle inserts the table once process_bundle has returned.
Register ==
    /\ mainPc = "return"
    /\ mainPc' = "done" /\ registered' = TRUE
    /\ UNCHANGED <<packVars, chainVars, mainVerdict, lateVars, expired, announced>>

-----------------------------------------------------------------------------
(* The delayed task. *)

\* The two minutes start with the task.
Expire ==
    /\ latePc # "off" /\ ~expired
    /\ expired' = TRUE
    /\ UNCHANGED <<packVars, chainVars, mainVars, lateVars, announced>>

\* The top of the loop.
CheckTimeout == latePc' = IF expired THEN "done" ELSE "read"

LateTop ==
    /\ latePc = "top"
    /\ CheckTimeout
    /\ UNCHANGED <<packVars, chainVars, mainVars, lateVerdict, chunk, sent,
                   expired, announced>>

\* No balance, or an unreadable one, starts the loop again; get_txs panics when
\* it has no blockhash.
LateRead ==
    /\ latePc = "read"
    /\ \/ DevHolds /\ latePc' = "send" /\ chunk' = 1
       \/ DevHolds /\ latePc' = "panicked" /\ UNCHANGED chunk
       \/ latePc' = "top" /\ UNCHANGED chunk
    /\ UNCHANGED <<packVars, chainVars, mainVars, lateVerdict, sent,
                   expired, announced>>

LateSubmit ==
    /\ latePc = "send"
    /\ latePc' = "wait"
    /\ Submit(chunk)
    /\ sent' = sent \cup {chunk}
    /\ UNCHANGED <<packVars, curve, bought, mainVars, lateVerdict, chunk,
                   expired, announced>>

LateCallEnds ==
    /\ latePc = "wait"
    /\ LateCall!AnswerOk \/ LateCall!AnswerErr \/ LateCall!Panic
    /\ UNCHANGED <<packVars, chainVars, mainVars, latePc, chunk, sent,
                   expired, announced>>

\* The chunks still to send.  OneTooMany runs past the last.
OneTooMany == TRUE
MoreChunks == chunk + 1 \in LateChunks

\* An error is unwrapped and ends the task.  After the last chunk the loop
\* starts again: nothing records that the chunks were sent.
LateNext ==
    /\ latePc = "wait" /\ lateVerdict # "none"
    /\ lateVerdict' = "none"
    /\ \/ lateVerdict # "ok" /\ latePc' = "panicked" /\ UNCHANGED chunk
       \/ lateVerdict = "ok" /\ MoreChunks /\ latePc' = "send" /\ chunk' = chunk + 1
       \/ lateVerdict = "ok" /\ ~MoreChunks /\ latePc' = "top" /\ chunk' = 0
    /\ UNCHANGED <<packVars, chainVars, mainVars, sent, expired, announced>>

-----------------------------------------------------------------------------

MainStep == Pack \/ Spawn \/ MainSubmit \/ MainCallEnds \/ MainCheck \/ Register

LateStep == LateTop \/ LateRead \/ LateSubmit \/ LateCallEnds \/ LateNext

Next ==
    \/ MainStep \/ MainPanic \/ LateStep \/ Expire \/ Announce \/ Complete
    \/ \E b \in {0} \cup LateChunks : Land(b) \/ Lose(b)

\* The runtime runs both tasks and the clock advances.
\* Of a call repeated for ever not every one fails: the first bundle reaches
\* the engine, it lands, and the balance can be read.
Fairness ==
    /\ WF_vars(MainStep) /\ WF_vars(LateStep) /\ WF_vars(Expire)
    /\ SF_vars(MainSubmit /\ 0 \in inflight')
    /\ SF_vars(Land(0))
    /\ SF_vars(MainCheck /\ mainPc' # "submit")

Spec == Init /\ [][Next]_vars /\ Fairness

-----------------------------------------------------------------------------
(* Properties. *)

\* Every variable keeps to its set of values.
TypeOK ==
    /\ PackTypeOK
    /\ curve \in {"none", "live", "complete"}
    /\ bought \subseteq 0..n-1
    /\ inflight \subseteq {0} \cup LateChunks
    /\ mainPc \in {"pack", "submit", "wait", "return", "done", "panicked"}
    /\ latePc \in {"off", "top", "read", "send", "wait", "done", "panicked"}
    /\ {mainVerdict, lateVerdict} \subseteq {"none", "ok", "err", "panic"}
    /\ chunk \in {0} \cup LateChunks
    /\ sent \subseteq LateChunks
    /\ {expired, announced, registered} \subseteq BOOLEAN

\* No late bundle is sent before the token exists: its buys would fail, and
\* the two tasks of bundle.rs are ordered by the developer's balance alone.
LateAfterLaunch == sent # {} => curve # "none"

\* The orchestrator is told of a token, and its table registered, only when
\* the token exists and every buyer of the first bundle has bought
\* (bundle.rs:217-246, handlers.rs:160-165).
AnnouncedMeansBought ==
    announced \/ registered => curve # "none" /\ BuyersOf(first) \subseteq bought

\* process_bundle comes to an end, however often bundles are lost and calls
\* fail, and whatever other traders have done to the curve meanwhile.
LaunchEnds == <>(registered \/ mainPc = "panicked")

\* The delayed task does not outlive its two minutes for ever.
LateTaskEnds == <>[](latePc \in {"off", "done", "panicked"})

\* Once the delayed task has seen the launch it submits every late bundle,
\* unless a call fails and the unwrap at bundle.rs:187 ends it.
EveryLateChunkSent == latePc = "send" ~> sent = LateChunks \/ latePc = "panicked"

\* Both tasks come to an end, the delayed one only after its work
\* (bundle.rs:157-246).
TasksComplete == LaunchEnds /\ LateTaskEnds /\ EveryLateChunkSent
==============================================================================
