------------------------------ MODULE Payment ------------------------------
(***************************************************************************)
(* What a call of recursive_pay promises to the handlers that make it: it  *)
(* moves what was asked for, all of it or nothing, at most once, and       *)
(* answers true only after it did.  A false answer promises nothing: the   *)
(* money may have moved, or move later.                                    *)
(***************************************************************************)
EXTENDS Integers

CONSTANT All   \* asked for: whatever the wallets hold

VARIABLES asked,    \* lamports asked for, or All
          paid,     \* the transfers were made
          moved,    \* the lamports they moved
          answer

payVars == <<asked, paid, moved, answer>>

PayInit ==
    /\ asked \in Nat \cup {All}
    /\ paid = FALSE
    /\ moved = 0
    /\ answer = "none"

Move ==
    /\ ~paid /\ paid' = TRUE
    /\ moved' \in Nat
    /\ asked # All => moved' = asked
    /\ UNCHANGED <<asked, answer>>

Answer(a) ==
    /\ answer = "none" /\ answer' = a
    /\ a = "true" => paid
    /\ UNCHANGED <<asked, paid, moved>>

\* "gone": a panic of the handler, or a stop of the server.
PayNext == Move \/ \E a \in {"true", "false", "gone"} : Answer(a)

PaySpec == PayInit /\ [][PayNext]_payVars /\ WF_payVars(Answer("true") \/ Answer("false"))
=============================================================================
