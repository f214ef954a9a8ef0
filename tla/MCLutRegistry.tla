--------------------------- MODULE MCLutRegistry ---------------------------
(* One launch, two sellers and one client of /lut, over two mints. *)
EXTENDS LutRegistry

CONSTANTS m1, m2, t1, t2, j1

MCMintOf == (j1 :> m1)
MCTableOf == (j1 :> t1)

Rec(m, t, ok) == [mint |-> m, lut |-> t, parses |-> ok]

\* No record at all, a table moved, a list that is refused half way, and one
\* with a mint twice.
MCLists == { <<>>,
             <<Rec(m1, t2, TRUE)>>,
             <<Rec(m2, t1, TRUE), Rec(m1, t2, FALSE), Rec(m1, t1, TRUE)>>,
             <<Rec(m2, t1, TRUE), Rec(m2, t2, TRUE)>> }
==============================================================================
