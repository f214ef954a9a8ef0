----------------------------- MODULE MCSellAll -----------------------------
(* Three wallets for TLC, and sizes that make two to four transactions:    *)
(* with each a tip or a tax comes to stand somewhere else.                 *)
EXTENDS SellAll

CONSTANTS w1, w2, w3

MCKeys == <<w1, w2, w3>>
MCSizes ==
    {[sell |-> 3, tax |-> 1], [sell |-> 4, tax |-> 1], [sell |-> 4, tax |-> 3],
     [sell |-> 5, tax |-> 2], [sell |-> 5, tax |-> 3], [sell |-> 7, tax |-> 1]}
=============================================================================
