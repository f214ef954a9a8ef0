----------------------------- MODULE SellPacking -----------------------------
(***************************************************************************)
(* How sell_all_txs (src/solana/helpers.rs) packs the sell and tax         *)
(* instructions of the wallets into transactions and tips into every fifth *)
(* and the last, so that each bundle of five that sell_all_leftover_tokens *)
(* cuts from the list pays one.  An instruction is its position and its    *)
(* weight; the size of a transaction is the sum of weights.  SellAll runs  *)
(* these steps over the instructions it has built.                         *)
(***************************************************************************)
EXTENDS Integers, Sequences, FiniteSets, SequencesExt

CONSTANTS Cap,        \* bytes of a transaction (1232)
          FeeSize,    \* a transaction with the priority fee alone
          TipSize,    \* weight of the tip
          Weights,    \* weights of the other instructions
          PerBundle,  \* transactions of a bundle (5)
          MaxIxs      \* the instructions there can be

VARIABLES pc,     \* "loop", then "done"
          next,   \* position of the next instruction
          cur,    \* current_tx_ixs without the priority fee
          txs,    \* transactions
          tips    \* tips_count

vars == <<pc, next, cur, txs, tips>>

Ix(position, weight) == [at |-> position, weight |-> weight]
TipIx == Ix(0, TipSize)

\* The size of a transaction of these instructions.
Size(ixs) == FeeSize + SumFunction([l \in DOMAIN ixs |-> ixs[l].weight])

HasTip(ixs) == \E k \in DOMAIN ixs : ixs[k] = TipIx

Init == pc = "loop" /\ next = 1 /\ cur = <<>> /\ txs = <<>> /\ tips = 0

\* The transaction that ends a bundle.  Early is one too soon.
Early == Len(txs) % PerBundle = PerBundle - 2
EndsBundle == Len(txs) % PerBundle = PerBundle - 1

\* The instructions of the transaction after one that was pushed.  The one
\* taken out for the tip comes behind the one that did not fit.  Dropped
\* loses it.
Dropped(ix, taken) == <<ix>>
Carried(ix, taken) == <<ix>> \o taken

\* The instruction still fits.
Fits(ix) == Size(Append(cur, ix)) < Cap

Pack(ix) ==
    /\ Fits(ix)
    /\ cur' = Append(cur, ix)
    /\ UNCHANGED <<txs, tips>>

\* It does not: the transaction is pushed.  If it ends a bundle its last
\* instruction makes room for a tip, unless the size was the limit itself:
\* the test at helpers.rs:147 looks at the transaction without the tip.
Push(ix) ==
    LET tipped == EndsBundle /\ Size(Append(cur, ix)) > Cap
    IN
    /\ ~Fits(ix)
    /\ \/ /\ tipped
          /\ txs' = Append(txs, Append(Front(cur), TipIx))
          /\ cur' = Carried(ix, <<Last(cur)>>)
          /\ tips' = tips + 1
       \/ /\ ~tipped
          /\ txs' = Append(txs, cur)
          /\ cur' = Carried(ix, <<>>)
          /\ UNCHANGED tips

\* After the loop: the last transaction with a tip, or the tip in a
\* transaction of its own.  That one is signed once: when the last
\* transaction begins a bundle, a clone of it, with the same signature, ends
\* the bundle before (helpers.rs:212, 215).
TipTx == <<TipIx>>
TipApart == IF EndsBundle THEN <<TipTx, cur, TipTx>> ELSE <<cur, TipTx>>

TipCount(list) == Len(list) - 1

Finish ==
    /\ pc = "loop"
    /\ pc' = "done"
    /\ IF Size(Append(cur, TipIx)) > Cap
       THEN txs' = txs \o TipApart /\ tips' = tips + TipCount(TipApart)
       ELSE txs' = Append(txs, Append(cur, TipIx)) /\ tips' = tips + 1
    /\ UNCHANGED <<next, cur>>

-----------------------------------------------------------------------------
(* Properties. *)

\* Every variable keeps to its set of values, and tips_count is what
\* helpers.rs:224 prints: the number of tips in the transactions.
TypeOK ==
    /\ pc \in {"loop", "done"}
    /\ next \in 1..MaxIxs+1
    /\ cur \in Seq([at : 1..MaxIxs, weight : Weights])
    /\ txs \in Seq(Seq([at : 0..MaxIxs, weight : Weights \cup {TipSize}]))
    /\ tips = Cardinality({k \in DOMAIN txs : HasTip(txs[k])})

\* Every instruction is in exactly one place, whatever was taken out for a
\* tip and carried over: nothing is sold twice, nothing is left unsold
\* (helpers.rs:149-152).
Packed == IF pc = "done" THEN txs ELSE Append(txs, cur)

Places(i) ==
    UNION {{<<k, l>> : l \in {m \in DOMAIN Packed[k] : Packed[k][m].at = i}} : k \in DOMAIN Packed}

NothingLost == \A i \in 1..next-1 : Cardinality(Places(i)) = 1

Bundles == 0..((Len(txs) - 1) \div PerBundle)
InBundle(b) == {k \in DOMAIN txs : (k - 1) \div PerBundle = b}

\* Each bundle cut from the list pays a tip, but for one whose last
\* transaction came to exactly the limit with the instruction that was next
\* (helpers.rs:147).
EveryBundleTipped ==
    pc = "done" => \A b \in Bundles :
        \/ \E k \in InBundle(b) : HasTip(txs[k])
        \/ LET k == (b + 1) * PerBundle
           IN  k + 1 \in DOMAIN txs /\ Size(txs[k]) + Head(txs[k + 1]).weight = Cap

\* A transaction is within the limit, unless the instruction taken out of it
\* for the tip was lighter than the tip.
Fit ==
    \A k \in DOMAIN txs :
        \/ Size(txs[k]) <= Cap
        \/ k % PerBundle = 0 /\ HasTip(txs[k])
              /\ \E w \in Weights : w < TipSize /\ Size(txs[k]) - TipSize + w < Cap

\* No transaction is in the list twice, but for the cloned tip: the last
\* transaction of all and the last of the bundle before it.  The chain takes
\* a signature once, so one of these two bundles keeps the other out.
TwiceOnlyTip ==
    \A j, m \in DOMAIN txs : j < m /\ txs[j] = txs[m] =>
        txs[m] = TipTx /\ m = Len(txs) /\ j = m - 2 /\ j % PerBundle = 0
==============================================================================
