----------------------------- MODULE PayPacking -----------------------------
(***************************************************************************)
(* The packing of a collection into transactions, the loop over ixs of     *)
(* recursive_pay (src/solana/recursive_pay.rs): one transfer per wallet in *)
(* the order they were read, the tip as the last instruction, and a new    *)
(* transaction when the current one would exceed TxLimit.  CollectBundle   *)
(* starts it with n transfers and n + 1 instructions left.                 *)
(***************************************************************************)
EXTENDS PayTx, Sequences, Functions

VARIABLES n,        \* transfers to pack
          toUser,   \* the recipient is not the admin
          left,     \* instructions left: the transfers, then the tip
          cur,      \* current_tx_ixs
          txs,      \* the transactions signed so far
          pc

Empty == [transfers |-> 0, tip |-> FALSE]
TxSize(tx) == Size(tx.transfers, tx.tip, toUser)

\* The next instruction: the last one is the tip.
With(tx) == IF left = 1 THEN [tx EXCEPT !.tip = TRUE]
                        ELSE [tx EXCEPT !.transfers = @ + 1]

\* The comparison of line 202.  FitsBelow is the one sell_all_txs makes.
FitsBelow(tx) == TxSize(With(tx)) < TxLimit
Fits(tx) == TxSize(With(tx)) <= TxLimit

\* What the next transaction starts with.
Opened == With(Empty)

MoreIxs == left > 0

\* Each turn reads a blockhash before it looks at the instruction.
PackIx ==
    /\ pc = "pack" /\ MoreIxs
    /\ left' = left - 1
    /\ IF Fits(cur)
       THEN cur' = With(cur) /\ UNCHANGED txs
       ELSE txs' = Append(txs, cur) /\ cur' = Opened
    /\ UNCHANGED <<n, toUser, pc>>

\* The last transaction.
Close ==
    /\ pc = "pack" /\ ~MoreIxs
    /\ txs' = IF cur = Empty THEN txs ELSE Append(txs, cur)
    /\ pc' = "packed"
    /\ UNCHANGED <<n, toUser, left, cur>>

\* A blockhash could not be read: recursive_pay answers false.
NoBlockhash == pc = "pack" /\ pc' = "false" /\ UNCHANGED <<n, toUser, left, cur, txs>>

-----------------------------------------------------------------------------
(* Properties. *)

\* No transaction is larger than the chain takes, the open one included.
AllFit ==
    /\ TxSize(cur) <= TxLimit
    /\ \A k \in DOMAIN txs : TxSize(txs[k]) <= TxLimit

\* Transfers in the transactions signed so far.
InTxs == SumFunction([k \in DOMAIN txs |-> txs[k].transfers])

\* Every wallet's transfer is in exactly one transaction, and the tip in the
\* last one only.
AllOnceTipLast ==
    pc = "packed" =>
        /\ InTxs = n
        /\ \A k \in DOMAIN txs : txs[k].tip <=> k = Len(txs)

\* The number of transactions is the one Collect counts with, so that the
\* bundle fits the engine up to 45 wallets, or 44 when the money goes to the
\* user: a tip fits exactly (1232 bytes) behind nine transfers to the admin.
LengthAsCounted ==
    pc = "packed" =>
        /\ Len(txs) = TxsNeeded(n, toUser)
        /\ Len(txs) <= MaxTxs <=>
               n <= MaxTxs * PerTx(toUser) - (IF TipFitsFull(toUser) THEN 0 ELSE 1)

\* What a bundle of transfers is sent as (recursive_pay.rs:172-226).
PackedRight == AllFit /\ AllOnceTipLast /\ LengthAsCounted
=============================================================================
