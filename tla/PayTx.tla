------------------------------- MODULE PayTx -------------------------------
(***************************************************************************)
(* The size of the transactions recursive_pay builds (src/solana/          *)
(* recursive_pay.rs), which decides how many of them a collection needs.   *)
(* A transaction has any number of transfers out of wallets, each with a   *)
(* signature of its own, and may end in the admin's tip.                   *)
(***************************************************************************)
EXTENDS Integers

CONSTANTS TxLimit,   \* bytes of a transaction (1232)
          MaxTxs     \* transactions the engine takes in a bundle (5)

\* Bytes of a legacy transaction: the header with the admin's signature, the
\* admin and the system program; a recipient who is not the admin; a transfer
\* with its wallet and signature; the tip with its account.
Base == 166
Recipient == 32
Transfer == 113
TipSize == 49

Size(k, tip, toUser) ==
    Base + k * Transfer + (IF toUser THEN Recipient ELSE 0) + (IF tip THEN TipSize ELSE 0)

ASSUME PayTxAssumption ==
    /\ TxLimit \in Nat /\ MaxTxs \in Nat \ {0}
    /\ Size(1, FALSE, TRUE) <= TxLimit

\* Transfers that fit one transaction, and the transactions that n of them
\* and the tip make: the tip needs another one only behind a full one.
PerTx(toUser) == (TxLimit - Size(0, FALSE, toUser)) \div Transfer
TipFitsFull(toUser) == Size(PerTx(toUser), TRUE, toUser) <= TxLimit
TxsNeeded(n, toUser) ==
    LET full == n > 0 /\ n % PerTx(toUser) = 0 /\ TipFitsFull(toUser)
    IN  (n \div PerTx(toUser)) + (IF full THEN 0 ELSE 1)
=============================================================================
