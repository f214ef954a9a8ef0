---------------------------- MODULE CollectBundle ----------------------------
(***************************************************************************)
(* recursive_pay (src/solana/recursive_pay.rs) as a whole: Collect with    *)
(* the packing of its transfers (PayPacking) between the checks and the    *)
(* bundle, while others use the wallets.                                   *)
(***************************************************************************)
EXTENDS Collect, Sequences, Functions

VARIABLES packing, toPack, cur, txs    \* pc, left, cur and txs of PayPacking

packVars == <<packing, toPack, cur, txs>>
bundleVars == <<vars, packVars>>

Packing == INSTANCE PayPacking
               WITH pc <- packing, n <- Cardinality(DOMAIN ixs), left <- toPack

BundleInit ==
    /\ Init
    /\ packing = "idle" /\ toPack = 0
    /\ cur = Packing!Empty /\ txs = <<>>

\* Each transfer and the tip are packed once the checks are passed.
StartPacking ==
    /\ EndRead
    /\ IF pc' = "send"
       THEN packing' = "pack" /\ toPack' = Cardinality(DOMAIN ixs) + 1
       ELSE UNCHANGED <<packing, toPack>>
    /\ UNCHANGED <<cur, txs>>

PackNext ==
    /\ pc = "send"
    /\ UNCHANGED vars
    /\ Packing!PackIx \/ Packing!Close

PackFails == NoBlockhash /\ Packing!NoBlockhash

SendPacked == packing = "packed" /\ SendBundle /\ UNCHANGED packVars

BundleCode ==
    \/ OpenDir /\ UNCHANGED packVars
    \/ \E w \in Wallets : (SkipWallet(w) \/ ReadWallet(w)) /\ UNCHANGED packVars
    \/ StartPacking \/ PackNext \/ PackFails \/ SendPacked
    \/ (PollOk \/ PollErr) /\ UNCHANGED packVars

BundleNext == BundleCode \/ ((Stop \/ Chain) /\ UNCHANGED packVars)

BundleSpec == BundleInit /\ [][BundleNext]_bundleVars /\ WF_bundleVars(BundleCode)

-----------------------------------------------------------------------------

\* Whatever was read, each transfer is in one transaction that the chain
\* takes, the tip is at the end of the last one, the bundle is refused exactly
\* when it is longer than the engine allows, and the transfers add up to what
\* the checks were made on (recursive_pay.rs:125-247).
BundleRight ==
    /\ Packing!PackedRight
    /\ packing = "packed" => (Refused <=> Len(txs) > MaxTxs)
    /\ available = SumFunction(ixs)
==============================================================================
