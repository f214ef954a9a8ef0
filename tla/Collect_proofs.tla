--------------------------- MODULE Collect_proofs ---------------------------
(***************************************************************************)
(* recursive_pay for every set of wallets, every balance and every amount: *)
(* the recipient gets exactly what was asked for or nothing, a withdrawal  *)
(* is worth its tip, and the call keeps the promise of Payment.  With the  *)
(* packing in it (CollectBundle), no transaction is too large whatever the *)
(* limit, the tip is in the last one only, and the engine refuses exactly  *)
(* the bundles that come out too long.                                     *)
(***************************************************************************)
EXTENDS CollectBundle, SumTheorems, FiniteSetTheorems, TLAPS

\* What the checks behind the loop leave for the rest of the call: the bundle
\* is built after them only, and never changes again.  Every wallet read holds
\* back at most the rent when everything is asked for.
Passed ==
    /\ pc \in {"open", "read", "send"} => fate = "unsent"
    /\ fate = "landed" => moved = available
    /\ fate # "landed" => moved = 0
    /\ pc \in {"send", "poll"} \/ fate # "unsent" => ~Short /\ ~(toUser /\ Poor)
    /\ toUser => asked = All
    /\ asked = All => total <= available + Rent * count

CInv == TypeOK /\ Passed

\* The invariant holds when the call starts.
LEMMA InitCInv == Init => CInv
<1>. SUFFICES ASSUME Init PROVE CInv
  OBVIOUS
<1>1. sol \in [Wallets -> Nat] /\ toUser \in BOOLEAN /\ asked \in Asked \cup {All}
  BY CollectAssumption DEF Init
<1>2. IF asked = All THEN remaining = All
                     ELSE remaining \in Nat /\ remaining + available = asked
  <2>1. remaining = asked /\ available = 0
    BY DEF Init
  <2>2. asked # All => asked \in Nat
    BY <1>1, CollectAssumption
  <2>. QED BY <2>1, <2>2
<1>3. DOMAIN ixs = {}
  BY DEF Init, NoTransfers
<1>4. TypeOK
  BY <1>1, <1>2, <1>3, CollectAssumption DEF Init, TypeOK
<1>5. Rent * 0 = 0
  BY CollectAssumption
<1>6. toUser => asked = All
  BY DEF Init
<1>7. Passed
  BY <1>5, <1>6 DEF Init, Passed
<1>. QED BY <1>4, <1>7 DEF CInv

\* A wallet that holds b adds a natural number to what is available, and as
\* much is no longer missing.
LEMMA TakenFits ==
    ASSUME CInv, ~Covered, NEW b \in Nat, b >= Rent
    PROVE  /\ Taken(b) \in Nat
           /\ asked = All => Taken(b) = b - Rent /\ Minus(remaining, Taken(b)) = All
           /\ asked # All => /\ Minus(remaining, Taken(b)) \in Nat
                             /\ Minus(remaining, Taken(b)) + Taken(b) = remaining
<1>1. CASE asked = All
  BY <1>1, CollectAssumption DEF CInv, TypeOK, Taken, Minus
<1>2. CASE asked # All
  <2>1. remaining \in Nat /\ remaining # All
    BY <1>2, CollectAssumption DEF CInv, TypeOK
  <2>. QED BY <1>2, <2>1, CollectAssumption DEF Taken, Minus
<1>. QED BY <1>1, <1>2

\* Reading one wallet.
LEMMA ReadCInv ==
    ASSUME CInv, NEW w \in Wallets, ReadWallet(w)
    PROVE  CInv'
<1>. DEFINE b == sol[w]
<1>1. /\ pc = "read" /\ pc' = "read" /\ ~Covered /\ fate = "unsent" /\ b \in Nat
      /\ total' = total + b /\ count' = count + 1 /\ left' = left \ {w}
      /\ w \in left
      /\ UNCHANGED <<toUser, asked, sol, fate, moved, answer>>
  BY DEF ReadWallet, Visiting, CInv, TypeOK, Passed, callVars, chainVars
<1>2. CASE b < Rent
  <2>1. UNCHANGED <<remaining, available, ixs>>
    BY <1>2 DEF ReadWallet
  <2>2. TypeOK'
    BY <1>1, <2>1 DEF CInv, TypeOK
  <2>3. Rent * (count + 1) = Rent * count + Rent /\ Rent * count \in Nat
    BY CollectAssumption DEF CInv, TypeOK
  <2>4. Passed'
    BY <1>1, <1>2, <2>1, <2>3, CollectAssumption DEF CInv, TypeOK, Passed
  <2>. QED BY <2>2, <2>4 DEF CInv
<1>3. CASE ~(b < Rent)
  <2>1. /\ remaining' = Minus(remaining, Taken(b))
        /\ available' = available + Taken(b)
        /\ ixs' = WithTransfer(w, b, Taken(b))
    BY <1>3 DEF ReadWallet
  <2>2. b >= Rent
    BY <1>1, <1>3, CollectAssumption
  <2>3. /\ Taken(b) \in Nat
        /\ asked = All => Taken(b) = b - Rent /\ Minus(remaining, Taken(b)) = All
        /\ asked # All => /\ Minus(remaining, Taken(b)) \in Nat
                          /\ Minus(remaining, Taken(b)) + Taken(b) = remaining
    BY <1>1, <2>2, TakenFits
  <2>4. /\ DOMAIN ixs' = DOMAIN ixs \cup {w}
        /\ \A v \in DOMAIN ixs' : ixs'[v] \in Nat
    BY <2>1, <2>3 DEF WithTransfer, CInv, TypeOK
  <2>5. TypeOK'
    <3>1. available' \in Nat
      BY <2>1, <2>3 DEF CInv, TypeOK
    <3>2. IF asked = All THEN remaining' = All
                         ELSE remaining' \in Nat /\ remaining' + available' = asked
      BY <2>1, <2>3 DEF CInv, TypeOK
    <3>. QED BY <1>1, <2>4, <3>1, <3>2 DEF CInv, TypeOK
  <2>6. Rent * (count + 1) = Rent * count + Rent /\ Rent * count \in Nat
    BY CollectAssumption DEF CInv, TypeOK
  <2>7. Passed'
    BY <1>1, <2>1, <2>2, <2>3, <2>6, CollectAssumption DEF CInv, TypeOK, Passed
  <2>. QED BY <2>5, <2>7 DEF CInv
<1>. QED BY <1>2, <1>3

\* The rest of the code.
LEMMA CodeCInv ==
    ASSUME CInv,
           \/ OpenDir \/ EndRead \/ NoBlockhash \/ SendBundle \/ PollOk \/ PollErr \/ Stop
           \/ \E w \in Wallets : SkipWallet(w)
    PROVE  CInv'
<1>1. CASE OpenDir \/ NoBlockhash \/ Stop
  BY <1>1 DEF OpenDir, NoBlockhash, Stop, Return, CInv, TypeOK, Passed, Short, Poor,
     callVars, loopVars, chainVars
<1>2. CASE EndRead
  BY <1>2 DEF EndRead, Return, CInv, TypeOK, Passed, Short, Poor, callVars, loopVars, chainVars
<1>3. CASE SendBundle
  BY <1>3 DEF SendBundle, Return, CInv, TypeOK, Passed, Short, Poor, callVars, loopVars
<1>4. CASE PollOk \/ PollErr
  BY <1>4 DEF PollOk, PollErr, Answered, Result, Return, CInv, TypeOK, Passed, Short, Poor,
     callVars, loopVars, chainVars
<1>5. CASE \E w \in Wallets : SkipWallet(w)
  BY <1>5 DEF SkipWallet, Visiting, CInv, TypeOK, Passed, callVars, chainVars
<1>. QED BY <1>1, <1>2, <1>3, <1>4, <1>5

\* What the chain does.
LEMMA ChainCInv == ASSUME CInv, Chain PROVE CInv'
<1>1. CASE Land
  <2>1. sol' \in [Wallets -> Nat]
    BY <1>1, CollectAssumption DEF Land, Payable, CInv, TypeOK
  <2>. QED BY <1>1, <2>1 DEF Land, CInv, TypeOK, Passed, Short, Poor, callVars, loopVars
<1>2. CASE Drop
  BY <1>2 DEF Drop, CInv, TypeOK, Passed, Short, Poor, callVars, loopVars
<1>3. CASE \E w \in Wallets : OtherUse(w)
  BY <1>3, CollectAssumption DEF OtherUse, CInv, TypeOK, Passed, Short, Poor, callVars, loopVars
<1>. QED BY <1>1, <1>2, <1>3 DEF Chain

\* Every step keeps the invariant.
LEMMA NextCInv == ASSUME CInv, [Next]_vars PROVE CInv'
<1>1. CASE UNCHANGED vars
  BY <1>1 DEF vars, callVars, loopVars, chainVars, CInv, TypeOK, Passed, Short, Poor
<1>2. CASE Code \/ Stop
  BY <1>2, ReadCInv, CodeCInv DEF Code
<1>3. CASE Chain
  BY <1>3, ChainCInv
<1>. QED BY <1>1, <1>2, <1>3 DEF Next

\* It holds in every behaviour that starts and steps like Collect.
LEMMA SafeCInv == Init /\ [][Next]_vars => []CInv
  BY InitCInv, NextCInv, PTL

LEMMA AlwaysCInv == Spec => []CInv
  BY SafeCInv, PTL DEF Spec

LEMMA Pays == ASSUME CInv PROVE PaidExactly
<1>1. fate = "landed" /\ asked # All => remaining = 0
  BY CollectAssumption DEF CInv, TypeOK, Passed, Short
<1>. QED BY <1>1, CollectAssumption DEF CInv, TypeOK, Passed, PaidExactly

LEMMA Worth == ASSUME CInv PROVE WorthTheTip
<1>1. ASSUME toUser, fate # "unsent", count > 0 PROVE available > Tip * count
  <2>1. total >= Guard * count /\ total <= available + Rent * count
        /\ count \in Nat /\ total \in Nat /\ available \in Nat
    BY <1>1, CollectAssumption DEF CInv, TypeOK, Passed, Poor
  <2>2. Guard - Rent - Tip \in Nat /\ Guard - Rent - Tip > 0
    BY CollectAssumption
  <2>3. (Guard - Rent - Tip) * count > 0
    BY <1>1, <2>1, <2>2
  <2>4. (Guard - Rent - Tip) * count = Guard * count - Rent * count - Tip * count
    BY <2>1, CollectAssumption
  <2>5. Guard * count \in Nat /\ Rent * count \in Nat /\ Tip * count \in Nat
    BY <2>1, CollectAssumption
  <2>. QED BY <2>1, <2>3, <2>4, <2>5
<1>. QED BY <1>1 DEF WorthTheTip

\* A call of recursive_pay keeps to its types, and splits the amount without
\* loss.
THEOREM TypeCorrect == Spec => []TypeOK
<1>1. CInv => TypeOK
  BY DEF CInv
<1>. QED BY <1>1, AlwaysCInv, PTL

\* The recipient gets exactly what was asked for, or nothing.
THEOREM PaidExactlyAlways == Spec => []PaidExactly
  BY Pays, AlwaysCInv, PTL

\* A withdrawal of read wallets brings more than its tip for each of them.
THEOREM WorthTheTipAlways == Spec => []WorthTheTip
  BY Worth, AlwaysCInv, PTL

-----------------------------------------------------------------------------

\* Every step of the call is a step of Payment, or none.
LEMMA StepIsPayment ==
    ASSUME CInv, PaidExactly', [Next]_vars
    PROVE  [Contract!PayNext]_(Contract!payVars)
<1>. USE DEF Contract!payVars
<1>1. CASE Land
  <2>1. Contract!Move
    <3>1. moved' = available /\ available \in Nat
      BY <1>1 DEF Land, CInv, TypeOK, Passed
    <3>2. asked # All => moved' = asked
      BY <1>1 DEF Land, PaidExactly, callVars
    <3>. QED BY <1>1, <3>1, <3>2 DEF Land, Contract!Move, callVars
  <2>. QED BY <2>1 DEF Contract!PayNext
<1>2. CASE Drop \/ \E w \in Wallets : OtherUse(w)
  BY <1>2 DEF Drop, OtherUse, callVars
<1>3. CASE OpenDir \/ EndRead \/ NoBlockhash \/ SendBundle \/ PollOk \/ PollErr \/ Stop
  <2>1. UNCHANGED <<asked, moved>> /\ (fate = "landed") = (fate' = "landed")
    BY <1>3 DEF OpenDir, EndRead, NoBlockhash, SendBundle, PollOk, PollErr, Stop,
       callVars, chainVars, CInv, Passed
  <2>2. \/ UNCHANGED answer
        \/ answer = "none" /\ answer' \in {"false", "gone"}
        \/ answer = "none" /\ answer' = "true" /\ fate = "landed"
    BY <1>3 DEF OpenDir, EndRead, NoBlockhash, SendBundle, PollOk, PollErr, Stop, Return,
       Answered, Result, CInv, TypeOK, Engine!OkEarned, Engine!HasClient
  <2>. QED BY <2>1, <2>2 DEF Contract!PayNext, Contract!Answer
<1>4. CASE \E w \in Wallets : SkipWallet(w) \/ ReadWallet(w)
  BY <1>4 DEF SkipWallet, ReadWallet, callVars, chainVars
<1>5. CASE UNCHANGED vars
  BY <1>5 DEF vars, callVars, chainVars
<1>. QED BY <1>1, <1>2, <1>3, <1>4, <1>5 DEF Next, Code, Chain

LEMMA SafePayment ==
    Init /\ [][Next]_vars => Contract!PayInit /\ [][Contract!PayNext]_(Contract!payVars)
<1>1. Init => Contract!PayInit
  BY CollectAssumption DEF Init, Contract!PayInit
<1>. QED BY <1>1, SafeCInv, Pays, StepIsPayment, PTL

\* recursive_pay implements the safety part of Payment: all or nothing, at
\* most once, and true only after the money moved.
THEOREM ImplementsPaymentSafety ==
    Spec => Contract!PayInit /\ [][Contract!PayNext]_(Contract!payVars)
  BY SafePayment, PTL DEF Spec

-----------------------------------------------------------------------------

\* A step with the packing is a step of Collect, or packs.
LEMMA BundleStep == ASSUME [BundleNext]_bundleVars PROVE [Next]_vars
<1>1. CASE BundleCode
  BY <1>1 DEF BundleCode, StartPacking, PackNext, PackFails, SendPacked, Next, Code
<1>2. CASE (Stop \/ Chain) /\ UNCHANGED packVars
  BY <1>2 DEF Next
<1>3. CASE UNCHANGED bundleVars
  BY <1>3 DEF bundleVars
<1>. QED BY <1>1, <1>2, <1>3 DEF BundleNext

\* With the packing in it, recursive_pay still takes the steps of Collect, or
\* packs: the packing decides nothing about the money.
THEOREM BundleImplementsCollect == BundleSpec => Init /\ [][Next]_vars
<1>1. BundleInit => Init
  BY DEF BundleInit
<1>. QED BY <1>1, BundleStep, PTL DEF BundleSpec

\* So what was shown of Collect holds of recursive_pay as a whole.  Its
\* variables keep to their sets.
THEOREM BundleTypeCorrect == BundleSpec => []TypeOK
<1>1. CInv => TypeOK
  BY DEF CInv
<1>. QED BY <1>1, BundleImplementsCollect, SafeCInv, PTL

\* Whatever the transfers are packed into, the recipient gets exactly what was
\* asked for or nothing.
THEOREM BundlePaysExactly == BundleSpec => []PaidExactly
  BY Pays, BundleImplementsCollect, SafeCInv, PTL

\* The bundle brings more than its tip.
THEOREM BundleWorthTheTip == BundleSpec => []WorthTheTip
  BY Worth, BundleImplementsCollect, SafeCInv, PTL

\* It keeps the contract with the handlers: all or nothing, at most once, and
\* true only after the money moved.
THEOREM BundleImplementsPayment ==
    BundleSpec => Contract!PayInit /\ [][Contract!PayNext]_(Contract!payVars)
  BY BundleImplementsCollect, SafePayment, PTL

-----------------------------------------------------------------------------
(* The packing, for every limit that takes one transfer. *)

\* Transfers fit a transaction up to PerTx, at least one does, and with fewer
\* there is room for the tip.
LEMMA FitsCount ==
    ASSUME NEW u \in BOOLEAN
    PROVE  /\ PerTx(u) \in Nat /\ PerTx(u) >= 1
           /\ \A c \in Nat : Size(c, FALSE, u) <= TxLimit <=> c <= PerTx(u)
           /\ \A c \in Nat : c < PerTx(u) => Size(c, TRUE, u) <= TxLimit
<1>. USE PayTxAssumption DEF PerTx, Size, Base, Recipient, Transfer, TipSize
<1>1. CASE u = TRUE
  BY <1>1
<1>2. CASE u = FALSE
  BY <1>2
<1>. QED BY <1>1, <1>2

\* The same of one number of transfers.
LEMMA FitsUpTo ==
    ASSUME NEW u \in BOOLEAN, NEW c \in Nat
    PROVE  Size(c, FALSE, u) <= TxLimit <=> c <= PerTx(u)
  BY FitsCount, Zenon

LEMMA RoomForTip ==
    ASSUME NEW u \in BOOLEAN, NEW c \in Nat, c < PerTx(u)
    PROVE  Size(c, TRUE, u) <= TxLimit
  BY FitsCount, Zenon

LEMMA PerTxNat ==
    ASSUME NEW u \in BOOLEAN
    PROVE  /\ PerTx(u) \in Nat /\ PerTx(u) >= 1
           /\ Size(0, FALSE, u) <= TxLimit /\ Size(1, FALSE, u) <= TxLimit
           /\ Size(0, TRUE, u) <= TxLimit
<1>1. PerTx(u) \in Nat /\ PerTx(u) >= 1
  BY FitsCount, Zenon
<1>2. 0 \in Nat /\ 1 \in Nat /\ 0 <= PerTx(u) /\ 1 <= PerTx(u) /\ 0 < PerTx(u)
  BY <1>1
<1>. QED BY <1>1, <1>2, FitsUpTo, RoomForTip, Zenon

\* A quotient and its remainder are what the division finds.
LEMMA Divide ==
    ASSUME NEW d \in Nat, d >= 1, NEW q \in Nat, NEW r \in 0..d-1
    PROVE  (q * d + r) \div d = q /\ (q * d + r) % d = r
<1>. DEFINE i == q * d + r
            p == i \div d
            s == i % d
<1>1. i \in Nat
  OBVIOUS
<1>. HIDE DEF i
<1>2. p \in Int /\ s \in 0..d-1 /\ i = d * p + s
  BY <1>1
<1>. HIDE DEF p, s
<1>3. q * d = d * q /\ d * (p + 1) = d * p + d /\ d * (q + 1) = d * q + d
      /\ d * p \in Int /\ d * q \in Int
  BY <1>2
<1>4. ~(p + 1 <= q)
  <2>1. p + 1 <= q => d * (p + 1) <= d * q
    BY <1>2
  <2>. QED BY <1>2, <1>3, <2>1 DEF i
<1>5. ~(q + 1 <= p)
  <2>1. q + 1 <= p => d * (q + 1) <= d * p
    BY <1>2
  <2>. QED BY <1>2, <1>3, <2>1 DEF i
<1>6. p = q
  BY <1>2, <1>4, <1>5
<1>7. s = r
  BY <1>2, <1>3, <1>6 DEF i
<1>. QED BY <1>6, <1>7 DEF p, s, i

\* The count Collect refuses by, for l full transactions and an open one with
\* c transfers, which is not empty behind a full one: the tip makes one more
\* only when the open one is full and has no room for it.
LEMMA Counted ==
    ASSUME NEW u \in BOOLEAN, NEW l \in Nat, NEW c \in Nat,
           c <= PerTx(u), l > 0 => c >= 1
    PROVE  TxsNeeded(l * PerTx(u) + c, u)
               = l + (IF c = PerTx(u) /\ ~TipFitsFull(u) THEN 2 ELSE 1)
<1>. DEFINE d == PerTx(u)
            m == l * d + c
<1>1. d \in Nat /\ d >= 1
  BY FitsCount
<1>. HIDE DEF d
<1>2. m \in Nat
  BY <1>1
<1>3. CASE c < d
  <2>1. m \div d = l /\ m % d = c
    BY <1>1, <1>3, Divide
  <2>2. ~(m > 0 /\ m % d = 0 /\ TipFitsFull(u))
    <3>1. c = 0 => m = 0
      BY <1>1
    <3>. QED BY <2>1, <3>1
  <2>. HIDE DEF m
  <2>3. TxsNeeded(m, u) = l + 1
    BY <2>1, <2>2 DEF TxsNeeded, d
  <2>. QED BY <1>3, <2>3 DEF d, m
<1>4. CASE c = d
  <2>1. m = (l + 1) * d + 0
    BY <1>1, <1>4
  <2>2. m \div d = l + 1 /\ m % d = 0
    BY <1>1, <2>1, Divide
  <2>3. m > 0
    BY <1>1, <1>4
  <2>. HIDE DEF m
  <2>4. TxsNeeded(m, u) = l + (IF TipFitsFull(u) THEN 1 ELSE 2)
    BY <2>2, <2>3 DEF TxsNeeded, d
  <2>. QED BY <1>4, <2>4 DEF d, m
<1>. QED BY <1>1, <1>3, <1>4 DEF d

PackedTx == [transfers : Nat, tip : BOOLEAN]
Small(tx) == Size(tx.transfers, tx.tip, toUser) <= TxLimit
Transfers == Cardinality(DOMAIN ixs)

\* What the loop has packed: full transactions without a tip, and an open one
\* that is empty only at the start.
Loaded ==
    /\ cur.tip = FALSE /\ cur.transfers <= PerTx(toUser)
    /\ Transfers + 1 - toPack = Len(txs) * PerTx(toUser) + cur.transfers
    /\ Len(txs) > 0 => cur.transfers >= 1

NoTip == \A k \in DOMAIN txs : ~txs[k].tip

\* What the packing has made of the transfers, from the checks to the bundle.
Shape ==
    /\ packing \in {"idle", "pack", "packed", "false"}
    /\ cur \in PackedTx /\ txs \in Seq(PackedTx)
    /\ Small(cur) /\ \A k \in DOMAIN txs : Small(txs[k])
    /\ pc \in {"open", "read"} => packing = "idle"
    /\ packing = "idle" => cur = Packing!Empty /\ txs = <<>>
    /\ packing = "pack" =>
           /\ toPack \in 0..Transfers+1 /\ NoTip
           /\ toPack > 0 => Loaded
           /\ toPack = 0 => cur.tip /\ Len(txs) + 1 = TxsNeeded(Transfers, toUser)
    /\ packing = "packed" =>
           /\ Len(txs) = TxsNeeded(Transfers, toUser)
           /\ \A k \in DOMAIN txs : txs[k].tip <=> k = Len(txs)

BInv == CInv /\ Shape

\* The list of transfers is finite, as the directory is.
LEMMA TransfersNat == ASSUME CInv PROVE Transfers \in Nat
<1>1. DOMAIN ixs \subseteq Wallets /\ IsFiniteSet(Wallets)
  BY CollectAssumption DEF CInv, TypeOK
<1>2. IsFiniteSet(DOMAIN ixs)
  BY <1>1, FS_Subset
<1>. QED BY <1>2, FS_CardinalityType DEF Transfers

\* An empty transaction is one, and small.
LEMMA EmptySmall ==
    ASSUME toUser \in BOOLEAN
    PROVE  Packing!Empty \in PackedTx /\ Small(Packing!Empty)
           /\ Packing!Empty.tip = FALSE /\ Packing!Empty.transfers = 0
<1>1. Packing!Empty = [transfers |-> 0, tip |-> FALSE]
  BY DEF Packing!Empty
<1>2. Size(0, FALSE, toUser) <= TxLimit
  BY PerTxNat, Zenon
<1>. QED BY <1>1, <1>2 DEF PackedTx, Small

\* The steps of Collect before the packing and after it leave it alone.
LEMMA OthersShape ==
    ASSUME Shape, toUser' = toUser, UNCHANGED packVars,
           \/ packing = "idle"
           \/ pc \notin {"open", "read"} /\ ixs' = ixs /\ pc' \notin {"open", "read"}
    PROVE  Shape'
  BY DEF Shape, Small, Loaded, NoTip, Transfers, packVars

\* The packing starts with everything on the list.
LEMMA StartShape == ASSUME BInv, StartPacking PROVE Shape'
<1>1. /\ toUser' = toUser /\ ixs' = ixs /\ UNCHANGED <<cur, txs>> /\ toUser \in BOOLEAN
      /\ pc' \in {"send", "done"} /\ pc = "read"
  BY DEF StartPacking, EndRead, Return, callVars, loopVars, BInv, CInv, TypeOK
<1>2. packing = "idle" /\ cur = Packing!Empty /\ txs = <<>>
  BY <1>1 DEF BInv, Shape
<1>3. CASE pc' = "send"
  <2>1. packing' = "pack" /\ toPack' = Transfers + 1
    BY <1>3 DEF StartPacking, Transfers
  <2>2. Transfers \in Nat /\ Transfers' = Transfers
    BY <1>1, TransfersNat DEF BInv, Transfers
  <2>3. Loaded'
    <3>1. PerTx(toUser) \in Nat /\ PerTx(toUser)' = PerTx(toUser)
      BY <1>1, FitsCount DEF PerTx, Size
    <3>2. cur'.tip = FALSE /\ cur'.transfers = 0 /\ Len(txs') = 0
      BY <1>1, <1>2, EmptySmall
    <3>3. Transfers' + 1 - toPack' = 0 * PerTx(toUser) + 0
      BY <2>1, <2>2, <3>1
    <3>. QED BY <3>1, <3>2, <3>3 DEF Loaded
  <2>4. NoTip' /\ cur' \in PackedTx /\ txs' \in Seq(PackedTx) /\ Small(cur)'
        /\ \A k \in DOMAIN txs' : Small(txs[k])'
    BY <1>1, <1>2, EmptySmall DEF NoTip, Small
  <2>. QED BY <1>1, <1>3, <2>1, <2>2, <2>3, <2>4 DEF Shape
<1>4. CASE pc' # "send"
  <2>1. UNCHANGED packVars
    BY <1>4 DEF StartPacking, packVars
  <2>. QED BY <1>1, <1>2, <2>1, OthersShape DEF BInv
<1>. QED BY <1>3, <1>4

\* What PayPacking's sizes and transactions are here.
LEMMA Instance ==
    /\ \A tx : Packing!TxSize(tx) <= TxLimit <=> Small(tx)
    /\ \A tx : toPack = 1 => Packing!With(tx) = [tx EXCEPT !.tip = TRUE]
    /\ \A tx : toPack # 1 => Packing!With(tx) = [tx EXCEPT !.transfers = tx.transfers + 1]
  BY DEF Packing!TxSize, Packing!Size, Packing!Base, Packing!Recipient, Packing!Transfer,
         Packing!TipSize, Small, Size, Base, Recipient, Transfer, TipSize, Packing!With

\* A small transaction signed is a small transaction more.
LEMMA Signed ==
    ASSUME Shape, toUser' = toUser, txs' = Append(txs, cur)
    PROVE  /\ txs' \in Seq(PackedTx) /\ Len(txs') = Len(txs) + 1 /\ Len(txs) \in Nat
           /\ \A k \in DOMAIN txs' : Small(txs[k])'
           /\ NoTip => \A k \in DOMAIN txs' : k # Len(txs') => ~txs'[k].tip
           /\ txs'[Len(txs')] = cur
<1>1. txs \in Seq(PackedTx) /\ cur \in PackedTx /\ Small(cur)
      /\ \A k \in DOMAIN txs : Small(txs[k])
  BY DEF Shape
<1>2. \A k \in DOMAIN txs' : (k \in DOMAIN txs /\ txs'[k] = txs[k]) \/ (k = Len(txs) + 1 /\ txs'[k] = cur)
  BY <1>1
<1>3. \A k \in DOMAIN txs' : Small(txs[k])'
  BY <1>1, <1>2 DEF Small
<1>. QED BY <1>1, <1>2, <1>3 DEF NoTip

\* A transfer is packed.
LEMMA TransferShape ==
    ASSUME BInv, Packing!PackIx, toPack # 1, UNCHANGED vars
    PROVE  Shape'
<1>1. /\ packing = "pack" /\ packing' = "pack" /\ toPack' = toPack - 1
      /\ UNCHANGED <<toUser, ixs, pc>> /\ Transfers' = Transfers /\ Transfers \in Nat
      /\ toUser \in BOOLEAN /\ pc \notin {"open", "read"}
      /\ toPack \in 0..Transfers+1 /\ toPack > 1
  BY TransfersNat DEF Packing!PackIx, Packing!MoreIxs, vars, callVars, loopVars, Transfers,
     BInv, CInv, TypeOK, Shape
<1>2. Loaded /\ NoTip /\ Shape /\ cur \in PackedTx /\ txs \in Seq(PackedTx)
  BY <1>1 DEF BInv, Shape
<1>. DEFINE c == cur.transfers
            d == PerTx(toUser)
            l == Len(txs)
<1>3. c \in Nat /\ l \in Nat /\ d \in Nat /\ d >= 1 /\ c <= d /\ (l > 0 => c >= 1)
      /\ Transfers + 1 - toPack = l * d + c /\ PerTx(toUser)' = d
  BY <1>1, <1>2, FitsCount DEF PackedTx, Loaded, PerTx, Size
<1>4. \A tx \in PackedTx : Packing!With(tx) = [tx EXCEPT !.transfers = tx.transfers + 1]
  BY Instance
<1>5. Packing!With(cur) \in PackedTx /\ Packing!With(cur).transfers = c + 1
      /\ Packing!With(cur).tip = FALSE
  BY <1>2, <1>3, <1>4 DEF PackedTx, Loaded
<1>6. Packing!Fits(cur) <=> c + 1 <= d
  <2>1. Packing!Fits(cur) <=> Size(c + 1, FALSE, toUser) <= TxLimit
    BY <1>5, Instance DEF Packing!Fits, Small
  <2>2. c + 1 \in Nat
    BY <1>3
  <2>3. Size(c + 1, FALSE, toUser) <= TxLimit <=> c + 1 <= d
    BY <1>1, <2>2, FitsUpTo, Zenon DEF d
  <2>. QED BY <2>1, <2>3
<1>. HIDE DEF c, d, l
<1>7. CASE Packing!Fits(cur)
  <2>1. cur' = Packing!With(cur) /\ txs' = txs
    BY <1>7 DEF Packing!PackIx
  <2>2. Small(cur)'
    BY <1>1, <1>7, <2>1, Instance DEF Packing!Fits, Small
  <2>3. Loaded'
    <3>1. Transfers + 1 - (toPack - 1) = l * d + (c + 1)
      BY <1>1, <1>3
    <3>2. /\ cur'.tip = FALSE /\ cur'.transfers = c + 1 /\ Len(txs') = l
          /\ PerTx(toUser)' = d /\ Transfers' = Transfers /\ toPack' = toPack - 1
      BY <1>1, <1>3, <1>5, <2>1 DEF l
    <3>3. c + 1 <= d /\ c + 1 >= 1
      BY <1>3, <1>6, <1>7
    <3>. QED BY <3>1, <3>2, <3>3 DEF Loaded
  <2>. QED BY <1>1, <1>2, <1>5, <2>1, <2>2, <2>3 DEF Shape, NoTip, Small
<1>8. CASE ~Packing!Fits(cur)
  <2>1. txs' = Append(txs, cur) /\ cur' = Packing!With(Packing!Empty)
    BY <1>8 DEF Packing!PackIx, Packing!Opened
  <2>2. cur' \in PackedTx /\ cur'.transfers = 1 /\ cur'.tip = FALSE
    <3>1. Packing!Empty \in PackedTx /\ Packing!Empty.transfers = 0
          /\ Packing!Empty.tip = FALSE
      BY <1>1, EmptySmall
    <3>2. cur' = [Packing!Empty EXCEPT !.transfers = Packing!Empty.transfers + 1]
      BY <1>4, <2>1, <3>1
    <3>. QED BY <3>1, <3>2 DEF PackedTx
  <2>3. Small(cur)'
    BY <1>1, <2>2, PerTxNat DEF Small
  <2>4. /\ txs' \in Seq(PackedTx) /\ Len(txs') = l + 1
        /\ \A k \in DOMAIN txs' : Small(txs[k])'
    BY <1>1, <1>2, <2>1, Signed DEF l
  <2>5. NoTip'
    BY <1>1, <1>2, <2>1, Signed DEF NoTip, Loaded
  <2>6. Loaded'
    <3>1. c = d /\ (l + 1) * d = l * d + d
      BY <1>3, <1>6, <1>8
    <3>2. Transfers + 1 - (toPack - 1) = (l + 1) * d + 1
      BY <1>1, <1>3, <3>1
    <3>. QED BY <1>1, <1>3, <2>2, <2>4, <3>2 DEF Loaded, d
  <2>. QED BY <1>1, <2>2, <2>3, <2>4, <2>5, <2>6 DEF Shape
<1>. QED BY <1>7, <1>8

\* The tip is packed.
LEMMA TipShape ==
    ASSUME BInv, Packing!PackIx, toPack = 1, UNCHANGED vars
    PROVE  Shape'
<1>1. /\ packing = "pack" /\ packing' = "pack" /\ toPack' = 0
      /\ UNCHANGED <<toUser, ixs, pc>> /\ Transfers' = Transfers /\ Transfers \in Nat
      /\ toUser \in BOOLEAN /\ pc \notin {"open", "read"}
  BY TransfersNat DEF Packing!PackIx, vars, callVars, loopVars, Transfers,
     BInv, CInv, TypeOK, Shape
<1>2. Loaded /\ NoTip /\ Shape /\ cur \in PackedTx /\ txs \in Seq(PackedTx)
  BY <1>1 DEF BInv, Shape
<1>. DEFINE c == cur.transfers
            d == PerTx(toUser)
            l == Len(txs)
<1>3. c \in Nat /\ l \in Nat /\ d \in Nat /\ d >= 1 /\ c <= d /\ (l > 0 => c >= 1)
      /\ Transfers = l * d + c
  <2>1. d \in Nat /\ d >= 1
    BY <1>1, PerTxNat, Zenon
  <2>2. c \in Nat /\ l \in Nat
    BY <1>2 DEF PackedTx
  <2>3. c <= d /\ (l > 0 => c >= 1) /\ Transfers + 1 - toPack = l * d + c
    BY <1>2 DEF Loaded
  <2>. HIDE DEF c, d, l
  <2>4. Transfers + 1 - toPack = Transfers
    BY <1>1
  <2>. QED BY <2>1, <2>2, <2>3, <2>4
<1>4. TxsNeeded(Transfers, toUser) = l + (IF c = d /\ ~TipFitsFull(toUser) THEN 2 ELSE 1)
  BY <1>1, <1>3, Counted
<1>5. \A tx \in PackedTx : Packing!With(tx) = [tx EXCEPT !.tip = TRUE]
  BY Instance
<1>6. Packing!With(cur) \in PackedTx /\ Packing!With(cur).transfers = c
      /\ Packing!With(cur).tip = TRUE
  BY <1>2, <1>5 DEF PackedTx
<1>7. Packing!Fits(cur) <=> ~(c = d /\ ~TipFitsFull(toUser))
  <2>1. Packing!Fits(cur) <=> Size(c, TRUE, toUser) <= TxLimit
    BY <1>6, Instance DEF Packing!Fits, Small
  <2>2. CASE c < d
    <3>1. Size(c, TRUE, toUser) <= TxLimit
      BY <1>1, <1>3, <2>2, RoomForTip, Zenon DEF d
    <3>2. c # d
      BY <1>3, <2>2
    <3>. QED BY <2>1, <3>1, <3>2, Zenon
  <2>3. CASE c = d
    BY <2>1, <2>3 DEF TipFitsFull
  <2>. QED BY <1>3, <2>2, <2>3
<1>8. TxsNeeded(Transfers', toUser') = TxsNeeded(Transfers, toUser)
  BY <1>1
<1>. HIDE DEF c, d, l
<1>9. CASE Packing!Fits(cur)
  <2>1. cur' = Packing!With(cur) /\ txs' = txs
    BY <1>9 DEF Packing!PackIx
  <2>2. Small(cur)'
    BY <1>1, <1>9, <2>1, Instance DEF Packing!Fits, Small
  <2>3. Len(txs') + 1 = TxsNeeded(Transfers', toUser')
    BY <1>4, <1>7, <1>8, <1>9, <2>1 DEF l
  <2>. QED BY <1>1, <1>2, <1>6, <2>1, <2>2, <2>3 DEF Shape, NoTip, Small, Transfers
<1>10. CASE ~Packing!Fits(cur)
  <2>1. txs' = Append(txs, cur) /\ cur' = Packing!With(Packing!Empty)
    BY <1>10 DEF Packing!PackIx, Packing!Opened
  <2>2. cur' \in PackedTx /\ cur'.transfers = 0 /\ cur'.tip = TRUE
    BY <1>1, <1>5, <2>1, EmptySmall DEF PackedTx
  <2>3. Small(cur)'
    BY <1>1, <2>2, PerTxNat DEF Small
  <2>4. /\ txs' \in Seq(PackedTx) /\ Len(txs') = l + 1
        /\ \A k \in DOMAIN txs' : Small(txs[k])'
    BY <1>1, <1>2, <2>1, Signed DEF l
  <2>5. NoTip'
    BY <1>1, <1>2, <2>1, Signed DEF NoTip, Loaded
  <2>6. Len(txs') + 1 = TxsNeeded(Transfers', toUser')
    BY <1>3, <1>4, <1>7, <1>8, <1>10, <2>4
  <2>. QED BY <1>1, <2>2, <2>3, <2>4, <2>5, <2>6 DEF Shape, Transfers
<1>. QED BY <1>9, <1>10

\* The last transaction is signed.
LEMMA CloseShape == ASSUME BInv, Packing!Close, UNCHANGED vars PROVE Shape'
<1>1. /\ packing = "pack" /\ packing' = "packed" /\ cur' = cur /\ toPack = 0
      /\ UNCHANGED <<toUser, ixs, pc>> /\ pc \notin {"open", "read"}
      /\ toUser \in BOOLEAN
  BY TransfersNat DEF Packing!Close, Packing!MoreIxs, vars, callVars, loopVars,
     BInv, CInv, TypeOK, Shape
<1>2. /\ Shape /\ NoTip /\ cur.tip /\ Len(txs) + 1 = TxsNeeded(Transfers, toUser)
  BY <1>1 DEF BInv, Shape
<1>3. txs' = Append(txs, cur)
  BY <1>1, <1>2, EmptySmall DEF Packing!Close
<1>4. TxsNeeded(Transfers', toUser') = TxsNeeded(Transfers, toUser)
  BY <1>1 DEF Transfers
<1>5. \A k \in DOMAIN txs' : txs'[k].tip <=> k = Len(txs')
  BY <1>1, <1>2, <1>3, Signed
<1>6. Small(cur)' /\ cur' \in PackedTx
  BY <1>1, <1>2 DEF Shape, Small
<1>. QED BY <1>1, <1>2, <1>3, <1>4, <1>5, <1>6, Signed DEF Shape, Transfers

\* Every step keeps the shape.
LEMMA NextBInv == ASSUME BInv, [BundleNext]_bundleVars PROVE BInv'
<1>1. CInv'
  BY BundleStep, NextCInv DEF BInv
<1>2. CASE PackNext
  BY <1>2, TransferShape, TipShape, CloseShape, <1>1 DEF PackNext, BInv
<1>3. CASE StartPacking
  BY <1>1, <1>3, StartShape DEF BInv
<1>4. CASE PackFails
  BY <1>1, <1>4 DEF PackFails, NoBlockhash, Packing!NoBlockhash, Return, callVars, loopVars,
     BInv, Shape, Small, Loaded, NoTip, Transfers
<1>5. CASE \/ (OpenDir \/ Stop \/ PollOk \/ PollErr \/ Chain) /\ UNCHANGED packVars
           \/ SendPacked \/ UNCHANGED bundleVars
           \/ \E w \in Wallets : (SkipWallet(w) \/ ReadWallet(w)) /\ UNCHANGED packVars
  <2>1. UNCHANGED packVars /\ toUser' = toUser
    BY <1>5 DEF OpenDir, Stop, PollOk, PollErr, Chain, Land, Drop, OtherUse, SendPacked, SendBundle,
       SkipWallet, ReadWallet, bundleVars, vars, callVars
  <2>2. \/ packing = "idle"
        \/ pc \notin {"open", "read"} /\ ixs' = ixs /\ pc' \notin {"open", "read"}
    BY <1>5 DEF OpenDir, Stop, PollOk, PollErr, Chain, Land, Drop, OtherUse, SendPacked, SendBundle,
       SkipWallet, ReadWallet, Visiting, Return, Answered, bundleVars, vars, callVars, loopVars, BInv, Shape
  <2>. QED BY <1>1, <2>1, <2>2, OthersShape DEF BInv
<1>. QED BY <1>2, <1>3, <1>4, <1>5 DEF BundleNext, BundleCode

LEMMA InitBInv == BundleInit => BInv
<1>. SUFFICES ASSUME BundleInit PROVE BInv
  OBVIOUS
<1>1. CInv /\ toUser \in BOOLEAN /\ pc = "open"
  BY InitCInv DEF BundleInit, CInv, TypeOK, Init
<1>2. packing = "idle" /\ cur = Packing!Empty /\ txs = <<>>
  BY DEF BundleInit
<1>. QED BY <1>1, <1>2, EmptySmall DEF BInv, Shape

LEMMA AlwaysBInv == BundleSpec => []BInv
  BY InitBInv, NextBInv, PTL DEF BundleSpec

\* No transaction of a collection is larger than the chain takes.
THEOREM BundleFits == BundleSpec => []Packing!AllFit
<1>1. BInv => Packing!AllFit
  BY Instance DEF BInv, Shape, Packing!AllFit
<1>. QED BY <1>1, AlwaysBInv, PTL

\* The bundle pays its tip in the last transaction and nowhere else, and the
\* engine refuses it exactly when it came out too long.
THEOREM BundleTippedAndCounted ==
    BundleSpec => [](packing = "packed" =>
                        /\ \A k \in DOMAIN txs : txs[k].tip <=> k = Len(txs)
                        /\ Refused <=> Len(txs) > MaxTxs)
<1>1. BInv => (packing = "packed" =>
                  /\ \A k \in DOMAIN txs : txs[k].tip <=> k = Len(txs)
                  /\ Refused <=> Len(txs) > MaxTxs)
  BY DEF BInv, Shape, Refused, Transfers
<1>. QED BY <1>1, AlwaysBInv, PTL

-----------------------------------------------------------------------------
(* What the transfers and the transactions add up to. *)

\* The transfers add up to what is available, and those packed so far, signed
\* or not, are those no longer on the list.
Sums ==
    /\ available = SumFunction(ixs)
    /\ packing = "pack" =>
           Packing!InTxs + cur.transfers = Transfers - (IF toPack = 0 THEN 0 ELSE toPack - 1)
    /\ packing = "packed" => Packing!InTxs = Transfers

\* The sum of PayPacking is the one of the laws.
LEMMA SameSum ==
    /\ Packing!InTxs = SumFunction([k \in DOMAIN txs |-> txs[k].transfers])
    /\ Packing!InTxs' = SumFunction([k \in DOMAIN txs' |-> txs'[k].transfers])
<1>1. Packing!InTxs = SumFunction([k \in DOMAIN txs |-> txs[k].transfers])
  BY DEF Packing!InTxs, Packing!SumFunction, SumFunction, Packing!SumFunctionOnSet,
     SumFunctionOnSet, Packing!FoldFunctionOnSet, FoldFunctionOnSet,
     Packing!MapThenFoldSet, MapThenFoldSet
<1>2. Packing!InTxs' = SumFunction([k \in DOMAIN txs' |-> txs'[k].transfers])
  BY DEF Packing!InTxs, Packing!SumFunction, SumFunction, Packing!SumFunctionOnSet,
     SumFunctionOnSet, Packing!FoldFunctionOnSet, FoldFunctionOnSet,
     Packing!MapThenFoldSet, MapThenFoldSet
<1>. QED BY <1>1, <1>2

\* A transaction signed brings its transfers.
LEMMA SignedSum ==
    ASSUME Shape
    PROVE  /\ Packing!InTxs \in Int
           /\ txs' = Append(txs, cur) => Packing!InTxs' = Packing!InTxs + cur.transfers
<1>. DEFINE l == Len(txs)
            f == [k \in DOMAIN txs |-> txs[k].transfers]
            g == [k \in DOMAIN txs' |-> txs'[k].transfers]
<1>1. txs \in Seq(PackedTx) /\ cur \in PackedTx
  BY DEF Shape
<1>2. l \in Nat /\ DOMAIN txs = 1..l /\ \A k \in 1..l : txs[k] \in PackedTx
  BY <1>1
<1>3. \A tx \in PackedTx : tx.transfers \in Int
  BY DEF PackedTx
<1>4. DOMAIN f = 1..l /\ \A k \in 1..l : f[k] \in Int
  BY <1>2, <1>3
<1>5. Packing!InTxs = SumFunction(f) /\ Packing!InTxs' = SumFunction(g)
  BY SameSum
<1>6. SumFunction(f) \in Int
  <2>1. IsFiniteSet(1..l)
    BY <1>2, FS_Interval
  <2>. HIDE DEF f
  <2>. QED BY <1>4, <2>1, SumInt DEF SumFunction
<1>7. ASSUME txs' = Append(txs, cur) PROVE SumFunction(g) = SumFunction(f) + cur.transfers
  <2>1. /\ DOMAIN txs' = 1..l+1 /\ txs'[l + 1] = cur /\ l + 1 \in 1..l+1
        /\ \A k \in 1..l : k \in 1..l+1 /\ txs'[k] = txs[k]
    BY <1>1, <1>2, <1>7
  <2>2. DOMAIN g = 1..l+1 /\ g[l + 1] = cur.transfers /\ \A k \in 1..l : g[k] = f[k]
    BY <1>2, <2>1
  <2>3. g[l + 1] \in Int
    BY <1>1, <1>3, <2>2
  <2>. HIDE DEF f, g, l
  <2>. QED BY <1>2, <1>4, <2>2, <2>3, SumAppend
<1>. QED BY <1>5, <1>6, <1>7

\* A wallet's transfer is added to the sum.
LEMMA ReadSum ==
    ASSUME CInv, available = SumFunction(ixs), NEW w \in Wallets, ReadWallet(w)
    PROVE  available' = SumFunction(ixs')
<1>. DEFINE b == sol[w]
            S == DOMAIN ixs
<1>1. CASE b < Rent
  BY <1>1 DEF ReadWallet
<1>2. CASE ~(b < Rent)
  <2>1. available' = available + Taken(b) /\ ixs' = WithTransfer(w, b, Taken(b)) /\ w \in left
    BY <1>2 DEF ReadWallet, Visiting
  <2>2. Taken(b) \in Nat
    <3>1. b \in Nat /\ b >= Rent /\ ~Covered
      BY <1>2, CollectAssumption DEF ReadWallet, Visiting, CInv, TypeOK
    <3>. QED BY <3>1, TakenFits
  <2>3. S \subseteq Wallets \ left /\ w \notin S /\ \A v \in S : ixs[v] \in Nat
    BY <2>1 DEF CInv, TypeOK
  <2>4. IsFiniteSet(S)
    BY <2>3, CollectAssumption, FS_Subset
  <2>5. DOMAIN ixs' = S \cup {w} /\ ixs'[w] = Taken(b) /\ \A v \in S : ixs'[v] = ixs[v]
    BY <2>1, <2>3 DEF WithTransfer
  <2>6. \A v \in S \cup {w} : ixs'[v] \in Int
    BY <2>2, <2>3, <2>5
  <2>. HIDE DEF S, b
  <2>7. SumFunctionOnSet(ixs', S \cup {w}) = SumFunctionOnSet(ixs', S) + ixs'[w]
    BY <2>3, <2>4, <2>6, SumAdd
  <2>8. SumFunctionOnSet(ixs', S) = SumFunctionOnSet(ixs, S)
    BY <2>4, <2>5, SumSame
  <2>. QED BY <2>1, <2>5, <2>7, <2>8 DEF SumFunction, S
<1>. QED BY <1>1, <1>2

\* Packing a transfer or the tip, and signing the last transaction.
LEMMA PackSum ==
    ASSUME BInv, Sums, PackNext
    PROVE  Sums'
<1>1. /\ packing = "pack" /\ UNCHANGED <<available, ixs, toUser>>
      /\ Transfers' = Transfers /\ Transfers \in Nat /\ toUser \in BOOLEAN
      /\ cur \in PackedTx /\ txs \in Seq(PackedTx) /\ toPack \in 0..Transfers+1
  BY TransfersNat DEF PackNext, Packing!PackIx, Packing!Close, vars, callVars, loopVars, Transfers,
     BInv, CInv, TypeOK, Shape
<1>2. /\ Packing!InTxs \in Int
      /\ txs' = Append(txs, cur) => Packing!InTxs' = Packing!InTxs + cur.transfers
      /\ txs' = txs => Packing!InTxs' = Packing!InTxs
  BY SignedSum DEF BInv, Packing!InTxs
<1>3. Packing!InTxs + cur.transfers = Transfers - (IF toPack = 0 THEN 0 ELSE toPack - 1)
  BY <1>1 DEF Sums
<1>4. cur.transfers \in Nat
  BY <1>1 DEF PackedTx
<1>5. Packing!Empty \in PackedTx /\ Packing!Empty.transfers = 0
  BY <1>1, EmptySmall
<1>6. CASE Packing!PackIx /\ toPack # 1
  <2>1. packing' = "pack" /\ toPack' = toPack - 1 /\ toPack > 1
    BY <1>1, <1>6 DEF Packing!PackIx, Packing!MoreIxs
  <2>2. \A tx \in PackedTx : Packing!With(tx) = [tx EXCEPT !.transfers = tx.transfers + 1]
    BY <1>6, Instance
  <2>3. \A tx \in PackedTx : Packing!With(tx).transfers = tx.transfers + 1
    BY <2>2 DEF PackedTx
  <2>4. Packing!InTxs' + cur'.transfers = Packing!InTxs + cur.transfers + 1
    BY <1>1, <1>2, <1>4, <1>5, <1>6, <2>3 DEF Packing!PackIx, Packing!Opened
  <2>. QED BY <1>1, <1>2, <1>3, <1>4, <2>1, <2>4 DEF Sums
<1>7. CASE Packing!PackIx /\ toPack = 1
  <2>1. packing' = "pack" /\ toPack' = 0
    BY <1>1, <1>7 DEF Packing!PackIx
  <2>2. \A tx \in PackedTx : Packing!With(tx) = [tx EXCEPT !.tip = TRUE]
    BY <1>7, Instance
  <2>3. \A tx \in PackedTx : Packing!With(tx).transfers = tx.transfers
    BY <2>2 DEF PackedTx
  <2>4. Packing!InTxs' + cur'.transfers = Packing!InTxs + cur.transfers
    BY <1>1, <1>2, <1>4, <1>5, <1>7, <2>3 DEF Packing!PackIx, Packing!Opened
  <2>. QED BY <1>1, <1>2, <1>3, <1>4, <1>7, <2>1, <2>4 DEF Sums
<1>8. CASE Packing!Close
  <2>1. packing' = "packed" /\ toPack = 0
    BY <1>1, <1>8 DEF Packing!Close, Packing!MoreIxs
  <2>2. cur # Packing!Empty
    BY <1>1, <2>1, EmptySmall DEF BInv, Shape
  <2>3. Packing!InTxs' = Packing!InTxs + cur.transfers
    BY <1>2, <1>8, <2>2 DEF Packing!Close
  <2>. QED BY <1>1, <1>3, <2>1, <2>3 DEF Sums
<1>. QED BY <1>6, <1>7, <1>8 DEF PackNext

\* The packing starts with no transfer packed.
LEMMA StartSum == ASSUME BInv, Sums, StartPacking PROVE Sums'
<1>1. /\ toUser' = toUser /\ ixs' = ixs /\ available' = available /\ UNCHANGED <<cur, txs>>
      /\ toUser \in BOOLEAN /\ pc = "read"
  BY DEF StartPacking, EndRead, callVars, loopVars, BInv, CInv, TypeOK
<1>2. packing = "idle" /\ cur = Packing!Empty /\ txs = <<>>
  BY <1>1 DEF BInv, Shape
<1>3. Packing!InTxs' = 0
  <2>1. DOMAIN [k \in DOMAIN txs' |-> txs'[k].transfers] = {}
    BY <1>1, <1>2
  <2>. QED BY <2>1, SumEmpty, SameSum, Zenon DEF SumFunction
<1>4. cur'.transfers = 0 /\ Transfers' = Transfers /\ Transfers \in Nat
  BY <1>1, <1>2, EmptySmall, TransfersNat DEF Transfers, BInv
<1>5. \/ packing' = "pack" /\ toPack' = Transfers + 1
      \/ packing' = "idle"
  BY <1>2 DEF StartPacking, Transfers
<1>. QED BY <1>1, <1>3, <1>4, <1>5 DEF Sums

\* Steps that leave the packing alone.
LEMMA OtherSum ==
    ASSUME Sums, UNCHANGED packVars, available' = SumFunction(ixs'),
           packing = "idle" \/ ixs' = ixs
    PROVE  Sums'
  BY DEF Sums, packVars, Packing!InTxs, Transfers

\* Every step keeps the sums.
LEMMA NextSums == ASSUME BInv, Sums, [BundleNext]_bundleVars PROVE Sums'
<1>2. CASE PackNext
  BY <1>2, PackSum
<1>3. CASE StartPacking
  BY <1>3, StartSum
<1>4. CASE PackFails
  BY <1>4 DEF PackFails, NoBlockhash, Packing!NoBlockhash, callVars, loopVars,
     Sums, Packing!InTxs, Transfers
<1>5. CASE \/ (OpenDir \/ Stop \/ PollOk \/ PollErr \/ Chain) /\ UNCHANGED packVars
           \/ SendPacked \/ UNCHANGED bundleVars
           \/ \E w \in Wallets : SkipWallet(w) /\ UNCHANGED packVars
  <2>1. UNCHANGED packVars /\ ixs' = ixs /\ available' = available
    BY <1>5 DEF OpenDir, Stop, PollOk, PollErr, Chain, Land, Drop, OtherUse, SendPacked, SendBundle,
       SkipWallet, bundleVars, vars, callVars, loopVars
  <2>. QED BY <2>1, OtherSum DEF Sums
<1>6. ASSUME NEW w \in Wallets, ReadWallet(w), UNCHANGED packVars PROVE Sums'
  <2>1. packing = "idle"
    BY <1>6 DEF ReadWallet, Visiting, BInv, Shape
  <2>2. available' = SumFunction(ixs')
    BY <1>6, ReadSum DEF BInv, Sums
  <2>. QED BY <1>6, <2>1, <2>2, OtherSum
<1>. QED BY <1>2, <1>3, <1>4, <1>5, <1>6 DEF BundleNext, BundleCode

\* Nothing has been read when the call starts.
LEMMA InitSums == BundleInit => Sums
<1>. SUFFICES ASSUME BundleInit PROVE Sums
  OBVIOUS
<1>1. available = 0 /\ DOMAIN ixs = {} /\ packing = "idle"
  BY DEF BundleInit, Init, NoTransfers
<1>. QED BY <1>1, SumEmpty DEF Sums, SumFunction

\* How many transfers the engine's bundle has room for.
LEMMA RoomInBundle ==
    ASSUME NEW u \in BOOLEAN, NEW n \in Nat
    PROVE  TxsNeeded(n, u) <= MaxTxs <=>
               n <= MaxTxs * PerTx(u) - (IF TipFitsFull(u) THEN 0 ELSE 1)
<1>. DEFINE d == PerTx(u)
            q == n \div d
            r == n % d
            m == MaxTxs
<1>1. d \in Nat /\ d >= 1 /\ m \in Nat /\ m >= 1
  <2>1. d \in Nat /\ d >= 1
    BY FitsCount, Zenon
  <2>2. m \in Nat /\ m >= 1
    BY PayTxAssumption
  <2>. QED BY <2>1, <2>2
<1>. HIDE DEF d, m
<1>2. q \in Nat /\ r \in 0..d-1 /\ n = d * q + r
  BY <1>1
<1>3. TxsNeeded(n, u) = q + (IF n > 0 /\ r = 0 /\ TipFitsFull(u) THEN 0 ELSE 1)
  BY DEF TxsNeeded, d
<1>. HIDE DEF q, r
<1>4. q < m <=> n < d * m
  <2>1. d * (q + 1) = d * q + d /\ d * q \in Nat /\ d * m \in Nat
    BY <1>1, <1>2
  <2>2. q < m => d * (q + 1) <= d * m
    BY <1>1, <1>2
  <2>3. ~(q < m) => d * m <= d * q
    BY <1>1, <1>2
  <2>. QED BY <1>1, <1>2, <2>1, <2>2, <2>3
<1>5. q <= m /\ r = 0 <=> n <= d * m /\ r = 0
  <2>1. q <= m => d * q <= d * m
    BY <1>1, <1>2
  <2>2. d * (m + 1) = d * m + d /\ d * q \in Nat /\ d * m \in Nat
    BY <1>1, <1>2
  <2>3. ~(q <= m) => d * (m + 1) <= d * q
    BY <1>1, <1>2
  <2>. QED BY <1>1, <1>2, <2>1, <2>2, <2>3
<1>6. m * d = d * m /\ d * m \in Nat /\ d * m >= 1
  BY <1>1
<1>7. n <= d * m /\ r # 0 => n < d * m
  <2>1. SUFFICES ASSUME n = d * m, r # 0 PROVE FALSE
    BY <1>6
  <2>2. (m * d + 0) % d = 0
    BY <1>1, Divide
  <2>. QED BY <1>6, <2>1, <2>2 DEF r
<1>8. CASE n = 0
  <2>1. q < m
    BY <1>1, <1>4, <1>6, <1>8
  <2>. QED BY <1>2, <1>3, <1>6, <1>8, <2>1, <1>1 DEF d, m
<1>9. CASE n > 0
  BY <1>1, <1>2, <1>3, <1>4, <1>5, <1>6, <1>7, <1>9 DEF d, m
<1>. QED BY <1>8, <1>9

\* The counting of PayPacking is that of Collect.
LEMMA SameCount ==
    /\ \A n, u : Packing!TxsNeeded(n, u) = TxsNeeded(n, u)
    /\ \A u : Packing!PerTx(u) = PerTx(u) /\ (Packing!TipFitsFull(u) <=> TipFitsFull(u))
  BY DEF Packing!TxsNeeded, Packing!PerTx, Packing!TipFitsFull, Packing!Size, Packing!Base,
         Packing!Recipient, Packing!Transfer, Packing!TipSize, TxsNeeded, PerTx, TipFitsFull,
         Size, Base, Recipient, Transfer, TipSize

\* Whatever balances were read and however many wallets there are: each
\* transfer is in one transaction that the chain takes, the tip at the end of
\* the last one, the bundle is refused exactly when it is too long for the
\* engine, and the transfers add up to what the checks were made on.
THEOREM BundleRightAlways == BundleSpec => []BundleRight
<1>1. ASSUME BInv, Sums PROVE BundleRight
  <2>0. Transfers \in Nat /\ toUser \in BOOLEAN
    BY <1>1, TransfersNat DEF BInv, CInv, TypeOK
  <2>1. Packing!AllFit
    BY <1>1, Instance DEF BInv, Shape, Packing!AllFit
  <2>2. Packing!AllOnceTipLast
    BY <1>1 DEF Packing!AllOnceTipLast, BInv, Shape, Sums, Transfers
  <2>3. Packing!LengthAsCounted
    <3>1. SUFFICES ASSUME packing = "packed"
                   PROVE  /\ Len(txs) = TxsNeeded(Transfers, toUser)
                          /\ Len(txs) <= MaxTxs <=>
                                 Transfers <= MaxTxs * PerTx(toUser) - (IF TipFitsFull(toUser) THEN 0 ELSE 1)
      BY SameCount, Zenon DEF Packing!LengthAsCounted, Transfers
    <3>2. Len(txs) = TxsNeeded(Transfers, toUser)
      BY <1>1, <3>1 DEF BInv, Shape
    <3>. QED BY <2>0, <3>2, RoomInBundle
  <2>4. packing = "packed" => (Refused <=> Len(txs) > MaxTxs)
    BY <1>1 DEF BInv, Shape, Refused, Transfers
  <2>. QED BY <1>1, <2>1, <2>2, <2>3, <2>4 DEF BundleRight, Packing!PackedRight, Sums
<1>. QED BY <1>1, AlwaysBInv, InitSums, NextSums, PTL DEF BundleSpec

\* With the chain's limit nine transfers fit a transaction, and with the
\* engine's five a bundle takes 45 wallets for the admin, whose tip fits
\* exactly, and one less for a user.
THEOREM RealSizes ==
    ASSUME TxLimit = 1232
    PROVE  /\ PerTx(FALSE) = 9 /\ PerTx(TRUE) = 9
           /\ TipFitsFull(FALSE) /\ ~TipFitsFull(TRUE)
           /\ TxsNeeded(45, FALSE) = 5 /\ TxsNeeded(46, FALSE) = 6
           /\ TxsNeeded(44, TRUE) = 5 /\ TxsNeeded(45, TRUE) = 6
<1>. USE DEF Size, Base, Recipient, Transfer, TipSize
<1>1. PerTx(FALSE) = 9 /\ PerTx(TRUE) = 9
  BY DEF PerTx
<1>2. TipFitsFull(FALSE) /\ ~TipFitsFull(TRUE)
  BY DEF TipFitsFull, PerTx
<1>3. TxsNeeded(45, FALSE) = 5 /\ TxsNeeded(46, FALSE) = 6
  BY DEF TxsNeeded, TipFitsFull, PerTx
<1>4. TxsNeeded(44, TRUE) = 5 /\ TxsNeeded(45, TRUE) = 6
  BY DEF TxsNeeded, TipFitsFull, PerTx
<1>. QED BY <1>1, <1>2, <1>3, <1>4, Zenon
=============================================================================
