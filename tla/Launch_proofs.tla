---------------------------- MODULE Launch_proofs ----------------------------
(***************************************************************************)
(* The launch for every bundle size, every list of buyers and either       *)
(* delay.  First the packing (BundlePacking): its loops keep an invariant  *)
(* that says which buyers have been packed so far and how full the open    *)
(* transaction is.  Then the two tasks and the chain (Launch), whatever    *)
(* bundles are lost or land twice and whatever calls fail.                 *)
(***************************************************************************)
EXTENDS Launch, FiniteSetTheorems, TLAPS

USE PackingAssumption

\* Pushing a transaction adds its buyers to the group's.
LEMMA BuyersOfAppend ==
    ASSUME NEW s \in Seq(Txs), NEW t \in Txs
    PROVE  BuyersOf(Append(s, t)) = BuyersOf(s) \cup t.buyers
<1>1. DOMAIN s = 1..Len(s) /\ DOMAIN Append(s, t) = 1..(Len(s) + 1) /\ Len(s) \in Nat
  OBVIOUS
<1>2. \A k \in 1..Len(s) : Append(s, t)[k] = s[k]
  OBVIOUS
<1>3. Append(s, t)[Len(s) + 1] = t
  OBVIOUS
<1>4. ASSUME NEW b \in BuyersOf(Append(s, t)) PROVE b \in BuyersOf(s) \cup t.buyers
  <2>1. PICK k \in 1..(Len(s) + 1) : b \in Append(s, t)[k].buyers
    BY <1>1, <1>4 DEF BuyersOf
  <2>2. CASE k = Len(s) + 1
    BY <2>1, <2>2, <1>3
  <2>3. CASE k # Len(s) + 1
    <3>1. k \in 1..Len(s) BY <2>3, <1>1
    <3>2. b \in s[k].buyers BY <3>1, <2>1, <1>2
    <3>. QED BY <3>1, <3>2, <1>1 DEF BuyersOf
  <2>. QED BY <2>2, <2>3
<1>5. ASSUME NEW b \in BuyersOf(s) PROVE b \in BuyersOf(Append(s, t))
  <2>1. PICK k \in 1..Len(s) : b \in s[k].buyers
    BY <1>1, <1>5 DEF BuyersOf
  <2>2. k \in 1..(Len(s) + 1) /\ b \in Append(s, t)[k].buyers
    BY <2>1, <1>1, <1>2
  <2>. QED BY <2>2, <1>1 DEF BuyersOf
<1>6. ASSUME NEW b \in t.buyers PROVE b \in BuyersOf(Append(s, t))
  <2>1. Len(s) + 1 \in 1..(Len(s) + 1) BY <1>1
  <2>2. b \in Append(s, t)[Len(s) + 1].buyers BY <1>3, <1>6
  <2>. QED BY <2>1, <2>2, <1>1 DEF BuyersOf
<1>. QED BY <1>4, <1>5, <1>6

\* A pushed transaction with new buyers only keeps the group's apart.
LEMMA DisjointAppend ==
    ASSUME NEW s \in Seq(Txs), NEW t \in Txs, Disjoint(s), BuyersOf(s) \cap t.buyers = {}
    PROVE  Disjoint(Append(s, t))
<1>1. DOMAIN s = 1..Len(s) /\ DOMAIN Append(s, t) = 1..(Len(s) + 1) /\ Len(s) \in Nat
  OBVIOUS
<1>2. \A k \in 1..Len(s) : Append(s, t)[k] = s[k]
  OBVIOUS
<1>3. Append(s, t)[Len(s) + 1] = t
  OBVIOUS
<1>4. \A k \in 1..Len(s) : s[k].buyers \cap t.buyers = {}
  BY <1>1 DEF BuyersOf
<1>5. SUFFICES ASSUME NEW j \in 1..(Len(s) + 1), NEW k \in 1..(Len(s) + 1), j # k
               PROVE  Append(s, t)[j].buyers \cap Append(s, t)[k].buyers = {}
  BY <1>1 DEF Disjoint
<1>6. CASE j \in 1..Len(s) /\ k \in 1..Len(s)
  BY <1>1, <1>2, <1>5, <1>6 DEF Disjoint
<1>7. CASE j = Len(s) + 1
  <2>1. k \in 1..Len(s) BY <1>1, <1>5, <1>7
  <2>. QED BY <2>1, <1>2, <1>3, <1>4, <1>7
<1>8. CASE k = Len(s) + 1
  <2>1. j \in 1..Len(s) BY <1>1, <1>5, <1>8
  <2>. QED BY <2>1, <1>2, <1>3, <1>4, <1>8
<1>. QED BY <1>1, <1>6, <1>7, <1>8

-----------------------------------------------------------------------------

\* The buyers the first group holds when its loop is over.
FirstGroup == IF withDelay THEN {} ELSE {b \in 0..n-1 : b <= MaxFirst}

\* What the first loop has packed, and what is in the open transaction.
FirstInv ==
    pc = "first" =>
        /\ ~withDelay
        /\ index < n /\ index <= MaxFirst
        /\ BuyersOf(first) \cup cur = 0..index-1
        /\ BuyersOf(first) \cap cur = {}

\* The late loop, from Skip on; the open transaction is empty when it ends.
RestInv ==
    pc = "rest" =>
        /\ BuyersOf(rest) \cup cur = Skip..(Skip + index - 1)
        /\ BuyersOf(rest) \cap cur = {}
        /\ index > 0 => Skip + index <= n
        /\ Skip + index >= n => cur = {}

\* What is settled outside the loops.
StageInv ==
    /\ pc = "create" => index = 0 /\ cur = {} /\ first = <<>>
    /\ pc \in {"create", "first"} => rest = <<>>
    /\ pc \in {"rest", "packed"} => BuyersOf(first) = FirstGroup
    /\ pc = "packed" => BuyersOf(rest) = Skip..n-1

PackInv == PackTypeOK /\ OncePerGroup /\ FirstInv /\ RestInv /\ StageInv

\* A group without transactions has no buyers.
LEMMA EmptyGroup == BuyersOf(<<>>) = {} /\ Disjoint(<<>>)
  BY DEF BuyersOf, Disjoint

\* A group of one transaction has the buyers of that transaction.
LEMMA SingletonGroup ==
    ASSUME NEW t \in Txs
    PROVE  BuyersOf(<<t>>) = t.buyers /\ Disjoint(<<t>>) /\ <<t>> \in Seq(Txs)
<1>1. DOMAIN <<t>> = {1} /\ <<t>>[1] = t
  OBVIOUS
<1>2. BuyersOf(<<t>>) = t.buyers
  BY <1>1, Zenon DEF BuyersOf
<1>3. Disjoint(<<t>>)
  BY <1>1 DEF Disjoint
<1>. QED BY <1>2, <1>3

\* The invariant holds when process_bundle starts packing.
LEMMA PackInitInv == PackInit => PackInv
  BY EmptyGroup DEF PackInit, PackInv, PackTypeOK, OncePerGroup, FirstInv, RestInv, StageInv

\* Every transaction the loops push is one.
LEMMA PushedTx ==
    ASSUME NEW buyers \in SUBSET (0..MaxBuyers-1), NEW create \in BOOLEAN, NEW tip \in BOOLEAN
    PROVE  Tx(create, buyers, tip) \in Txs /\ Tx(create, buyers, tip).buyers = buyers
  BY DEF Tx, Txs

\* The developer's transaction keeps the invariant.
LEMMA CreateTxInv == PackInv /\ CreateTx => PackInv'
<1>. SUFFICES ASSUME PackInv, CreateTx PROVE PackInv'
  OBVIOUS
<1>. USE DEF PackInv, CreateTx
<1>. DEFINE tx == Tx(TRUE, {}, DevTips)
<1>1. tx \in Txs /\ tx.buyers = {} /\ first' = <<tx>>
  <2>1. DevTips \in BOOLEAN BY DEF PackTypeOK, DevTips
  <2>. QED BY <2>1, PushedTx
<1>. HIDE DEF tx
<1>2. BuyersOf(first') = {} /\ Disjoint(first') /\ first' \in Seq(Txs)
  BY <1>1, SingletonGroup
<1>3. /\ index = 0 /\ cur = {} /\ rest = <<>> /\ pc = "create"
      /\ n \in 1..MaxBuyers /\ withDelay \in BOOLEAN /\ rest \in Seq(Txs)
  BY DEF StageInv, PackTypeOK
<1>4. OncePerGroup'
  BY <1>2, <1>3, EmptyGroup DEF OncePerGroup
<1>5. PackTypeOK'
  BY <1>2, <1>3 DEF PackTypeOK
<1>6. FirstInv'
  <2>1. pc' = "first" => ~withDelay'
    OBVIOUS
  <2>2. index' < n' /\ index' <= MaxFirst /\ 0..index'-1 = {} /\ cur' = {}
    BY <1>3
  <2>. QED BY <2>1, <2>2, <1>2 DEF FirstInv
<1>7. Skip' = Skip /\ Skip \in Nat /\ n \in Nat
  BY DEF Skip, PackTypeOK
<1>8. RestInv'
  <2>1. index' = 0 /\ cur' = {} /\ BuyersOf(rest') = {}
    BY <1>3, EmptyGroup
  <2>2. Skip'..(Skip' + index' - 1) = {}
    BY <2>1, <1>7
  <2>. QED BY <2>1, <2>2 DEF RestInv
<1>9. StageInv'
  <2>1. (pc' = "rest" /\ withDelay') \/ pc' = "first"
    BY <1>3
  <2>2. BuyersOf(first') = {} /\ rest' = <<>>
    BY <1>2, <1>3
  <2>. QED BY <2>1, <2>2 DEF StageInv, FirstGroup
<1>. QED BY <1>4, <1>5, <1>6, <1>8, <1>9

\* A turn of the loop of the first bundle keeps it.
LEMMA FirstBuyerInv == PackInv /\ FirstBuyer => PackInv'
<1>. SUFFICES ASSUME PackInv, FirstBuyer PROVE PackInv'
  OBVIOUS
<1>. DEFINE buyers == cur \cup {index}
            pushed == ClosesFirst \/ FullTx
            tx == Tx(FALSE, buyers, ClosesFirst)
<1>1. /\ pc = "first"
      /\ first' = IF pushed THEN Append(first, tx) ELSE first
      /\ cur' = IF pushed THEN {} ELSE buyers
      /\ UNCHANGED <<n, withDelay, rest>>
      /\ \/ ClosesFirst /\ pc' = "rest" /\ index' = 0
         \/ ~ClosesFirst /\ pc' = "first" /\ index' = index + 1
  BY DEF FirstBuyer, Refill
<1>2. /\ ~withDelay /\ index < n /\ index <= MaxFirst /\ rest = <<>>
      /\ BuyersOf(first) \cup cur = 0..index-1 /\ BuyersOf(first) \cap cur = {}
      /\ Disjoint(first) /\ first \in Seq(Txs)
      /\ n \in 1..MaxBuyers /\ index \in 0..MaxBuyers
  BY <1>1 DEF PackInv, FirstInv, StageInv, OncePerGroup, PackTypeOK
<1>3. buyers \subseteq 0..MaxBuyers-1 /\ BuyersOf(first) \cap buyers = {}
      /\ BuyersOf(first) \cup buyers = 0..index
  BY <1>2
<1>4. tx \in Txs /\ tx.buyers = buyers
  BY <1>3, PushedTx DEF ClosesFirst
<1>. HIDE DEF tx, buyers
<1>5. BuyersOf(first') \cup cur' = 0..index /\ BuyersOf(first') \cap cur' = {}
      /\ Disjoint(first') /\ first' \in Seq(Txs)
  <2>1. CASE pushed
    BY <2>1, <1>1, <1>2, <1>3, <1>4, BuyersOfAppend, DisjointAppend
  <2>2. CASE ~pushed
    BY <2>2, <1>1, <1>2, <1>3
  <2>. QED BY <2>1, <2>2
<1>6. CASE ClosesFirst
  <2>1. cur' = {} /\ pc' = "rest" /\ index' = 0 /\ BuyersOf(first') = 0..index
    BY <1>1, <1>5, <1>6
  <2>2. PackTypeOK'
    BY <2>1, <1>1, <1>5 DEF PackInv, PackTypeOK
  <2>3. OncePerGroup'
    BY <1>1, <1>5 DEF PackInv, OncePerGroup
  <2>4. 0..index = FirstGroup
    BY <1>2, <1>6 DEF ClosesFirst, FirstGroup
  <2>5. StageInv'
    BY <2>1, <2>4, <1>1 DEF StageInv, FirstGroup
  <2>6. Skip' = Skip /\ Skip \in Nat
    BY <1>1 DEF Skip
  <2>7. RestInv'
    <3>1. BuyersOf(rest') = {}
      BY <1>1, <1>2, EmptyGroup
    <3>2. Skip'..(Skip' + index' - 1) = {}
      BY <2>1, <2>6
    <3>. QED BY <3>1, <3>2, <2>1 DEF RestInv
  <2>. QED BY <2>1, <2>2, <2>3, <2>5, <2>7 DEF PackInv, FirstInv
<1>7. CASE ~ClosesFirst
  <2>1. pc' = "first" /\ index' = index + 1
    BY <1>1, <1>7
  <2>2. index + 1 < n /\ index + 1 <= MaxFirst
    BY <1>2, <1>7 DEF ClosesFirst
  <2>3. cur' \subseteq 0..MaxBuyers-1
    BY <1>1, <1>3 DEF buyers
  <2>4. PackTypeOK'
    BY <2>1, <2>2, <2>3, <1>1, <1>2, <1>5 DEF PackInv, PackTypeOK
  <2>5. OncePerGroup'
    BY <1>1, <1>5 DEF PackInv, OncePerGroup
  <2>6. FirstInv'
    BY <2>1, <2>2, <1>1, <1>2, <1>5 DEF FirstInv
  <2>. QED BY <2>1, <2>4, <2>5, <2>6, <1>1, <1>2 DEF PackInv, RestInv, StageInv
<1>. QED BY <1>6, <1>7

\* A turn of the loop of the late bundles keeps it.
LEMMA RestBuyerInv == PackInv /\ RestBuyer => PackInv'
<1>. SUFFICES ASSUME PackInv, RestBuyer PROVE PackInv'
  OBVIOUS
<1>. DEFINE buyers == cur \cup {Skip + index}
            tipped == TipsFullChunk \/ LastRest
            pushed == tipped \/ FullTx
            tx == Tx(FALSE, buyers, tipped)
<1>1. /\ pc = "rest" /\ pc' = "rest" /\ Skip + index < n
      /\ rest' = IF pushed THEN Append(rest, tx) ELSE rest
      /\ cur' = IF pushed THEN {} ELSE buyers
      /\ index' = index + 1
      /\ UNCHANGED <<n, withDelay, first>>
  BY DEF RestBuyer, Refill, MoreRest
<1>2. /\ BuyersOf(rest) \cup cur = Skip..(Skip + index - 1) /\ BuyersOf(rest) \cap cur = {}
      /\ Disjoint(rest) /\ rest \in Seq(Txs)
      /\ n \in 1..MaxBuyers /\ index \in 0..MaxBuyers /\ cur \subseteq 0..MaxBuyers-1
  BY <1>1 DEF PackInv, RestInv, OncePerGroup, PackTypeOK
<1>3. Skip' = Skip /\ Skip \in Nat
  BY <1>1 DEF Skip
<1>4. buyers \subseteq 0..MaxBuyers-1 /\ BuyersOf(rest) \cap buyers = {}
      /\ BuyersOf(rest) \cup buyers = Skip..(Skip + index)
  BY <1>1, <1>2, <1>3
<1>5. tx \in Txs /\ tx.buyers = buyers
  BY <1>4, PushedTx DEF TipsFullChunk, LastRest
<1>6. pushed \/ Skip + index + 1 < n
  BY <1>1, <1>2, <1>3 DEF LastRest
<1>. HIDE DEF tx, buyers, pushed
<1>7. BuyersOf(rest') \cup cur' = Skip..(Skip + index) /\ BuyersOf(rest') \cap cur' = {}
      /\ Disjoint(rest') /\ rest' \in Seq(Txs)
  <2>1. CASE pushed
    BY <2>1, <1>1, <1>2, <1>4, <1>5, BuyersOfAppend, DisjointAppend
  <2>2. CASE ~pushed
    BY <2>2, <1>1, <1>2, <1>4
  <2>. QED BY <2>1, <2>2
<1>8. cur' \subseteq 0..MaxBuyers-1
  BY <1>1, <1>4
<1>9. PackTypeOK'
  BY <1>1, <1>2, <1>3, <1>7, <1>8 DEF PackInv, PackTypeOK
<1>10. OncePerGroup'
  BY <1>1, <1>7 DEF PackInv, OncePerGroup
<1>11. RestInv'
  BY <1>1, <1>2, <1>3, <1>6, <1>7 DEF RestInv
<1>12. StageInv'
  BY <1>1 DEF PackInv, StageInv, FirstGroup
<1>. QED BY <1>1, <1>9, <1>10, <1>11, <1>12 DEF PackInv, FirstInv

\* So does leaving that loop: all buyers from Skip on have been packed.
LEMMA RestEndInv == PackInv /\ RestEnd => PackInv'
<1>. SUFFICES ASSUME PackInv, RestEnd PROVE PackInv'
  OBVIOUS
<1>1. /\ pc = "rest" /\ pc' = "packed" /\ Skip + index >= n
      /\ UNCHANGED <<n, withDelay, index, cur, first, rest>>
  BY DEF RestEnd, MoreRest, PackInv, PackTypeOK, Skip
<1>2. n \in Nat /\ index \in Nat /\ Skip \in Nat
  BY DEF PackInv, PackTypeOK, Skip
<1>3. BuyersOf(rest) = Skip..(Skip + index - 1)
  BY <1>1, <1>2 DEF PackInv, RestInv
<1>4. BuyersOf(rest) = Skip..n-1
  <2>1. CASE index = 0
    BY <2>1, <1>1, <1>2, <1>3
  <2>2. CASE index # 0
    BY <2>2, <1>1, <1>2, <1>3 DEF PackInv, RestInv
  <2>. QED BY <2>1, <2>2
<1>5. PackTypeOK' /\ OncePerGroup'
  BY <1>1 DEF PackInv, PackTypeOK, OncePerGroup
<1>6. StageInv'
  BY <1>1, <1>4 DEF PackInv, StageInv, FirstGroup, Skip
<1>. QED BY <1>1, <1>5, <1>6 DEF PackInv, FirstInv, RestInv

\* So does a step that changes nothing.
LEMMA PackStutterInv == PackInv /\ UNCHANGED packVars => PackInv'
  BY DEF PackInv, packVars, PackTypeOK, OncePerGroup, FirstInv, RestInv, StageInv,
         FirstGroup, Skip

-----------------------------------------------------------------------------

\* The loops keep the invariant, whatever the constants.
THEOREM PackInvariant == PackSpec => []PackInv
<1>1. PackInv /\ [PackNext]_packVars => PackInv'
  BY CreateTxInv, FirstBuyerInv, RestBuyerInv, RestEndInv, PackStutterInv DEF PackNext
<1>. QED BY PackInitInv, <1>1, PTL DEF PackSpec

\* Every variable keeps to its set of values.
THEOREM PackTypeCorrect == PackSpec => []PackTypeOK
<1>1. PackInv => PackTypeOK BY DEF PackInv
<1>. QED BY PackInvariant, <1>1, PTL

\* Every buyer of the request is in some transaction once both loops have run.
THEOREM NoBuyerLostCorrect == PackSpec => []NoBuyerLost
<1>1. PackInv => NoBuyerLost
  <2>. SUFFICES ASSUME PackInv, pc = "packed"
                PROVE  BuyersOf(first) \cup BuyersOf(rest) = 0..n-1
    BY DEF NoBuyerLost
  <2>1. BuyersOf(first) = FirstGroup /\ BuyersOf(rest) = Skip..n-1 /\ n \in Nat
    BY DEF PackInv, StageInv, PackTypeOK
  <2>. QED BY <2>1 DEF FirstGroup, Skip, PackInv, PackTypeOK
<1>. QED BY PackInvariant, <1>1, PTL

\* No buyer is twice in one group of transactions.
THEOREM OncePerGroupCorrect == PackSpec => []OncePerGroup
<1>1. PackInv => OncePerGroup BY DEF PackInv
<1>. QED BY PackInvariant, <1>1, PTL

\* The delayed task is started exactly when there is a late buyer for it: the
\* buyers left over by Skip are none when has_delayed_bundle is false.
THEOREM DelayedIffLateBuyer ==
    PackSpec => [](pc = "packed" => (HasDelayedBundle <=> BuyersOf(rest) # {}))
<1>1. PackInv => (pc = "packed" => (HasDelayedBundle <=> BuyersOf(rest) # {}))
  <2>. SUFFICES ASSUME PackInv, pc = "packed"
                PROVE  HasDelayedBundle <=> BuyersOf(rest) # {}
    OBVIOUS
  <2>1. BuyersOf(rest) = Skip..n-1 /\ n \in 1..MaxBuyers /\ withDelay \in BOOLEAN
    BY DEF PackInv, StageInv, PackTypeOK
  <2>2. CASE withDelay
    <3>1. 0 \in Skip..n-1 BY <2>1, <2>2 DEF Skip
    <3>. QED BY <3>1, <2>1, <2>2 DEF HasDelayedBundle
  <2>3. CASE ~withDelay
    <3>1. Skip = MaxFirst BY <2>3 DEF Skip
    <3>2. CASE n >= MaxFirst + 1
      <4>1. MaxFirst \in MaxFirst..n-1 BY <3>2, <2>1
      <4>. QED BY <4>1, <3>1, <3>2, <2>1 DEF HasDelayedBundle
    <3>3. CASE ~(n >= MaxFirst + 1)
      <4>1. MaxFirst..n-1 = {} BY <3>3, <2>1
      <4>. QED BY <4>1, <3>1, <3>3, <2>1, <2>3 DEF HasDelayedBundle
    <3>. QED BY <3>2, <3>3
  <2>. QED BY <2>1, <2>2, <2>3
<1>. QED BY PackInvariant, <1>1, PTL

-----------------------------------------------------------------------------
(* How large the transactions and the first bundle become. *)

\* Quotient and remainder are determined by the number.
LEMMA DivMod ==
    ASSUME NEW i \in Nat
    PROVE  /\ i \div PerTx \in Nat /\ i % PerTx \in 0..PerTx-1
           /\ i = PerTx * (i \div PerTx) + (i % PerTx)
  OBVIOUS

LEMMA TimesMonotone ==
    ASSUME NEW a \in Nat, NEW b \in Nat, a <= b
    PROVE  PerTx * a <= PerTx * b
  OBVIOUS

LEMMA SameDivMod ==
    ASSUME NEW p \in Nat, NEW q \in Nat, NEW r \in 0..PerTx-1, NEW s \in 0..PerTx-1,
           PerTx * p + r = PerTx * q + s
    PROVE  p = q /\ r = s
<1>1. PerTx * (p + 1) = PerTx * p + PerTx /\ PerTx * (q + 1) = PerTx * q + PerTx
      /\ PerTx * p \in Nat /\ PerTx * q \in Nat
  OBVIOUS
<1>2. ~(p + 1 <= q)
  <2>1. p + 1 <= q => PerTx * (p + 1) <= PerTx * q
    BY TimesMonotone
  <2>. QED BY <1>1, <2>1
<1>3. ~(q + 1 <= p)
  <2>1. q + 1 <= p => PerTx * (q + 1) <= PerTx * p
    BY TimesMonotone
  <2>. QED BY <1>1, <2>1
<1>4. p = q
  BY <1>2, <1>3
<1>. QED BY <1>1, <1>4

\* The next index opens a transaction, or stays in the one before it.
LEMMA NextIndex ==
    ASSUME NEW i \in Nat
    PROVE  /\ (i + 1) % PerTx = 0 => (i + 1) \div PerTx = (i \div PerTx) + 1
           /\ (i + 1) % PerTx # 0 => /\ (i + 1) % PerTx = (i % PerTx) + 1
                                     /\ (i + 1) \div PerTx = i \div PerTx
<1>. DEFINE q == i \div PerTx
            r == i % PerTx
            q1 == (i + 1) \div PerTx
            r1 == (i + 1) % PerTx
<1>1. q \in Nat /\ r \in 0..PerTx-1 /\ i = PerTx * q + r
  BY DivMod
<1>2. q1 \in Nat /\ r1 \in 0..PerTx-1 /\ i + 1 = PerTx * q1 + r1
  BY DivMod
<1>. HIDE DEF q, r, q1, r1
<1>3. PerTx * (q + 1) = PerTx * q + PerTx /\ PerTx * q \in Nat /\ PerTx * q1 \in Nat
  BY <1>1, <1>2
<1>4. CASE r = PerTx - 1
  <2>1. PerTx * q1 + r1 = PerTx * (q + 1) + 0
    BY <1>1, <1>2, <1>3, <1>4
  <2>2. q1 = q + 1 /\ r1 = 0
    BY <1>1, <1>2, <2>1, SameDivMod
  <2>. QED BY <1>4, <2>2 DEF q, r, q1, r1
<1>5. CASE r # PerTx - 1
  <2>1. PerTx * q1 + r1 = PerTx * q + (r + 1) /\ r + 1 \in 0..PerTx-1
    BY <1>1, <1>2, <1>3, <1>5
  <2>2. q1 = q /\ r1 = r + 1
    BY <1>1, <1>2, <2>1, SameDivMod
  <2>. QED BY <1>1, <1>5, <2>2 DEF q, r, q1, r1
<1>. QED BY <1>4, <1>5

\* Zero opens the first transaction.
LEMMA ZeroIndex == 0 % PerTx = 0 /\ 0 \div PerTx = 0
<1>1. 0 \div PerTx \in Nat /\ 0 % PerTx \in 0..PerTx-1
      /\ PerTx * (0 \div PerTx) + (0 % PerTx) = PerTx * 0 + 0
  BY DivMod
<1>. QED BY <1>1, SameDivMod

\* An earlier index is not in a later transaction.
LEMMA DivMonotone ==
    ASSUME NEW i \in Nat, NEW j \in Nat, i <= j
    PROVE  i \div PerTx <= j \div PerTx
<1>. DEFINE p == i \div PerTx
            q == j \div PerTx
<1>1. p \in Nat /\ PerTx * p <= i
  BY DivMod
<1>2. q \in Nat /\ j < PerTx * q + PerTx
  BY DivMod
<1>. HIDE DEF p, q
<1>3. PerTx * (q + 1) = PerTx * q + PerTx /\ PerTx * q \in Nat /\ PerTx * p \in Nat
  BY <1>1, <1>2
<1>4. q + 1 <= p => PerTx * (q + 1) <= PerTx * p
  BY <1>1, <1>2, TimesMonotone
<1>5. p <= q
  BY <1>1, <1>2, <1>3, <1>4
<1>. QED BY <1>5 DEF p, q

\* The test for a tip in help.rs:252 never succeeds: 1 % 5 is 1.
LEMMA NeverTipsFullChunk == PackTypeOK => ~TipsFullChunk
<1>. SUFFICES ASSUME PackTypeOK, 1 % ChunkTxs = 0 PROVE FALSE
  <2>1. 1 % ChunkTxs \in Nat
    OBVIOUS
  <2>2. Len(rest) \in Nat
    BY DEF PackTypeOK
  <2>. QED BY <2>1, <2>2 DEF TipsFullChunk
<1>. DEFINE q == 1 \div ChunkTxs
<1>1. q \in Int /\ 1 = ChunkTxs * q
  OBVIOUS
<1>. HIDE DEF q
<1>2. CASE q <= 0
  <2>1. ChunkTxs * q <= 0 BY <1>1, <1>2
  <2>. QED BY <1>1, <2>1
<1>3. CASE q >= 1
  <2>1. ChunkTxs * q >= ChunkTxs BY <1>1, <1>3
  <2>. QED BY <1>1, <2>1
<1>. QED BY <1>1, <1>2, <1>3

\* The open transaction holds the buyers before a, back to the last multiple
\* of PerTx.
OpenTx(a) == cur = (a - (index % PerTx))..(a - 1)

\* With one buyer more it is not too large.
LEMMA OneMoreBuyer ==
    ASSUME NEW a \in Int, index \in Nat, OpenTx(a)
    PROVE  /\ cur \cup {a} = (a - (index % PerTx))..a
           /\ Cardinality(cur \cup {a}) <= PerTx
<1>. DEFINE r == index % PerTx
<1>1. r \in 0..PerTx-1 /\ cur = (a - r)..(a - 1)
  BY DivMod DEF OpenTx
<1>. HIDE DEF r
<1>2. cur \cup {a} = (a - r)..a
  BY <1>1
<1>3. Cardinality((a - r)..a) = r + 1
  <2>1. a - r \in Int /\ ~(a - r > a) /\ a - (a - r) + 1 = r + 1
    BY <1>1
  <2>2. Cardinality((a - r)..a) = IF a - r > a THEN 0 ELSE a - (a - r) + 1
    BY <2>1, FS_Interval
  <2>. QED BY <2>1, <2>2
<1>4. Cardinality(cur \cup {a}) <= PerTx
  <2>1. Cardinality((a - r)..a) <= PerTx
    BY <1>1, <1>3
  <2>. QED BY <2>1, <1>2, Zenon
<1>. QED BY <1>2, <1>4 DEF r

\* The turn of a loop leaves the open transaction to the next.
LEMMA NextTurn ==
    ASSUME NEW a \in Int, index \in Nat, OpenTx(a), index' = index + 1,
           cur' = IF FullTx THEN {} ELSE cur \cup {a}
    PROVE  cur' = ((a + 1) - (index' % PerTx))..((a + 1) - 1)
<1>1. CASE FullTx
  <2>1. index' % PerTx = 0 /\ cur' = {}
    BY <1>1 DEF FullTx
  <2>2. ((a + 1) - 0)..((a + 1) - 1) = {}
    OBVIOUS
  <2>. QED BY <2>1, <2>2
<1>2. CASE ~FullTx
  <2>. DEFINE r == index % PerTx
  <2>1. r \in Int
    BY DivMod
  <2>2. index' % PerTx = r + 1
    BY <1>2, NextIndex DEF FullTx
  <2>3. cur' = (a - r)..a
    BY <1>2, OneMoreBuyer
  <2>. HIDE DEF r
  <2>4. (a + 1) - (r + 1) = a - r /\ (a + 1) - 1 = a
    BY <2>1
  <2>. QED BY <2>2, <2>3, <2>4
<1>. QED BY <1>1, <1>2

Sized(txs) == \A k \in DOMAIN txs : Cardinality(txs[k].buyers) <= PerTx
Used(txs) == \A k \in DOMAIN txs : txs[k].buyers # {}

\* What a pushed transaction does to the sizes and the tips of its group.
LEMMA AppendSized ==
    ASSUME NEW s \in Seq(Txs), NEW t \in Txs
    PROVE  /\ Len(Append(s, t)) = Len(s) + 1
           /\ Sized(s) /\ Cardinality(t.buyers) <= PerTx => Sized(Append(s, t))
           /\ Used(s) /\ t.buyers # {} => Used(Append(s, t))
           /\ Tips(s) = {} /\ ~t.tip => Tips(Append(s, t)) = {}
           /\ Tips(s) = {} /\ t.tip => Tips(Append(s, t)) = {Len(s) + 1}
<1>1. DOMAIN s = 1..Len(s) /\ DOMAIN Append(s, t) = 1..(Len(s) + 1) /\ Len(s) \in Nat
      /\ Len(Append(s, t)) = Len(s) + 1
  OBVIOUS
<1>2. \A k \in 1..Len(s) : Append(s, t)[k] = s[k]
  OBVIOUS
<1>3. Append(s, t)[Len(s) + 1] = t
  OBVIOUS
<1>4. \A k \in 1..(Len(s) + 1) : k = Len(s) + 1 \/ k \in 1..Len(s)
  BY <1>1
<1>5. Sized(s) /\ Cardinality(t.buyers) <= PerTx => Sized(Append(s, t))
  BY <1>1, <1>2, <1>3, <1>4 DEF Sized
<1>6. Used(s) /\ t.buyers # {} => Used(Append(s, t))
  BY <1>1, <1>2, <1>3, <1>4 DEF Used
<1>7. Len(s) + 1 \in 1..(Len(s) + 1)
  BY <1>1
<1>8. Tips(s) = {} => \A k \in 1..Len(s) : ~Append(s, t)[k].tip
  BY <1>1, <1>2 DEF Tips
<1>9. Tips(s) = {} /\ ~t.tip => Tips(Append(s, t)) = {}
  BY <1>1, <1>3, <1>4, <1>8 DEF Tips
<1>10. Tips(s) = {} /\ t.tip => Tips(Append(s, t)) = {Len(s) + 1}
  BY <1>1, <1>3, <1>4, <1>7, <1>8 DEF Tips
<1>. QED BY <1>1, <1>5, <1>6, <1>9, <1>10

\* The late transactions, when they are complete.
RestTipped == Tips(rest) = IF rest = <<>> THEN {} ELSE {Len(rest)}

\* The first bundle grows by one transaction in PerTx turns, and is tipped
\* once; the late transactions have no tip as long as a buyer is to come.
SizeInv ==
    /\ Sized(first) /\ Sized(rest) /\ Used(rest)
    /\ pc = "first" =>
           OpenTx(index) /\ Len(first) = 1 + (index \div PerTx) /\ Tips(first) = {}
    /\ pc = "rest" /\ MoreRest => OpenTx(Skip + index) /\ Tips(rest) = {}
    /\ (pc = "rest" /\ ~MoreRest) \/ pc = "packed" => RestTipped
    /\ pc \in {"rest", "packed"} =>
           Tips(first) = {Len(first)} /\ Len(first) <= 2 + (MaxFirst \div PerTx)

\* Before the late transactions are begun.
LEMMA NoneLate == ASSUME rest = <<>> PROVE Tips(rest) = {} /\ RestTipped
  BY DEF Tips, RestTipped

\* It holds when packing starts.
LEMMA PackInitSize == PackInit => SizeInv
  BY DEF PackInit, SizeInv, Sized, Used

\* The developer's transaction keeps the sizes.
LEMMA CreateTxSize == PackInv /\ SizeInv /\ CreateTx => SizeInv'
<1>. SUFFICES ASSUME PackInv, SizeInv, CreateTx PROVE SizeInv'
  OBVIOUS
<1>. DEFINE tx == Tx(TRUE, {}, DevTips)
<1>1. /\ pc = "create" /\ index' = 0 /\ cur' = {} /\ rest' = rest /\ n' = n
      /\ first' = <<tx>> /\ withDelay' = withDelay
      /\ IF withDelay THEN pc' = "rest" ELSE pc' = "first"
      /\ withDelay \in BOOLEAN /\ rest = <<>>
  BY DEF CreateTx, PackInv, StageInv, PackTypeOK
<1>2. tx.buyers = {} /\ tx.tip = withDelay
  BY DEF Tx, DevTips
<1>. HIDE DEF tx
<1>3. DOMAIN first' = {1} /\ first'[1] = tx /\ Len(first') = 1
  BY <1>1
<1>4. Sized(first') /\ Tips(first') = IF withDelay THEN {1} ELSE {}
  BY <1>2, <1>3, FS_EmptySet DEF Sized, Tips
<1>5. Sized(rest') /\ Used(rest')
  BY <1>1 DEF SizeInv
<1>6. \A a \in Int : OpenTx(a)'
  BY <1>1, ZeroIndex DEF OpenTx
<1>7. Skip' \in Nat /\ (Skip + index)' = Skip'
  BY <1>1 DEF Skip
<1>8. 1 <= 2 + (MaxFirst \div PerTx)
  BY DivMod
<1>9. index' \div PerTx = 0 /\ index' \in Int
  BY <1>1, ZeroIndex
<1>10. pc' = "first" => OpenTx(index)' /\ Len(first') = 1 + (index' \div PerTx) /\ Tips(first') = {}
  BY <1>1, <1>3, <1>4, <1>6, <1>9, ZeroIndex DEF OpenTx
<1>11. pc' = "rest" => OpenTx(Skip + index)'
  BY <1>1, <1>7, ZeroIndex DEF OpenTx
<1>12. pc' \in {"rest", "packed"} =>
           Tips(first') = {Len(first')} /\ Len(first') <= 2 + (MaxFirst \div PerTx)
  BY <1>1, <1>3, <1>4, <1>8
<1>13. Tips(rest') = {} /\ RestTipped'
  BY <1>1, NoneLate DEF RestTipped
<1>. QED BY <1>4, <1>5, <1>10, <1>11, <1>12, <1>13 DEF SizeInv

\* A turn of the loop of the first bundle keeps them.
LEMMA FirstBuyerSize == PackInv /\ SizeInv /\ FirstBuyer => SizeInv'
<1>. SUFFICES ASSUME PackInv, SizeInv, FirstBuyer PROVE SizeInv'
  OBVIOUS
<1>. DEFINE buyers == cur \cup {index}
            pushed == ClosesFirst \/ FullTx
            tx == Tx(FALSE, buyers, ClosesFirst)
<1>1. /\ pc = "first"
      /\ first' = IF pushed THEN Append(first, tx) ELSE first
      /\ cur' = IF pushed THEN {} ELSE buyers
      /\ UNCHANGED <<n, withDelay, rest>>
      /\ \/ ClosesFirst /\ pc' = "rest" /\ index' = 0
         \/ ~ClosesFirst /\ pc' = "first" /\ index' = index + 1
  BY DEF FirstBuyer, Refill
<1>2. /\ index <= MaxFirst /\ first \in Seq(Txs) /\ index \in Nat /\ index \in Int
      /\ cur \subseteq 0..MaxBuyers-1 /\ index \in 0..MaxBuyers-1
  BY <1>1 DEF PackInv, FirstInv, PackTypeOK
<1>3. /\ OpenTx(index) /\ Len(first) = 1 + (index \div PerTx)
      /\ Tips(first) = {} /\ Sized(first) /\ Sized(rest) /\ Used(rest)
  BY <1>1 DEF SizeInv
<1>10. Tips(rest') = {} /\ RestTipped'
  BY <1>1, NoneLate DEF RestTipped, PackInv, StageInv
<1>4. buyers \subseteq 0..MaxBuyers-1
  BY <1>2
<1>5. tx \in Txs /\ tx.buyers = buyers /\ tx.tip = ClosesFirst
  BY <1>4 DEF Tx, Txs, ClosesFirst
<1>6. Cardinality(buyers) <= PerTx
  BY <1>2, <1>3, OneMoreBuyer
<1>. HIDE DEF tx
<1>7. Sized(first') /\ Sized(rest') /\ Used(rest')
  BY <1>1, <1>2, <1>3, <1>5, <1>6, AppendSized
<1>8. CASE ClosesFirst
  <2>1. first' = Append(first, tx) /\ cur' = {} /\ pc' = "rest" /\ index' = 0 /\ tx.tip
    BY <1>1, <1>5, <1>8
  <2>2. Len(first') = Len(first) + 1 /\ Tips(first') = {Len(first')}
    BY <2>1, <1>2, <1>3, <1>5, AppendSized
  <2>3. Len(first') <= 2 + (MaxFirst \div PerTx)
    <3>1. /\ index \div PerTx \in Nat /\ MaxFirst \div PerTx \in Nat
          /\ index \div PerTx <= MaxFirst \div PerTx
      BY <1>2, DivMod, DivMonotone
    <3>. QED BY <3>1, <2>2, <1>3
  <2>4. OpenTx(Skip + index)'
    <3>1. Skip' \in Nat
      BY DEF Skip
    <3>. QED BY <2>1, <3>1, ZeroIndex DEF OpenTx
  <2>. QED BY <2>1, <2>2, <2>3, <2>4, <1>7, <1>10 DEF SizeInv
<1>9. CASE ~ClosesFirst
  <2>1. pc' = "first" /\ index' = index + 1 /\ (pushed <=> FullTx)
    BY <1>1, <1>9
  <2>2. OpenTx(index)'
    <3>1. cur' = IF FullTx THEN {} ELSE cur \cup {index}
      BY <1>1, <2>1
    <3>2. cur' = ((index + 1) - (index' % PerTx))..((index + 1) - 1)
      BY <1>2, <1>3, <2>1, <3>1, NextTurn
    <3>. QED BY <2>1, <3>2 DEF OpenTx
  <2>3. Tips(first') = {}
    BY <1>1, <1>2, <1>3, <1>5, <1>9, AppendSized
  <2>4. Len(first') = 1 + (index' \div PerTx)
    <3>1. index \div PerTx \in Nat
      BY <1>2, DivMod
    <3>2. CASE FullTx
      <4>1. (index + 1) \div PerTx = (index \div PerTx) + 1
        BY <1>2, <3>2, NextIndex DEF FullTx
      <4>2. Len(first') = Len(first) + 1
        BY <1>1, <1>2, <1>5, <3>2, AppendSized
      <4>. QED BY <1>3, <2>1, <3>1, <4>1, <4>2
    <3>3. CASE ~FullTx
      <4>1. (index + 1) \div PerTx = index \div PerTx
        BY <1>2, <3>3, NextIndex DEF FullTx
      <4>. QED BY <1>1, <1>3, <2>1, <3>3, <4>1
    <3>. QED BY <3>2, <3>3
  <2>. QED BY <1>7, <2>1, <2>2, <2>3, <2>4 DEF SizeInv
<1>. QED BY <1>8, <1>9

\* A turn of the loop of the late bundles keeps them.
LEMMA RestBuyerSize == PackInv /\ SizeInv /\ RestBuyer => SizeInv'
<1>. SUFFICES ASSUME PackInv, SizeInv, RestBuyer PROVE SizeInv'
  OBVIOUS
<1>. DEFINE buyers == cur \cup {Skip + index}
            tipped == TipsFullChunk \/ LastRest
            pushed == tipped \/ FullTx
            tx == Tx(FALSE, buyers, tipped)
<1>1. /\ pc = "rest" /\ pc' = "rest" /\ MoreRest
      /\ rest' = IF pushed THEN Append(rest, tx) ELSE rest
      /\ cur' = IF pushed THEN {} ELSE buyers
      /\ index' = index + 1
      /\ UNCHANGED <<n, withDelay, first>>
  BY DEF RestBuyer, Refill
<1>2. /\ rest \in Seq(Txs) /\ index \in Nat /\ n \in 1..MaxBuyers
      /\ cur \subseteq 0..MaxBuyers-1 /\ Skip \in Nat /\ Skip + index < n /\ PackTypeOK
      /\ Skip + index \in Int
  BY <1>1 DEF PackInv, PackTypeOK, Skip, MoreRest
<1>3. /\ OpenTx(Skip + index)
      /\ Sized(first) /\ Sized(rest) /\ Used(rest)
      /\ Tips(first) = {Len(first)} /\ Len(first) <= 2 + (MaxFirst \div PerTx)
      /\ Tips(rest) = {}
  BY <1>1 DEF SizeInv
<1>4. buyers \subseteq 0..MaxBuyers-1 /\ buyers # {}
  BY <1>2
<1>5. tx \in Txs /\ tx.buyers = buyers /\ tx.tip = tipped
  BY <1>4, PushedTx DEF TipsFullChunk, LastRest, Tx
<1>6. Cardinality(buyers) <= PerTx
  BY <1>2, <1>3, OneMoreBuyer, Zenon
<1>. HIDE DEF tx
<1>7. Sized(first') /\ Sized(rest') /\ Used(rest')
  BY <1>1, <1>2, <1>3, <1>4, <1>5, <1>6, AppendSized
<1>8. Skip' = Skip
  BY <1>1 DEF Skip
<1>9. ASSUME MoreRest' PROVE OpenTx(Skip + index)'
  <2>1. ~LastRest /\ ~TipsFullChunk
    BY <1>1, <1>2, <1>8, <1>9, NeverTipsFullChunk DEF MoreRest, LastRest
  <2>2. cur' = IF FullTx THEN {} ELSE cur \cup {Skip + index}
    BY <1>1, <2>1
  <2>3. cur' = ((Skip + index + 1) - (index' % PerTx))..((Skip + index + 1) - 1)
    BY <1>1, <1>2, <1>3, <2>2, NextTurn, Zenon
  <2>4. Skip' + index' = Skip + index + 1
    BY <1>1, <1>2, <1>8
  <2>. QED BY <2>3, <2>4 DEF OpenTx
<1>10. ASSUME MoreRest' PROVE Tips(rest') = {}
  <2>1. ~LastRest /\ ~TipsFullChunk
    BY <1>1, <1>2, <1>8, <1>10, NeverTipsFullChunk DEF MoreRest, LastRest
  <2>. QED BY <1>1, <1>2, <1>3, <1>5, <2>1, AppendSized
<1>11. ASSUME ~MoreRest' PROVE RestTipped'
  <2>1. LastRest
    BY <1>1, <1>2, <1>8, <1>11 DEF MoreRest, LastRest
  <2>2. rest' = Append(rest, tx) /\ tx.tip
    BY <1>1, <1>5, <2>1
  <2>3. Tips(rest') = {Len(rest')} /\ Len(rest') = Len(rest) + 1 /\ Len(rest) \in Nat
    BY <1>2, <1>3, <1>5, <2>2, AppendSized
  <2>4. rest' # <<>>
    BY <2>3
  <2>. QED BY <2>3, <2>4 DEF RestTipped
<1>. QED BY <1>1, <1>3, <1>7, <1>9, <1>10, <1>11 DEF SizeInv

\* Leaving the loop, and changing nothing, leave them alone.
LEMMA IdleSize == SizeInv /\ (RestEnd \/ UNCHANGED packVars) => SizeInv'
  BY DEF SizeInv, RestEnd, packVars, OpenTx, MoreRest, Skip, RestTipped

\* The loops keep the sizes too.
THEOREM SizeInvariant == PackSpec => [](PackInv /\ SizeInv)
<1>1. PackInv /\ SizeInv /\ [PackNext]_packVars => SizeInv'
  BY CreateTxSize, FirstBuyerSize, RestBuyerSize, IdleSize DEF PackNext
<1>2. PackInit => SizeInv
  BY PackInitSize
<1>. QED BY PackInvariant, <1>1, <1>2, PTL DEF PackSpec

\* Whatever the list of buyers, the first bundle is one the engine takes, the
\* late transactions pay a single tip, in the last of them, and no transaction
\* is too large, provided the buyers of the first bundle leave a transaction
\* for the developer: 19 < (5 - 1) * 5 in the code, and with a
\* MAX_BUYERS_FIRST_BUNDLE of 20 it no longer holds.
THEOREM SizesAndTipsCorrect ==
    ASSUME MaxFirst < (ChunkTxs - 1) * PerTx
    PROVE  PackSpec => []SizesAndTips
<1>1. 2 + (MaxFirst \div PerTx) <= ChunkTxs
  <2>. DEFINE q == MaxFirst \div PerTx
  <2>1. q \in Nat /\ PerTx * q <= MaxFirst
    BY DivMod
  <2>. HIDE DEF q
  <2>2. ChunkTxs - 1 <= q => PerTx * (ChunkTxs - 1) <= PerTx * q
    BY <2>1, TimesMonotone
  <2>3. PerTx * (ChunkTxs - 1) = (ChunkTxs - 1) * PerTx /\ PerTx * q \in Nat
    BY <2>1
  <2>4. 2 + q <= ChunkTxs
    BY <2>1, <2>2, <2>3
  <2>. QED BY <2>4 DEF q
<1>2. PackInv /\ SizeInv => SizesAndTips
  <2>. SUFFICES ASSUME PackInv, SizeInv PROVE SizesAndTips
    OBVIOUS
  <2>1. pc \in {"create", "first", "rest", "packed"} /\ index \in Nat
    BY DEF PackInv, PackTypeOK
  <2>5. RestTippedAtEnd
    BY DEF SizeInv, RestTipped, RestTippedAtEnd
  <2>. MaxFirst \div PerTx \in Nat
    BY DivMod
  <2>2. CASE pc = "create"
    BY <2>2, <2>1, <2>5, <1>1 DEF PackInv, StageInv, SizeInv, SizesAndTips, FitsBundle,
                            FirstTippedAtEnd, Sized
  <2>3. CASE pc = "first"
    <3>1. Len(first) = 1 + (index \div PerTx) /\ index <= MaxFirst
      BY <2>3 DEF PackInv, FirstInv, SizeInv
    <3>2. index \div PerTx <= MaxFirst \div PerTx /\ index \div PerTx \in Nat
      BY <2>1, <3>1, DivMonotone, DivMod
    <3>3. Len(first) <= ChunkTxs
      BY <2>1, <3>1, <3>2, <1>1
    <3>. QED BY <2>3, <2>5, <3>3 DEF SizeInv, SizesAndTips, FitsBundle, FirstTippedAtEnd, Sized
  <2>4. CASE pc \in {"rest", "packed"}
    <3>1. Len(first) <= 2 + (MaxFirst \div PerTx) /\ Tips(first) = {Len(first)}
      BY <2>4 DEF SizeInv
    <3>2. Len(first) <= ChunkTxs
      <4>1. Len(first) \in Nat
        BY DEF PackInv, PackTypeOK
      <4>. QED BY <4>1, <2>1, <3>1, <1>1
    <3>. QED BY <2>5, <3>1, <3>2 DEF SizeInv, SizesAndTips, FitsBundle, FirstTippedAtEnd,
                               Sized, Tips
  <2>. QED BY <2>1, <2>2, <2>3, <2>4
<1>. QED BY SizeInvariant, <1>2, PTL

\* The delayed task is started exactly when there is a late transaction.
THEOREM DelayedIffRestCorrect == PackSpec => []DelayedIffRest
<1>1. PackInv /\ SizeInv /\ (pc = "packed" => (HasDelayedBundle <=> BuyersOf(rest) # {}))
      => DelayedIffRest
  <2>. SUFFICES ASSUME PackInv, SizeInv, pc = "packed"
                PROVE  BuyersOf(rest) # {} <=> rest # <<>>
    BY DEF DelayedIffRest
  <2>1. CASE rest = <<>>
    BY <2>1, EmptyGroup
  <2>2. CASE rest # <<>>
    <3>1. 1 \in DOMAIN rest
      BY <2>2 DEF PackInv, PackTypeOK
    <3>2. rest[1].buyers # {}
      BY <3>1 DEF SizeInv, Used
    <3>. QED BY <2>2, <3>1, <3>2 DEF BuyersOf
  <2>. QED BY <2>1, <2>2
<1>. QED BY SizeInvariant, DelayedIffLateBuyer, <1>1, PTL

-----------------------------------------------------------------------------
(* The launch. *)

\* What the chain and the two tasks know of each other.  Before the packing is
\* over nothing is in flight and no task is started; a curve is there because
\* the first bundle landed; and a task past its reading of the balance has
\* seen the curve.
Seen ==
    /\ mainPc = "pack" => latePc = "off" /\ inflight = {} /\ curve = "none"
    /\ mainPc \in {"pack", "submit", "wait"} => ~announced /\ ~registered
    /\ mainPc = "panicked" => ~announced /\ ~registered
    /\ curve # "none" => BuyersOf(first) \subseteq bought
    /\ mainPc \in {"return", "done"} => curve # "none"
    /\ latePc \in {"send", "wait"} => curve # "none"

LInv == Seen /\ LateAfterLaunch /\ AnnouncedMeansBought

\* The invariant holds when process_bundle starts packing.
LEMMA InitLInv == Init => LInv
  BY DEF Init, LInv, Seen, LateAfterLaunch, AnnouncedMeansBought

\* A bundle that lands makes the curve, or finds it.
LEMMA LandLInv ==
    ASSUME NEW b, LInv, Land(b), b \in {0} \cup LateChunks
    PROVE  LInv'
<1>1. /\ UNCHANGED first /\ UNCHANGED <<mainPc, latePc, announced, registered, sent>>
      /\ mainPc # "pack"
  BY DEF Land, packVars, mainVars, lateVars, LInv, Seen
<1>2. BuyersOf(first)' = BuyersOf(first)
  BY <1>1 DEF BuyersOf
<1>3. curve' # "none" /\ bought \subseteq bought'
  BY DEF Land
<1>4. BuyersOf(first) \subseteq bought'
  <2>1. CASE b = 0
    <3>1. Buyers(0) = BuyersOf(first)
      BY DEF Buyers, Bundle, BuyersOf
    <3>. QED BY <2>1, <3>1 DEF Land
  <2>2. CASE b # 0
    <3>1. curve = "live"
      BY <2>2 DEF Land, Executes
    <3>. QED BY <3>1, <1>3 DEF LInv, Seen
  <2>. QED BY <2>1, <2>2
<1>. QED
  BY <1>1, <1>2, <1>3, <1>4 DEF LInv, Seen, LateAfterLaunch, AnnouncedMeansBought

\* The rest of what the chain, the clock and other traders do.
LEMMA ChainLInv ==
    ASSUME LInv, Complete \/ Expire \/ Announce \/ (\E b \in {0} \cup LateChunks : Lose(b))
    PROVE  LInv'
<1>1. UNCHANGED first /\ UNCHANGED <<bought, mainPc, latePc, registered, sent>>
  BY DEF Complete, Expire, Announce, Lose, packVars, chainVars, mainVars, lateVars
<1>2. BuyersOf(first)' = BuyersOf(first)
  BY <1>1 DEF BuyersOf
<1>3. CASE Complete
  BY <1>1, <1>2, <1>3 DEF Complete, LInv, Seen, LateAfterLaunch, AnnouncedMeansBought
<1>4. CASE Expire
  BY <1>1, <1>2, <1>4 DEF Expire, chainVars, LInv, Seen, LateAfterLaunch, AnnouncedMeansBought
<1>5. CASE Announce
  BY <1>1, <1>2, <1>5 DEF Announce, chainVars, LInv, Seen, LateAfterLaunch, AnnouncedMeansBought
<1>6. CASE \E b \in {0} \cup LateChunks : Lose(b)
  BY <1>1, <1>2, <1>6 DEF Lose, LInv, Seen, LateAfterLaunch, AnnouncedMeansBought
<1>. QED BY <1>3, <1>4, <1>5, <1>6

\* The packing starts nothing.
LEMMA PackLInv == ASSUME LInv, Pack PROVE LInv'
  BY DEF Pack, chainVars, mainVars, lateVars, LInv, Seen, LateAfterLaunch, AnnouncedMeansBought

\* process_bundle after the packing, and the insertion of its table.
LEMMA MainLInv ==
    ASSUME LInv, Spawn \/ MainSubmit \/ MainCallEnds \/ MainCheck \/ Register \/ MainPanic
    PROVE  LInv'
<1>1. UNCHANGED first /\ UNCHANGED <<bought, curve, announced, sent>>
  BY DEF Spawn, MainSubmit, MainCallEnds, MainCheck, Register, MainPanic,
         packVars, chainVars, lateVars
<1>2. BuyersOf(first)' = BuyersOf(first)
  BY <1>1 DEF BuyersOf
<1>3. CASE Spawn
  BY <1>1, <1>2, <1>3 DEF Spawn, LInv, Seen, LateAfterLaunch, AnnouncedMeansBought
<1>4. CASE MainSubmit
  BY <1>1, <1>2, <1>4 DEF MainSubmit, lateVars, LInv, Seen, LateAfterLaunch, AnnouncedMeansBought
<1>5. CASE MainCallEnds
  BY <1>1, <1>2, <1>5 DEF MainCallEnds, chainVars, lateVars, LInv, Seen, LateAfterLaunch, AnnouncedMeansBought
<1>6. CASE MainCheck
  BY <1>1, <1>2, <1>6 DEF MainCheck, DevHolds, chainVars, lateVars, LInv, Seen, LateAfterLaunch, AnnouncedMeansBought
<1>7. CASE Register
  BY <1>1, <1>2, <1>7 DEF Register, chainVars, lateVars, LInv, Seen, LateAfterLaunch, AnnouncedMeansBought
<1>8. CASE MainPanic
  BY <1>1, <1>2, <1>8 DEF MainPanic, chainVars, lateVars, LInv, Seen, LateAfterLaunch, AnnouncedMeansBought
<1>. QED BY <1>3, <1>4, <1>5, <1>6, <1>7, <1>8

\* The delayed task.
LEMMA LateLInv == ASSUME LInv, LateStep PROVE LInv'
<1>1. /\ UNCHANGED first
      /\ UNCHANGED <<bought, curve, mainPc, registered, announced>>
  BY DEF LateStep, LateTop, LateRead, LateSubmit, LateCallEnds, LateNext,
         packVars, chainVars, mainVars
<1>2. BuyersOf(first)' = BuyersOf(first)
  BY <1>1 DEF BuyersOf
<1>3. CASE LateTop
  BY <1>1, <1>2, <1>3 DEF LateTop, CheckTimeout, chainVars, LInv, Seen, LateAfterLaunch, AnnouncedMeansBought
<1>4. CASE LateRead
  BY <1>1, <1>2, <1>4 DEF LateRead, DevHolds, chainVars, LInv, Seen, LateAfterLaunch, AnnouncedMeansBought
<1>5. CASE LateSubmit
  BY <1>1, <1>2, <1>5 DEF LateSubmit, LInv, Seen, LateAfterLaunch, AnnouncedMeansBought
<1>6. CASE LateCallEnds
  BY <1>1, <1>2, <1>6 DEF LateCallEnds, chainVars, LInv, Seen, LateAfterLaunch, AnnouncedMeansBought
<1>7. CASE LateNext
  BY <1>1, <1>2, <1>7 DEF LateNext, chainVars, LInv, Seen, LateAfterLaunch, AnnouncedMeansBought
<1>. QED BY <1>3, <1>4, <1>5, <1>6, <1>7 DEF LateStep

\* A step that changes nothing.
LEMMA StutterLInv == ASSUME LInv, UNCHANGED vars PROVE LInv'
  BY DEF vars, packVars, chainVars, mainVars, lateVars, LInv, Seen,
         LateAfterLaunch, AnnouncedMeansBought, BuyersOf

\* The invariant holds throughout a launch.
THEOREM LaunchInvariant == Spec => []LInv
<1>1. LInv /\ [Next]_vars => LInv'
  <2>. SUFFICES ASSUME LInv, [Next]_vars PROVE LInv' OBVIOUS
  <2>. QED BY LandLInv, ChainLInv, PackLInv, MainLInv, LateLInv, StutterLInv
           DEF Next, MainStep
<1>. QED BY InitLInv, <1>1, PTL DEF Spec

\* No late bundle is sent before the token exists, for every bundle size and
\* list of buyers.
THEOREM LateAfterLaunchCorrect == Spec => []LateAfterLaunch
<1>1. LInv => LateAfterLaunch BY DEF LInv
<1>. QED BY LaunchInvariant, <1>1, PTL

\* What is announced or registered has been bought, for every bundle size and
\* list of buyers.
THEOREM AnnouncedMeansBoughtCorrect == Spec => []AnnouncedMeansBought
<1>1. LInv => AnnouncedMeansBought BY DEF LInv
<1>. QED BY LaunchInvariant, <1>1, PTL

-----------------------------------------------------------------------------
(* The variables of the launch keep to their sets. *)

\* A step of a launch is one of the packing, or leaves its lists alone.
LEMMA LaunchPackStep == [Next]_vars => [PackNext]_packVars
  BY DEF Next, MainStep, LateStep, Pack, Spawn, MainSubmit, MainCallEnds, MainCheck, Register,
         MainPanic, LateTop, LateRead, LateSubmit, LateCallEnds, LateNext, Expire, Announce,
         Complete, Land, Lose, vars

\* A launch packs as BundlePacking specifies, so that what is proved of the
\* packing is true of the lists a launch submits.
THEOREM LaunchPacks == Spec => PackSpec
<1>1. Init => PackInit
  BY DEF Init
<1>. QED BY <1>1, LaunchPackStep, PTL DEF Spec, PackSpec

\* When a late task is started there is a late bundle, and the one it is at
\* exists.  Nothing is in flight while the packing goes on.
LateInv ==
    /\ mainPc = "pack" => latePc = "off" /\ inflight = {}
    /\ latePc = "off" => chunk = 0 /\ sent = {}
    /\ latePc # "off" => 1 \in LateChunks
    /\ latePc \in {"send", "wait"} => chunk \in LateChunks

\* What has been packed has been packed for a buyer of the request.
LEMMA PackedBuyers ==
    ASSUME PackInv
    PROVE  BuyersOf(first) \subseteq 0..n-1 /\ BuyersOf(rest) \subseteq 0..n-1
<1>1. n \in Nat /\ index \in Nat /\ pc \in {"create", "first", "rest", "packed"} /\ Skip \in Nat
  BY DEF PackInv, PackTypeOK, Skip
<1>2. CASE pc = "create"
  BY <1>2, EmptyGroup DEF PackInv, StageInv
<1>3. CASE pc = "first"
  BY <1>1, <1>3, EmptyGroup DEF PackInv, StageInv, FirstInv
<1>4. CASE pc = "rest"
  <2>1. BuyersOf(rest) \subseteq 0..n-1
    BY <1>1, <1>4 DEF PackInv, RestInv
  <2>. QED BY <1>1, <1>4, <2>1 DEF PackInv, StageInv, FirstGroup
<1>5. CASE pc = "packed"
  BY <1>1, <1>5 DEF PackInv, StageInv, FirstGroup
<1>. QED BY <1>1, <1>2, <1>3, <1>4, <1>5

\* A bundle holds buyers of the request only.
LEMMA BundleBuyers ==
    ASSUME PackInv, NEW b \in {0} \cup LateChunks
    PROVE  Buyers(b) \subseteq 0..n-1
<1>1. CASE b = 0
  <2>1. Buyers(b) = BuyersOf(first)
    BY <1>1 DEF Buyers, Bundle, BuyersOf
  <2>. QED BY <2>1, PackedBuyers
<1>2. CASE b # 0
  <2>1. Len(rest) \in Nat /\ DOMAIN rest = 1..Len(rest)
    BY DEF PackInv, PackTypeOK
  <2>2. LateChunk(b) \subseteq {rest[k] : k \in DOMAIN rest}
    BY <2>1 DEF LateChunk
  <2>3. Buyers(b) \subseteq BuyersOf(rest)
    BY <1>2, <2>2 DEF Buyers, Bundle, BuyersOf
  <2>. QED BY <2>3, PackedBuyers
<1>. QED BY <1>1, <1>2

\* has_delayed_bundle is true only if there is a first late bundle.
LEMMA FirstLateChunk ==
    ASSUME PackInv, pc = "packed", HasDelayedBundle
    PROVE  1 \in LateChunks
<1>1. BuyersOf(rest) = Skip..n-1 /\ n \in 1..MaxBuyers /\ withDelay \in BOOLEAN
  BY DEF PackInv, StageInv, PackTypeOK
<1>2. Skip \in 0..n-1
  BY <1>1 DEF Skip, HasDelayedBundle
<1>3. BuyersOf(rest) # {}
  <2>1. Skip \in Skip..n-1
    BY <1>1, <1>2
  <2>. QED BY <1>1, <2>1
<1>4. rest # <<>> /\ rest \in Seq(Txs)
  BY <1>3, EmptyGroup DEF PackInv, PackTypeOK
<1>5. Len(rest) \in Nat /\ Len(rest) >= 1
  BY <1>4
<1>. DEFINE q == (Len(rest) + ChunkTxs - 1) \div ChunkTxs
<1>6. q \in Nat /\ q >= 1
  <2>1. Len(rest) + ChunkTxs - 1 \in Nat /\ Len(rest) + ChunkTxs - 1 >= ChunkTxs
    BY <1>5
  <2>. QED BY <2>1
<1>. QED BY <1>6 DEF LateChunks

\* Nothing is packed after the packing.
LEMMA PackedStays ==
    ASSUME UNCHANGED packVars
    PROVE  UNCHANGED <<n, LateChunks, pc>>
  BY DEF packVars, LateChunks

TInv == TypeOK /\ LateInv

\* Nothing is in flight when process_bundle starts.
LEMMA InitTInv == Init => TInv
  BY PackInitInv DEF Init, TInv, TypeOK, LateInv, PackInv

\* The packing.
LEMMA PackTInv == ASSUME TInv, PackInv', Pack PROVE TInv'
<1>1. /\ UNCHANGED <<curve, bought, inflight, mainPc, mainVerdict, registered>>
      /\ UNCHANGED <<latePc, lateVerdict, chunk, sent, expired, announced>>
      /\ mainPc = "pack"
  BY DEF Pack, chainVars, mainVars, lateVars
<1>2. n' = n /\ PackTypeOK'
  BY DEF Pack, PackNext, CreateTx, FirstBuyer, RestBuyer, RestEnd, PackInv
<1>3. TypeOK'
  BY <1>1, <1>2 DEF TInv, TypeOK, LateInv
<1>. QED BY <1>1, <1>3 DEF TInv, LateInv

\* The chain, the clock and the callback.
LEMMA ChainTInv ==
    ASSUME TInv, PackInv,
           Complete \/ Expire \/ Announce \/ \E b \in {0} \cup LateChunks : Land(b) \/ Lose(b)
    PROVE  TInv'
<1>1. UNCHANGED packVars
  BY DEF Complete, Expire, Announce, Land, Lose
<1>2. UNCHANGED <<n, LateChunks, pc>> /\ PackTypeOK'
  BY <1>1, PackedStays DEF TInv, TypeOK, PackTypeOK, packVars
<1>3. CASE Complete
  BY <1>2, <1>3 DEF Complete, mainVars, lateVars, TInv, TypeOK, LateInv
<1>4. CASE Expire
  BY <1>2, <1>4 DEF Expire, chainVars, mainVars, lateVars, TInv, TypeOK, LateInv
<1>5. CASE Announce
  BY <1>2, <1>5 DEF Announce, chainVars, mainVars, lateVars, TInv, TypeOK, LateInv
<1>6. ASSUME NEW b \in {0} \cup LateChunks, Land(b) PROVE TInv'
  <2>1. Buyers(b) \subseteq 0..n-1
    BY BundleBuyers
  <2>. QED BY <1>2, <1>6, <2>1 DEF Land, mainVars, lateVars, TInv, TypeOK, LateInv
<1>7. ASSUME NEW b \in {0} \cup LateChunks, Lose(b) PROVE TInv'
  BY <1>2, <1>7 DEF Lose, mainVars, lateVars, TInv, TypeOK, LateInv
<1>. QED BY <1>3, <1>4, <1>5, <1>6, <1>7

\* process_bundle after the packing.
LEMMA MainTInv ==
    ASSUME TInv, PackInv,
           Spawn \/ MainSubmit \/ MainCallEnds \/ MainCheck \/ Register \/ MainPanic
    PROVE  TInv'
<1>1. UNCHANGED packVars
  BY DEF Spawn, MainSubmit, MainCallEnds, MainCheck, Register, MainPanic
<1>2. UNCHANGED <<n, LateChunks, pc>> /\ PackTypeOK'
  BY <1>1, PackedStays DEF TInv, TypeOK, PackTypeOK, packVars
<1>3. CASE Spawn
  BY <1>2, <1>3, FirstLateChunk DEF Spawn, chainVars, TInv, TypeOK, LateInv
<1>4. CASE MainSubmit
  BY <1>2, <1>4 DEF MainSubmit, Submit, lateVars, TInv, TypeOK, LateInv
<1>5. CASE MainCallEnds
  BY <1>2, <1>5 DEF MainCallEnds, MainCall!AnswerOk, MainCall!AnswerErr, MainCall!Panic,
                    chainVars, lateVars, TInv, TypeOK, LateInv
<1>6. CASE MainCheck
  BY <1>2, <1>6 DEF MainCheck, chainVars, lateVars, TInv, TypeOK, LateInv
<1>7. CASE Register
  BY <1>2, <1>7 DEF Register, chainVars, lateVars, TInv, TypeOK, LateInv
<1>8. CASE MainPanic
  BY <1>2, <1>8 DEF MainPanic, chainVars, lateVars, TInv, TypeOK, LateInv
<1>. QED BY <1>3, <1>4, <1>5, <1>6, <1>7, <1>8

\* The delayed task.
LEMMA LateTInv == ASSUME TInv, LateStep PROVE TInv'
<1>1. UNCHANGED packVars
  BY DEF LateStep, LateTop, LateRead, LateSubmit, LateCallEnds, LateNext
<1>2. UNCHANGED <<n, LateChunks, pc>> /\ PackTypeOK'
  BY <1>1, PackedStays DEF TInv, TypeOK, PackTypeOK, packVars
<1>3. CASE LateTop
  BY <1>2, <1>3 DEF LateTop, CheckTimeout, chainVars, mainVars, TInv, TypeOK, LateInv
<1>4. CASE LateRead
  BY <1>2, <1>4 DEF LateRead, chainVars, mainVars, TInv, TypeOK, LateInv
<1>5. CASE LateSubmit
  BY <1>2, <1>5 DEF LateSubmit, Submit, mainVars, TInv, TypeOK, LateInv
<1>6. CASE LateCallEnds
  BY <1>2, <1>6 DEF LateCallEnds, LateCall!AnswerOk, LateCall!AnswerErr, LateCall!Panic,
                    chainVars, mainVars, TInv, TypeOK, LateInv
<1>7. CASE LateNext
  BY <1>2, <1>7 DEF LateNext, MoreChunks, chainVars, mainVars, TInv, TypeOK, LateInv
<1>. QED BY <1>3, <1>4, <1>5, <1>6, <1>7 DEF LateStep

\* A step that changes nothing.
LEMMA StutterTInv == ASSUME TInv, UNCHANGED vars PROVE TInv'
<1>1. UNCHANGED <<n, LateChunks, pc>> /\ PackTypeOK'
  BY PackedStays DEF vars, TInv, TypeOK, PackTypeOK, packVars
<1>. QED BY <1>1 DEF vars, chainVars, mainVars, lateVars, TInv, TypeOK, LateInv

\* Every variable of a launch keeps to its set of values: the late bundle the
\* delayed task is at exists, and only buyers of the request buy.
THEOREM LaunchTypeCorrect == Spec => []TypeOK
<1>1. TInv /\ PackInv /\ PackInv' /\ [Next]_vars => TInv'
  BY PackTInv, ChainTInv, MainTInv, LateTInv, StutterTInv DEF Next, MainStep
<1>2. TInv => TypeOK
  BY DEF TInv
<1>. QED BY <1>1, <1>2, InitTInv, LaunchPacks, PackInvariant, PTL DEF Spec
==============================================================================
