--------------------------- MODULE SellAll_proofs ---------------------------
(***************************************************************************)
(* The packing of a sale and what becomes of its bundles, for every number *)
(* of wallets, balances, sizes and limits.                                 *)
(***************************************************************************)
EXTENDS SellAll, SumTheorems, SequenceTheorems, TLAPS

(* The recursions of FlattenSeq and After have a solution. *)

LEMMA FlattenExists ==
    ASSUME NEW q, NEW n \in Nat
    PROVE  \E f : f = [i \in 1..n |-> IF i = 1 THEN q[i] ELSE f[i - 1] \o q[i]]
<1>. DEFINE Step(f, i) == IF i = 1 THEN q[i] ELSE f[i - 1] \o q[i]
            Good(f, m) == f = [i \in 1..m |-> Step(f, i)]
            A == {m \in Nat : \E f : Good(f, m)}
<1>1. 0 \in A
  <2>1. Good([i \in {} |-> 0], 0)
    OBVIOUS
  <2>. QED BY <2>1
<1>2. ASSUME NEW m \in Nat, m \in A PROVE m + 1 \in A
  <2>1. PICK f : Good(f, m)
    BY <1>2
  <2>. DEFINE g == [i \in 1..m+1 |-> Step(f, i)]
  <2>2. \A i \in 1..m : f[i] = Step(f, i)
    BY <2>1
  <2>3. ASSUME NEW i \in 1..m+1, i # 1 PROVE g[i - 1] = f[i - 1]
    <3>1. i - 1 \in 1..m /\ i - 1 \in 1..m+1
      BY <2>3
    <3>. QED BY <2>2, <3>1
  <2>. HIDE DEF A
  <2>4. \A i \in 1..m+1 : g[i] = Step(g, i)
    BY <2>3
  <2>5. g = [i \in 1..m+1 |-> g[i]]
    OBVIOUS
  <2>. HIDE DEF g
  <2>6. g = [i \in 1..m+1 |-> Step(g, i)]
    <3>. HIDE DEF Step
    <3>. QED BY <2>4, <2>5, Zenon
  <2>7. Good(g, m + 1)
    BY <2>6
  <2>. HIDE DEF Good
  <2>. QED BY <2>7 DEF A
<1>. HIDE DEF A
<1>3. n \in A
  BY <1>1, <1>2, NatSteps
<1>. QED BY <1>3 DEF A

\* What is in two lists together.
LEMMA ConcatRange ==
    ASSUME NEW T, NEW u \in Seq(T), NEW v \in Seq(T)
    PROVE  u \o v \in Seq(T) /\ Range(u \o v) = Range(u) \cup Range(v)
<1>. DEFINE s == u \o v
            m == Len(u)
            n == Len(v)
<1>1. /\ s \in Seq(T) /\ Len(s) = m + n
      /\ \A i \in 1..m + n : s[i] = IF i <= m THEN u[i] ELSE v[i - m]
      /\ DOMAIN s = 1..m + n
      /\ DOMAIN u = 1..m /\ m \in Nat
      /\ DOMAIN v = 1..n /\ n \in Nat
  BY ConcatProperties, LenProperties
<1>. HIDE DEF s, m, n
<1>2. ASSUME NEW i \in 1..m + n PROVE s[i] \in Range(u) \cup Range(v)
  <2>1. CASE i <= m
    <3>1. i \in 1..m /\ s[i] = u[i]
      BY <1>1, <2>1
    <3>. QED BY <1>1, <3>1 DEF Range
  <2>2. CASE ~(i <= m)
    <3>1. i - m \in 1..n /\ s[i] = v[i - m]
      BY <1>1, <2>2
    <3>. QED BY <1>1, <3>1 DEF Range
  <2>. QED BY <2>1, <2>2
<1>3. ASSUME NEW i \in 1..m PROVE u[i] \in Range(s)
  <2>1. i \in 1..m + n /\ s[i] = u[i]
    BY <1>1
  <2>. QED BY <1>1, <2>1 DEF Range
<1>4. ASSUME NEW i \in 1..n PROVE v[i] \in Range(s)
  <2>1. i + m \in 1..m + n /\ ~(i + m <= m) /\ (i + m) - m = i
    BY <1>1
  <2>2. s[i + m] = v[(i + m) - m]
    BY <1>1, <2>1
  <2>. QED BY <1>1, <2>1, <2>2 DEF Range
<1>5. Range(s) = Range(u) \cup Range(v)
  BY <1>1, <1>2, <1>3, <1>4 DEF Range
<1>. QED BY <1>1, <1>5 DEF s

\* What is in a flattened list.
LEMMA FlattenRange ==
    ASSUME NEW T, NEW q \in Seq(Seq(T))
    PROVE  /\ FlattenSeq(q) \in Seq(T)
           /\ \A x : x \in Range(FlattenSeq(q)) <=> \E m \in DOMAIN q : x \in Range(q[m])
<1>. DEFINE n == Len(q)
            f == CHOOSE f : f = [i \in 1..n |-> IF i = 1 THEN q[i] ELSE f[i - 1] \o q[i]]
<1>1. n \in Nat /\ DOMAIN q = 1..n /\ \A m \in 1..n : q[m] \in Seq(T)
  BY LenProperties
<1>2. f = [i \in 1..n |-> IF i = 1 THEN q[i] ELSE f[i - 1] \o q[i]]
  BY <1>1, FlattenExists
<1>3. FlattenSeq(q) = IF n = 0 THEN q ELSE f[n]
  BY DEF FlattenSeq
<1>. HIDE DEF f
<1>4. \A i \in 1..n : f[i] = IF i = 1 THEN q[i] ELSE f[i - 1] \o q[i]
  BY <1>2
<1>. HIDE DEF n
<1>. DEFINE In(x, j) == x \in Range(q[j])
            Upto(m) == f[m] \in Seq(T) /\ \A x : x \in Range(f[m]) <=> \E j \in 1..m : In(x, j)
            A == {m \in Nat : m \in 1..n => Upto(m)}
<1>5. ASSUME NEW m \in Nat, m \in A PROVE m + 1 \in A
  <2>. SUFFICES ASSUME m + 1 \in 1..n PROVE Upto(m + 1)
    OBVIOUS
  <2>1. CASE m = 0
    <3>1. f[1] = q[1] /\ q[1] \in Seq(T) /\ \A j : j \in 1..1 <=> j = 1
      BY <1>1, <1>4, <2>1
    <3>2. \A x : x \in Range(f[1]) <=> \E j \in 1..1 : In(x, j)
      BY <3>1, Zenon
    <3>3. Upto(1)
      BY <3>1, <3>2
    <3>. HIDE DEF Upto
    <3>. QED BY <2>1, <3>3
  <2>2. CASE m # 0
    <3>1. m \in 1..n /\ 1..m+1 = (1..m) \cup {m + 1}
      BY <1>1, <2>2
    <3>2. Upto(m)
      BY <1>5, <3>1
    <3>3. f[m + 1] = f[m] \o q[m + 1]
      <4>1. m + 1 # 1 /\ (m + 1) - 1 = m
        BY <2>2
      <4>. QED BY <1>4, <4>1
    <3>4. q[m + 1] \in Seq(T)
      BY <1>1
    <3>5. f[m + 1] \in Seq(T) /\ Range(f[m + 1]) = Range(f[m]) \cup Range(q[m + 1])
      BY <3>2, <3>3, <3>4, ConcatRange
    <3>6. \A j : j \in 1..m+1 <=> j \in 1..m \/ j = m + 1
      BY <3>1
    <3>7. \A x : x \in Range(f[m + 1]) <=> \E j \in 1..m+1 : In(x, j)
      <4>. TAKE x
      <4>1. x \in Range(f[m + 1]) <=> (\E j \in 1..m : In(x, j)) \/ In(x, m + 1)
        <5>1. x \in Range(f[m + 1]) <=> x \in Range(f[m]) \/ x \in Range(q[m + 1])
          BY <3>5
        <5>2. x \in Range(f[m]) <=> \E j \in 1..m : In(x, j)
          BY <3>2, Zenon
        <5>. QED BY <5>1, <5>2, Zenon
      <4>. HIDE DEF In
      <4>2. (\E j \in 1..m+1 : In(x, j)) <=> (\E j \in 1..m : In(x, j)) \/ In(x, m + 1)
        BY <3>6, Zenon
      <4>. QED BY <4>1, <4>2, Zenon
    <3>. QED BY <3>5, <3>7, Zenon
  <2>. QED BY <2>1, <2>2
<1>6. 0 \in A
  OBVIOUS
<1>. HIDE DEF A
<1>7. n \in A
  BY <1>1, <1>5, <1>6, NatSteps
<1>8. CASE n = 0
  <2>1. q = <<>>
    BY <1>8, EmptySeq DEF n
  <2>2. Range(q) = {} /\ DOMAIN q = {} /\ q \in Seq(T)
    BY <2>1 DEF Range
  <2>. QED BY <1>3, <1>8, <2>2
<1>9. CASE n # 0
  <2>1. n \in 1..n
    BY <1>1, <1>9
  <2>2. Upto(n)
    BY <1>7, <2>1 DEF A
  <2>. QED BY <1>1, <1>3, <1>9, <2>2
<1>. QED BY <1>8, <1>9

-----------------------------------------------------------------------------
(* The size of a transaction. *)

Instr == [at : Nat, weight : Nat]

\* What every constant is.
LEMMA Constants ==
    /\ Cap \in Nat /\ FeeSize \in Nat /\ TipSize \in Nat /\ FeeSize + TipSize < Cap
    /\ PerBundle \in Nat /\ PerBundle > 1
    /\ Len(Keys) \in Nat /\ DOMAIN Keys = 1..Len(Keys) /\ \A i \in 1..Len(Keys) : Keys[i] \in Wallets
    /\ MaxIxs \in Nat
    /\ \A s \in Sizes : s.sell \in Nat /\ s.tax \in Nat /\ FeeSize + s.sell + s.tax < Cap
    /\ Weights \subseteq Nat
<1>1. /\ Cap \in Nat /\ FeeSize \in Nat /\ TipSize \in Nat /\ FeeSize + TipSize < Cap
      /\ PerBundle \in Nat /\ PerBundle > 1
  BY SellAllAssumption
<1>2. Len(Keys) \in Nat /\ DOMAIN Keys = 1..Len(Keys) /\ \A i \in 1..Len(Keys) : Keys[i] \in Wallets
  BY SellAllAssumption, LenProperties DEF Wallets
<1>3. \A s \in Sizes : s.sell \in Nat /\ s.tax \in Nat /\ FeeSize + s.sell + s.tax < Cap
  BY SellAllAssumption
<1>. QED BY <1>1, <1>2, <1>3 DEF MaxIxs, Weights

\* Adding one to the end.
LEMMA AppendIs ==
    ASSUME NEW T, NEW s \in Seq(T), NEW x \in T
    PROVE  /\ Append(s, x) \in Seq(T) /\ Len(Append(s, x)) = Len(s) + 1
           /\ Len(s) \in Nat /\ DOMAIN s = 1..Len(s) /\ DOMAIN Append(s, x) = 1..Len(s)+1
           /\ \A i \in 1..Len(s) : Append(s, x)[i] = s[i] /\ s[i] \in T
           /\ Append(s, x)[Len(s) + 1] = x
  OBVIOUS

LEMMA SizeIs ==
    ASSUME NEW s
    PROVE  Packing!Size(s) = FeeSize + SumFunction([l \in DOMAIN s |-> s[l].weight])
  BY DEF Packing!Size, Packing!SumFunction, SumFunction, Packing!SumFunctionOnSet,
     SumFunctionOnSet, Packing!FoldFunctionOnSet, FoldFunctionOnSet,
     Packing!MapThenFoldSet, MapThenFoldSet

LEMMA SizeAppend ==
    ASSUME NEW s \in Seq(Instr), NEW x \in Instr
    PROVE  /\ Packing!Size(s) \in Nat
           /\ Packing!Size(Append(s, x)) = Packing!Size(s) + x.weight
<1>. DEFINE n == Len(s)
            f == [l \in DOMAIN s |-> s[l].weight]
            g == [l \in DOMAIN Append(s, x) |-> Append(s, x)[l].weight]
<1>1. /\ n \in Nat /\ DOMAIN s = 1..n /\ DOMAIN Append(s, x) = 1..n+1
      /\ \A i \in 1..n : Append(s, x)[i] = s[i] /\ s[i] \in Instr
      /\ Append(s, x)[n + 1] = x
  BY AppendIs
<1>2. DOMAIN f = 1..n /\ \A i \in 1..n : f[i] = s[i].weight /\ f[i] \in Nat
  BY <1>1 DEF Instr
<1>3. DOMAIN g = 1..n+1 /\ g[n + 1] = x.weight /\ x.weight \in Nat /\ \A i \in 1..n : g[i] = f[i]
  BY <1>1 DEF Instr
<1>4. Packing!Size(s) = FeeSize + SumFunction(f) /\ Packing!Size(Append(s, x)) = FeeSize + SumFunction(g)
  BY SizeIs
<1>. HIDE DEF f, g, n
<1>5. SumFunction(f) \in Nat
  <2>1. IsFiniteSet(1..n)
    BY <1>1, FS_Interval
  <2>. QED BY <1>2, <2>1, SumNat DEF SumFunction
<1>6. SumFunction(g) = SumFunction(f) + g[n + 1]
  <2>1. (\A i \in 1..n : f[i] \in Int) /\ g[n + 1] \in Int
    BY <1>2, <1>3
  <2>. QED BY <1>1, <1>2, <1>3, <2>1, SumAppend
<1>7. FeeSize \in Nat
  BY Constants
<1>8. Packing!Size(s) \in Nat /\ Packing!Size(Append(s, x)) = FeeSize + (SumFunction(f) + x.weight)
  BY <1>3, <1>4, <1>5, <1>6, <1>7
<1>. QED BY <1>3, <1>4, <1>5, <1>7, <1>8

LEMMA SizeOne ==
    /\ Packing!Size(<<>>) = FeeSize
    /\ \A x \in Instr : Packing!Size(<<x>>) = FeeSize + x.weight
    /\ \A x, y \in Instr : Packing!Size(<<x, y>>) = FeeSize + x.weight + y.weight
<1>1. Packing!Size(<<>>) = FeeSize
  <2>. DEFINE e == <<>>
              f == [l \in DOMAIN e |-> e[l].weight]
  <2>1. DOMAIN f = {}
    OBVIOUS
  <2>. HIDE DEF f
  <2>2. SumFunction(f) = 0
    BY <2>1, SumEmpty DEF SumFunction
  <2>3. Packing!Size(e) = FeeSize + SumFunction(f)
    BY SizeIs DEF f
  <2>4. FeeSize \in Nat
    BY Constants
  <2>. QED BY <2>2, <2>3, <2>4
<1>2. ASSUME NEW x \in Instr PROVE Packing!Size(<<x>>) = FeeSize + x.weight
  <2>1. <<>> \in Seq(Instr) /\ <<x>> = Append(<<>>, x)
    OBVIOUS
  <2>. QED BY <1>1, <2>1, SizeAppend
<1>3. ASSUME NEW x \in Instr, NEW y \in Instr
      PROVE  Packing!Size(<<x, y>>) = FeeSize + x.weight + y.weight
  <2>1. <<x>> \in Seq(Instr) /\ <<x, y>> = Append(<<x>>, y)
    OBVIOUS
  <2>. QED BY <1>2, <2>1, SizeAppend
<1>. QED BY <1>1, <1>2, <1>3

\* A sequence is its front and its last element.
LEMMA FrontLast ==
    ASSUME NEW T, NEW s \in Seq(T), s # <<>>
    PROVE  /\ Packing!Front(s) \in Seq(T) /\ Packing!Last(s) \in T
           /\ Packing!Last(s) = s[Len(s)] /\ Len(s) \in DOMAIN s
           /\ DOMAIN Packing!Front(s) = 1..Len(s)-1
           /\ \A i \in 1..Len(s)-1 : Packing!Front(s)[i] = s[i]
           /\ s = Append(Packing!Front(s), Packing!Last(s))
<1>. DEFINE f == Packing!Front(s)
<1>1. Len(s) \in Nat \ {0} /\ DOMAIN s = 1..Len(s) /\ \A i \in 1..Len(s) : s[i] \in T
  BY EmptySeq, LenProperties
<1>2. /\ f \in Seq(T) /\ Len(f) = Len(s) - 1
      /\ \A i \in 1..Len(s)-1 : f[i] = s[i]
  <2>1. f = SubSeq(s, 1, Len(s) - 1)
    BY DEF Packing!Front
  <2>2. 1 \in Int /\ Len(s) - 1 \in Int /\ \A i \in 1..Len(s)-1 : s[i] \in T
    BY <1>1
  <2>3. SubSeq(s, 1, Len(s) - 1) \in Seq(T)
        /\ Len(SubSeq(s, 1, Len(s) - 1)) = (IF 1 <= Len(s) - 1 THEN (Len(s) - 1) - 1 + 1 ELSE 0)
        /\ \A i \in 1..(Len(s) - 1)-1+1 : SubSeq(s, 1, Len(s) - 1)[i] = s[1+i-1]
    BY <2>2, SubSeqProperties
  <2>. QED BY <1>1, <2>1, <2>3
<1>3. Packing!Last(s) = s[Len(s)] /\ Len(s) \in DOMAIN s /\ s[Len(s)] \in T
  BY <1>1 DEF Packing!Last
<1>4. DOMAIN f = 1..Len(s)-1
  BY <1>2, LenProperties
<1>. HIDE DEF f
<1>5. s = Append(f, s[Len(s)])
  <2>. DEFINE a == Append(f, s[Len(s)])
  <2>1. a \in Seq(T) /\ Len(a) = Len(s) /\ a[Len(s)] = s[Len(s)]
        /\ \A i \in 1..Len(s)-1 : a[i] = f[i]
    <3>1. Len(f) + 1 = Len(s)
      BY <1>1, <1>2
    <3>2. /\ a \in Seq(T) /\ Len(a) = Len(f) + 1 /\ a[Len(f) + 1] = s[Len(s)]
          /\ \A i \in 1..Len(f) : a[i] = f[i]
      BY <1>2, <1>3, AppendIs
    <3>. HIDE DEF a
    <3>. QED BY <1>2, <3>1, <3>2
  <2>. HIDE DEF a
  <2>2. \A i \in 1..Len(s) : s[i] = a[i]
    BY <1>1, <1>2, <2>1
  <2>3. s = a
    BY <2>1, <2>2, SeqEqual
  <2>. QED BY <2>3 DEF a
<1>. QED BY <1>2, <1>3, <1>4, <1>5 DEF f

-----------------------------------------------------------------------------
(* Which instructions are in which transaction. *)

\* The positions in a transaction, and that it holds none of them twice.
Ats(t) == {t[l].at : l \in DOMAIN t}
Once(t) == \A l, m \in DOMAIN t : t[l].at = t[m].at /\ t[l].at # 0 => l = m

\* The first n instructions are in these transactions, in this order.
Placed(s, n) ==
    /\ \A m \in DOMAIN s : Ats(s[m]) \subseteq 0..n /\ Once(s[m])
    /\ \A m, j \in DOMAIN s : m < j => \A a \in Ats(s[m]), b \in Ats(s[j]) : b # 0 => a < b
    /\ \A i \in 1..n : \E m \in DOMAIN s : i \in Ats(s[m])

\* One more transaction with the instructions that come next, or with none.
LEMMA PlacedAppend ==
    ASSUME NEW T, NEW s \in Seq(T), NEW t \in T, NEW n \in Nat, NEW m \in Nat, n <= m,
           Placed(s, n), Ats(t) \ {0} = n+1..m, Once(t)
    PROVE  Placed(Append(s, t), m)
<1>. DEFINE r == Append(s, t)
            d == Len(s)
<1>1. /\ d \in Nat /\ DOMAIN s = 1..d /\ DOMAIN r = 1..d+1 /\ r[d + 1] = t
      /\ \A i \in 1..d : r[i] = s[i]
  BY AppendIs
<1>. HIDE DEF r, d
<1>. DEFINE A == Ats(t)
            O(u) == Once(u)
<1>. HIDE DEF A, O
<1>2. \A i \in 1..d+1 : i \in 1..d \/ i = d + 1
  BY <1>1
<1>3. A \subseteq 0..m
  BY DEF A
<1>4. ASSUME NEW i \in DOMAIN r PROVE Ats(r[i]) \subseteq 0..m /\ Once(r[i])
  <2>1. CASE i \in 1..d
    <3>1. Ats(s[i]) \subseteq 0..n /\ Once(s[i]) /\ 0..n \subseteq 0..m
      BY <1>1, <2>1 DEF Placed
    <3>. QED BY <1>1, <2>1, <3>1
  <2>2. CASE i = d + 1
    BY <1>1, <1>3, <2>2 DEF A
  <2>. QED BY <1>1, <1>2, <2>1, <2>2
<1>5. ASSUME NEW i \in DOMAIN r, NEW j \in DOMAIN r, i < j,
             NEW a \in Ats(r[i]), NEW b \in Ats(r[j]), b # 0
      PROVE  a < b
  <2>1. i \in 1..d /\ r[i] = s[i]
    BY <1>1, <1>5
  <2>2. CASE j \in 1..d
    <3>1. r[j] = s[j] /\ i \in DOMAIN s /\ j \in DOMAIN s
      BY <1>1, <2>1, <2>2
    <3>. QED BY <1>5, <2>1, <3>1 DEF Placed
  <2>3. CASE j = d + 1
    <3>1. b \in A /\ b \in n+1..m
      BY <1>1, <1>5, <2>3 DEF A
    <3>2. a \in 0..n
      BY <1>1, <1>5, <2>1 DEF Placed
    <3>. QED BY <3>1, <3>2
  <2>. QED BY <1>1, <1>2, <2>2, <2>3
<1>6. ASSUME NEW i \in 1..m PROVE \E j \in DOMAIN r : i \in Ats(r[j])
  <2>1. CASE i \in 1..n
    <3>1. PICK j \in DOMAIN s : i \in Ats(s[j])
      BY <2>1 DEF Placed
    <3>2. j \in DOMAIN r /\ r[j] = s[j]
      BY <1>1
    <3>. QED BY <3>1, <3>2
  <2>2. CASE ~(i \in 1..n)
    <3>1. i \in A
      BY <2>2 DEF A
    <3>2. d + 1 \in DOMAIN r /\ i \in Ats(r[d + 1])
      BY <1>1, <3>1 DEF A
    <3>. QED BY <3>2
  <2>. QED BY <2>1, <2>2
<1>. QED BY <1>4, <1>5, <1>6 DEF Placed, r

LEMMA PlacedNone == Placed(<<>>, 0)
  BY DEF Placed

\* How many transactions pay a tip.
Tipped(s) == {m \in DOMAIN s : Packing!HasTip(s[m])}

\* The transactions that hold no instruction, only a tip.
Lone(s) == {m \in DOMAIN s : Ats(s[m]) \ {0} = {}}

LEMMA LoneAppend ==
    ASSUME NEW T, NEW s \in Seq(T), NEW t \in T
    PROVE  /\ Ats(t) \ {0} # {} => Lone(Append(s, t)) = Lone(s)
           /\ Ats(t) \ {0} = {} => Lone(Append(s, t)) = Lone(s) \cup {Len(s) + 1}
<1>. DEFINE r == Append(s, t)
            d == Len(s)
            B(u) == Ats(u) \ {0} = {}
<1>1. /\ d \in Nat /\ DOMAIN s = 1..d /\ DOMAIN r = 1..d+1 /\ r[d + 1] = t
      /\ \A i \in 1..d : r[i] = s[i]
  BY AppendIs
<1>. HIDE DEF r, d, B
<1>2. Lone(s) = {m \in 1..d : B(s[m])} /\ Lone(r) = {m \in 1..d+1 : B(r[m])}
  BY <1>1 DEF Lone, B
<1>3. \A i \in 1..d+1 : i \in 1..d \/ i = d + 1
  BY <1>1
<1>4. ~B(t) => Lone(r) = Lone(s)
  BY <1>1, <1>2, <1>3
<1>5. B(t) => Lone(r) = Lone(s) \cup {d + 1}
  BY <1>1, <1>2, <1>3
<1>. QED BY <1>4, <1>5 DEF B, r, d

\* A tip stands alone once, or twice around the last transaction.
OnlyClone(s) ==
    \A j, m \in Lone(s) : j < m =>
        s[m] = Packing!TipTx /\ m = Len(s) /\ j = m - 2 /\ j % PerBundle = 0

LEMMA LoneOne == ASSUME NEW s, Lone(s) \subseteq {Len(s)}, Len(s) \in Nat PROVE OnlyClone(s)
  BY DEF OnlyClone

LEMMA TippedNone == Cardinality(Tipped(<<>>)) = 0
<1>1. Tipped(<<>>) = {}
  BY DEF Tipped
<1>. QED BY <1>1, FS_EmptySet

LEMMA TippedAppend ==
    ASSUME NEW T, NEW s \in Seq(T), NEW t \in T
    PROVE  /\ Cardinality(Tipped(s)) \in Nat
           /\ Packing!HasTip(t) => Cardinality(Tipped(Append(s, t))) = Cardinality(Tipped(s)) + 1
           /\ ~Packing!HasTip(t) => Cardinality(Tipped(Append(s, t))) = Cardinality(Tipped(s))
<1>. DEFINE r == Append(s, t)
            d == Len(s)
            H(u) == Packing!HasTip(u)
<1>1. /\ d \in Nat /\ DOMAIN s = 1..d /\ DOMAIN r = 1..d+1 /\ r[d + 1] = t
      /\ \A i \in 1..d : r[i] = s[i]
  BY AppendIs
<1>. HIDE DEF r, d, H
<1>2. \A i \in 1..d+1 : i \in 1..d \/ i = d + 1
  BY <1>1
<1>3. Tipped(s) = {m \in 1..d : H(s[m])} /\ Tipped(r) = {m \in 1..d+1 : H(r[m])}
  BY <1>1 DEF Tipped, H
<1>4. IsFiniteSet(Tipped(s)) /\ d + 1 \notin Tipped(s)
  <2>1. IsFiniteSet(1..d) /\ Tipped(s) \subseteq 1..d
    BY <1>1, <1>3, FS_Interval
  <2>. QED BY <1>1, <2>1, FS_Subset
<1>5. CASE H(t)
  <2>1. Tipped(r) = Tipped(s) \cup {d + 1}
    BY <1>1, <1>2, <1>3, <1>5
  <2>. QED BY <1>4, <1>5, <2>1, FS_AddElement, FS_CardinalityType DEF H, r
<1>6. CASE ~H(t)
  <2>1. Tipped(r) = Tipped(s)
    BY <1>1, <1>2, <1>3, <1>6
  <2>. QED BY <1>4, <1>6, <2>1, FS_CardinalityType DEF H, r
<1>. QED BY <1>5, <1>6

-----------------------------------------------------------------------------
(* The list of transactions. *)

LEMMA Divide ==
    ASSUME NEW d \in Nat, d >= 1, NEW q \in Nat, NEW r \in 0..d-1
    PROVE  (q * d + r) \div d = q /\ (q * d + r) % d = r
<1>. DEFINE i == q * d + r
            p == i \div d
            s == i % d
<1>1. i \in Nat
  OBVIOUS
<1>. HIDE DEF i
<1>2. p \in Int /\ s \in 0..d-1 /\ i = d * p + s
  BY <1>1
<1>. HIDE DEF p, s
<1>3. q * d = d * q /\ d * (p + 1) = d * p + d /\ d * (q + 1) = d * q + d
      /\ d * p \in Int /\ d * q \in Int
  BY <1>2
<1>4. ~(p + 1 <= q)
  <2>1. p + 1 <= q => d * (p + 1) <= d * q
    BY <1>2
  <2>. QED BY <1>2, <1>3, <2>1 DEF i
<1>5. ~(q + 1 <= p)
  <2>1. q + 1 <= p => d * (q + 1) <= d * p
    BY <1>2
  <2>. QED BY <1>2, <1>3, <2>1 DEF i
<1>6. p = q
  BY <1>2, <1>4, <1>5
<1>7. s = r
  BY <1>2, <1>3, <1>6 DEF i
<1>. QED BY <1>6, <1>7 DEF p, s, i

LEMMA Quotient ==
    ASSUME NEW d \in Nat, d >= 1, NEW n \in Nat
    PROVE  \E q \in Nat, r \in 0..d-1 : n = q * d + r /\ n \div d = q /\ n % d = r
<1>. DEFINE q == n \div d
            r == n % d
<1>1. q \in Int /\ r \in 0..d-1 /\ n = d * q + r
  OBVIOUS
<1>. HIDE DEF q, r
<1>2. d * q = q * d
  BY <1>1
<1>3. q >= 0
  <2>1. q <= -1 => d * q <= d * (-1)
    BY <1>1
  <2>2. d * (-1) = -d /\ d * q \in Int
    BY <1>1
  <2>. QED BY <1>1, <2>1, <2>2
<1>4. q \in Nat /\ r \in 0..d-1 /\ n = q * d + r
  BY <1>1, <1>2, <1>3
<1>5. q = n \div d /\ r = n % d
  BY DEF q, r
<1>. QED BY <1>4, <1>5

\* The transaction after l of them ends a bundle.
LEMMA ModNext ==
    ASSUME NEW l \in Nat
    PROVE  (l % PerBundle = PerBundle - 1) <=> ((l + 1) % PerBundle = 0)
<1>0. PerBundle \in Nat /\ PerBundle > 1
  BY Constants
<1>1. PICK q \in Nat, r \in 0..PerBundle-1 : l = q * PerBundle + r /\ l % PerBundle = r
  BY <1>0, Quotient
<1>2. CASE r = PerBundle - 1
  <2>1. l + 1 = (q + 1) * PerBundle + 0
    BY <1>0, <1>1, <1>2
  <2>2. 0 \in 0..PerBundle-1 /\ q + 1 \in Nat
    BY <1>0, <1>1
  <2>3. ((q + 1) * PerBundle + 0) % PerBundle = 0
    BY <1>0, <2>2, Divide
  <2>. QED BY <1>1, <1>2, <2>1, <2>3
<1>3. CASE r # PerBundle - 1
  <2>. DEFINE u == r + 1
  <2>1. l + 1 = q * PerBundle + u /\ u \in 0..PerBundle-1 /\ u # 0
    BY <1>0, <1>1, <1>3
  <2>. HIDE DEF u
  <2>2. (q * PerBundle + u) % PerBundle = u
    <3>1. PerBundle >= 1
      BY <1>0
    <3>. QED BY <1>0, <2>1, <3>1, Divide
  <2>. QED BY <1>1, <1>3, <2>1, <2>2
<1>. QED BY <1>2, <1>3

\* A transaction within the limit, but for the tip that is too heavy; the
\* transaction before the next bundle, which has a tip or came to the limit.
FitAt(t, m) ==
    \/ Packing!Size(t) <= Cap
    \/ m % PerBundle = 0 /\ Packing!HasTip(t)
         /\ \E w \in Weights : w < TipSize /\ Packing!Size(t) - TipSize + w < Cap
Paid(t, u) == Packing!HasTip(t) \/ (u # <<>> /\ Packing!Size(t) + u[1].weight = Cap)

PaidLast(s, u) == s # <<>> /\ Len(s) % PerBundle = 0 => Paid(s[Len(s)], u)

\* A list of transactions with the first n instructions, and one that may go
\* behind it.
Good(E, s, n) ==
    /\ s \in Seq(Seq(E))
    /\ Placed(s, n)
    /\ \A m \in DOMAIN s : FitAt(s[m], m)
    /\ \A m \in DOMAIN s : m % PerBundle = 0 /\ m + 1 \in DOMAIN s => Paid(s[m], s[m + 1])
Pushable(E, s, n, t, m) ==
    /\ t \in Seq(E)
    /\ Ats(t) \ {0} = n+1..m /\ Once(t)
    /\ FitAt(t, Len(s) + 1)
    /\ PaidLast(s, t)

LEMMA GoodAppend ==
    ASSUME NEW E, NEW s, NEW t, NEW n \in Nat, NEW m \in Nat, n <= m,
           Good(E, s, n), Pushable(E, s, n, t, m)
    PROVE  Good(E, Append(s, t), m)
<1>. DEFINE T == Seq(E)
            r == Append(s, t)
            d == Len(s)
<1>1. s \in Seq(T) /\ t \in T
  BY DEF Good, Pushable
<1>. HIDE DEF T
<1>2. /\ r \in Seq(T)
      /\ d \in Nat /\ DOMAIN s = 1..d /\ DOMAIN r = 1..d+1 /\ r[d + 1] = t
      /\ \A i \in 1..d : r[i] = s[i]
  BY <1>1, AppendIs
<1>3. Placed(r, m)
  BY <1>1, PlacedAppend DEF Good, Pushable
<1>. HIDE DEF r, d
<1>4. \A i \in DOMAIN r : i \in 1..d \/ i = d + 1
  BY <1>2
<1>5. ASSUME NEW i \in DOMAIN r PROVE FitAt(r[i], i)
  <2>1. CASE i \in 1..d
    BY <1>2, <2>1, Zenon DEF Good
  <2>2. CASE i = d + 1
    BY <1>2, <2>2, Zenon DEF Pushable, d
  <2>. QED BY <1>4, <2>1, <2>2
<1>6. ASSUME NEW i \in DOMAIN r, i % PerBundle = 0, i + 1 \in DOMAIN r PROVE Paid(r[i], r[i + 1])
  <2>1. i \in 1..d /\ r[i] = s[i]
    BY <1>2, <1>6
  <2>2. CASE i + 1 \in 1..d
    <3>1. r[i + 1] = s[i + 1] /\ i \in DOMAIN s /\ i + 1 \in DOMAIN s
      BY <1>2, <2>1, <2>2
    <3>. QED BY <1>6, <2>1, <3>1 DEF Good
  <2>3. CASE i + 1 = d + 1
    <3>1. i = d /\ r[i + 1] = t /\ s # <<>>
      BY <1>2, <2>1, <2>3
    <3>2. PaidLast(s, t)
      BY DEF Pushable
    <3>. QED BY <1>6, <2>1, <3>1, <3>2 DEF PaidLast, d
  <2>. QED BY <1>4, <1>6, <2>2, <2>3
<1>. QED BY <1>2, <1>3, <1>5, <1>6 DEF Good, T, r

-----------------------------------------------------------------------------
(* The instructions: a sale and the tax of the same wallet, in pairs. *)

Made == [wallet : Wallets, kind : {"sell", "tax"}, amount : Nat]

Pairs ==
    /\ ixs \in Seq(Made)
    /\ \A i \in DOMAIN ixs :
          /\ ixs[i].kind = "sell" =>
                 i + 1 \in DOMAIN ixs /\ ixs[i + 1].kind = "tax" /\ ixs[i + 1].wallet = ixs[i].wallet
          /\ ixs[i].kind = "tax" =>
                 i - 1 \in DOMAIN ixs /\ ixs[i - 1].kind = "sell" /\ ixs[i - 1].wallet = ixs[i].wallet

\* How they are packed: a tip, or a position and the weight of the
\* instruction there.
W(a) == weight[ixs[a].kind]
Elem == {x \in Instr : x = Packing!TipIx \/ (x.at \in DOMAIN ixs /\ x.weight = W(x.at))}

LEMMA TipIs ==
    /\ Packing!TipIx.at = 0 /\ Packing!TipIx.weight = TipSize
    /\ Packing!TipIx \in Instr /\ Packing!TipIx \in Elem
<1>1. Packing!TipIx.at = 0 /\ Packing!TipIx.weight = TipSize
  BY DEF Packing!TipIx, Packing!Ix
<1>2. Packing!TipIx \in Instr
  BY Constants DEF Packing!TipIx, Packing!Ix, Instr
<1>3. Packing!TipIx \in Elem
  BY <1>2 DEF Elem
<1>. QED BY <1>1, <1>2, <1>3

LEMMA WeightsFit ==
    ASSUME Pairs, weight \in Sizes
    PROVE  /\ \A a \in DOMAIN ixs : W(a) \in Weights /\ W(a) \in Nat /\ FeeSize + W(a) < Cap
           /\ \A a \in DOMAIN ixs : a + 1 \in DOMAIN ixs => FeeSize + W(a) + W(a + 1) < Cap
<1>. DEFINE se == weight.sell
            ta == weight.tax
<1>1. se \in Nat /\ ta \in Nat /\ FeeSize \in Nat /\ Cap \in Nat /\ FeeSize + se + ta < Cap
  BY Constants
<1>2. se \in Weights /\ ta \in Weights
  BY DEF Weights
<1>3. \A a \in DOMAIN ixs : ixs[a].kind \in {"sell", "tax"}
  <2>1. \A a \in DOMAIN ixs : ixs[a] \in Made
    BY LenProperties DEF Pairs
  <2>. QED BY <2>1 DEF Made
<1>4. ASSUME NEW a \in DOMAIN ixs
      PROVE  /\ ixs[a].kind = "sell" => W(a) = se
             /\ ixs[a].kind = "tax" => W(a) = ta
  BY DEF W
<1>. HIDE DEF se, ta
<1>5. ASSUME NEW a \in DOMAIN ixs PROVE W(a) \in Weights /\ W(a) \in Nat /\ FeeSize + W(a) < Cap
  BY <1>1, <1>2, <1>3, <1>4
<1>6. ASSUME NEW a \in DOMAIN ixs, a + 1 \in DOMAIN ixs PROVE FeeSize + W(a) + W(a + 1) < Cap
  <2>0. a \in Int
    BY LenProperties DEF Pairs
  <2>1. CASE ixs[a].kind = "sell"
    <3>1. ixs[a + 1].kind = "tax"
      BY <2>1 DEF Pairs
    <3>. QED BY <1>1, <1>4, <1>6, <2>1, <3>1
  <2>2. CASE ixs[a].kind = "tax"
    <3>1. ixs[a + 1].kind # "tax"
      <4>1. ixs[a + 1].kind = "tax" => ixs[(a + 1) - 1].kind = "sell"
        BY <1>6 DEF Pairs
      <4>. QED BY <2>0, <2>2, <4>1
    <3>2. ixs[a + 1].kind = "sell"
      BY <1>3, <1>6, <3>1
    <3>. QED BY <1>1, <1>4, <1>6, <2>2, <3>2
  <2>. QED BY <1>3, <2>1, <2>2
<1>. QED BY <1>5, <1>6

LEMMA ElemIs ==
    ASSUME Pairs, weight \in Sizes
    PROVE  /\ Elem \subseteq Instr
           /\ \A x \in Elem : x.at = 0 <=> x = Packing!TipIx
           /\ \A a \in DOMAIN ixs : Packing!Ix(a, W(a)) \in Elem
           /\ \A x \in Elem : x.at # 0 => x.at \in DOMAIN ixs /\ x.weight = W(x.at)
<1>1. DOMAIN ixs = 1..Len(ixs) /\ Len(ixs) \in Nat
  BY LenProperties DEF Pairs
<1>2. Elem \subseteq Instr
  BY DEF Elem
<1>3. ASSUME NEW x \in Elem
      PROVE  (x.at = 0 <=> x = Packing!TipIx) /\ (x.at # 0 => x.at \in DOMAIN ixs /\ x.weight = W(x.at))
  BY <1>1, <1>3, TipIs DEF Elem
<1>4. ASSUME NEW a \in DOMAIN ixs PROVE Packing!Ix(a, W(a)) \in Elem
  <2>1. W(a) \in Nat /\ a \in Nat
    BY <1>1, WeightsFit
  <2>. QED BY <2>1 DEF Elem, Instr, Packing!Ix
<1>. QED BY <1>2, <1>3, <1>4

-----------------------------------------------------------------------------
(* The packing. *)

\* While instructions are packed: c of them are in transactions, the others so
\* far in the one that is open.  Its last instruction is the one before the
\* next, except where a bundle begins, and so it can move on for a tip.  Each
\* transaction holds an instruction, with a tip or without.
Loop(c) ==
    /\ looping = "loop" /\ next \in 1..Len(ixs)+1
    /\ Good(Elem, txs, c)
    /\ Pushable(Elem, txs, c, cur, next - 1) /\ 0 \notin Ats(cur)
    /\ c <= next - 1
    /\ Packing!Size(cur) < Cap
    /\ cur = <<>> => next = 1 /\ txs = <<>>
    /\ cur # <<>> /\ Len(txs) % PerBundle # 0 => Packing!Last(cur).at = next - 1
    /\ Lone(txs) = {}
    /\ tips = Cardinality(Tipped(txs))

\* When all are packed the last transaction pays a tip, and tips that stand
\* alone are one or the two clones.
Packed ==
    /\ looping = "done" /\ next = Len(ixs) + 1
    /\ Good(Elem, txs, Len(ixs))
    /\ txs # <<>> /\ Packing!HasTip(txs[Len(txs)])
    /\ cur \in Seq(Elem) /\ 0 \notin Ats(cur)
    /\ OnlyClone(txs)
    /\ tips = Cardinality(Tipped(txs))

PackInv == Packed \/ \E c \in Nat : Loop(c)

\* What the open transaction is.
LEMMA CurIs ==
    ASSUME Pairs, weight \in Sizes, NEW c \in Nat, Loop(c)
    PROVE  /\ cur \in Seq(Elem) /\ cur \in Seq(Instr)
           /\ Len(cur) \in Nat /\ DOMAIN cur = 1..Len(cur)
           /\ Ats(cur) = c+1..next-1
           /\ next \in Nat /\ Packing!Size(cur) \in Nat
           /\ \A l \in DOMAIN cur : cur[l] \in Elem /\ cur[l].at \in c+1..next-1
           /\ ~Packing!HasTip(cur)
<1>1. cur \in Seq(Elem) /\ Ats(cur) \ {0} = c+1..next-1 /\ 0 \notin Ats(cur) /\ next \in Nat
  BY LenProperties DEF Loop, Pushable, Pairs
<1>2. cur \in Seq(Instr)
  BY <1>1, ElemIs, SeqMonotonic
<1>3. Len(cur) \in Nat /\ DOMAIN cur = 1..Len(cur) /\ \A l \in DOMAIN cur : cur[l] \in Elem
  BY <1>1, LenProperties
<1>4. Ats(cur) = c+1..next-1
  BY <1>1
<1>5. \A l \in DOMAIN cur : cur[l].at \in c+1..next-1
  BY <1>4 DEF Ats
<1>6. ~Packing!HasTip(cur)
  BY <1>5, TipIs DEF Packing!HasTip
<1>. QED BY <1>1, <1>2, <1>3, <1>4, <1>5, <1>6, SizeAppend, TipIs

\* A list of one or two elements, and one longer.
LEMMA AtsAppend ==
    ASSUME NEW T, NEW s \in Seq(T), NEW x \in T
    PROVE  /\ Ats(Append(s, x)) = Ats(s) \cup {x.at}
           /\ Once(s) /\ (x.at \notin Ats(s) \/ x.at = 0) => Once(Append(s, x))
<1>1. /\ Len(s) \in Nat /\ DOMAIN s = 1..Len(s) /\ DOMAIN Append(s, x) = 1..Len(s)+1
      /\ \A i \in 1..Len(s) : Append(s, x)[i] = s[i] /\ s[i] \in T
      /\ Append(s, x)[Len(s) + 1] = x
  BY AppendIs
<1>. DEFINE r == Append(s, x)
            d == Len(s)
<1>. HIDE DEF r, d
<1>2. /\ d \in Nat /\ DOMAIN s = 1..d /\ DOMAIN r = 1..d+1
      /\ \A i \in 1..d : r[i] = s[i] /\ i \in 1..d+1
      /\ r[d + 1] = x /\ d + 1 \in 1..d+1
      /\ \A i \in 1..d+1 : i \in 1..d \/ i = d + 1
  BY <1>1 DEF r, d
<1>3. Ats(r) = Ats(s) \cup {x.at}
  <2>1. ASSUME NEW i \in DOMAIN r PROVE r[i].at \in Ats(s) \cup {x.at}
    BY <1>2 DEF Ats
  <2>2. ASSUME NEW i \in DOMAIN s PROVE s[i].at \in Ats(r)
    BY <1>2 DEF Ats
  <2>3. x.at \in Ats(r)
    BY <1>2 DEF Ats
  <2>. QED BY <2>1, <2>2, <2>3 DEF Ats
<1>4. ASSUME Once(s), x.at \notin Ats(s) \/ x.at = 0 PROVE Once(r)
  <2>1. ASSUME NEW l \in DOMAIN r, NEW m \in DOMAIN r, r[l].at = r[m].at, r[l].at # 0 PROVE l = m
    <3>1. CASE l \in 1..d /\ m \in 1..d
      BY <1>2, <1>4, <2>1, <3>1 DEF Once
    <3>2. CASE l = d + 1 /\ m \in 1..d
      <4>1. x.at = s[m].at /\ s[m].at \in Ats(s)
        BY <1>2, <2>1, <3>2 DEF Ats
      <4>. QED BY <1>2, <1>4, <2>1, <3>2, <4>1
    <3>3. CASE l \in 1..d /\ m = d + 1
      <4>1. x.at = s[l].at /\ s[l].at \in Ats(s)
        BY <1>2, <2>1, <3>3 DEF Ats
      <4>. QED BY <1>2, <1>4, <2>1, <3>3, <4>1
    <3>. QED BY <1>2, <3>1, <3>2, <3>3
  <2>. QED BY <2>1 DEF Once
<1>. QED BY <1>3, <1>4 DEF r

LEMMA AtsShort ==
    ASSUME NEW T, NEW x \in T, NEW y \in T
    PROVE  /\ Ats(<<>>) = {} /\ Once(<<>>)
           /\ <<x>> \in Seq(T) /\ Ats(<<x>>) = {x.at} /\ Once(<<x>>)
           /\ <<x, y>> \in Seq(T) /\ Ats(<<x, y>>) = {x.at, y.at}
           /\ x.at # y.at => Once(<<x, y>>)
<1>. DEFINE e == <<>>
            u == <<x>>
            v == <<x, y>>
<1>1. Ats(e) = {} /\ Once(e) /\ e \in Seq(T)
  BY DEF Ats, Once
<1>2. u \in Seq(T) /\ u = Append(e, x) /\ v \in Seq(T) /\ v = Append(u, y)
  OBVIOUS
<1>. HIDE DEF e, u, v
<1>3. Ats(u) = {x.at} /\ Once(u)
  <2>1. x.at \notin Ats(e)
    BY <1>1
  <2>2. Ats(u) = Ats(e) \cup {x.at} /\ Once(u)
    BY <1>1, <1>2, <2>1, AtsAppend
  <2>. QED BY <1>1, <2>2
<1>4. Ats(v) = {x.at, y.at} /\ (x.at # y.at => Once(v))
  <2>1. x.at # y.at => y.at \notin Ats(u)
    BY <1>3
  <2>2. Ats(v) = Ats(u) \cup {y.at}
    <3>1. u \in Seq(T) /\ v = Append(u, y)
      BY <1>2
    <3>2. Ats(Append(u, y)) = Ats(u) \cup {y.at}
      BY <3>1, AtsAppend
    <3>. QED BY <3>1, <3>2, Zenon
  <2>3. ASSUME y.at \notin Ats(u) PROVE Once(v)
    BY <1>2, <1>3, <2>3, AtsAppend
  <2>. QED BY <1>3, <2>1, <2>2, <2>3
<1>. QED BY <1>1, <1>2, <1>3, <1>4 DEF e, u, v

LEMMA AtsTwo ==
    ASSUME NEW T, NEW x \in T, NEW y \in T, x.at # y.at
    PROVE  /\ <<x>> \o <<y>> = <<x, y>> /\ <<x, y>> \in Seq(T)
           /\ Ats(<<x, y>>) = {x.at, y.at} /\ Once(<<x, y>>)
<1>1. <<x>> \in Seq(T) /\ <<y>> \in Seq(T) /\ <<x, y>> \in Seq(T)
  OBVIOUS
<1>2. <<x>> \o <<y>> = <<x, y>>
  <2>. DEFINE u == <<x>>
              v == <<y>>
              r == u \o v
              z == <<x, y>>
  <2>1. Len(u) = 1 /\ Len(v) = 1 /\ u[1] = x /\ v[1] = y /\ Len(z) = 2 /\ z[1] = x /\ z[2] = y
    OBVIOUS
  <2>2. u \in Seq(T) /\ v \in Seq(T) /\ z \in Seq(T)
    BY <1>1
  <2>. HIDE DEF u, v, z
  <2>3. /\ r \in Seq(T) /\ Len(r) = Len(u) + Len(v)
        /\ \A i \in 1..Len(u) + Len(v) : r[i] = IF i <= Len(u) THEN u[i] ELSE v[i - Len(u)]
    BY <2>2, ConcatProperties
  <2>. HIDE DEF r
  <2>4. Len(r) = Len(z) /\ \A i \in 1..Len(r) : r[i] = z[i]
    BY <2>1, <2>3
  <2>5. r = z
    BY <2>2, <2>3, <2>4, SeqEqual
  <2>. QED BY <2>5 DEF r, u, v, z
<1>. QED BY <1>1, <1>2, AtsShort

\* What is left of a transaction that gave its last instruction up.
LEMMA AtsFront ==
    ASSUME NEW T, NEW s \in Seq(T), s # <<>>, Once(s), 0 \notin Ats(s)
    PROVE  /\ Ats(Packing!Front(s)) = Ats(s) \ {Packing!Last(s).at}
           /\ Once(Packing!Front(s))
<1>. DEFINE f == Packing!Front(s)
            x == Packing!Last(s)
<1>1. /\ f \in Seq(T) /\ x \in T /\ s = Append(f, x) /\ x = s[Len(s)] /\ Len(s) \in DOMAIN s
      /\ DOMAIN f = 1..Len(s)-1 /\ \A i \in 1..Len(s)-1 : f[i] = s[i]
      /\ Len(s) \in Nat /\ DOMAIN s = 1..Len(s)
  BY FrontLast, LenProperties
<1>. HIDE DEF f, x
<1>2. Ats(s) = Ats(f) \cup {x.at}
  <2>1. Ats(Append(f, x)) = Ats(f) \cup {x.at}
    BY <1>1, AtsAppend
  <2>2. s = Append(f, x)
    BY <1>1
  <2>. QED BY <2>1, <2>2, Zenon
<1>3. x.at \notin Ats(f)
  <2>1. ASSUME NEW i \in DOMAIN f, f[i].at = x.at PROVE FALSE
    <3>1. i \in DOMAIN s /\ s[i].at = s[Len(s)].at /\ i # Len(s)
      BY <1>1, <2>1
    <3>2. s[i].at # 0
      BY <3>1 DEF Ats
    <3>. QED BY <1>1, <3>1, <3>2 DEF Once
  <2>. QED BY <2>1 DEF Ats
<1>4. Once(f)
  <2>1. \A i \in DOMAIN f : i \in DOMAIN s /\ f[i] = s[i]
    BY <1>1
  <2>. QED BY <2>1 DEF Once
<1>. QED BY <1>2, <1>3, <1>4 DEF f, x

LEMMA ElemSame == ASSUME UNCHANGED <<ixs, weight>> PROVE Elem' = Elem
  BY DEF Elem, W

\* The instruction that is next.
LEMMA NextIs ==
    ASSUME Pairs, weight \in Sizes, next \in 1..Len(ixs)
    PROVE  LET ix == Packing!Ix(next, W(next))
           IN  /\ ix \in Elem /\ ix \in Instr /\ ix.at = next /\ ix.weight = W(next)
               /\ ix # Packing!TipIx
<1>1. next \in DOMAIN ixs
  BY LenProperties DEF Pairs
<1>2. Packing!Ix(next, W(next)) \in Elem /\ Elem \subseteq Instr
  BY <1>1, ElemIs
<1>3. Packing!Ix(next, W(next)).at = next /\ Packing!Ix(next, W(next)).weight = W(next)
  BY DEF Packing!Ix
<1>. QED BY <1>2, <1>3, TipIs

\* It still fits.
LEMMA PackStep ==
    ASSUME Pairs, weight \in Sizes, NEW c \in Nat, Loop(c), next <= Len(ixs),
           Packing!Pack(Packing!Ix(next, W(next))), next' = next + 1,
           UNCHANGED <<looping, ixs, weight>>
    PROVE  Loop(c)'
<1>. DEFINE ix == Packing!Ix(next, W(next))
            u == Append(cur, ix)
<1>0. Len(ixs) \in Nat /\ next \in 1..Len(ixs) /\ c <= next - 1
  BY LenProperties DEF Pairs, Loop
<1>1. ix \in Elem /\ ix \in Instr /\ ix.at = next /\ ix.weight = W(next)
  BY <1>0, NextIs
<1>2. Packing!Size(u) < Cap /\ cur' = u /\ txs' = txs /\ tips' = tips
  BY DEF Packing!Pack, Packing!Fits
<1>. HIDE DEF ix
<1>3. /\ cur \in Seq(Elem) /\ Ats(cur) = c+1..next-1 /\ next \in Nat
      /\ Once(cur) /\ PaidLast(txs, cur) /\ Len(cur) \in Nat
  BY CurIs DEF Loop, Pushable
<1>4. /\ u \in Seq(Elem) /\ Len(u) = Len(cur) + 1 /\ u[Len(cur) + 1] = ix
      /\ \A i \in 1..Len(cur) : u[i] = cur[i]
  BY <1>1, <1>3, AppendIs
<1>5. Ats(u) = Ats(cur) \cup {next} /\ Once(u)
  <2>1. ix.at \notin Ats(cur)
    BY <1>1, <1>3
  <2>2. Ats(u) = Ats(cur) \cup {ix.at} /\ Once(u)
    BY <1>1, <1>3, <2>1, AtsAppend
  <2>. QED BY <1>1, <2>2
<1>. HIDE DEF u
<1>6. Ats(u) = c+1..next /\ 0 \notin Ats(u) /\ Ats(u) \ {0} = c+1..next
  BY <1>0, <1>3, <1>5
<1>7. u # <<>> /\ Packing!Last(u).at = next
  BY <1>1, <1>3, <1>4 DEF Packing!Last
<1>8. PaidLast(txs, u)
  <2>1. CASE cur = <<>>
    BY <2>1 DEF Loop, PaidLast
  <2>2. CASE cur # <<>>
    <3>1. 1 \in 1..Len(cur) /\ u[1] = cur[1]
      BY <1>3, <1>4, <2>2, EmptySeq
    <3>. QED BY <1>3, <1>7, <2>2, <3>1 DEF PaidLast, Paid
  <2>. QED BY <2>1, <2>2
<1>9. FitAt(u, Len(txs) + 1)
  <2>1. Packing!Size(u) \in Nat
    BY <1>4, ElemIs, SeqMonotonic, SizeAppend, TipIs
  <2>. QED BY <1>2, <2>1, Constants DEF FitAt
<1>10. Pushable(Elem, txs, c, u, next)
  BY <1>4, <1>5, <1>6, <1>8, <1>9 DEF Pushable
<1>11. Elem' = Elem /\ next' - 1 = next
  BY <1>3, ElemSame
<1>12. Pushable(Elem, txs, c, cur, next - 1)' /\ Good(Elem, txs, c)'
  BY <1>2, <1>10, <1>11 DEF Loop
<1>13. (cur # <<>> /\ Len(txs) % PerBundle # 0 => Packing!Last(cur).at = next - 1)'
  BY <1>2, <1>7, <1>11
<1>. QED BY <1>0, <1>2, <1>3, <1>6, <1>7, <1>12, <1>13 DEF Loop

\* What a push finds: a transaction that is not empty, and a next instruction
\* that does not fit.
LEMMA PushFinds ==
    ASSUME Pairs, weight \in Sizes, NEW c \in Nat, Loop(c), next <= Len(ixs),
           Packing!Push(Packing!Ix(next, W(next)))
    PROVE  /\ cur # <<>> /\ Len(txs) \in Nat
           /\ Packing!Size(cur) + W(next) >= Cap /\ Packing!Size(cur) < Cap
           /\ Packing!EndsBundle <=> (Len(txs) + 1) % PerBundle = 0
           /\ Packing!Size(Append(cur, Packing!Ix(next, W(next)))) = Packing!Size(cur) + W(next)
           /\ next - 1 \in DOMAIN ixs /\ next \in DOMAIN ixs /\ next - 1 \in Nat
<1>. DEFINE ix == Packing!Ix(next, W(next))
<1>0. Len(ixs) \in Nat /\ next \in 1..Len(ixs) /\ DOMAIN ixs = 1..Len(ixs)
  BY LenProperties DEF Pairs, Loop
<1>1. ix \in Instr /\ ix.weight = W(next) /\ W(next) \in Nat /\ FeeSize + W(next) < Cap
  BY <1>0, NextIs, WeightsFit
<1>2. ~(Packing!Size(Append(cur, ix)) < Cap)
  BY DEF Packing!Push, Packing!Fits
<1>. HIDE DEF ix
<1>3. cur \in Seq(Instr) /\ Packing!Size(cur) \in Nat
  BY CurIs
<1>4. Packing!Size(Append(cur, ix)) = Packing!Size(cur) + W(next)
  BY <1>1, <1>3, SizeAppend
<1>5. Cap \in Nat /\ FeeSize \in Nat
  BY Constants
<1>6. cur # <<>>
  <2>1. CASE cur = <<>>
    <3>1. Packing!Size(cur) = FeeSize
      BY <2>1, SizeOne
    <3>. QED BY <1>1, <1>2, <1>4, <1>5, <3>1
  <2>. QED BY <2>1
<1>7. Len(txs) \in Nat
  BY LenProperties DEF Loop, Good
<1>8. Packing!EndsBundle <=> (Len(txs) + 1) % PerBundle = 0
  BY <1>7, ModNext DEF Packing!EndsBundle
<1>9. next - 1 \in 1..Len(ixs)
  <2>1. 1 \in DOMAIN cur
    BY <1>3, <1>6, EmptySeq, LenProperties
  <2>2. cur[1].at \in c+1..next-1
    BY <2>1, CurIs
  <2>. QED BY <1>0, <2>2
<1>. QED BY <1>0, <1>1, <1>2, <1>3, <1>4, <1>5, <1>6, <1>7, <1>8, <1>9 DEF ix, Loop

\* It does not fit, and the transaction is pushed as it is.
LEMMA PushStep ==
    ASSUME Pairs, weight \in Sizes, NEW c \in Nat, Loop(c), next <= Len(ixs),
           Packing!Push(Packing!Ix(next, W(next))),
           ~(Packing!EndsBundle /\ Packing!Size(Append(cur, Packing!Ix(next, W(next)))) > Cap),
           next' = next + 1, UNCHANGED <<looping, ixs, weight>>
    PROVE  \E d \in Nat : Loop(d)'
<1>. DEFINE ix == Packing!Ix(next, W(next))
            s == Append(txs, cur)
            u == <<ix>>
            n == next - 1
<1>0. /\ Len(ixs) \in Nat /\ next \in 1..Len(ixs) /\ c <= n /\ n \in Nat
      /\ looping = "loop" /\ tips = Cardinality(Tipped(txs))
  BY LenProperties DEF Pairs, Loop
<1>1. /\ ix \in Elem /\ ix \in Instr /\ ix.at = next /\ ix.weight = W(next) /\ W(next) \in Nat
      /\ FeeSize + W(next) < Cap
  <2>1. next \in DOMAIN ixs
    BY <1>0, LenProperties DEF Pairs
  <2>. QED BY <1>0, <2>1, NextIs, WeightsFit
<1>2. cur' = u /\ txs' = s /\ tips' = tips
  BY DEF Packing!Push, Packing!Carried
<1>3. /\ cur # <<>> /\ Len(txs) \in Nat
      /\ Packing!Size(cur) + W(next) >= Cap
      /\ Packing!EndsBundle <=> (Len(txs) + 1) % PerBundle = 0
      /\ Packing!Size(Append(cur, ix)) = Packing!Size(cur) + W(next)
  BY PushFinds
<1>4. ~(Packing!EndsBundle /\ Packing!Size(Append(cur, ix)) > Cap)
  OBVIOUS
<1>. HIDE DEF ix
<1>5. u \in Seq(Elem) /\ Ats(u) = {next} /\ Once(u) /\ u # <<>> /\ u[1] = ix /\ Len(u) = 1
  BY <1>1, AtsShort
<1>6. Packing!Size(u) = FeeSize + W(next) /\ Packing!Size(u) < Cap /\ Packing!Size(u) \in Nat
  BY <1>1, SizeOne, Constants
<1>7. Good(Elem, txs, c) /\ Pushable(Elem, txs, c, cur, n)
  BY DEF Loop
<1>8. Good(Elem, s, n)
  BY <1>0, <1>7, GoodAppend
<1>9. Len(s) = Len(txs) + 1 /\ s[Len(s)] = cur /\ s # <<>>
      /\ Cardinality(Tipped(s)) = Cardinality(Tipped(txs))
  <2>1. txs \in Seq(Seq(Elem)) /\ cur \in Seq(Elem) /\ ~Packing!HasTip(cur)
    BY <1>7, CurIs DEF Good
  <2>2. Len(s) = Len(txs) + 1 /\ s[Len(txs) + 1] = cur
    BY <2>1, AppendIs
  <2>3. Cardinality(Tipped(s)) = Cardinality(Tipped(txs))
    BY <2>1, TippedAppend
  <2>. HIDE DEF s
  <2>. QED BY <1>3, <2>2, <2>3
<1>20. Lone(s) = {}
  <2>1. Lone(txs) = {} /\ txs \in Seq(Seq(Elem)) /\ cur \in Seq(Elem)
    BY <1>7, CurIs DEF Loop, Good
  <2>2. Ats(cur) \ {0} # {}
    <3>1. 1 \in DOMAIN cur
      BY <1>3, <2>1, EmptySeq, LenProperties
    <3>2. cur[1].at \in Ats(cur) /\ 0 \notin Ats(cur)
      BY <3>1 DEF Ats, Loop
    <3>. QED BY <3>2
  <2>. QED BY <2>1, <2>2, LoneAppend
<1>. HIDE DEF s, u
<1>10. PaidLast(s, u)
  <2>1. ASSUME (Len(txs) + 1) % PerBundle = 0 PROVE Packing!Size(cur) + u[1].weight = Cap
    <3>1. ~(Packing!Size(cur) + W(next) > Cap)
      BY <1>3, <1>4, <2>1
    <3>2. Packing!Size(cur) \in Nat /\ Cap \in Nat
      BY CurIs, Constants
    <3>. QED BY <1>1, <1>3, <1>5, <3>1, <3>2
  <2>. QED BY <1>5, <1>9, <2>1 DEF PaidLast, Paid
<1>11. FitAt(u, Len(s) + 1)
  BY <1>6, Constants DEF FitAt
<1>12. Ats(u) \ {0} = n+1..next /\ 0 \notin Ats(u)
  BY <1>0, <1>5
<1>13. Pushable(Elem, s, n, u, next)
  BY <1>5, <1>10, <1>11, <1>12 DEF Pushable
<1>14. Elem' = Elem /\ next' - 1 = next
  BY <1>0, ElemSame
<1>15. PICK d \in Nat : d = n
  BY <1>0
<1>16. Good(Elem', txs', d) /\ Pushable(Elem', txs', d, cur', next' - 1)
  BY <1>2, <1>8, <1>13, <1>14, <1>15
<1>17. Packing!Last(u).at = next
  BY <1>1, <1>5 DEF Packing!Last
<1>18. /\ looping' = "loop" /\ next' \in 1..Len(ixs')+1 /\ 0 \notin Ats(cur') /\ d <= next' - 1
       /\ Packing!Size(cur') < Cap /\ cur' # <<>>
       /\ Packing!Last(cur').at = next' - 1
       /\ Lone(txs') = {} /\ tips' = Cardinality(Tipped(txs'))
  <2>1. looping' = "loop" /\ next' \in 1..Len(ixs')+1 /\ d <= next' - 1
    BY <1>0, <1>14, <1>15
  <2>2. 0 \notin Ats(cur') /\ Packing!Size(cur') < Cap /\ cur' # <<>>
    BY <1>2, <1>5, <1>6, <1>12
  <2>3. Packing!Last(cur').at = next' - 1
    BY <1>2, <1>14, <1>17
  <2>4. Lone(txs') = {} /\ tips' = Cardinality(Tipped(txs'))
    BY <1>0, <1>2, <1>9, <1>20
  <2>. QED BY <2>1, <2>2, <2>3, <2>4
<1>19. Loop(d)'
  BY <1>16, <1>18 DEF Loop
<1>. QED BY <1>19

\* A transaction that made room for a tip, and what comes behind it.
LEMMA TippedTx ==
    ASSUME Pairs, weight \in Sizes, NEW c \in Nat, Loop(c), cur # <<>>, Len(txs) \in Nat,
           (Len(txs) + 1) % PerBundle = 0, next - 1 \in DOMAIN ixs, next - 1 \in Nat
    PROVE  LET t == Append(Packing!Front(cur), Packing!TipIx)
               x == Packing!Last(cur)
           IN  /\ x \in Elem /\ x \in Instr /\ x.at = next - 1 /\ x.weight = W(next - 1)
               /\ c <= next - 2 /\ Packing!HasTip(t)
               /\ c + 1 <= next - 2 \/ Packing!Size(cur) = FeeSize + W(next - 1)
               /\ Pushable(Elem, txs, c, t, next - 2)
<1>. DEFINE f == Packing!Front(cur)
            t == Append(f, Packing!TipIx)
            x == Packing!Last(cur)
<1>1. /\ cur \in Seq(Elem) /\ cur \in Seq(Instr) /\ Ats(cur) = c+1..next-1 /\ next \in Nat
      /\ Packing!Size(cur) \in Nat /\ Packing!Size(cur) < Cap /\ Once(cur) /\ 0 \notin Ats(cur)
  BY CurIs DEF Loop, Pushable
<1>2. Len(txs) % PerBundle # 0
  <2>1. Len(txs) % PerBundle = PerBundle - 1
    BY ModNext
  <2>. QED BY <2>1, Constants
<1>3. x.at = next - 1
  BY <1>2 DEF Loop
<1>4. x \in Elem /\ f \in Seq(Elem) /\ x = cur[Len(cur)] /\ Len(cur) \in DOMAIN cur /\ cur = Append(f, x)
  BY <1>1, FrontLast
<1>5. x \in Instr /\ x.weight = W(next - 1) /\ W(next - 1) \in Nat /\ W(next - 1) \in Weights
  <2>1. x.at # 0
    BY <1>1, <1>3, <1>4 DEF Ats
  <2>. QED BY <1>3, <1>4, <2>1, ElemIs, WeightsFit
<1>6. c <= next - 2 /\ c \in Nat
  <2>1. next - 1 \in c+1..next-1
    BY <1>1, <1>3, <1>4 DEF Ats
  <2>. QED BY <1>1, <2>1
<1>7. Ats(f) = c+1..next-2 /\ Once(f)
  <2>1. Ats(f) = Ats(cur) \ {next - 1} /\ Once(f)
    BY <1>1, <1>3, AtsFront
  <2>. HIDE DEF f
  <2>. QED BY <1>1, <1>6, <2>1
<1>8. t \in Seq(Elem) /\ Packing!HasTip(t)
  <2>1. t \in Seq(Elem) /\ t[Len(f) + 1] = Packing!TipIx /\ Len(f) + 1 \in DOMAIN t
    BY <1>4, TipIs, AppendIs
  <2>. QED BY <2>1 DEF Packing!HasTip
<1>. HIDE DEF f
<1>9. Ats(t) = Ats(f) \cup {0} /\ Once(t)
  <2>. DEFINE y == Packing!TipIx
  <2>0. f \in Seq(Elem) /\ y \in Elem /\ y.at = 0 /\ Once(f)
    BY <1>4, <1>7, TipIs
  <2>. HIDE DEF y
  <2>1. Ats(Append(f, y)) = Ats(f) \cup {y.at} /\ Once(Append(f, y))
    BY <2>0, AtsAppend
  <2>. USE DEF y
  <2>. QED BY <2>1, TipIs
<1>10. Ats(t) \ {0} = c+1..next-2
  BY <1>1, <1>6, <1>7, <1>9
<1>. HIDE DEF x
<1>11. FitAt(t, Len(txs) + 1)
  <2>1. f \in Seq(Instr)
    BY <1>4, ElemIs, SeqMonotonic
  <2>2. Packing!Size(f) \in Nat /\ Packing!Size(Append(f, x)) = Packing!Size(f) + x.weight
        /\ Packing!Size(t) = Packing!Size(f) + TipSize
    BY <1>5, <2>1, TipIs, SizeAppend
  <2>3. Packing!Size(cur) = Packing!Size(f) + W(next - 1)
    BY <1>4, <1>5, <2>2
  <2>. HIDE DEF t
  <2>4. Cap \in Nat /\ TipSize \in Nat
    BY Constants
  <2>5. CASE W(next - 1) >= TipSize
    <3>1. Packing!Size(t) <= Cap
      BY <1>1, <1>5, <2>2, <2>3, <2>4, <2>5
    <3>. QED BY <3>1 DEF FitAt
  <2>6. CASE W(next - 1) < TipSize
    <3>1. Packing!Size(t) - TipSize + W(next - 1) < Cap
      BY <1>1, <1>5, <2>2, <2>3, <2>4, <2>6
    <3>. QED BY <1>5, <1>8, <2>6, <3>1 DEF FitAt
  <2>. QED BY <1>5, <2>4, <2>5, <2>6
<1>. HIDE DEF t
<1>12. Pushable(Elem, txs, c, t, next - 2)
  BY <1>2, <1>8, <1>9, <1>10, <1>11 DEF Pushable, PaidLast
<1>13. c + 1 <= next - 2 \/ Packing!Size(cur) = FeeSize + W(next - 1)
  <2>. SUFFICES ASSUME ~(c + 1 <= next - 2) PROVE Packing!Size(cur) = FeeSize + W(next - 1)
    OBVIOUS
  <2>1. Ats(f) = {}
    BY <1>1, <1>6, <1>7
  <2>2. f = <<>>
    <3>1. DOMAIN f = {}
      BY <2>1 DEF Ats
    <3>2. DOMAIN f = 1..Len(f) /\ Len(f) \in Nat
      BY <1>4, LenProperties
    <3>3. Len(f) = 0
      <4>1. Len(f) >= 1 => 1 \in 1..Len(f)
        BY <3>2
      <4>. QED BY <3>1, <3>2, <4>1
    <3>. QED BY <1>4, <3>3, EmptySeq
  <2>3. f \in Seq(Instr) /\ Packing!Size(f) = FeeSize
    BY <2>2, SizeOne
  <2>4. Packing!Size(Append(f, x)) = Packing!Size(f) + x.weight
    BY <1>5, <2>3, SizeAppend
  <2>. QED BY <1>4, <1>5, <2>3, <2>4
<1>. QED BY <1>3, <1>4, <1>5, <1>6, <1>8, <1>12, <1>13 DEF x, t, f

\* It does not fit, and the last instruction of the transaction that ends the
\* bundle moves on to make room for a tip.
LEMMA TipStep ==
    ASSUME Pairs, weight \in Sizes, NEW c \in Nat, Loop(c), next <= Len(ixs),
           Packing!Push(Packing!Ix(next, W(next))),
           Packing!EndsBundle /\ Packing!Size(Append(cur, Packing!Ix(next, W(next)))) > Cap,
           next' = next + 1, UNCHANGED <<looping, ixs, weight>>
    PROVE  \E d \in Nat : Loop(d)'
<1>. DEFINE ix == Packing!Ix(next, W(next))
            x == Packing!Last(cur)
            t == Append(Packing!Front(cur), Packing!TipIx)
            s == Append(txs, t)
            u == <<ix, x>>
            n == next - 2
<1>0. /\ Len(ixs) \in Nat /\ next \in 1..Len(ixs)
      /\ looping = "loop" /\ tips = Cardinality(Tipped(txs))
  BY LenProperties DEF Pairs, Loop
<1>1. /\ cur # <<>> /\ Len(txs) \in Nat
      /\ (Len(txs) + 1) % PerBundle = 0
      /\ next - 1 \in DOMAIN ixs /\ next \in DOMAIN ixs /\ next - 1 \in Nat
  BY PushFinds
<1>2. /\ ix \in Elem /\ ix \in Instr /\ ix.at = next /\ ix.weight = W(next) /\ W(next) \in Nat
      /\ W(next - 1) \in Nat /\ FeeSize + W(next - 1) + W(next) < Cap
  <2>1. (next - 1) + 1 = next
    BY <1>0
  <2>. QED BY <1>0, <1>1, <2>1, NextIs, WeightsFit
<1>3. cur' = <<ix>> \o <<x>> /\ txs' = s /\ tips' = tips + 1
  BY DEF Packing!Push, Packing!Carried
<1>4. /\ x \in Elem /\ x \in Instr /\ x.at = next - 1 /\ x.weight = W(next - 1)
      /\ c <= n /\ Packing!HasTip(t) /\ Pushable(Elem, txs, c, t, n)
      /\ c + 1 <= n \/ Packing!Size(cur) = FeeSize + W(next - 1)
  BY <1>1, TippedTx
<1>20. c + 1 <= n
  <2>1. Packing!Size(cur) + W(next) >= Cap /\ FeeSize \in Nat /\ Cap \in Nat
    BY PushFinds, Constants
  <2>. QED BY <1>2, <1>4, <2>1
<1>. HIDE DEF ix, x, t
<1>5. cur' = u
  <2>1. <<ix>> \o <<x>> = <<ix, x>>
    <3>1. ix.at # x.at
      BY <1>0, <1>2, <1>4
    <3>2. ix \in Elem /\ x \in Elem
      BY <1>2, <1>4
    <3>. QED BY <3>1, <3>2, AtsTwo
  <2>. QED BY <1>3, <2>1, Zenon
<1>6. /\ u \in Seq(Elem) /\ Ats(u) = {next, next - 1} /\ Once(u) /\ u # <<>>
      /\ 0 \notin Ats(u) /\ Ats(u) \ {0} = n+1..next
  <2>1. ix.at # x.at
    BY <1>0, <1>2, <1>4
  <2>2. u \in Seq(Elem) /\ Ats(u) = {ix.at, x.at} /\ Once(u)
    <3>1. ix \in Elem /\ x \in Elem
      BY <1>2, <1>4
    <3>. QED BY <2>1, <3>1, AtsTwo
  <2>3. Ats(u) = {next, next - 1}
    BY <1>2, <1>4, <2>2
  <2>4. 0 \notin {next, next - 1}
    BY <1>0, <1>1, LenProperties DEF Pairs
  <2>5. {next, next - 1} = n+1..next
    BY <1>0
  <2>. QED BY <2>2, <2>3, <2>4, <2>5
<1>7. Packing!Size(u) = FeeSize + W(next) + W(next - 1) /\ Packing!Size(u) < Cap /\ Packing!Size(u) \in Nat
  BY <1>2, <1>4, SizeOne, Constants
<1>8. n \in Nat
  BY <1>0, <1>4
<1>9. Good(Elem, txs, c)
  BY DEF Loop
<1>10. Good(Elem, s, n)
  BY <1>4, <1>8, <1>9, GoodAppend
<1>11. Len(s) = Len(txs) + 1 /\ s[Len(s)] = t /\ s # <<>>
       /\ Cardinality(Tipped(s)) = Cardinality(Tipped(txs)) + 1
  <2>1. txs \in Seq(Seq(Elem)) /\ t \in Seq(Elem)
    BY <1>4, <1>9 DEF Good, Pushable
  <2>2. Len(s) = Len(txs) + 1 /\ s[Len(txs) + 1] = t
    BY <2>1, AppendIs
  <2>3. Cardinality(Tipped(s)) = Cardinality(Tipped(txs)) + 1
    BY <1>4, <2>1, TippedAppend
  <2>. HIDE DEF s
  <2>. QED BY <1>1, <2>2, <2>3
<1>21. Lone(s) = {}
  <2>1. txs \in Seq(Seq(Elem)) /\ t \in Seq(Elem) /\ Lone(txs) = {} /\ Ats(t) \ {0} = c+1..n
    BY <1>4, <1>9 DEF Loop, Good, Pushable
  <2>2. c + 1 \in c+1..n
    BY <1>8, <1>20
  <2>3. Ats(t) \ {0} # {}
    BY <2>1, <2>2
  <2>. QED BY <2>1, <2>3, LoneAppend
<1>. HIDE DEF s, u
<1>12. Pushable(Elem, s, n, u, next)
  <2>1. PaidLast(s, u)
    BY <1>4, <1>11 DEF PaidLast, Paid
  <2>2. FitAt(u, Len(s) + 1)
    BY <1>7, Constants DEF FitAt
  <2>. QED BY <1>6, <2>1, <2>2 DEF Pushable
<1>13. Elem' = Elem /\ next' - 1 = next
  BY <1>0, ElemSame
<1>14. PICK d \in Nat : d = n
  BY <1>8
<1>15. Good(Elem', txs', d) /\ Pushable(Elem', txs', d, cur', next' - 1)
  BY <1>3, <1>5, <1>10, <1>12, <1>13, <1>14
<1>16. Len(txs') % PerBundle = 0
  BY <1>1, <1>3, <1>11
<1>17. /\ looping' = "loop" /\ next' \in 1..Len(ixs')+1 /\ 0 \notin Ats(cur') /\ d <= next' - 1
       /\ Packing!Size(cur') < Cap /\ cur' # <<>>
       /\ Lone(txs') = {} /\ tips' = Cardinality(Tipped(txs'))
  <2>1. looping' = "loop" /\ next' \in 1..Len(ixs')+1 /\ d <= next' - 1
    BY <1>0, <1>13, <1>14
  <2>2. 0 \notin Ats(cur') /\ Packing!Size(cur') < Cap /\ cur' # <<>>
    BY <1>5, <1>6, <1>7
  <2>3. Lone(txs') = {} /\ tips' = Cardinality(Tipped(txs'))
    BY <1>0, <1>3, <1>11, <1>21
  <2>. QED BY <2>1, <2>2, <2>3
<1>18. Loop(d)'
  BY <1>15, <1>16, <1>17 DEF Loop
<1>. QED BY <1>18

\* Concatenation, one element after the other.
LEMMA ConcatAppend ==
    ASSUME NEW T, NEW s \in Seq(T), NEW u \in Seq(T), NEW x \in T
    PROVE  s \o Append(u, x) = Append(s \o u, x) /\ s \o <<>> = s
<1>. DEFINE a == Append(u, x)
            p == s \o a
            q == s \o u
            r == Append(q, x)
<1>1. /\ a \in Seq(T) /\ Len(a) = Len(u) + 1 /\ Len(u) \in Nat /\ a[Len(u) + 1] = x
      /\ \A i \in 1..Len(u) : a[i] = u[i]
  BY AppendIs
<1>2. Len(s) \in Nat
  BY LenProperties
<1>. HIDE DEF a
<1>3. /\ p \in Seq(T) /\ Len(p) = Len(s) + Len(a)
      /\ \A i \in 1..Len(s) + Len(a) : p[i] = IF i <= Len(s) THEN s[i] ELSE a[i - Len(s)]
  BY <1>1, ConcatProperties
<1>4. /\ q \in Seq(T) /\ Len(q) = Len(s) + Len(u)
      /\ \A i \in 1..Len(s) + Len(u) : q[i] = IF i <= Len(s) THEN s[i] ELSE u[i - Len(s)]
  BY ConcatProperties
<1>. HIDE DEF p, q
<1>5. /\ r \in Seq(T) /\ Len(r) = Len(q) + 1 /\ r[Len(q) + 1] = x
      /\ \A i \in 1..Len(q) : r[i] = q[i]
  <2>1. q \in Seq(T)
    BY <1>4
  <2>. QED BY <2>1, AppendIs
<1>. HIDE DEF r
<1>6. /\ Len(p) = Len(r) /\ Len(q) = Len(s) + Len(u) /\ Len(p) = Len(q) + 1
      /\ Len(s) \in Nat /\ Len(u) \in Nat /\ Len(s) + Len(a) = Len(p)
  BY <1>1, <1>2, <1>3, <1>4, <1>5
<1>7. ASSUME NEW i \in 1..Len(p) PROVE p[i] = r[i]
  <2>1. CASE i = Len(q) + 1
    <3>1. i - Len(s) = Len(u) + 1 /\ ~(i <= Len(s)) /\ i \in 1..Len(s) + Len(a)
      BY <1>1, <1>2, <1>3, <1>4, <2>1
    <3>2. p[i] = a[i - Len(s)]
      BY <1>3, <3>1
    <3>. QED BY <1>1, <1>5, <2>1, <3>1, <3>2
  <2>2. CASE i # Len(q) + 1
    <3>1. i \in 1..Len(s) + Len(u) /\ i \in 1..Len(q) /\ i \in 1..Len(s) + Len(a)
      BY <1>6, <2>2
    <3>2. r[i] = q[i]
      BY <1>5, <3>1
    <3>3. CASE i <= Len(s)
      BY <1>3, <1>4, <3>1, <3>2, <3>3
    <3>4. CASE ~(i <= Len(s))
      <4>1. i - Len(s) \in 1..Len(u)
        BY <1>2, <3>1, <3>4
      <4>2. p[i] = a[i - Len(s)] /\ q[i] = u[i - Len(s)]
        BY <1>3, <1>4, <3>1, <3>4
      <4>3. a[i - Len(s)] = u[i - Len(s)]
        BY <1>1, <4>1
      <4>. QED BY <3>2, <4>2, <4>3
    <3>. QED BY <3>3, <3>4
  <2>. QED BY <2>1, <2>2
<1>8. p = r
  BY <1>3, <1>5, <1>6, <1>7, SeqEqual
<1>9. s \o <<>> = s
  BY ConcatEmptySeq
<1>. QED BY <1>8, <1>9 DEF p, r, q, a

\* Two or three more transactions.
LEMMA ConcatShort ==
    ASSUME NEW T, NEW s \in Seq(T), NEW x \in T, NEW y \in T, NEW z \in T
    PROVE  /\ s \o <<x, y>> = Append(Append(s, x), y)
           /\ s \o <<x, y, z>> = Append(Append(Append(s, x), y), z)
<1>. DEFINE e == <<>>
            u == <<x>>
            v == <<x, y>>
            w == <<x, y, z>>
<1>1. /\ e \in Seq(T) /\ u \in Seq(T) /\ v \in Seq(T)
      /\ u = Append(e, x) /\ v = Append(u, y) /\ w = Append(v, z)
  OBVIOUS
<1>2. s \o e = s
  BY ConcatEmptySeq
<1>. HIDE DEF e, u, v, w
<1>3. s \o u = Append(s, x)
  <2>1. s \o Append(e, x) = Append(s \o e, x)
    BY <1>1, ConcatAppend
  <2>. QED BY <1>1, <1>2, <2>1, Zenon
<1>4. s \o v = Append(Append(s, x), y)
  <2>1. s \o Append(u, y) = Append(s \o u, y)
    BY <1>1, ConcatAppend
  <2>. QED BY <1>1, <1>3, <2>1, Zenon
<1>5. s \o w = Append(Append(Append(s, x), y), z)
  <2>1. s \o Append(v, z) = Append(s \o v, z)
    BY <1>1, ConcatAppend
  <2>. QED BY <1>1, <1>4, <2>1, Zenon
<1>. QED BY <1>4, <1>5 DEF v, w

\* One transaction more, with what is counted of it.
LEMMA Pushed ==
    ASSUME NEW E, NEW s, NEW t, NEW n \in Nat, NEW m \in Nat, n <= m,
           Good(E, s, n), Pushable(E, s, n, t, m)
    PROVE  LET r == Append(s, t)
           IN  /\ Good(E, r, m) /\ Len(s) \in Nat /\ Len(r) = Len(s) + 1 /\ r[Len(r)] = t /\ r # <<>>
               /\ Cardinality(Tipped(s)) \in Nat
               /\ Packing!HasTip(t) => Cardinality(Tipped(r)) = Cardinality(Tipped(s)) + 1
               /\ ~Packing!HasTip(t) => Cardinality(Tipped(r)) = Cardinality(Tipped(s))
               /\ n < m => Lone(r) = Lone(s)
               /\ n = m => Lone(r) = Lone(s) \cup {Len(r)}
<1>. DEFINE r == Append(s, t)
            T == Seq(E)
<1>1. s \in Seq(T) /\ t \in T
  BY DEF Good, Pushable
<1>2. Good(E, r, m)
  BY GoodAppend
<1>. HIDE DEF T
<1>3. Len(s) \in Nat /\ Len(r) = Len(s) + 1 /\ r[Len(s) + 1] = t
  BY <1>1, AppendIs
<1>4. /\ Cardinality(Tipped(s)) \in Nat
      /\ Packing!HasTip(t) => Cardinality(Tipped(r)) = Cardinality(Tipped(s)) + 1
      /\ ~Packing!HasTip(t) => Cardinality(Tipped(r)) = Cardinality(Tipped(s))
  BY <1>1, TippedAppend
<1>6. /\ Ats(t) \ {0} # {} => Lone(r) = Lone(s)
      /\ Ats(t) \ {0} = {} => Lone(r) = Lone(s) \cup {Len(s) + 1}
  BY <1>1, LoneAppend
<1>7. /\ n < m => Ats(t) \ {0} # {}
      /\ n = m => Ats(t) \ {0} = {}
  <2>1. Ats(t) \ {0} = n+1..m
    BY DEF Pushable
  <2>2. n < m => n + 1 \in n+1..m
    OBVIOUS
  <2>3. n = m => n+1..m = {}
    OBVIOUS
  <2>. QED BY <2>1, <2>2, <2>3
<1>. HIDE DEF r
<1>5. r # <<>>
  BY <1>3
<1>. QED BY <1>2, <1>3, <1>4, <1>5, <1>6, <1>7 DEF r

\* A transaction with nothing but a tip.
LEMMA TipAlone ==
    LET t == <<Packing!TipIx>>
    IN  /\ t \in Seq(Elem) /\ Ats(t) = {0} /\ Once(t) /\ Packing!HasTip(t)
        /\ Packing!Size(t) <= Cap
<1>. DEFINE y == Packing!TipIx
            t == <<y>>
<1>1. y \in Elem /\ y \in Instr /\ y.at = 0 /\ y.weight = TipSize
  BY TipIs
<1>2. Packing!HasTip(t)
  BY DEF Packing!HasTip
<1>. HIDE DEF y
<1>3. t \in Seq(Elem) /\ Ats(t) = {0} /\ Once(t)
  BY <1>1, AtsShort
<1>4. Packing!Size(t) = FeeSize + TipSize
  BY <1>1, SizeOne
<1>5. Packing!Size(t) <= Cap
  BY <1>4, Constants
<1>. QED BY <1>2, <1>3, <1>5 DEF y

LEMMA TipPushable ==
    ASSUME NEW s, NEW n \in Nat, Len(s) % PerBundle # 0 \/ s = <<>>
    PROVE  Pushable(Elem, s, n, <<Packing!TipIx>>, n)
<1>. DEFINE t == <<Packing!TipIx>>
<1>1. t \in Seq(Elem) /\ Ats(t) = {0} /\ Once(t) /\ Packing!Size(t) <= Cap
  BY TipAlone
<1>. HIDE DEF t
<1>2. Ats(t) \ {0} = n+1..n
  BY <1>1
<1>. QED BY <1>1, <1>2 DEF Pushable, FitAt, PaidLast, t

\* After the last instruction: the three ways to tip.
LEMMA FinishStep ==
    ASSUME Pairs, weight \in Sizes, NEW c \in Nat, Loop(c), ~(next <= Len(ixs)),
           Packing!Finish, UNCHANGED <<ixs, weight>>
    PROVE  Packed'
<1>. DEFINE tip == <<Packing!TipIx>>
            n == Len(ixs)
            u == Append(cur, Packing!TipIx)
            L == Len(txs)
<1>0. /\ n \in Nat /\ next = n + 1 /\ next - 1 = n /\ c <= n
      /\ tips = Cardinality(Tipped(txs)) /\ Good(Elem, txs, c)
      /\ Pushable(Elem, txs, c, cur, n) /\ Packing!Size(cur) < Cap
  BY LenProperties DEF Pairs, Loop
<1>1. /\ cur \in Seq(Elem) /\ cur \in Seq(Instr) /\ Ats(cur) = c+1..n /\ ~Packing!HasTip(cur)
      /\ Packing!Size(cur) \in Nat /\ Once(cur) /\ Ats(cur) \ {0} = c+1..n /\ Len(cur) \in Nat
  BY <1>0, CurIs DEF Pushable
<1>2. tip \in Seq(Elem) /\ Packing!HasTip(tip)
  BY TipAlone
<1>3. L \in Nat /\ txs \in Seq(Seq(Elem))
  BY <1>0, LenProperties DEF Good
<1>4. PerBundle \in Nat /\ PerBundle > 1 /\ Cap \in Nat
  BY Constants
<1>5. /\ looping' = "done" /\ next' = n' + 1 /\ Elem' = Elem /\ n' = n
      /\ cur' \in Seq(Elem') /\ 0 \notin Ats(cur')
  <2>1. Elem' = Elem /\ cur' = cur
    BY ElemSame DEF Packing!Finish
  <2>2. 0 \notin Ats(cur)
    BY DEF Loop
  <2>. QED BY <1>0, <1>1, <2>1, <2>2 DEF Packing!Finish
<1>9. tip = Packing!TipTx /\ Lone(txs) = {}
  BY DEF Packing!TipTx, Loop
<1>10. Packing!Size(u) > Cap => c < n
  <2>1. CASE cur = <<>>
    <3>1. TipSize \in Nat /\ FeeSize \in Nat /\ FeeSize + TipSize < Cap
      BY Constants
    <3>2. Packing!Size(cur) = FeeSize
      BY <2>1, SizeOne
    <3>3. Packing!Size(u) = Packing!Size(cur) + TipSize
      BY <1>1, TipIs, SizeAppend
    <3>. HIDE DEF u
    <3>. QED BY <1>4, <3>1, <3>2, <3>3
  <2>2. CASE cur # <<>>
    <3>1. 1 \in DOMAIN cur
      BY <1>1, <2>2, EmptySeq, LenProperties
    <3>2. cur[1].at \in c+1..n
      BY <1>1, <3>1 DEF Ats
    <3>. QED BY <1>0, <3>2
  <2>. QED BY <2>1, <2>2
<1>6. CASE Packing!Size(u) > Cap /\ Packing!EndsBundle
  <2>. DEFINE s1 == Append(txs, tip)
              s2 == Append(s1, cur)
              s3 == Append(s2, tip)
  <2>1. L % PerBundle # 0 /\ (L + 1) % PerBundle = 0 /\ (L + 2) % PerBundle # 0
    <3>1. L % PerBundle = PerBundle - 1
      BY <1>6 DEF Packing!EndsBundle
    <3>2. (L + 1) % PerBundle = 0
      BY <1>3, <3>1, ModNext
    <3>3. (L + 1) + 1 = L + 2 /\ L + 1 \in Nat
      BY <1>3
    <3>4. ((L + 1) % PerBundle = PerBundle - 1) <=> ((L + 1) + 1) % PerBundle = 0
      BY <3>3, ModNext
    <3>. QED BY <1>4, <3>1, <3>2, <3>3, <3>4
  <2>2. /\ Good(Elem, s1, c) /\ Len(s1) = L + 1 /\ s1[Len(s1)] = tip /\ s1 # <<>>
        /\ Cardinality(Tipped(txs)) \in Nat
        /\ Cardinality(Tipped(s1)) = Cardinality(Tipped(txs)) + 1
        /\ Lone(s1) = {L + 1}
    <3>1. Pushable(Elem, txs, c, tip, c)
      BY <2>1, TipPushable
    <3>2. /\ Good(Elem, s1, c) /\ Len(s1) = L + 1 /\ s1[Len(s1)] = tip /\ s1 # <<>>
          /\ Cardinality(Tipped(txs)) \in Nat
          /\ Cardinality(Tipped(s1)) = Cardinality(Tipped(txs)) + 1
          /\ Lone(s1) = Lone(txs) \cup {Len(s1)}
      BY <1>0, <1>2, <3>1, Pushed
    <3>. HIDE DEF s1
    <3>. QED BY <1>9, <3>2
  <2>. HIDE DEF s1
  <2>3. Pushable(Elem, s1, c, cur, n)
    BY <1>0, <1>1, <1>2, <1>4, <2>2 DEF Pushable, FitAt, PaidLast, Paid
  <2>4. /\ Good(Elem, s2, n) /\ Len(s2) = L + 2
        /\ Cardinality(Tipped(s2)) = Cardinality(Tipped(s1))
        /\ Lone(s2) = {L + 1}
    <3>1. /\ Good(Elem, s2, n) /\ Len(s1) \in Nat /\ Len(s2) = Len(s1) + 1
          /\ Cardinality(Tipped(s2)) = Cardinality(Tipped(s1))
          /\ Lone(s2) = Lone(s1)
      BY <1>0, <1>1, <1>6, <1>10, <2>2, <2>3, Pushed
    <3>. HIDE DEF s2
    <3>. QED BY <1>3, <2>2, <3>1
  <2>. HIDE DEF s2
  <2>5. /\ Good(Elem, s3, n) /\ s3[Len(s3)] = tip /\ s3 # <<>>
        /\ Cardinality(Tipped(s3)) = Cardinality(Tipped(s2)) + 1
        /\ Len(s3) = L + 3 /\ Lone(s3) = {L + 1, L + 3}
    <3>1. Pushable(Elem, s2, n, tip, n)
      BY <1>0, <2>1, <2>4, TipPushable
    <3>2. /\ Good(Elem, s3, n) /\ s3[Len(s3)] = tip /\ s3 # <<>>
          /\ Cardinality(Tipped(s3)) = Cardinality(Tipped(s2)) + 1
          /\ Len(s3) = Len(s2) + 1 /\ Lone(s3) = Lone(s2) \cup {Len(s3)}
      BY <1>0, <1>2, <2>4, <3>1, Pushed
    <3>. HIDE DEF s3
    <3>. QED BY <1>3, <2>4, <3>2
  <2>6. txs' = s3 /\ tips' = tips + 2
    <3>1. txs' = txs \o <<tip, cur, tip>> /\ tips' = tips + (Len(<<tip, cur, tip>>) - 1)
      BY <1>6 DEF Packing!Finish, Packing!TipApart, Packing!TipTx, Packing!TipCount
    <3>2. txs \o <<tip, cur, tip>> = s3
      BY <1>1, <1>2, <1>3, ConcatShort DEF s1, s2
    <3>3. Len(<<tip, cur, tip>>) - 1 = 2
      OBVIOUS
    <3>. QED BY <3>1, <3>2, <3>3
  <2>. HIDE DEF s3
  <2>7. tips' = Cardinality(Tipped(txs'))
    BY <1>0, <2>2, <2>4, <2>5, <2>6
  <2>8. Good(Elem', txs', n') /\ txs' # <<>> /\ Packing!HasTip(txs'[Len(txs')])
    BY <1>2, <1>5, <2>5, <2>6
  <2>9. OnlyClone(s3)
    <3>. SUFFICES ASSUME NEW j \in Lone(s3), NEW m \in Lone(s3), j < m
                  PROVE  s3[m] = Packing!TipTx /\ m = Len(s3) /\ j = m - 2 /\ j % PerBundle = 0
      BY DEF OnlyClone
    <3>1. j = L + 1 /\ m = L + 3
      BY <1>3, <2>5
    <3>2. j = m - 2
      BY <1>3, <3>1
    <3>. QED BY <1>9, <2>1, <2>5, <3>1, <3>2
  <2>. QED BY <1>5, <2>6, <2>7, <2>8, <2>9 DEF Packed, OnlyClone, Packing!TipTx
<1>7. CASE Packing!Size(u) > Cap /\ ~Packing!EndsBundle
  <2>. DEFINE s1 == Append(txs, cur)
              s2 == Append(s1, tip)
  <2>1. (L + 1) % PerBundle # 0
    BY <1>3, <1>7, ModNext DEF Packing!EndsBundle
  <2>2. /\ Good(Elem, s1, n) /\ Len(s1) = L + 1
        /\ Cardinality(Tipped(txs)) \in Nat
        /\ Cardinality(Tipped(s1)) = Cardinality(Tipped(txs))
        /\ Lone(s1) = {}
    BY <1>0, <1>1, <1>7, <1>9, <1>10, Pushed
  <2>. HIDE DEF s1
  <2>3. /\ Good(Elem, s2, n) /\ s2[Len(s2)] = tip /\ s2 # <<>>
        /\ Cardinality(Tipped(s2)) = Cardinality(Tipped(s1)) + 1
        /\ Lone(s2) = {Len(s2)}
    <3>1. Pushable(Elem, s1, n, tip, n)
      BY <1>0, <2>1, <2>2, TipPushable
    <3>. QED BY <1>0, <1>2, <2>2, <3>1, Pushed
  <2>4. txs' = s2 /\ tips' = tips + 1
    <3>1. txs' = txs \o <<cur, tip>> /\ tips' = tips + (Len(<<cur, tip>>) - 1)
      BY <1>7 DEF Packing!Finish, Packing!TipApart, Packing!TipTx, Packing!TipCount
    <3>2. txs \o <<cur, tip>> = s2
      BY <1>1, <1>2, <1>3, ConcatShort DEF s1
    <3>3. Len(<<cur, tip>>) - 1 = 1
      OBVIOUS
    <3>. QED BY <3>1, <3>2, <3>3
  <2>. HIDE DEF s2
  <2>5. tips' = Cardinality(Tipped(txs'))
    BY <1>0, <2>2, <2>3, <2>4
  <2>6. Good(Elem', txs', n') /\ txs' # <<>> /\ Packing!HasTip(txs'[Len(txs')])
    BY <1>2, <1>5, <2>3, <2>4
  <2>7. OnlyClone(txs')
    BY <1>3, <2>2, <2>3, <2>4, LoneOne
  <2>. QED BY <1>5, <2>5, <2>6, <2>7 DEF Packed, OnlyClone, Packing!TipTx
<1>8. CASE ~(Packing!Size(u) > Cap)
  <2>. DEFINE s == Append(txs, u)
  <2>1. u \in Seq(Elem) /\ u[Len(cur) + 1] = Packing!TipIx /\ Len(cur) + 1 \in DOMAIN u
        /\ \A i \in 1..Len(cur) : u[i] = cur[i]
    BY <1>1, TipIs, AppendIs
  <2>2. Packing!HasTip(u)
    BY <2>1 DEF Packing!HasTip
  <2>3. Ats(u) = Ats(cur) \cup {0} /\ Once(u)
    <3>. DEFINE y == Packing!TipIx
    <3>1. y \in Elem /\ y.at = 0
      BY TipIs
    <3>. HIDE DEF y
    <3>2. Ats(Append(cur, y)) = Ats(cur) \cup {y.at} /\ Once(Append(cur, y))
      BY <1>1, <3>1, AtsAppend
    <3>. QED BY <3>1, <3>2 DEF y
  <2>4. Packing!Size(u) \in Nat /\ Packing!Size(u) <= Cap
    <3>1. u \in Seq(Instr)
      BY <2>1, ElemIs, SeqMonotonic
    <3>2. Packing!Size(u) \in Nat
      BY <3>1, TipIs, SizeAppend
    <3>. HIDE DEF u
    <3>. QED BY <1>4, <1>8, <3>2
  <2>. HIDE DEF u
  <2>5. Ats(u) \ {0} = c+1..n
    BY <1>1, <2>3
  <2>6. PaidLast(txs, u)
    <3>1. CASE cur = <<>>
      BY <3>1 DEF Loop, PaidLast
    <3>2. CASE cur # <<>>
      <4>1. 1 \in 1..Len(cur) /\ u[1] = cur[1] /\ u # <<>>
        BY <1>1, <2>1, <3>2, EmptySeq
      <4>2. PaidLast(txs, cur)
        BY <1>0 DEF Pushable
      <4>. QED BY <3>2, <4>1, <4>2 DEF PaidLast, Paid
    <3>. QED BY <3>1, <3>2
  <2>7. Pushable(Elem, txs, c, u, n)
    BY <2>1, <2>3, <2>4, <2>5, <2>6 DEF Pushable, FitAt
  <2>8. /\ Good(Elem, s, n) /\ s[Len(s)] = u /\ s # <<>>
        /\ Cardinality(Tipped(s)) = Cardinality(Tipped(txs)) + 1
        /\ Lone(s) \subseteq {Len(s)}
    BY <1>0, <1>9, <2>2, <2>7, Pushed
  <2>9. txs' = s /\ tips' = tips + 1
    BY <1>8 DEF Packing!Finish, u
  <2>. HIDE DEF s
  <2>10. tips' = Cardinality(Tipped(txs'))
    BY <1>0, <2>8, <2>9
  <2>11. Good(Elem', txs', n') /\ txs' # <<>> /\ Packing!HasTip(txs'[Len(txs')])
    BY <1>5, <2>2, <2>8, <2>9
  <2>12. OnlyClone(txs')
    BY <2>8, <2>9, LoneOne
  <2>. QED BY <1>5, <2>10, <2>11, <2>12 DEF Packed, OnlyClone, Packing!TipTx
<1>. QED BY <1>6, <1>7, <1>8

\* Before the first instruction.
LEMMA FreshLoop ==
    ASSUME Pairs, looping = "loop", next = 1, cur = <<>>, txs = <<>>, tips = 0
    PROVE  Loop(0)
<1>1. Len(ixs) \in Nat
  BY LenProperties DEF Pairs
<1>2. Ats(cur) = {} /\ Once(cur) /\ cur \in Seq(Elem)
  BY DEF Ats, Once
<1>3. Packing!Size(cur) < Cap /\ Packing!Size(cur) <= Cap
  <2>1. Packing!Size(cur) = FeeSize
    BY SizeOne
  <2>. QED BY <2>1, Constants
<1>4. DOMAIN txs = {} /\ txs \in Seq(Seq(Elem))
  OBVIOUS
<1>5. Good(Elem, txs, 0)
  <2>1. Placed(txs, 0)
    BY PlacedNone
  <2>. QED BY <1>4, <2>1 DEF Good
<1>6. Pushable(Elem, txs, 0, cur, next - 1)
  <2>1. Ats(cur) \ {0} = 0+1..next-1
    BY <1>2
  <2>. QED BY <1>2, <1>3, <2>1 DEF Pushable, FitAt, PaidLast
<1>7. tips = Cardinality(Tipped(txs)) /\ Lone(txs) = {}
  BY <1>4, TippedNone DEF Lone
<1>. QED BY <1>1, <1>2, <1>3, <1>5, <1>6, <1>7 DEF Loop

-----------------------------------------------------------------------------
(* What the packing promises. *)

LEMMA OnePlace ==
    ASSUME NEW s, NEW n, Placed(s, n), DOMAIN s \subseteq Int, NEW i \in 1..n
    PROVE  Cardinality(UNION {{<<m, l>> : l \in {j \in DOMAIN s[m] : s[m][j].at = i}} : m \in DOMAIN s}) = 1
<1>. DEFINE A(m) == {j \in DOMAIN s[m] : s[m][j].at = i}
            P == UNION {{<<m, l>> : l \in A(m)} : m \in DOMAIN s}
<1>1. PICK m \in DOMAIN s : i \in Ats(s[m])
  BY DEF Placed
<1>2. PICK l \in DOMAIN s[m] : s[m][l].at = i
  BY <1>1 DEF Ats
<1>3. ASSUME NEW j \in DOMAIN s, NEW h \in A(j) PROVE j = m /\ h = l
  <2>0. h \in DOMAIN s[j] /\ s[j][h].at = i /\ i # 0 /\ i \in Int
    OBVIOUS
  <2>1. i \in Ats(s[j])
    BY <2>0 DEF Ats
  <2>2. ~(j < m) /\ ~(m < j)
    <3>1. \A a, b \in DOMAIN s : a < b => \A x \in Ats(s[a]), y \in Ats(s[b]) : y # 0 => x < y
      BY DEF Placed
    <3>. QED BY <1>1, <2>0, <2>1, <3>1
  <2>3. j = m
    BY <2>2
  <2>4. Once(s[m])
    BY DEF Placed
  <2>. QED BY <1>2, <2>0, <2>3, <2>4 DEF Once
<1>4. l \in A(m)
  BY <1>2
<1>. HIDE DEF A
<1>5. P = {<<m, l>>}
  BY <1>3, <1>4
<1>6. Cardinality({<<m, l>>}) = 1
  BY FS_Singleton
<1>. QED BY <1>5, <1>6 DEF A

\* SellPacking counts as its users do.
LEMMA SameCardinality == ASSUME NEW S PROVE Packing!Cardinality(S) = Cardinality(S)
  BY DEF Packing!Cardinality, Cardinality

LEMMA LostNone ==
    ASSUME Pairs, weight \in Sizes, PackInv
    PROVE  Packing!NothingLost
<1>. DEFINE s == Packing!Packed
<1>1. \E n \in Nat : Placed(s, n) /\ n = next - 1 /\ DOMAIN s \subseteq Int
  <2>1. CASE Packed
    <3>1. Len(ixs) \in Nat
      BY LenProperties DEF Pairs
    <3>2. s = txs /\ Placed(txs, Len(ixs)) /\ Len(ixs) = next - 1
      BY <2>1, <3>1 DEF Packed, Good, Packing!Packed
    <3>3. DOMAIN txs \subseteq Int
      BY <2>1, LenProperties DEF Packed, Good
    <3>. QED BY <3>1, <3>2, <3>3
  <2>2. CASE \E c \in Nat : Loop(c)
    <3>1. PICK c \in Nat : Loop(c)
      BY <2>2
    <3>. DEFINE n == next - 1
    <3>2. n \in Nat /\ c <= n /\ Good(Elem, txs, c) /\ Pushable(Elem, txs, c, cur, n) /\ looping = "loop"
      BY <3>1, LenProperties DEF Loop, Pairs
    <3>3. Good(Elem, Append(txs, cur), n)
      BY <3>2, GoodAppend
    <3>4. s = Append(txs, cur)
      BY <3>2 DEF Packing!Packed
    <3>5. DOMAIN s \subseteq Int
      BY <3>3, <3>4, LenProperties DEF Good
    <3>. QED BY <3>2, <3>3, <3>4, <3>5 DEF Good
  <2>. QED BY <2>1, <2>2 DEF PackInv
<1>. HIDE DEF s
<1>2. ASSUME NEW i \in 1..next-1 PROVE Cardinality(Packing!Places(i)) = 1
  BY <1>1, OnePlace DEF Packing!Places, s
<1>. QED BY <1>2, SameCardinality, Zenon DEF Packing!NothingLost

LEMMA FitAlways ==
    ASSUME PackInv
    PROVE  Packing!Fit
<1>1. \A m \in DOMAIN txs : FitAt(txs[m], m)
  BY DEF PackInv, Packed, Loop, Good
<1>. QED BY <1>1 DEF FitAt, Packing!Fit

LEMMA TwiceNever ==
    ASSUME PackInv
    PROVE  Packing!TwiceOnlyTip
<1>. SUFFICES ASSUME NEW j \in DOMAIN txs, NEW m \in DOMAIN txs, j < m, txs[j] = txs[m]
              PROVE  txs[m] = Packing!TipTx /\ m = Len(txs) /\ j = m - 2 /\ j % PerBundle = 0
  BY DEF Packing!TwiceOnlyTip
<1>1. j \in Lone(txs) /\ m \in Lone(txs)
  <2>1. PICK n : Placed(txs, n)
    BY DEF PackInv, Packed, Loop, Good
  <2>2. ASSUME NEW a \in Ats(txs[m]), a # 0 PROVE FALSE
    <3>1. a < a /\ a \in 0..n
      BY <2>1, <2>2 DEF Placed
    <3>. QED BY <3>1
  <2>3. Ats(txs[m]) \ {0} = {}
    BY <2>2
  <2>. QED BY <2>3 DEF Lone
<1>2. Packed
  BY <1>1 DEF PackInv, Loop
<1>. QED BY <1>1, <1>2 DEF Packed, OnlyClone

LEMMA TippedAlways ==
    ASSUME PackInv
    PROVE  Packing!EveryBundleTipped
<1>. DEFINE L == Len(txs)
            P == PerBundle
<1>. SUFFICES ASSUME looping = "done", NEW b \in Packing!Bundles
              PROVE  \/ \E m \in Packing!InBundle(b) : Packing!HasTip(txs[m])
                     \/ LET m == (b + 1) * P
                        IN  m + 1 \in DOMAIN txs /\ Packing!Size(txs[m]) + Head(txs[m + 1]).weight = Cap
  BY DEF Packing!EveryBundleTipped
<1>1. Packed
  BY DEF PackInv, Loop
<1>2. /\ L \in Nat /\ L >= 1 /\ DOMAIN txs = 1..L /\ Packing!HasTip(txs[L])
      /\ \A m \in 1..L : m % P = 0 /\ m + 1 \in 1..L => Paid(txs[m], txs[m + 1])
      /\ \A m \in 1..L : txs[m] \in Seq(Elem)
  <2>1. txs \in Seq(Seq(Elem)) /\ txs # <<>>
    BY <1>1 DEF Packed, Good
  <2>2. L \in Nat /\ L >= 1 /\ DOMAIN txs = 1..L /\ \A m \in 1..L : txs[m] \in Seq(Elem)
    BY <2>1, EmptySeq, LenProperties
  <2>. QED BY <1>1, <2>2 DEF Packed, Good
<1>3. P \in Nat /\ P > 1 /\ P >= 1
  BY Constants
<1>4. L - 1 \in Nat
  BY <1>2
<1>. HIDE DEF L, P
<1>5. PICK q \in Nat, r \in 0..P-1 : L - 1 = q * P + r /\ (L - 1) \div P = q
  BY <1>3, <1>4, Quotient
<1>6. b \in 0..q
  BY <1>5 DEF Packing!Bundles, L, P
<1>7. CASE b = q
  <2>1. L \in Packing!InBundle(b)
    BY <1>2, <1>5, <1>7 DEF Packing!InBundle, P
  <2>. QED BY <1>2, <2>1
<1>8. CASE b < q
  <2>. DEFINE m == (b + 1) * P
  <2>1. m \in Nat /\ m <= q * P /\ m >= 1
    <3>1. b + 1 <= q /\ b + 1 \in Nat /\ b + 1 >= 1
      BY <1>6, <1>8
    <3>2. (b + 1) * P <= q * P
      BY <1>3, <3>1
    <3>3. 1 * P <= (b + 1) * P
      BY <1>3, <3>1
    <3>. QED BY <1>3, <3>1, <3>2, <3>3
  <2>2. m \in 1..L /\ m + 1 \in 1..L
    <3>. HIDE DEF m
    <3>1. q * P \in Nat
      BY <1>3
    <3>. QED BY <1>2, <1>5, <2>1, <3>1
  <2>3. m % P = 0
    <3>1. 0 \in 0..P-1 /\ b + 1 \in Nat
      BY <1>3, <1>6
    <3>2. ((b + 1) * P + 0) % P = 0
      BY <1>3, <3>1, Divide
    <3>3. (b + 1) * P + 0 = m
      BY <2>1
    <3>. QED BY <3>2, <3>3
  <2>4. (m - 1) \div P = b
    <3>1. P - 1 \in 0..P-1 /\ b \in Nat
      BY <1>3, <1>6
    <3>2. (b * P + (P - 1)) \div P = b
      BY <1>3, <3>1, Divide
    <3>3. b * P + (P - 1) = m - 1
      BY <1>3, <3>1
    <3>. QED BY <3>2, <3>3
  <2>. HIDE DEF m
  <2>5. Paid(txs[m], txs[m + 1])
    BY <1>2, <2>2, <2>3
  <2>6. CASE Packing!HasTip(txs[m])
    <3>1. m \in Packing!InBundle(b)
      BY <1>2, <2>2, <2>4 DEF Packing!InBundle, P
    <3>. QED BY <2>6, <3>1
  <2>7. CASE ~Packing!HasTip(txs[m])
    <3>1. txs[m + 1] # <<>> /\ Packing!Size(txs[m]) + txs[m + 1][1].weight = Cap
      BY <2>5, <2>7 DEF Paid
    <3>2. Head(txs[m + 1]) = txs[m + 1][1]
      BY <1>2, <2>2, <3>1
    <3>. QED BY <1>2, <2>2, <3>1, <3>2 DEF m
  <2>. QED BY <2>6, <2>7
<1>. QED BY <1>6, <1>7, <1>8

LEMMA SeqInto ==
    ASSUME NEW A, NEW B, NEW s \in Seq(A), \A i \in DOMAIN s : s[i] \in B
    PROVE  s \in Seq(B)
<1>1. Len(s) \in Nat /\ DOMAIN s = 1..Len(s) /\ s \in [1..Len(s) -> A]
  BY LenProperties
<1>2. s \in [1..Len(s) -> B]
  BY <1>1
<1>. QED BY <1>1, <1>2

LEMMA PackTyped ==
    ASSUME Pairs, weight \in Sizes, PackInv, Len(ixs) <= MaxIxs
    PROVE  Packing!TypeOK
<1>. DEFINE R == [at : 1..MaxIxs, weight : Weights]
            S == [at : 0..MaxIxs, weight : Weights \cup {TipSize}]
<1>1. Len(ixs) \in Nat /\ DOMAIN ixs = 1..Len(ixs) /\ MaxIxs \in Nat
  BY Constants, LenProperties DEF Pairs
<1>2. /\ looping \in {"loop", "done"} /\ next \in 1..Len(ixs)+1
      /\ cur \in Seq(Elem) /\ 0 \notin Ats(cur) /\ txs \in Seq(Seq(Elem))
      /\ tips = Cardinality(Tipped(txs))
  BY <1>1 DEF PackInv, Packed, Loop, Good, Pushable
<1>3. ASSUME NEW x \in Elem PROVE x \in S /\ (x.at # 0 => x \in R)
  <2>1. x \in Instr
    BY ElemIs
  <2>2. x = [at |-> x.at, weight |-> x.weight]
    BY <2>1 DEF Instr
  <2>3. CASE x.at = 0
    <3>1. x.weight = TipSize
      BY <2>3, ElemIs, TipIs
    <3>2. [at |-> x.at, weight |-> x.weight] \in S
      BY <1>1, <2>3, <3>1
    <3>. HIDE DEF S, R
    <3>. QED BY <2>2, <2>3, <3>2
  <2>4. CASE x.at # 0
    <3>1. x.at \in 1..Len(ixs) /\ x.weight \in Weights
      BY <1>1, <2>4, ElemIs, WeightsFit
    <3>2. x.at \in 1..MaxIxs /\ x.at \in 0..MaxIxs
      BY <1>1, <3>1
    <3>3. [at |-> x.at, weight |-> x.weight] \in S /\ [at |-> x.at, weight |-> x.weight] \in R
      BY <3>1, <3>2
    <3>. HIDE DEF S, R
    <3>. QED BY <2>2, <3>3
  <2>. QED BY <2>3, <2>4
<1>. HIDE DEF R, S
<1>4. cur \in Seq(R)
  <2>1. \A l \in DOMAIN cur : cur[l] \in Elem /\ cur[l].at # 0
    BY <1>2, LenProperties DEF Ats
  <2>2. \A l \in DOMAIN cur : cur[l] \in R
    BY <1>3, <2>1
  <2>. QED BY <1>2, <2>2, SeqInto
<1>5. txs \in Seq(Seq(S))
  <2>1. Elem \subseteq S
    BY <1>3
  <2>2. \A m \in DOMAIN txs : txs[m] \in Seq(Elem)
    BY <1>2, LenProperties
  <2>3. \A m \in DOMAIN txs : txs[m] \in Seq(S)
    BY <2>1, <2>2, SeqMonotonic
  <2>. QED BY <1>2, <2>3, SeqInto
<1>6. next \in 1..MaxIxs+1
  BY <1>1, <1>2
<1>7. tips = Packing!Cardinality({m \in DOMAIN txs : Packing!HasTip(txs[m])})
  BY <1>2, SameCardinality DEF Tipped
<1>. QED BY <1>2, <1>4, <1>5, <1>6, <1>7 DEF Packing!TypeOK, R, S

-----------------------------------------------------------------------------
(* The bundles. *)

Low(b) == (b - 1) * PerBundle + 1
High(b) == IF b = NumBundles THEN Len(txs) ELSE b * PerBundle

\* How many there are.
LEMMA Count ==
    ASSUME Len(txs) \in Nat
    PROVE  /\ NumBundles \in Nat /\ Len(txs) <= NumBundles * PerBundle
           /\ NumBundles * PerBundle \in Nat
           /\ Len(txs) >= 1 => NumBundles >= 1 /\ (NumBundles - 1) * PerBundle <= Len(txs) - 1
           /\ Len(txs) = 0 => NumBundles = 0
<1>. DEFINE L == Len(txs)
            P == PerBundle
            N == NumBundles
<1>1. P \in Nat /\ P >= 1 /\ L \in Nat
  BY Constants
<1>2. L + P - 1 \in Nat /\ N = (L + P - 1) \div P
  BY <1>1 DEF NumBundles
<1>. HIDE DEF L, P, N
<1>3. PICK q \in Nat, r \in 0..P-1 : L + P - 1 = q * P + r /\ N = q
  BY <1>1, <1>2, Quotient
<1>4. q * P \in Nat /\ L <= q * P
  BY <1>1, <1>3
<1>5. ASSUME L >= 1 PROVE q >= 1 /\ (q - 1) * P <= L - 1
  <2>1. q # 0
    <3>1. CASE q = 0
      <4>1. q * P = 0
        BY <1>1, <3>1
      <4>. QED BY <1>1, <1>3, <1>5, <4>1
    <3>. QED BY <3>1
  <2>2. (q - 1) * P = q * P - P
    BY <1>1
  <2>. QED BY <1>1, <1>3, <1>4, <2>1, <2>2
<1>6. ASSUME L = 0 PROVE q = 0
  <2>1. CASE q >= 1
    <3>1. 1 * P <= q * P
      BY <1>1, <2>1
    <3>. QED BY <1>1, <1>3, <1>4, <1>6, <3>1
  <2>. QED BY <2>1
<1>. QED BY <1>3, <1>4, <1>5, <1>6 DEF L, P, N

\* Every transaction is in a bundle, and the bundles are in order.
LEMMA Cover ==
    ASSUME Len(txs) \in Nat, NEW m \in 1..Len(txs)
    PROVE  \E b \in 1..NumBundles : m \in Low(b)..High(b)
<1>. DEFINE L == Len(txs)
            P == PerBundle
            N == NumBundles
<1>1. P \in Nat /\ P >= 1 /\ L \in Nat /\ m - 1 \in Nat /\ m <= L
  BY Constants
<1>2. N \in Nat /\ L <= N * P /\ N * P \in Nat
  BY Count
<1>. HIDE DEF L, P, N
<1>. DEFINE i == m - 1
<1>3. i \in Nat
  BY <1>1
<1>. HIDE DEF i
<1>4. \E q \in Nat, r \in 0..P-1 : i = q * P + r
  BY <1>1, <1>3, Quotient
<1>5. PICK q \in Nat, r \in 0..P-1 : m - 1 = q * P + r
  BY <1>4 DEF i
<1>6. q < N
  <2>1. CASE N <= q
    <3>1. N * P <= q * P
      BY <1>1, <1>2, <2>1
    <3>2. q * P \in Nat
      BY <1>1
    <3>. QED BY <1>1, <1>2, <1>5, <3>1, <3>2
  <2>. QED BY <1>2, <2>1
<1>7. q + 1 \in 1..N /\ (q + 1) - 1 = q /\ (q + 1) * P = q * P + P /\ q * P \in Nat
  BY <1>1, <1>2, <1>6
<1>8. m >= q * P + 1 /\ m <= (q + 1) * P
  BY <1>1, <1>5, <1>7
<1>9. m \in Low(q + 1)..High(q + 1)
  <2>1. Low(q + 1) = q * P + 1
    BY <1>7 DEF Low, P
  <2>2. High(q + 1) = IF q + 1 = N THEN L ELSE (q + 1) * P
    BY DEF High, P, N, L
  <2>. QED BY <1>1, <1>7, <1>8, <2>1, <2>2
<1>. QED BY <1>7, <1>9 DEF N

LEMMA Ordered ==
    ASSUME Len(txs) \in Nat, NEW a \in 1..NumBundles, NEW b \in 1..NumBundles,
           NEW m \in Low(a)..High(a), NEW j \in Low(b)..High(b), m <= j
    PROVE  a <= b
<1>. DEFINE P == PerBundle
            N == NumBundles
<1>1. P \in Nat /\ P >= 1 /\ Len(txs) \in Nat /\ N \in Nat /\ Len(txs) <= N * P /\ a \in Nat /\ b \in Nat
  BY Constants, Count
<1>. HIDE DEF P, N
<1>2. Low(a) = (a - 1) * P + 1 /\ (a - 1) * P \in Int /\ b * P \in Int
  BY <1>1 DEF Low, P
<1>3. High(b) <= b * P /\ High(b) \in Int
  BY <1>1, <1>2 DEF High, P, N
<1>4. m \in Int /\ j \in Int /\ Low(a) <= m /\ j <= High(b)
  BY <1>2, <1>3
<1>5. (a - 1) * P < b * P
  BY <1>2, <1>3, <1>4
<1>6. CASE b <= a - 1
  <2>1. b * P <= (a - 1) * P
    BY <1>1, <1>6
  <2>. QED BY <1>2, <1>5, <2>1
<1>. QED BY <1>1, <1>6

\* What is in a bundle.
LEMMA BundleIs ==
    ASSUME txs \in Seq(Seq(Elem)), NEW b \in 1..NumBundles
    PROVE  /\ Bundle(b) \in Seq(Elem)
           /\ Low(b)..High(b) \subseteq 1..Len(txs)
           /\ \A x : x \in Range(Bundle(b)) <=> \E m \in Low(b)..High(b) : x \in Range(txs[m])
<1>. DEFINE P == PerBundle
            N == NumBundles
            L == Len(txs)
            s == SubSeq(txs, Low(b), High(b))
            T == Seq(Elem)
<1>1. P \in Nat /\ P >= 1 /\ b \in Nat /\ b >= 1 /\ L \in Nat /\ DOMAIN txs = 1..L
      /\ \A m \in 1..L : txs[m] \in T
  BY Constants, LenProperties, Count
<1>2. N \in Nat /\ (L >= 1 => (N - 1) * P <= L - 1) /\ (L = 0 => N = 0) /\ b <= N
  BY <1>1, Count
<1>3. Bundle(b) = FlattenSeq(s)
  BY DEF Bundle, Chunk, Low, High
<1>4. Low(b) \in Int /\ Low(b) >= 1
  <2>. HIDE DEF P
  <2>1. (b - 1) * P \in Nat
    BY <1>1
  <2>. QED BY <2>1 DEF Low, P
<1>. HIDE DEF P, N, L
<1>5. High(b) \in Int /\ High(b) <= L
  <2>1. CASE b = N
    BY <1>1, <2>1 DEF High, N, L
  <2>2. CASE b # N
    <3>1. b <= N - 1
      BY <1>1, <1>2, <2>2
    <3>2. b * P <= (N - 1) * P /\ b * P \in Int /\ (N - 1) * P \in Int
      BY <1>1, <1>2, <3>1
    <3>3. L # 0
      BY <1>1, <1>2
    <3>4. b * P <= L
      <4>1. (N - 1) * P <= L - 1
        BY <1>1, <1>2, <3>3
      <4>. DEFINE x == b * P
                  y == (N - 1) * P
      <4>2. x <= y /\ x \in Int /\ y \in Int /\ y <= L - 1
        BY <3>2, <4>1
      <4>. HIDE DEF x, y
      <4>3. x <= L
        BY <1>1, <4>2
      <4>. QED BY <4>3 DEF x
    <3>. QED BY <2>2, <3>2, <3>4 DEF High, P, N
  <2>. QED BY <2>1, <2>2
<1>6. Low(b)..High(b) \subseteq 1..L
  BY <1>1, <1>4, <1>5
<1>. DEFINE lo == Low(b)
            hi == High(b)
<1>. HIDE DEF T
<1>7. \A m \in lo..hi : txs[m] \in T
  BY <1>1, <1>6
<1>. HIDE DEF lo, hi
<1>. DEFINE u == SubSeq(txs, lo, hi)
<1>8. u \in Seq(T) /\ Len(u) = (IF lo <= hi THEN hi - lo + 1 ELSE 0)
      /\ \A i \in 1..hi-lo+1 : u[i] = txs[lo+i-1]
  BY <1>4, <1>5, <1>7, SubSeqProperties DEF lo, hi
<1>9. lo \in Int /\ hi \in Int
  BY <1>4, <1>5 DEF lo, hi
<1>10. DOMAIN u = 1..Len(u)
  BY <1>8, LenProperties
<1>. HIDE DEF u
<1>11. DOMAIN u = 1..hi-lo+1
  BY <1>8, <1>9, <1>10
<1>12. ASSUME NEW x PROVE (\E i \in DOMAIN u : x \in Range(u[i])) <=> \E m \in lo..hi : x \in Range(txs[m])
  <2>1. ASSUME NEW i \in DOMAIN u, x \in Range(u[i]) PROVE \E m \in lo..hi : x \in Range(txs[m])
    <3>1. lo + i - 1 \in lo..hi /\ u[i] = txs[lo + i - 1]
      BY <1>8, <1>9, <1>11
    <3>. QED BY <2>1, <3>1
  <2>2. ASSUME NEW m \in lo..hi, x \in Range(txs[m]) PROVE \E i \in DOMAIN u : x \in Range(u[i])
    <3>. DEFINE i == m - lo + 1
    <3>1. i \in 1..hi-lo+1 /\ lo + i - 1 = m
      BY <1>9
    <3>2. i \in DOMAIN u /\ u[i] = txs[lo + i - 1]
      BY <1>8, <1>11, <3>1
    <3>. HIDE DEF i
    <3>3. u[i] = txs[m]
      BY <3>1, <3>2
    <3>. QED BY <2>2, <3>2, <3>3
  <2>. QED BY <2>1, <2>2
<1>13. FlattenSeq(u) \in Seq(Elem) /\ \A x : x \in Range(FlattenSeq(u)) <=> \E i \in DOMAIN u : x \in Range(u[i])
  BY <1>8, FlattenRange DEF T
<1>14. Bundle(b) = FlattenSeq(u)
  BY <1>3 DEF u, lo, hi
<1>. QED BY <1>6, <1>12, <1>13, <1>14 DEF lo, hi, L

\* Bundle b holds an instruction of w of this kind.
Holds(b, w, kind) ==
    \E x \in Range(Bundle(b)) : x.at # 0 /\ ixs[x.at].wallet = w /\ ixs[x.at].kind = kind

LEMMA BundlesHold ==
    ASSUME NEW w, NEW kind
    PROVE  BundlesOf(w, kind) = {b \in DOMAIN fates : Holds(b, w, kind)}
<1>1. ASSUME NEW b \in DOMAIN fates
      PROVE  (\E i \in DOMAIN Bundle(b) :
                 LET at == Bundle(b)[i].at IN at # 0 /\ ixs[at].wallet = w /\ ixs[at].kind = kind)
             <=> Holds(b, w, kind)
  <2>. DEFINE q == Bundle(b)
  <2>. HIDE DEF q
  <2>. DEFINE K(x) == x.at # 0 /\ ixs[x.at].wallet = w /\ ixs[x.at].kind = kind
  <2>. HIDE DEF K
  <2>1. (\E i \in DOMAIN q : K(q[i])) <=> \E x \in Range(q) : K(x)
    BY DEF Range
  <2>. QED BY <2>1 DEF q, K, Holds
<1>. QED BY <1>1, Zenon DEF BundlesOf

\* Where every instruction is, and what a bundle holds.
LEMMA Somewhere ==
    ASSUME Pairs, weight \in Sizes, Packed, NEW i \in DOMAIN ixs
    PROVE  \E m \in DOMAIN txs, b \in 1..NumBundles :
               /\ m \in Low(b)..High(b) /\ i \in Ats(txs[m])
               /\ Holds(b, ixs[i].wallet, ixs[i].kind)
<1>1. /\ Len(ixs) \in Nat /\ i \in 1..Len(ixs) /\ i # 0
      /\ txs \in Seq(Seq(Elem)) /\ Len(txs) \in Nat /\ DOMAIN txs = 1..Len(txs)
  BY LenProperties DEF Pairs, Packed, Good
<1>2. PICK m \in DOMAIN txs : i \in Ats(txs[m])
  BY <1>1 DEF Packed, Good, Placed
<1>3. PICK b \in 1..NumBundles : m \in Low(b)..High(b)
  BY <1>1, Cover
<1>4. PICK l \in DOMAIN txs[m] : txs[m][l].at = i
  BY <1>2 DEF Ats
<1>5. txs[m][l] \in Range(txs[m])
  BY DEF Range
<1>6. txs[m][l] \in Range(Bundle(b))
  BY <1>1, <1>3, <1>5, BundleIs
<1>7. Holds(b, ixs[i].wallet, ixs[i].kind)
  BY <1>1, <1>4, <1>6 DEF Holds
<1>. QED BY <1>2, <1>3, <1>7

LEMMA HeldAt ==
    ASSUME Pairs, weight \in Sizes, Packed, NEW b \in 1..NumBundles, NEW w, NEW kind, Holds(b, w, kind)
    PROVE  \E m \in DOMAIN txs, i \in DOMAIN ixs :
               m \in Low(b)..High(b) /\ i \in Ats(txs[m]) /\ ixs[i].wallet = w /\ ixs[i].kind = kind
<1>1. txs \in Seq(Seq(Elem)) /\ DOMAIN txs = 1..Len(txs) /\ \A m \in DOMAIN txs : txs[m] \in Seq(Elem)
  BY LenProperties DEF Packed, Good
<1>2. PICK x \in Range(Bundle(b)) : x.at # 0 /\ ixs[x.at].wallet = w /\ ixs[x.at].kind = kind
  BY DEF Holds
<1>3. PICK m \in Low(b)..High(b) : x \in Range(txs[m])
  BY <1>1, BundleIs
<1>4. m \in DOMAIN txs
  BY <1>1, BundleIs
<1>5. PICK l \in DOMAIN txs[m] : x = txs[m][l]
  BY <1>3 DEF Range
<1>6. x \in Elem /\ x.at \in Ats(txs[m])
  BY <1>1, <1>4, <1>5, LenProperties DEF Ats
<1>7. x.at \in DOMAIN ixs
  BY <1>2, <1>6, ElemIs
<1>. QED BY <1>2, <1>3, <1>4, <1>6, <1>7

\* A wallet whose tax is in a bundle has its sale in that one or before it.
LEMMA SaleFirst ==
    ASSUME Pairs, weight \in Sizes, Packed, NEW b \in 1..NumBundles, NEW w, Holds(b, w, "tax")
    PROVE  \E a \in 1..NumBundles : a <= b /\ Holds(a, w, "sell")
<1>1. PICK m \in DOMAIN txs, i \in DOMAIN ixs :
          m \in Low(b)..High(b) /\ i \in Ats(txs[m]) /\ ixs[i].wallet = w /\ ixs[i].kind = "tax"
  BY HeldAt
<1>. DEFINE h == i - 1
<1>2. h \in DOMAIN ixs /\ ixs[h].kind = "sell" /\ ixs[h].wallet = w
  BY <1>1 DEF Pairs
<1>3. /\ DOMAIN ixs = 1..Len(ixs) /\ Len(ixs) \in Nat
      /\ Len(txs) \in Nat /\ DOMAIN txs = 1..Len(txs)
  BY LenProperties DEF Pairs, Packed, Good
<1>4. h # 0 /\ ~(i < h)
  BY <1>2, <1>3
<1>. HIDE DEF h
<1>5. PICK j \in DOMAIN txs, a \in 1..NumBundles :
          j \in Low(a)..High(a) /\ h \in Ats(txs[j]) /\ Holds(a, ixs[h].wallet, ixs[h].kind)
  BY <1>2, Somewhere
<1>6. ~(m < j)
  BY <1>1, <1>4, <1>5 DEF Packed, Good, Placed
<1>7. j <= m
  BY <1>3, <1>6
<1>8. a <= b
  BY <1>1, <1>3, <1>5, <1>7, Ordered
<1>. QED BY <1>2, <1>5, <1>8

-----------------------------------------------------------------------------
(* The execution of a bundle. *)

State == [ok : BOOLEAN, tokens : [Wallets -> Int],
          rich : SUBSET Wallets, sold : SUBSET Wallets, taxed : SUBSET Wallets]

LEMMA RunExists ==
    ASSUME NEW q, NEW n \in Nat
    PROVE  \E f : f = [m \in 0..n |-> IF m = 0 THEN Now ELSE Execute(f[m - 1], q[m])]
<1>. DEFINE Step(f, m) == IF m = 0 THEN Now ELSE Execute(f[m - 1], q[m])
            Run(f, m) == f = [i \in 0..m |-> Step(f, i)]
            A == {m \in Nat : \E f : Run(f, m)}
<1>1. 0 \in A
  <2>. DEFINE g == [i \in 0..0 |-> Now]
  <2>1. \A i \in 0..0 : i = 0
    OBVIOUS
  <2>2. g = [i \in 0..0 |-> Step(g, i)]
    BY <2>1
  <2>3. Run(g, 0)
    BY <2>2
  <2>. HIDE DEF Run
  <2>. QED BY <2>3
<1>2. ASSUME NEW m \in Nat, m \in A PROVE m + 1 \in A
  <2>1. PICK f : Run(f, m)
    BY <1>2
  <2>. DEFINE g == [i \in 0..m+1 |-> Step(f, i)]
  <2>2. \A i \in 0..m : f[i] = Step(f, i)
    BY <2>1
  <2>3. ASSUME NEW i \in 0..m+1, i # 0 PROVE g[i - 1] = f[i - 1]
    <3>1. i - 1 \in 0..m /\ i - 1 \in 0..m+1
      BY <2>3
    <3>. QED BY <2>2, <3>1
  <2>. HIDE DEF A
  <2>4. \A i \in 0..m+1 : g[i] = Step(g, i)
    BY <2>3
  <2>5. g = [i \in 0..m+1 |-> g[i]]
    OBVIOUS
  <2>. HIDE DEF g
  <2>6. g = [i \in 0..m+1 |-> Step(g, i)]
    <3>. HIDE DEF Step
    <3>. QED BY <2>4, <2>5, Zenon
  <2>7. Run(g, m + 1)
    BY <2>6
  <2>. HIDE DEF Run
  <2>. QED BY <2>7 DEF A
<1>. HIDE DEF A
<1>3. n \in A
  BY <1>1, <1>2, NatSteps
<1>. QED BY <1>3 DEF A

\* What one instruction does.
LEMMA ExecuteTip ==
    ASSUME NEW state, NEW x, x.at = 0 \/ ~state.ok
    PROVE  Execute(state, x) = state
  BY DEF Execute

LEMMA ExecuteSale ==
    ASSUME NEW state \in State, NEW x, x.at # 0, state.ok,
           ixs[x.at].kind = "sell", ixs[x.at] \in Made
    PROVE  LET s == Execute(state, x)
               w == ixs[x.at].wallet
           IN  /\ s \in State /\ s.taxed = state.taxed
               /\ s.sold = state.sold \cup {w} /\ s.rich = state.rich \cup {w}
               /\ s.ok /\ state.tokens \in [Wallets -> Nat] => s.tokens \in [Wallets -> Nat]
<1>. DEFINE ix == ixs[x.at]
            w == ix.wallet
            s == [state EXCEPT !.ok = state.tokens[w] >= ix.amount,
                               !.tokens[w] = @ - ix.amount,
                               !.rich = @ \cup {w}, !.sold = @ \cup {w}]
<1>1. Execute(state, x) = s
  BY DEF Execute
<1>2. w \in Wallets /\ ix.amount \in Nat
  BY DEF Made
<1>3. /\ state.tokens \in [Wallets -> Int] /\ state.ok \in BOOLEAN
      /\ state.rich \subseteq Wallets /\ state.sold \subseteq Wallets /\ state.taxed \subseteq Wallets
  BY DEF State
<1>. HIDE DEF ix, w
<1>. DEFINE t == [state.tokens EXCEPT ![w] = @ - ix.amount]
<1>4. t \in [Wallets -> Int]
  BY <1>2, <1>3
<1>5. /\ s.ok = (state.tokens[w] >= ix.amount) /\ s.tokens = t
      /\ s.rich = state.rich \cup {w} /\ s.sold = state.sold \cup {w} /\ s.taxed = state.taxed
  BY DEF State
<1>6. s \in State
  <2>. DEFINE e == state.tokens[w] >= ix.amount
              r == state.rich \cup {w}
              o == state.sold \cup {w}
              s2 == [state EXCEPT !.ok = e, !.tokens = t, !.rich = r, !.sold = o]
  <2>1. s = s2
    OBVIOUS
  <2>2. e \in BOOLEAN /\ r \in SUBSET Wallets /\ o \in SUBSET Wallets
    BY <1>2, <1>3
  <2>. HIDE DEF e, t, r, o
  <2>3. s2 \in State
    BY <1>4, <2>2 DEF State
  <2>. HIDE DEF s, s2
  <2>. QED BY <2>1, <2>3
<1>7. ASSUME state.tokens[w] >= ix.amount, state.tokens \in [Wallets -> Nat]
      PROVE  t \in [Wallets -> Nat]
  BY <1>2, <1>7
<1>. HIDE DEF s, t
<1>. QED BY <1>1, <1>5, <1>6, <1>7 DEF w, ix

LEMMA ExecuteTax ==
    ASSUME NEW state \in State, NEW x, x.at # 0, state.ok,
           ixs[x.at].kind = "tax", ixs[x.at] \in Made
    PROVE  LET s == Execute(state, x)
           IN  /\ s \in State /\ s.taxed = state.taxed \cup {ixs[x.at].wallet}
               /\ s.sold = state.sold /\ s.rich = state.rich /\ s.tokens = state.tokens
<1>. DEFINE w == ixs[x.at].wallet
            s == [state EXCEPT !.ok = w \in state.rich, !.taxed = @ \cup {w}]
<1>1. Execute(state, x) = s
  BY DEF Execute
<1>2. w \in Wallets
  BY DEF Made
<1>. HIDE DEF w
<1>3. /\ s.tokens = state.tokens /\ s.rich = state.rich /\ s.sold = state.sold
      /\ s.taxed = state.taxed \cup {w} /\ s.ok \in BOOLEAN
  BY DEF State
<1>4. s \in State
  BY <1>2, <1>3 DEF State
<1>. QED BY <1>1, <1>3, <1>4 DEF w

\* What the first m instructions of a list did.
Done(q, m, w, kind) ==
    \E i \in 1..m : q[i].at # 0 /\ ixs[q[i].at].wallet = w /\ ixs[q[i].at].kind = kind
RanTo(q, m, s) ==
    /\ s \in State
    /\ s.ok => /\ s.tokens \in [Wallets -> Nat]
               /\ rich \subseteq s.rich
               /\ \A w \in Wallets : /\ w \in s.sold <=> w \in sold \/ Done(q, m, w, "sell")
                                     /\ w \in s.taxed <=> w \in taxed \/ Done(q, m, w, "tax")
                                     /\ Done(q, m, w, "sell") => w \in s.rich

LEMMA DoneNext ==
    ASSUME NEW q, NEW m \in Nat, NEW w, NEW kind
    PROVE  Done(q, m + 1, w, kind) <=>
               \/ Done(q, m, w, kind)
               \/ q[m+1].at # 0 /\ ixs[q[m+1].at].wallet = w /\ ixs[q[m+1].at].kind = kind
<1>. DEFINE K(i) == q[i].at # 0 /\ ixs[q[i].at].wallet = w /\ ixs[q[i].at].kind = kind
<1>. HIDE DEF K
<1>1. \A i : i \in 1..m+1 <=> i \in 1..m \/ i = m + 1
  OBVIOUS
<1>2. (\E i \in 1..m+1 : K(i)) <=> (\E i \in 1..m : K(i)) \/ K(m + 1)
  BY <1>1, Zenon
<1>. QED BY <1>2 DEF Done, K

LEMMA RanOn ==
    ASSUME Pairs, weight \in Sizes, NEW q, NEW m \in Nat, NEW s, RanTo(q, m, s), q[m + 1] \in Elem
    PROVE  RanTo(q, m + 1, Execute(s, q[m + 1]))
<1>. DEFINE x == q[m + 1]
            t == Execute(s, x)
            D(n, w, kind) == Done(q, n, w, kind)
<1>1. ASSUME NEW w, NEW kind
      PROVE  D(m + 1, w, kind) <=>
                 D(m, w, kind) \/ (x.at # 0 /\ ixs[x.at].wallet = w /\ ixs[x.at].kind = kind)
  BY DoneNext
<1>2. s \in State
  BY DEF RanTo
<1>3. x.at # 0 => ixs[x.at] \in Made /\ ixs[x.at].kind \in {"sell", "tax"} /\ ixs[x.at].wallet \in Wallets
  <2>. SUFFICES ASSUME x.at # 0
                PROVE  ixs[x.at] \in Made /\ ixs[x.at].kind \in {"sell", "tax"} /\ ixs[x.at].wallet \in Wallets
    OBVIOUS
  <2>1. x.at \in DOMAIN ixs
    BY ElemIs
  <2>2. ixs[x.at] \in Made
    BY <2>1, LenProperties DEF Pairs
  <2>. QED BY <2>2 DEF Made
<1>4. s.ok => /\ s.tokens \in [Wallets -> Nat]
              /\ rich \subseteq s.rich
              /\ \A w \in Wallets : /\ w \in s.sold <=> w \in sold \/ D(m, w, "sell")
                                    /\ w \in s.taxed <=> w \in taxed \/ D(m, w, "tax")
                                    /\ D(m, w, "sell") => w \in s.rich
  BY DEF RanTo
<1>. SUFFICES /\ t \in State
              /\ t.ok => /\ t.tokens \in [Wallets -> Nat]
                         /\ rich \subseteq t.rich
                         /\ \A w \in Wallets : /\ w \in t.sold <=> w \in sold \/ D(m + 1, w, "sell")
                                               /\ w \in t.taxed <=> w \in taxed \/ D(m + 1, w, "tax")
                                               /\ D(m + 1, w, "sell") => w \in t.rich
  BY Zenon DEF RanTo
<1>5. CASE x.at = 0 \/ ~s.ok
  <2>1. t = s
    BY <1>5, ExecuteTip
  <2>. HIDE DEF t, x, D
  <2>2. s.ok => \A w, kind : D(m + 1, w, kind) <=> D(m, w, kind)
    BY <1>1, <1>5
  <2>. QED BY <1>2, <1>4, <2>1, <2>2
<1>6. CASE x.at # 0 /\ s.ok /\ ixs[x.at].kind = "sell"
  <2>. DEFINE v == ixs[x.at].wallet
  <2>1. /\ t \in State /\ t.taxed = s.taxed
        /\ t.sold = s.sold \cup {v} /\ t.rich = s.rich \cup {v}
        /\ t.ok /\ s.tokens \in [Wallets -> Nat] => t.tokens \in [Wallets -> Nat]
    BY <1>2, <1>3, <1>6, ExecuteSale
  <2>2. \A w : /\ D(m + 1, w, "sell") <=> D(m, w, "sell") \/ w = v
               /\ D(m + 1, w, "tax") <=> D(m, w, "tax")
    <3>. HIDE DEF D, x
    <3>. QED BY <1>1, <1>6
  <2>. HIDE DEF t, x, D, v
  <2>. QED BY <1>4, <1>6, <2>1, <2>2
<1>7. CASE x.at # 0 /\ s.ok /\ ixs[x.at].kind = "tax"
  <2>. DEFINE v == ixs[x.at].wallet
  <2>1. /\ t \in State /\ t.taxed = s.taxed \cup {v}
        /\ t.sold = s.sold /\ t.rich = s.rich /\ t.tokens = s.tokens
    BY <1>2, <1>3, <1>7, ExecuteTax
  <2>2. \A w : /\ D(m + 1, w, "tax") <=> D(m, w, "tax") \/ w = v
               /\ D(m + 1, w, "sell") <=> D(m, w, "sell")
    <3>. HIDE DEF D, x
    <3>. QED BY <1>1, <1>7
  <2>. HIDE DEF t, x, D, v
  <2>. QED BY <1>4, <1>7, <2>1, <2>2
<1>. QED BY <1>3, <1>5, <1>6, <1>7

\* What a bundle that lands does.
LEMMA Landing ==
    ASSUME Pairs, weight \in Sizes, txs \in Seq(Seq(Elem)), NEW b \in 1..NumBundles,
           tokens \in [Wallets -> Nat], rich \cup sold \cup taxed \subseteq Wallets, After(b).ok
    PROVE  /\ After(b) \in State /\ After(b).tokens \in [Wallets -> Nat]
           /\ rich \subseteq After(b).rich
           /\ \A w \in Wallets : /\ w \in After(b).sold <=> w \in sold \/ Holds(b, w, "sell")
                                 /\ w \in After(b).taxed <=> w \in taxed \/ Holds(b, w, "tax")
                                 /\ Holds(b, w, "sell") => w \in After(b).rich
<1>. DEFINE q == Bundle(b)
            n == Len(q)
            f == CHOOSE f : f = [m \in 0..n |-> IF m = 0 THEN Now ELSE Execute(f[m - 1], q[m])]
<1>1. q \in Seq(Elem)
  BY BundleIs
<1>2. n \in Nat /\ DOMAIN q = 1..n /\ \A m \in 1..n : q[m] \in Elem
  BY <1>1, LenProperties
<1>3. After(b) = f[n]
  BY DEF After
<1>4. f = [m \in 0..n |-> IF m = 0 THEN Now ELSE Execute(f[m - 1], q[m])]
  BY <1>2, RunExists
<1>. HIDE DEF f
<1>5. \A m \in 0..n : f[m] = IF m = 0 THEN Now ELSE Execute(f[m - 1], q[m])
  BY <1>4
<1>. HIDE DEF q
<1>. HIDE DEF n
<1>. DEFINE A == {m \in Nat : m <= n => RanTo(q, m, f[m])}
<1>6. 0 \in A
  <2>1. f[0] = Now
    BY <1>2, <1>5
  <2>2. Now \in State
    BY DEF Now, State
  <2>3. \A w, kind : ~Done(q, 0, w, kind)
    BY DEF Done
  <2>4. /\ Now.tokens = tokens /\ Now.rich = rich /\ Now.sold = sold /\ Now.taxed = taxed
    BY DEF Now
  <2>5. RanTo(q, 0, Now)
    BY <2>2, <2>3, <2>4 DEF RanTo
  <2>. QED BY <2>1, <2>5
<1>7. ASSUME NEW m \in Nat, m \in A PROVE m + 1 \in A
  <2>. SUFFICES ASSUME m + 1 <= n PROVE RanTo(q, m + 1, f[m + 1])
    OBVIOUS
  <2>1. RanTo(q, m, f[m])
    BY <1>2, <1>7
  <2>2. m + 1 \in 0..n /\ m + 1 # 0 /\ (m + 1) - 1 = m /\ m + 1 \in 1..n
    BY <1>2
  <2>3. f[m + 1] = Execute(f[m], q[m + 1])
    BY <1>5, <2>2
  <2>4. q[m + 1] \in Elem
    BY <1>2, <2>2
  <2>. QED BY <2>1, <2>3, <2>4, RanOn
<1>. HIDE DEF A
<1>8. RanTo(q, n, f[n])
  <2>1. n \in A
    BY <1>2, <1>6, <1>7, NatSteps
  <2>. QED BY <1>2, <2>1 DEF A
<1>9. \A w, kind : Holds(b, w, kind) <=> Done(q, n, w, kind)
  <2>. TAKE w, kind
  <2>. DEFINE K(x) == x.at # 0 /\ ixs[x.at].wallet = w /\ ixs[x.at].kind = kind
  <2>. HIDE DEF K
  <2>1. (\E i \in 1..n : K(q[i])) <=> \E x \in Range(q) : K(x)
    BY <1>2 DEF Range
  <2>. QED BY <2>1 DEF K, q, Holds, Done
<1>. QED BY <1>3, <1>8, <1>9 DEF RanTo

-----------------------------------------------------------------------------
(* The invariant of a sale. *)

Fates == {"inflight", "landed", "dropped"}
Verdicts == {"none", "ok", "err"}
Pcs == {"survey", "build", "submit", "await", "collect", "pay", "done"}

Fresh == looping = "loop" /\ next = 1 /\ cur = <<>> /\ txs = <<>> /\ tips = 0

\* Bundles were, or could have been, submitted.
Late == pc \in {"submit", "await", "collect", "pay"} \/ answer = "true" \/ fates # <<>>

\* The instructions and their packing, which ends before a bundle is sent.
ReadInv ==
    /\ weight \in Sizes /\ pc \in Pcs /\ k \in 1..Len(Keys)+1 /\ total \in Nat
    /\ Pairs /\ Len(ixs) <= MaxIxs /\ PackInv
    /\ pc = "survey" => ixs = <<>>
    /\ pc = "build" => Len(ixs) <= 2 * (k - 1)
    /\ pc = "survey" \/ (pc = "build" /\ k <= Len(Keys)) => Fresh
    /\ pc \in {"survey", "build"} => fates = <<>>
    /\ Late => Packed

\* The bundles: only the last waits for its answer, Ok means that it landed,
\* and when they were all submitted there is one of each.
EngInv ==
    /\ fates \in Seq(Fates) /\ verdicts \in Seq(Verdicts) /\ Len(fates) = Len(verdicts)
    /\ fates # <<>> => Len(fates) <= NumBundles
    /\ \A b \in DOMAIN verdicts :
           /\ verdicts[b] = "none" => b = Len(verdicts) /\ pc \in {"await", "done"}
           /\ verdicts[b] = "ok" => fates[b] = "landed"
    /\ answer \in {"none", "true", "false", "gone"} /\ (pc = "done" <=> answer # "none")
    /\ pc = "await" => fates # <<>>
    /\ pc \in {"collect", "pay"} \/ answer = "true" => fates = <<>> \/ Len(fates) = NumBundles

\* The chain: the wallets that sold and were taxed are those of the bundles
\* that landed, and until the collection they hold what they sold for.
Landed(w, kind) == \E b \in DOMAIN fates : fates[b] = "landed" /\ Holds(b, w, kind)

ChainInv ==
    /\ tokens \in [Wallets -> Nat]
    /\ swept \cup rich \cup sold \cup taxed \cup shared \subseteq Wallets
    /\ \A w \in Wallets : (w \in sold <=> Landed(w, "sell")) /\ (w \in taxed <=> Landed(w, "tax"))
    /\ pc \notin {"pay", "done"} => sold \subseteq rich

SInv == ReadInv /\ EngInv /\ ChainInv

LEMMA PackedSame ==
    ASSUME UNCHANGED <<ixs, weight, packVars>>
    PROVE  (Packed' <=> Packed) /\ (PackInv => PackInv')
<1>1. Elem' = Elem
  BY ElemSame
<1>2. Packed' <=> Packed
  BY <1>1 DEF Packed, packVars
<1>3. ASSUME NEW c \in Nat, Loop(c) PROVE Loop(c)'
  BY <1>1, <1>3 DEF Loop, packVars
<1>. QED BY <1>2, <1>3 DEF PackInv

LEMMA PairsSame == ASSUME UNCHANGED ixs PROVE Pairs' <=> Pairs
  BY DEF Pairs

LEMMA HoldsSame ==
    ASSUME UNCHANGED <<ixs, txs>>
    PROVE  /\ NumBundles' = NumBundles
           /\ \A b, w, kind : Holds(b, w, kind)' <=> Holds(b, w, kind)
<1>1. NumBundles' = NumBundles
  BY DEF NumBundles
<1>2. ASSUME NEW b, NEW w, NEW kind PROVE Holds(b, w, kind)' <=> Holds(b, w, kind)
  <2>1. Bundle(b)' = Bundle(b)
    BY <1>1 DEF Bundle, Chunk
  <2>. QED BY <2>1 DEF Holds
<1>. QED BY <1>1, <1>2

LEMMA LandedSame ==
    ASSUME UNCHANGED <<ixs, txs, fates>>
    PROVE  \A w, kind : Landed(w, kind)' <=> Landed(w, kind)
<1>1. \A b, w, kind : Holds(b, w, kind)' <=> Holds(b, w, kind)
  BY HoldsSame
<1>. QED BY <1>1 DEF Landed

LEMMA LandedNone ==
    ASSUME fates = <<>>, UNCHANGED fates
    PROVE  \A w, kind : ~Landed(w, kind) /\ ~Landed(w, kind)'
  BY DEF Landed

\* A step after the packing, or one that leaves it alone.
LEMMA ReadKept ==
    ASSUME ReadInv, UNCHANGED <<k, readVars, packVars>>, pc' \in Pcs,
           pc' \in {"survey", "build"} => pc' = pc /\ UNCHANGED fates,
           Late' => Packed
    PROVE  ReadInv'
<1>1. (Packed' <=> Packed) /\ PackInv' /\ Pairs'
  BY PackedSame, PairsSame DEF readVars, ReadInv
<1>2. Fresh' <=> Fresh
  BY DEF Fresh, packVars
<1>3. UNCHANGED <<k, weight, total, ixs>>
  BY DEF readVars
<1>. HIDE DEF Packed, Fresh, PackInv, Pairs, Pcs, Late
<1>. QED BY <1>1, <1>2, <1>3 DEF ReadInv

LEMMA InitSInv == Init => SInv
<1>. SUFFICES ASSUME Init PROVE SInv
  OBVIOUS
<1>1. Fresh /\ ixs = <<>> /\ fates = <<>> /\ pc = "survey" /\ k = 1
  BY DEF Init, Packing!Init, Fresh
<1>2. Pairs /\ Len(ixs) = 0 /\ Len(ixs) <= MaxIxs /\ 1 \in 1..Len(Keys)+1
  BY <1>1, Constants DEF Pairs
<1>3. PackInv
  BY <1>1, <1>2, FreshLoop DEF Fresh, PackInv
<1>4. ReadInv
  BY <1>1, <1>2, <1>3 DEF Init, ReadInv, Pcs, Late
<1>5. EngInv
  BY DEF Init, EngInv
<1>6. ChainInv
  <2>1. tokens \in [Wallets -> Nat]
    BY SellAllAssumption DEF Init
  <2>2. \A w, kind : ~Landed(w, kind)
    BY <1>1 DEF Landed
  <2>. QED BY <2>1, <2>2 DEF Init, ChainInv
<1>. QED BY <1>4, <1>5, <1>6 DEF SInv

\* The two loops over the keys.
LEMMA SurveySInv == ASSUME SInv, Survey \/ SurveyEnds PROVE SInv'
<1>1. CASE Survey
  <2>1. /\ pc = "survey" /\ k <= Len(Keys) /\ k' = k + 1
        /\ UNCHANGED <<pc, weight, ixs, packVars, fates, verdicts, swept, answer, tokens, rich, sold, taxed, shared>>
    BY <1>1 DEF Survey, engineVars, chainVars
  <2>2. /\ total \in Nat /\ k \in 1..Len(Keys)+1 /\ Len(Keys) \in Nat /\ Keys[k] \in Wallets
        /\ tokens[Keys[k]] \in Nat
    BY <2>1, Constants DEF SInv, ReadInv, ChainInv
  <2>3. total' \in Nat /\ k' \in 1..Len(Keys)+1
    BY <1>1, <2>1, <2>2 DEF Survey
  <2>4. (Packed' <=> Packed) /\ PackInv' /\ Pairs' /\ (Fresh' <=> Fresh)
    BY <2>1, PackedSame, PairsSame DEF SInv, ReadInv, Fresh, packVars
  <2>5. ReadInv'
    <3>. HIDE DEF Packed, Fresh, PackInv, Pairs, Pcs
    <3>. QED BY <2>1, <2>3, <2>4 DEF SInv, ReadInv, Late
  <2>6. EngInv'
    BY <2>1, HoldsSame DEF SInv, EngInv, packVars
  <2>7. ChainInv'
    <3>1. \A w, kind : Landed(w, kind)' <=> Landed(w, kind)
      BY <2>1, LandedSame DEF packVars
    <3>. QED BY <2>1, <3>1 DEF SInv, ChainInv
  <2>. QED BY <2>5, <2>6, <2>7 DEF SInv
<1>2. CASE SurveyEnds
  <2>1. /\ pc = "survey"
        /\ UNCHANGED <<weight, total, ixs, packVars, fates, verdicts, swept, tokens, rich, sold, taxed, shared>>
        /\ (pc' = "done" /\ answer' = "false" /\ UNCHANGED k) \/ (pc' = "build" /\ k' = 1 /\ UNCHANGED answer)
    BY <1>2 DEF SurveyEnds, Return, readVars, engineVars, chainVars
  <2>2. (Packed' <=> Packed) /\ PackInv' /\ Pairs' /\ (Fresh' <=> Fresh)
    BY <2>1, PackedSame, PairsSame DEF SInv, ReadInv, Fresh, packVars
  <2>3. ReadInv'
    <3>1. Len(ixs) = 0 /\ 1 \in 1..Len(Keys)+1
      BY <2>1, Constants DEF SInv, ReadInv
    <3>. HIDE DEF Packed, Fresh, PackInv, Pairs
    <3>. QED BY <2>1, <2>2, <3>1 DEF SInv, ReadInv, EngInv, Late, Pcs
  <2>4. EngInv'
    BY <2>1, HoldsSame DEF SInv, ReadInv, EngInv, packVars
  <2>5. ChainInv'
    <3>1. \A w, kind : Landed(w, kind)' <=> Landed(w, kind)
      BY <2>1, LandedSame DEF packVars
    <3>. QED BY <2>1, <3>1 DEF SInv, ChainInv
  <2>. QED BY <2>3, <2>4, <2>5 DEF SInv
<1>. QED BY <1>1, <1>2

\* A sale and a tax at the end.
LEMMA PairsOn ==
    ASSUME Pairs, NEW w \in Wallets, NEW a \in Nat, ixs' = ixs \o SellIxs(w, a)
    PROVE  Pairs' /\ Len(ixs') = Len(ixs) + 2
<1>. DEFINE s == SellIxs(w, a)
            n == Len(ixs)
            r == ixs \o s
<1>1. /\ s \in Seq(Made) /\ Len(s) = 2 /\ s[1].kind = "sell" /\ s[2].kind = "tax"
      /\ s[1].wallet = w /\ s[2].wallet = w
  BY DEF SellIxs, Ix, Made
<1>2. ixs \in Seq(Made) /\ n \in Nat /\ DOMAIN ixs = 1..n
  BY LenProperties DEF Pairs
<1>. HIDE DEF s
<1>3. r \in Seq(Made) /\ Len(r) = n + 2 /\ \A i \in 1..n+2 : r[i] = IF i <= n THEN ixs[i] ELSE s[i - n]
  <2>1. ixs \in Seq(Made) /\ s \in Seq(Made)
    BY <1>1, <1>2
  <2>2. /\ ixs \o s \in Seq(Made) /\ Len(ixs \o s) = Len(ixs) + Len(s)
        /\ \A i \in 1..Len(ixs)+Len(s) :
               (ixs \o s)[i] = IF i <= Len(ixs) THEN ixs[i] ELSE s[i - Len(ixs)]
    BY <2>1, ConcatProperties
  <2>. HIDE DEF r
  <2>3. Len(ixs) + Len(s) = n + 2
    BY <1>1
  <2>. QED BY <2>2, <2>3 DEF r, n
<1>4. DOMAIN r = 1..n+2
  BY <1>2, <1>3, LenProperties
<1>. HIDE DEF r, n
<1>5. r[n + 1] = s[1] /\ r[n + 2] = s[2]
  <2>1. n + 1 \in 1..n+2 /\ n + 2 \in 1..n+2 /\ ~(n + 1 <= n) /\ ~(n + 2 <= n)
        /\ (n + 1) - n = 1 /\ (n + 2) - n = 2
    BY <1>2
  <2>. QED BY <1>3, <2>1
<1>6. \A i \in 1..n : r[i] = ixs[i]
  BY <1>2, <1>3
<1>7. ASSUME NEW i \in 1..n+2
      PROVE  /\ r[i].kind = "sell" => i + 1 \in 1..n+2 /\ r[i + 1].kind = "tax" /\ r[i + 1].wallet = r[i].wallet
             /\ r[i].kind = "tax" => i - 1 \in 1..n+2 /\ r[i - 1].kind = "sell" /\ r[i - 1].wallet = r[i].wallet
  <2>1. CASE i \in 1..n
    <3>1. /\ ixs[i].kind = "sell" => i + 1 \in 1..n /\ ixs[i + 1].kind = "tax" /\ ixs[i + 1].wallet = ixs[i].wallet
          /\ ixs[i].kind = "tax" => i - 1 \in 1..n /\ ixs[i - 1].kind = "sell" /\ ixs[i - 1].wallet = ixs[i].wallet
      BY <1>2, <2>1 DEF Pairs
    <3>2. 1..n \subseteq 1..n+2
      BY <1>2
    <3>. QED BY <1>6, <2>1, <3>1, <3>2
  <2>2. CASE i = n + 1
    <3>1. i + 1 = n + 2 /\ n + 2 \in 1..n+2
      BY <1>2, <2>2
    <3>. QED BY <1>1, <1>5, <2>2, <3>1
  <2>3. CASE i = n + 2
    <3>1. i - 1 = n + 1 /\ n + 1 \in 1..n+2
      BY <1>2, <2>3
    <3>. QED BY <1>1, <1>5, <2>3, <3>1
  <2>. QED BY <1>2, <2>1, <2>2, <2>3
<1>8. ixs' = r
  BY DEF r, s
<1>. QED BY <1>3, <1>4, <1>7, <1>8 DEF Pairs, n

\* With nothing packed yet, an instruction more is one of those to come.
LEMMA FreshNext ==
    ASSUME Pairs', Fresh'
    PROVE  Loop(0)'
<1>1. Len(ixs') \in Nat
  BY LenProperties DEF Pairs
<1>2. cur' = <<>> /\ txs' = <<>> /\ next' = 1 /\ looping' = "loop" /\ tips' = 0
  BY DEF Fresh
<1>. DEFINE e == <<>>
            E == Elem'
<1>3. Ats(e) = {} /\ Once(e) /\ e \in Seq(E) /\ e \in Seq(Seq(E)) /\ DOMAIN e = {}
  BY DEF Ats, Once
<1>4. Packing!Size(e) < Cap /\ Packing!Size(e) <= Cap
  <2>1. Packing!Size(e) = FeeSize
    BY SizeOne
  <2>. QED BY <2>1, Constants
<1>5. Good(E, e, 0)
  <2>1. Placed(e, 0)
    BY PlacedNone
  <2>. QED BY <1>3, <2>1 DEF Good
<1>6. Pushable(E, e, 0, e, 1 - 1)
  <2>1. Ats(e) \ {0} = 0+1..1-1
    BY <1>3
  <2>. QED BY <1>3, <1>4, <2>1 DEF Pushable, FitAt, PaidLast
<1>7. Cardinality(Tipped(e)) = 0 /\ Lone(e) = {}
  BY <1>3, TippedNone DEF Lone
<1>. HIDE DEF e
<1>8. cur' = e /\ txs' = e
  BY <1>2 DEF e
<1>9. e = <<>>
  BY DEF e
<1>. QED BY <1>1, <1>2, <1>3, <1>4, <1>5, <1>6, <1>7, <1>8, <1>9 DEF Loop

LEMMA BuildSInv == ASSUME SInv, Build PROVE SInv'
<1>1. /\ pc = "build" /\ k <= Len(Keys) /\ k' = k + 1
      /\ UNCHANGED <<pc, weight, total, packVars, fates, verdicts, swept, answer, tokens, rich, sold, taxed, shared>>
  BY DEF Build, engineVars, chainVars
<1>2. /\ k \in 1..Len(Keys)+1 /\ Len(Keys) \in Nat /\ Keys[k] \in Wallets
      /\ tokens[Keys[k]] \in Nat /\ Pairs /\ Fresh /\ fates = <<>> /\ Len(ixs) <= 2 * (k - 1)
      /\ MaxIxs = 2 * Len(Keys) /\ Len(ixs) \in Nat
  BY <1>1, Constants, LenProperties DEF SInv, ReadInv, ChainInv, MaxIxs, Pairs
<1>3. Pairs' /\ Len(ixs') <= Len(ixs) + 2 /\ Len(ixs') \in Nat
  <2>1. CASE UNCHANGED ixs
    BY <1>2, <2>1, PairsSame
  <2>2. CASE ~UNCHANGED ixs
    <3>1. ixs' = ixs \o SellIxs(Keys[k], tokens[Keys[k]])
      BY <2>2 DEF Build
    <3>. DEFINE w == Keys[k]
                a == tokens[w]
    <3>2. Pairs /\ w \in Wallets /\ a \in Nat /\ ixs' = ixs \o SellIxs(w, a)
      BY <1>2, <3>1
    <3>. HIDE DEF a, w
    <3>3. Pairs' /\ Len(ixs') = Len(ixs) + 2
      BY <3>2, PairsOn
    <3>. QED BY <1>2, <3>3
  <2>. QED BY <2>1, <2>2
<1>4. k' \in 1..Len(Keys)+1 /\ Len(ixs') <= 2 * (k' - 1) /\ Len(ixs') <= MaxIxs /\ MaxIxs' = MaxIxs
  BY <1>1, <1>2, <1>3 DEF MaxIxs
<1>5. Fresh'
  BY <1>1, <1>2 DEF Fresh, packVars
<1>6. PackInv'
  <2>1. Loop(0)'
    BY <1>3, <1>5, FreshNext
  <2>. QED BY <2>1 DEF PackInv
<1>7. ReadInv'
  <2>. HIDE DEF Packed, Fresh, PackInv, Pairs
  <2>. QED BY <1>1, <1>2, <1>3, <1>4, <1>5, <1>6 DEF SInv, ReadInv, EngInv, Late, Pcs
<1>8. EngInv'
  BY <1>1, <1>2 DEF SInv, EngInv
<1>9. ChainInv'
  <2>1. \A w, kind : ~Landed(w, kind) /\ ~Landed(w, kind)'
    BY <1>1, <1>2, LandedNone
  <2>. QED BY <1>1, <2>1 DEF SInv, ChainInv
<1>. QED BY <1>7, <1>8, <1>9 DEF SInv

\* The packing: each of its steps was treated above.
LEMMA PackIxsSInv == ASSUME SInv, PackIxs PROVE SInv'
<1>1. /\ pc = "build" /\ k > Len(Keys) /\ fates = <<>>
      /\ UNCHANGED <<k, weight, total, ixs, fates, verdicts, swept, answer, tokens, rich, sold, taxed, shared>>
  BY DEF PackIxs, readVars, engineVars, chainVars, SInv, ReadInv
<1>2. Pairs /\ weight \in Sizes /\ PackInv /\ Len(ixs) \in Nat
  BY LenProperties DEF SInv, ReadInv, Pairs
<1>. DEFINE ix == Packing!Ix(next, W(next))
<1>3. /\ next <= Len(ixs) => /\ Packing!Pack(ix) \/ Packing!Push(ix)
                             /\ next' = next + 1 /\ UNCHANGED <<pc, looping>>
      /\ ~(next <= Len(ixs)) => Packing!Finish /\ pc' \in {"submit", "collect"}
  BY DEF PackIxs, W
<1>4. PICK c \in Nat : Loop(c)
  <2>1. ~Packed
    BY <1>2, <1>3 DEF Packed, Packing!Finish
  <2>. QED BY <1>2, <2>1 DEF PackInv
<1>5. PackInv' /\ (pc' # "build" => Packed') /\ pc' \in {"build", "submit", "collect"}
  <2>1. CASE next <= Len(ixs)
    <3>1. UNCHANGED <<pc, looping, ixs, weight>> /\ next' = next + 1
      BY <1>1, <1>3, <2>1
    <3>2. \E d \in Nat : Loop(d)'
      <4>1. CASE Packing!Pack(ix)
        BY <1>2, <1>4, <2>1, <3>1, <4>1, PackStep
      <4>2. CASE Packing!Push(ix) /\ Packing!EndsBundle /\ Packing!Size(Append(cur, ix)) > Cap
        BY <1>2, <1>4, <2>1, <3>1, <4>2, TipStep
      <4>3. CASE Packing!Push(ix) /\ ~(Packing!EndsBundle /\ Packing!Size(Append(cur, ix)) > Cap)
        BY <1>2, <1>4, <2>1, <3>1, <4>3, PushStep
      <4>. QED BY <1>3, <2>1, <4>1, <4>2, <4>3
    <3>. HIDE DEF ix
    <3>. QED BY <1>1, <3>1, <3>2 DEF PackInv
  <2>2. CASE ~(next <= Len(ixs))
    <3>1. Packed'
      BY <1>1, <1>2, <1>3, <1>4, <2>2, FinishStep
    <3>. QED BY <1>3, <2>2, <3>1 DEF PackInv
  <2>. QED BY <2>1, <2>2
<1>6. Pairs'
  BY <1>1, <1>2, PairsSame
<1>7. ReadInv'
  <2>1. MaxIxs' = MaxIxs /\ Len(Keys) \in Nat /\ k \in Int
    BY Constants DEF MaxIxs, SInv, ReadInv
  <2>. HIDE DEF Packed, Fresh, PackInv, Pairs
  <2>. QED BY <1>1, <1>5, <1>6, <2>1 DEF SInv, ReadInv, EngInv, Late, Pcs
<1>8. EngInv'
  BY <1>1, <1>5 DEF SInv, EngInv
<1>9. ChainInv'
  <2>1. \A w, kind : ~Landed(w, kind) /\ ~Landed(w, kind)'
    BY <1>1, LandedNone
  <2>. QED BY <1>1, <1>5, <2>1 DEF SInv, ChainInv
<1>. QED BY <1>7, <1>8, <1>9 DEF SInv

\* A bundle is sent, or was answered.
LEMMA SubmitSInv == ASSUME SInv, Submit PROVE SInv'
<1>1. /\ pc = "submit" /\ Len(fates) < NumBundles /\ pc' = "await"
      /\ verdicts' = Append(verdicts, "none")
      /\ UNCHANGED <<k, readVars, packVars, swept, answer, tokens, rich, sold, taxed, shared>>
  BY DEF Submit, MoreBundles, chainVars
<1>2. PICK fate \in {"inflight", "dropped"} : fates' = Append(fates, fate)
  BY DEF Submit
<1>3. Packed /\ NumBundles \in Nat
  <2>1. Packed
    BY <1>1 DEF SInv, ReadInv, Late
  <2>. QED BY <2>1, LenProperties, Count DEF Packed, Good
<1>4. ReadInv'
  BY <1>1, <1>3, ReadKept DEF SInv, Pcs
<1>. DEFINE n == Len(fates)
<1>5. /\ n \in Nat /\ DOMAIN fates = 1..n /\ DOMAIN fates' = 1..n+1 /\ Len(fates') = n + 1
      /\ fates' \in Seq(Fates) /\ fates'[n + 1] = fate /\ \A b \in 1..n : fates'[b] = fates[b]
  <2>1. fate \in Fates /\ fates \in Seq(Fates)
    BY DEF Fates, SInv, EngInv
  <2>. QED BY <1>2, <2>1, AppendIs
<1>6. /\ Len(verdicts) = n /\ DOMAIN verdicts = 1..n /\ DOMAIN verdicts' = 1..n+1 /\ Len(verdicts') = n + 1
      /\ verdicts' \in Seq(Verdicts) /\ verdicts'[n + 1] = "none" /\ \A b \in 1..n : verdicts'[b] = verdicts[b]
  <2>1. "none" \in Verdicts /\ verdicts \in Seq(Verdicts) /\ Len(verdicts) = n
    BY DEF Verdicts, SInv, EngInv
  <2>. QED BY <1>1, <2>1, AppendIs
<1>. HIDE DEF n
<1>7. \A b \in 1..n+1 : b \in 1..n \/ b = n + 1
  BY <1>5
<1>8. UNCHANGED <<ixs, txs>>
  BY <1>1 DEF readVars, packVars
<1>9. EngInv'
  <2>1. NumBundles' = NumBundles /\ n + 1 <= NumBundles
    BY <1>1, <1>3, <1>5, <1>8, HoldsSame DEF n
  <2>2. \A b \in DOMAIN verdicts' :
            /\ verdicts'[b] = "none" => b = Len(verdicts') /\ pc' \in {"await", "done"}
            /\ verdicts'[b] = "ok" => fates'[b] = "landed"
    <3>. SUFFICES ASSUME NEW b \in 1..n+1
                  PROVE  /\ verdicts'[b] = "none" => b = n + 1
                         /\ verdicts'[b] = "ok" => fates'[b] = "landed"
      BY <1>1, <1>6
    <3>1. CASE b \in 1..n
      BY <1>1, <1>5, <1>6, <3>1 DEF SInv, EngInv
    <3>2. CASE b = n + 1
      BY <1>6, <3>2
    <3>. QED BY <1>7, <3>1, <3>2
  <2>3. fates' # <<>> /\ UNCHANGED answer
    BY <1>1, <1>2
  <2>4. answer = "none"
    BY <1>1 DEF SInv, EngInv
  <2>. QED BY <1>1, <1>5, <1>6, <2>1, <2>2, <2>3, <2>4 DEF EngInv
<1>10. ChainInv'
  <2>1. \A w, kind : Landed(w, kind)' <=> Landed(w, kind)
    <3>. TAKE w, kind
    <3>1. \A b : Holds(b, w, kind)' <=> Holds(b, w, kind)
      BY <1>8, HoldsSame
    <3>2. fate # "landed"
      OBVIOUS
    <3>. HIDE DEF Holds
    <3>. QED BY <1>5, <1>7, <3>1, <3>2 DEF Landed
  <2>. QED BY <1>1, <2>1 DEF SInv, ChainInv
<1>. QED BY <1>4, <1>9, <1>10 DEF SInv

LEMMA AwaitSInv == ASSUME SInv, Await PROVE SInv'
<1>1. /\ pc = "await" /\ pc' = "submit" /\ fates # <<>>
      /\ UNCHANGED <<k, readVars, packVars, fates, swept, answer, tokens, rich, sold, taxed, shared>>
  BY DEF Await, Awaited, chainVars, SInv, EngInv
<1>. DEFINE n == Len(verdicts)
<1>2. PICK verdict \in {"ok", "err"} :
          verdicts' = [verdicts EXCEPT ![n] = verdict] /\ (verdict = "ok" => fates[n] = "landed")
  BY DEF Await, Awaited, Engine!OkEarned, Engine!HasClient, SInv, EngInv
<1>3. Packed
  BY <1>1 DEF SInv, ReadInv, Late
<1>4. ReadInv'
  BY <1>1, <1>3, ReadKept DEF SInv, Pcs
<1>5. /\ verdicts \in Seq(Verdicts) /\ n \in Nat /\ DOMAIN verdicts = 1..n /\ Len(fates) = n
      /\ n # 0 /\ verdict \in Verdicts
  BY <1>1, LenProperties, EmptySeq DEF SInv, EngInv, Verdicts
<1>6. verdicts' \in Seq(Verdicts) /\ Len(verdicts') = n /\ DOMAIN verdicts' = 1..n
      /\ \A b \in 1..n : verdicts'[b] = IF b = n THEN verdict ELSE verdicts[b]
  <2>1. n \in 1..Len(verdicts)
    BY <1>5
  <2>2. verdicts' \in Seq(Verdicts) /\ Len(verdicts') = n
        /\ \A b \in 1..n : verdicts'[b] = IF b = n THEN verdict ELSE verdicts[b]
    BY <1>2, <1>5, <2>1, ExceptSeq
  <2>. QED BY <2>2, LenProperties
<1>. HIDE DEF n
<1>7. UNCHANGED <<ixs, txs>>
  BY <1>1 DEF readVars, packVars
<1>8. EngInv'
  <2>1. \A b \in 1..n :
            /\ verdicts'[b] # "none"
            /\ verdicts'[b] = "ok" => fates'[b] = "landed"
    <3>. TAKE b \in 1..n
    <3>1. verdicts[b] = "none" => b = n
      BY <1>5 DEF SInv, EngInv, n
    <3>2. verdicts[b] = "ok" => fates[b] = "landed"
      BY <1>5 DEF SInv, EngInv
    <3>. QED BY <1>1, <1>2, <1>6, <3>1, <3>2
  <2>2. NumBundles' = NumBundles
    BY <1>7, HoldsSame
  <2>3. answer = "none" /\ UNCHANGED <<answer, fates>>
    BY <1>1 DEF SInv, EngInv
  <2>4. fates \in Seq(Fates) /\ Len(fates) <= NumBundles
    BY <1>1 DEF SInv, EngInv
  <2>. QED BY <1>1, <1>5, <1>6, <2>1, <2>2, <2>3, <2>4 DEF EngInv
<1>9. ChainInv'
  <2>1. \A w, kind : Landed(w, kind)' <=> Landed(w, kind)
    BY <1>1, <1>7, LandedSame
  <2>. QED BY <1>1, <2>1 DEF SInv, ChainInv
<1>. QED BY <1>4, <1>8, <1>9 DEF SInv

\* The end of the request: the bundles and what they did stay as they are.
LEMMA EngKept ==
    ASSUME EngInv, UNCHANGED <<fates, verdicts, ixs, txs>>, pc # "done",
           pc' \in Pcs, pc' # "await", answer' \in {"none", "true", "false", "gone"},
           pc' = "done" <=> answer' # "none",
           pc = "await" => pc' = "done",
           pc' \in {"collect", "pay"} \/ answer' = "true" => fates = <<>> \/ Len(fates) = NumBundles
    PROVE  EngInv'
<1>1. NumBundles' = NumBundles
  BY HoldsSame
<1>2. \A b \in DOMAIN verdicts : verdicts[b] = "none" => b = Len(verdicts) /\ pc' = "done"
  BY DEF EngInv
<1>. HIDE DEF NumBundles
<1>. QED BY <1>1, <1>2 DEF EngInv

LEMMA EndSInv ==
    ASSUME SInv, SubmitEnds \/ Collect \/ CollectFails \/ Stop
    PROVE  SInv'
<1>1. /\ UNCHANGED <<k, readVars, packVars, fates, verdicts, tokens, rich, sold, taxed, shared>>
      /\ swept' \subseteq Wallets
      /\ pc # "done" /\ pc' \in {"collect", "pay", "done"}
  BY DEF SubmitEnds, Collect, CollectFails, Stop, Return, engineVars, chainVars, SInv, ChainInv
<1>2. UNCHANGED <<ixs, txs>>
  BY <1>1 DEF readVars, packVars
<1>3. ReadInv'
  <2>1. Late' => Packed
    BY <1>1 DEF SubmitEnds, Collect, CollectFails, Stop, Return, Late, SInv, ReadInv
  <2>. QED BY <1>1, <2>1, ReadKept DEF SInv, Pcs
<1>4. EngInv'
  <2>1. pc = "submit" => Packed /\ (fates = <<>> => Len(fates) = 0) /\ NumBundles \in Nat /\ Len(fates) \in Nat
    <3>. SUFFICES ASSUME pc = "submit" PROVE Packed /\ NumBundles \in Nat /\ Len(fates) \in Nat
      OBVIOUS
    <3>1. Packed
      BY DEF SInv, ReadInv, Late
    <3>. QED BY <3>1, Count, LenProperties DEF Packed, Good, SInv, EngInv
  <2>2. pc' \in {"collect", "pay"} \/ answer' = "true" => fates = <<>> \/ Len(fates) = NumBundles
    <3>. HIDE DEF NumBundles
    <3>1. CASE SubmitEnds
      BY <2>1, <3>1 DEF SubmitEnds, MoreBundles, SInv, EngInv
    <3>2. CASE Collect \/ CollectFails \/ Stop
      BY <3>2 DEF Collect, CollectFails, Stop, Return, SInv, EngInv
    <3>. QED BY <3>1, <3>2
  <2>3. answer' \in {"none", "true", "false", "gone"} /\ (pc' = "done" <=> answer' # "none")
        /\ (pc = "await" => pc' = "done")
    BY DEF SubmitEnds, Collect, CollectFails, Stop, Return, SInv, EngInv
  <2>. QED BY <1>1, <1>2, <2>2, <2>3, EngKept DEF SInv, Pcs
<1>5. ChainInv'
  <2>1. \A w, kind : Landed(w, kind)' <=> Landed(w, kind)
    BY <1>1, <1>2, LandedSame
  <2>2. pc' \notin {"pay", "done"} => pc \notin {"pay", "done"}
    BY <1>1 DEF SubmitEnds, Collect, CollectFails, Stop, Return
  <2>. QED BY <1>1, <2>1, <2>2 DEF SInv, ChainInv
<1>. QED BY <1>3, <1>4, <1>5 DEF SInv

\* The collection's bundle, and other requests.
LEMMA OthersSInv ==
    ASSUME SInv, CollectLands \/ \E w \in Wallets : OtherSale(w)
    PROVE  SInv'
<1>1. /\ UNCHANGED <<k, readVars, packVars, fates, verdicts, sold, taxed>>
      /\ swept' \subseteq Wallets /\ shared' \subseteq Wallets /\ rich' \subseteq Wallets
      /\ tokens' \in [Wallets -> Nat]
  BY DEF CollectLands, OtherSale, engineVars, SInv, ChainInv
<1>2. \/ pc = "pay" /\ pc' = "done" /\ answer' \in {"true", "false"}
      \/ pc = "done" /\ UNCHANGED <<pc, answer>>
      \/ UNCHANGED <<pc, answer>> /\ rich \subseteq rich'
  BY DEF CollectLands, OtherSale, Return
<1>3. UNCHANGED <<ixs, txs>>
  BY <1>1 DEF readVars, packVars
<1>4. ReadInv'
  <2>1. Late' => Packed
    BY <1>1, <1>2 DEF Late, SInv, ReadInv
  <2>2. pc' \in Pcs
    BY <1>2 DEF Pcs, SInv, ReadInv
  <2>. QED BY <1>1, <1>2, <2>1, <2>2, ReadKept DEF SInv
<1>5. EngInv'
  <2>1. NumBundles' = NumBundles
    BY <1>3, HoldsSame
  <2>. HIDE DEF NumBundles
  <2>. QED BY <1>1, <1>2, <2>1 DEF SInv, EngInv
<1>6. ChainInv'
  <2>1. \A w, kind : Landed(w, kind)' <=> Landed(w, kind)
    BY <1>1, <1>3, LandedSame
  <2>. QED BY <1>1, <1>2, <2>1 DEF SInv, ChainInv
<1>. QED BY <1>4, <1>5, <1>6 DEF SInv

\* A bundle is decided.
LEMMA DecidedEng ==
    ASSUME SInv, NEW b \in DOMAIN fates, fates[b] = "inflight", NEW fate \in Fates,
           fates' = [fates EXCEPT ![b] = fate],
           UNCHANGED <<pc, k, readVars, packVars, verdicts, answer>>
    PROVE  /\ ReadInv' /\ EngInv' /\ UNCHANGED <<ixs, txs>>
           /\ DOMAIN fates' = DOMAIN fates
           /\ \A a \in DOMAIN fates : fates'[a] = IF a = b THEN fate ELSE fates[a]
<1>1. /\ fates \in Seq(Fates) /\ Len(fates) \in Nat /\ DOMAIN fates = 1..Len(fates)
      /\ Len(fates) = Len(verdicts) /\ DOMAIN verdicts = 1..Len(verdicts)
  BY LenProperties DEF SInv, EngInv
<1>2. /\ fates' \in Seq(Fates) /\ Len(fates') = Len(fates)
      /\ \A a \in 1..Len(fates) : fates'[a] = IF a = b THEN fate ELSE fates[a]
  BY <1>1, ExceptSeq
<1>3. DOMAIN fates' = DOMAIN fates /\ fates # <<>>
  BY <1>1, <1>2, LenProperties
<1>4. UNCHANGED <<ixs, txs>>
  BY DEF readVars, packVars
<1>5. ReadInv'
  <2>1. Packed /\ pc \in Pcs /\ pc \notin {"survey", "build"}
    BY <1>3 DEF SInv, ReadInv, Late
  <2>. QED BY <2>1, ReadKept DEF SInv
<1>6. EngInv'
  <2>1. NumBundles' = NumBundles
    BY <1>4, HoldsSame
  <2>2. fates' # <<>>
    BY <1>1, <1>2, <1>3, EmptySeq
  <2>3. \A a \in DOMAIN verdicts : verdicts[a] = "ok" => fates'[a] = "landed"
    <3>. SUFFICES ASSUME NEW a \in DOMAIN verdicts, verdicts[a] = "ok" PROVE fates'[a] = "landed"
      OBVIOUS
    <3>1. fates[a] = "landed"
      BY DEF SInv, EngInv
    <3>. QED BY <1>1, <1>2, <3>1
  <2>. HIDE DEF NumBundles
  <2>. QED BY <1>1, <1>2, <1>3, <2>1, <2>2, <2>3 DEF SInv, EngInv
<1>. QED BY <1>1, <1>2, <1>3, <1>4, <1>5, <1>6

LEMMA LandSInv ==
    ASSUME SInv, NEW b \in DOMAIN fates, LandBundle(b)
    PROVE  SInv'
<1>1. /\ fates[b] = "inflight" /\ After(b).ok /\ fates' = [fates EXCEPT ![b] = "landed"]
      /\ tokens' = After(b).tokens /\ rich' = After(b).rich
      /\ sold' = After(b).sold /\ taxed' = After(b).taxed
      /\ UNCHANGED <<pc, k, readVars, packVars, verdicts, swept, answer, shared>>
  BY DEF LandBundle
<1>2. /\ ReadInv' /\ EngInv' /\ UNCHANGED <<ixs, txs>>
      /\ DOMAIN fates' = DOMAIN fates
      /\ \A a \in DOMAIN fates : fates'[a] = IF a = b THEN "landed" ELSE fates[a]
  <2>1. "landed" \in Fates
    BY DEF Fates
  <2>. QED BY <1>1, <2>1, DecidedEng
<1>3. b \in 1..NumBundles /\ Pairs /\ weight \in Sizes /\ txs \in Seq(Seq(Elem))
  <2>1. fates # <<>> /\ DOMAIN fates = 1..Len(fates) /\ Len(fates) \in Nat
    BY LenProperties DEF SInv, EngInv
  <2>2. Packed /\ Pairs /\ weight \in Sizes /\ Len(fates) <= NumBundles
    BY <2>1 DEF SInv, ReadInv, EngInv, Late
  <2>3. txs \in Seq(Seq(Elem)) /\ NumBundles \in Nat
    BY <2>2, Count, LenProperties DEF Packed, Good
  <2>. QED BY <2>1, <2>2, <2>3
<1>. DEFINE s == After(b)
            H(w, kind) == Holds(b, w, kind)
<1>4. /\ s \in State /\ s.tokens \in [Wallets -> Nat] /\ rich \subseteq s.rich
      /\ \A w \in Wallets : /\ w \in s.sold <=> w \in sold \/ H(w, "sell")
                            /\ w \in s.taxed <=> w \in taxed \/ H(w, "tax")
                            /\ H(w, "sell") => w \in s.rich
  BY <1>1, <1>3, Landing DEF SInv, ChainInv
<1>5. \A w, kind : Landed(w, kind)' <=> Landed(w, kind) \/ H(w, kind)
  <2>. TAKE w, kind
  <2>1. \A a : Holds(a, w, kind)' <=> Holds(a, w, kind)
    BY <1>2, HoldsSame
  <2>2. Landed(w, kind)' <=> \E a \in DOMAIN fates : fates'[a] = "landed" /\ Holds(a, w, kind)
    BY <1>2, <2>1 DEF Landed
  <2>. HIDE DEF Holds
  <2>. QED BY <1>1, <1>2, <2>2 DEF Landed
<1>6. s.rich \subseteq Wallets /\ s.sold \subseteq Wallets /\ s.taxed \subseteq Wallets
  BY <1>4 DEF State
<1>. HIDE DEF s, H
<1>7. tokens' = s.tokens /\ rich' = s.rich /\ sold' = s.sold /\ taxed' = s.taxed
  BY <1>1 DEF s
<1>8. ChainInv'
  <2>1. \A w \in Wallets : (w \in sold' <=> Landed(w, "sell")') /\ (w \in taxed' <=> Landed(w, "tax")')
    BY <1>4, <1>5, <1>7 DEF SInv, ChainInv
  <2>2. pc \notin {"pay", "done"} => s.sold \subseteq s.rich
    BY <1>4, <1>6 DEF SInv, ChainInv
  <2>3. swept \cup shared \subseteq Wallets
    BY DEF SInv, ChainInv
  <2>. QED BY <1>1, <1>4, <1>6, <1>7, <2>1, <2>2, <2>3 DEF ChainInv
<1>. QED BY <1>2, <1>8 DEF SInv

LEMMA DropSInv ==
    ASSUME SInv, NEW b \in DOMAIN fates, DropBundle(b)
    PROVE  SInv'
<1>1. /\ fates[b] = "inflight" /\ fates' = [fates EXCEPT ![b] = "dropped"]
      /\ UNCHANGED <<pc, k, readVars, packVars, verdicts, swept, answer, tokens, rich, sold, taxed, shared>>
  BY DEF DropBundle, chainVars
<1>2. /\ ReadInv' /\ EngInv' /\ UNCHANGED <<ixs, txs>>
      /\ DOMAIN fates' = DOMAIN fates
      /\ \A a \in DOMAIN fates : fates'[a] = IF a = b THEN "dropped" ELSE fates[a]
  <2>1. "dropped" \in Fates
    BY DEF Fates
  <2>. QED BY <1>1, <2>1, DecidedEng
<1>3. \A w, kind : Landed(w, kind)' <=> Landed(w, kind)
  <2>. TAKE w, kind
  <2>1. \A a : Holds(a, w, kind)' <=> Holds(a, w, kind)
    BY <1>2, HoldsSame
  <2>2. Landed(w, kind)' <=> \E a \in DOMAIN fates : fates'[a] = "landed" /\ Holds(a, w, kind)
    BY <1>2, <2>1 DEF Landed
  <2>. HIDE DEF Holds
  <2>. QED BY <1>1, <1>2, <2>2 DEF Landed
<1>4. ChainInv'
  BY <1>1, <1>3 DEF SInv, ChainInv
<1>. QED BY <1>2, <1>4 DEF SInv

LEMMA StutterSInv == ASSUME SInv, UNCHANGED vars PROVE SInv'
<1>1. UNCHANGED <<k, readVars, packVars, fates, verdicts, swept, answer, pc, tokens, rich, sold, taxed, shared>>
  BY DEF vars, engineVars, chainVars
<1>2. UNCHANGED <<ixs, txs>>
  BY <1>1 DEF readVars, packVars
<1>3. ReadInv'
  BY <1>1, ReadKept DEF SInv, ReadInv, Late
<1>4. EngInv'
  <2>1. NumBundles' = NumBundles
    BY <1>2, HoldsSame
  <2>. HIDE DEF NumBundles
  <2>. QED BY <1>1, <2>1 DEF SInv, EngInv
<1>5. ChainInv'
  <2>1. \A w, kind : Landed(w, kind)' <=> Landed(w, kind)
    BY <1>1, <1>2, LandedSame
  <2>. QED BY <1>1, <2>1 DEF SInv, ChainInv
<1>. QED BY <1>3, <1>4, <1>5 DEF SInv

\* Every step of a sale, of the chain and of other requests keeps the invariant.
THEOREM SaleInvariant == Spec => []SInv
<1>1. SInv /\ [Next]_vars => SInv'
  <2>1. ASSUME SInv, Next PROVE SInv'
    <3>1. CASE Code
      BY <2>1, <3>1, SurveySInv, BuildSInv, PackIxsSInv, SubmitSInv, AwaitSInv, EndSInv DEF Code
    <3>2. CASE Chain
      BY <2>1, <3>2, OthersSInv, LandSInv, DropSInv DEF Chain
    <3>3. CASE Stop
      BY <2>1, <3>3, EndSInv
    <3>. QED BY <2>1, <3>1, <3>2, <3>3 DEF Next
  <2>. QED BY <2>1, StutterSInv
<1>. QED BY <1>1, InitSInv, PTL DEF Spec

-----------------------------------------------------------------------------
(* What a sale promises. *)

\* Whatever the wallets, their balances and the sizes, only the three things
\* that SellPacking names can keep a bundle of a sale from being taken for how
\* it is packed: no tip where a transaction came to exactly the limit, a tip
\* too heavy for its transaction, or the signed tip that the last two bundles
\* share.  No instruction is lost or packed twice, and no other transaction is
\* in two bundles (helpers.rs:137-222).
THEOREM SaleBundlesTaken == Spec => []BundlesTaken
<1>1. SInv => BundlesTaken
  BY LostNone, FitAlways, TippedAlways, TwiceNever DEF SInv, ReadInv, BundlesTaken
<1>. QED BY <1>1, SaleInvariant, PTL

\* Every variable of a sale keeps to its set of values; there are never more
\* bundles than the transactions make, and only the last waits for its answer.
THEOREM SaleTypeCorrect == Spec => []TypeOK
<1>1. SInv => TypeOK
  <2>. SUFFICES ASSUME SInv PROVE TypeOK
    OBVIOUS
  <2>1. Packing!TypeOK
    BY PackTyped DEF SInv, ReadInv
  <2>2. Len(fates) <= NumBundles
    <3>1. CASE fates = <<>>
      <4>1. txs \in Seq(Seq(Elem))
        BY DEF SInv, ReadInv, PackInv, Packed, Loop, Good
      <4>2. NumBundles \in Nat
        BY <4>1, LenProperties, Count
      <4>. QED BY <3>1, <4>2
    <3>2. CASE fates # <<>>
      BY <3>2 DEF SInv, EngInv
    <3>. QED BY <3>1, <3>2
  <2>3. ixs \in Seq([wallet : Wallets, kind : {"sell", "tax"}, amount : Nat])
    BY DEF SInv, ReadInv, Pairs, Made
  <2>. HIDE DEF NumBundles
  <2>. QED BY <2>1, <2>2, <2>3 DEF SInv, ReadInv, EngInv, ChainInv, TypeOK, Fates, Verdicts, Pcs
<1>. QED BY <1>1, SaleInvariant, PTL

\* The collection reads the balances when no bundle can land any more but those
\* that were given up, and the proceeds of all that were answered with Ok are
\* in the wallets.
THEOREM SaleStrandsNothing == Spec => []NothingStranded
<1>1. SInv => NothingStranded
  <2>. SUFFICES ASSUME SInv, pc = "collect" PROVE NothingStranded
    BY DEF NothingStranded
  <2>1. /\ verdicts \in Seq(Verdicts) /\ Len(fates) = Len(verdicts)
        /\ DOMAIN fates = 1..Len(fates) /\ DOMAIN verdicts = 1..Len(verdicts)
    BY LenProperties DEF SInv, EngInv
  <2>2. \A b \in DOMAIN fates : /\ verdicts[b] \in {"ok", "err"}
                                /\ verdicts[b] = "ok" => fates[b] = "landed"
    <3>. TAKE b \in DOMAIN fates
    <3>1. verdicts[b] \in Verdicts /\ verdicts[b] # "none" /\ (verdicts[b] = "ok" => fates[b] = "landed")
      BY <2>1 DEF SInv, EngInv
    <3>. QED BY <3>1 DEF Verdicts
  <2>3. ASSUME NEW w \in Wallets, NEW b \in BundlesOf(w, "sell"), verdicts[b] = "ok"
        PROVE  w \in sold \cap rich
    <3>1. b \in DOMAIN fates /\ Holds(b, w, "sell")
      BY BundlesHold
    <3>2. Landed(w, "sell")
      BY <2>2, <2>3, <3>1 DEF Landed
    <3>. QED BY <3>2 DEF SInv, ChainInv
  <2>4. \A b \in DOMAIN fates : fates[b] = "inflight" => verdicts[b] = "err"
    BY <2>2
  <2>. HIDE DEF BundlesOf
  <2>. QED BY <2>3, <2>4 DEF NothingStranded
<1>. QED BY <1>1, SaleInvariant, PTL

\* When every bundle was answered with Ok and the sale with true, each wallet
\* that instructions were built for has sold and paid its tax: no instruction
\* was left out of the bundles, and each bundle landed.
THEOREM SaleAllOkMeansSold == Spec => []AllOkMeansSold
<1>1. SInv => AllOkMeansSold
  <2>. SUFFICES ASSUME SInv, answer = "true", fates # <<>>,
                       \A b \in DOMAIN verdicts : verdicts[b] = "ok",
                       NEW i \in DOMAIN ixs
                PROVE  ixs[i].wallet \in sold \cap taxed
    BY DEF AllOkMeansSold
  <2>1. /\ Packed /\ Pairs /\ weight \in Sizes
        /\ DOMAIN fates = 1..NumBundles /\ \A b \in DOMAIN fates : fates[b] = "landed"
    <3>1. Len(fates) = Len(verdicts) /\ Len(fates) = NumBundles
          /\ DOMAIN fates = 1..Len(fates) /\ DOMAIN verdicts = 1..Len(verdicts)
      BY LenProperties DEF SInv, EngInv
    <3>2. \A b \in DOMAIN fates : fates[b] = "landed"
      BY <3>1 DEF SInv, EngInv
    <3>. QED BY <3>1, <3>2 DEF SInv, ReadInv, Late
  <2>2. ASSUME NEW j \in DOMAIN ixs PROVE Landed(ixs[j].wallet, ixs[j].kind)
    <3>1. PICK b \in 1..NumBundles : Holds(b, ixs[j].wallet, ixs[j].kind)
      BY <2>1, Somewhere
    <3>. QED BY <2>1, <3>1 DEF Landed
  <2>. DEFINE w == ixs[i].wallet
  <2>3. w \in Wallets /\ ixs[i].kind \in {"sell", "tax"}
    <3>1. ixs[i] \in Made
      BY <2>1, LenProperties DEF Pairs
    <3>. QED BY <3>1 DEF Made
  <2>4. Landed(w, "sell") /\ Landed(w, "tax")
    <3>1. CASE ixs[i].kind = "sell"
      <4>1. i + 1 \in DOMAIN ixs /\ ixs[i + 1].kind = "tax" /\ ixs[i + 1].wallet = w
        BY <2>1, <3>1 DEF Pairs
      <4>2. Landed(ixs[i + 1].wallet, ixs[i + 1].kind)
        BY <2>2, <4>1
      <4>. QED BY <2>2, <3>1, <4>1, <4>2
    <3>2. CASE ixs[i].kind = "tax"
      <4>1. i - 1 \in DOMAIN ixs /\ ixs[i - 1].kind = "sell" /\ ixs[i - 1].wallet = w
        BY <2>1, <3>2 DEF Pairs
      <4>2. Landed(ixs[i - 1].wallet, ixs[i - 1].kind)
        BY <2>2, <4>1
      <4>. QED BY <2>2, <3>2, <4>1, <4>2
    <3>. QED BY <2>3, <3>1, <3>2
  <2>. HIDE DEF w
  <2>5. w \in sold /\ w \in taxed
    BY <2>3, <2>4 DEF SInv, ChainInv
  <2>. QED BY <2>5 DEF w
<1>. QED BY <1>1, SaleInvariant, PTL

\* A wallet pays the tax if and only if it sells, unless its sale and its tax
\* are in different bundles.
THEOREM SaleWithItsTax == Spec => []SaleAndTaxTogether
<1>1. SInv => SaleAndTaxTogether
  <2>. SUFFICES ASSUME SInv, NEW w \in Wallets, (w \in sold) # (w \in taxed)
                PROVE  BundlesOf(w, "sell") # {} /\ BundlesOf(w, "sell") # BundlesOf(w, "tax")
    BY DEF SaleAndTaxTogether
  <2>1. (w \in sold <=> Landed(w, "sell")) /\ (w \in taxed <=> Landed(w, "tax"))
    BY DEF SInv, ChainInv
  <2>2. PICK b \in DOMAIN fates, kind \in {"sell", "tax"} :
            /\ fates[b] = "landed" /\ Holds(b, w, kind)
            /\ \A other \in {"sell", "tax"} : other # kind => ~Landed(w, other)
    <3>1. CASE w \in sold
      <4>1. Landed(w, "sell") /\ ~Landed(w, "tax")
        BY <2>1, <3>1
      <4>. QED BY <4>1 DEF Landed
    <3>2. CASE w \notin sold
      <4>1. Landed(w, "tax") /\ ~Landed(w, "sell")
        BY <2>1, <3>2
      <4>. QED BY <4>1 DEF Landed
    <3>. QED BY <3>1, <3>2
  <2>3. /\ Packed /\ Pairs /\ weight \in Sizes /\ NumBundles \in Nat
        /\ DOMAIN fates = 1..Len(fates) /\ Len(fates) \in Nat /\ Len(fates) <= NumBundles
    <3>1. fates # <<>> /\ DOMAIN fates = 1..Len(fates) /\ Len(fates) \in Nat
      BY LenProperties DEF SInv, EngInv
    <3>2. Packed /\ Pairs /\ weight \in Sizes /\ Len(fates) <= NumBundles
      BY <3>1 DEF SInv, ReadInv, EngInv, Late
    <3>3. NumBundles \in Nat
      BY <3>2, Count, LenProperties DEF Packed, Good
    <3>. QED BY <3>1, <3>2, <3>3
  <2>4. b \in BundlesOf(w, kind)
    BY <2>2, BundlesHold
  <2>5. \A other \in {"sell", "tax"} : other # kind => b \notin BundlesOf(w, other)
    <3>. SUFFICES ASSUME NEW other \in {"sell", "tax"}, other # kind, Holds(b, w, other) PROVE FALSE
      BY BundlesHold
    <3>1. Landed(w, other)
      BY <2>2 DEF Landed
    <3>. QED BY <2>2, <3>1
  <2>. HIDE DEF NumBundles, BundlesOf
  <2>6. BundlesOf(w, "sell") # {}
    <3>1. CASE kind = "sell"
      BY <2>4, <3>1
    <3>2. CASE kind = "tax"
      <4>1. b \in 1..NumBundles
        BY <2>3
      <4>2. PICK a \in 1..NumBundles : a <= b /\ Holds(a, w, "sell")
        BY <2>2, <2>3, <3>2, <4>1, SaleFirst
      <4>3. a \in DOMAIN fates
        BY <2>3, <4>2
      <4>. QED BY <4>2, <4>3, BundlesHold
    <3>. QED BY <3>1, <3>2
  <2>. QED BY <2>4, <2>5, <2>6
<1>. QED BY <1>1, SaleInvariant, PTL

=============================================================================
