---------------------------- MODULE SumTheorems ----------------------------
(***************************************************************************)
(* The laws of SumFunctionOnSet and SumFunction of the community modules,  *)
(* for integer values on finite sets.  The library folds a set by a        *)
(* recursive function chosen by CHOOSE: first it is shown to exist, by     *)
(* induction on the size of the set (a smallest counterexample, from the   *)
(* well-foundedness of < on Nat), then what it adds up to.                 *)
(***************************************************************************)
EXTENDS Integers, FiniteSets, Functions, FiniteSetTheorems, WellFoundedInduction, TLAPS

\* Induction over the natural numbers, for a set instead of a predicate.
LEMMA NatSteps ==
    ASSUME NEW A, 0 \in A, \A n \in Nat : n \in A => n + 1 \in A
    PROVE  \A n \in Nat : n \in A
<1>. DEFINE T == Nat \ A
            R == OpToRel(<, Nat)
<1>1. IsWellFoundedOn(R, Nat)
  BY NatLessThanWellFounded
<1>2. \A x, y \in Nat : <<y, x>> \in R <=> y < x
  BY DEF OpToRel
<1>. HIDE DEF R
<1>3. SUFFICES ASSUME T # {} PROVE FALSE
  OBVIOUS
<1>4. PICK x \in T : \A y \in T : ~ (<<y, x>> \in R)
  BY <1>1, <1>3, WFMin
<1>5. \A y \in T : ~(y < x)
  BY <1>2, <1>4
<1>6. x # 0 /\ x - 1 \in Nat /\ x - 1 < x
  BY <1>4
<1>7. x - 1 \in A
  BY <1>5, <1>6
<1>8. x \in A
  BY <1>6, <1>7
<1>. QED BY <1>4, <1>8

\* The element the library takes out first, one turn of its recursion, and the
\* function it recurs on.
First(s) == CHOOSE x \in s : TRUE
Turn(f, g, s) == IF s = {} THEN 0 ELSE f[First(s)] + g[s \ {First(s)}]
IsSum(f, g, S) == g = [s \in SUBSET S |-> Turn(f, g, s)]

\* The definition of the library's sum, unfolded.
LEMMA Unfold ==
    ASSUME NEW f, NEW S
    PROVE  SumFunctionOnSet(f, S) = (CHOOSE g : IsSum(f, g, S))[S]
  BY DEF SumFunctionOnSet, FoldFunctionOnSet, MapThenFoldSet, IsSum, Turn, First

\* A set without one of its elements is smaller by one.
LEMMA Without ==
    ASSUME NEW s, IsFiniteSet(s), NEW x \in s
    PROVE  /\ IsFiniteSet(s \ {x}) /\ Cardinality(s) \in Nat \ {0}
           /\ Cardinality(s \ {x}) = Cardinality(s) - 1
<1>1. IsFiniteSet(s \ {x}) /\ Cardinality(s \ {x}) = Cardinality(s) - 1
  BY FS_RemoveElement
<1>2. Cardinality(s) \in Nat /\ Cardinality(s \ {x}) \in Nat
  BY <1>1, FS_CardinalityType
<1>. QED BY <1>1, <1>2

\* A set that is not empty has a first element.
LEMMA FirstIn == ASSUME NEW s, s # {} PROVE First(s) \in s
  BY DEF First

\* The recursion has a solution on the subsets of a finite set.
LEMMA SumExists ==
    ASSUME NEW f, NEW S, IsFiniteSet(S)
    PROVE  \E g : IsSum(f, g, S)
<1>. DEFINE Solves(h, n) == /\ h = [s \in SUBSET S |-> h[s]]
                            /\ \A s \in SUBSET S : Cardinality(s) <= n => h[s] = Turn(f, h, s)
            A == {n \in Nat : \E h : Solves(h, n)}
<1>1. \A s \in SUBSET S : IsFiniteSet(s) /\ Cardinality(s) \in Nat /\ Cardinality(s) <= Cardinality(S)
  BY FS_Subset, FS_CardinalityType
<1>2. 0 \in A
  <2>. DEFINE h == [s \in SUBSET S |-> 0]
  <2>1. ASSUME NEW s \in SUBSET S, Cardinality(s) <= 0 PROVE h[s] = Turn(f, h, s)
    <3>1. Cardinality(s) = 0
      BY <1>1, <2>1
    <3>2. s = {}
      BY <1>1, <3>1, FS_EmptySet
    <3>. QED BY <3>2 DEF Turn
  <2>2. Solves(h, 0)
    BY <2>1
  <2>. QED BY <2>2
<1>3. ASSUME NEW n \in Nat, n \in A PROVE n + 1 \in A
  <2>1. PICK h : Solves(h, n)
    BY <1>3
  <2>. DEFINE k == [s \in SUBSET S |-> Turn(f, h, s)]
  <2>2. ASSUME NEW s \in SUBSET S, Cardinality(s) <= n + 1 PROVE k[s] = Turn(f, k, s)
    <3>1. CASE s = {}
      BY <3>1 DEF Turn
    <3>2. CASE s # {}
      <4>. DEFINE t == s \ {First(s)}
      <4>1. First(s) \in s
        BY <3>2, FirstIn
      <4>2. t \in SUBSET S /\ Cardinality(t) = Cardinality(s) - 1
        BY <1>1, <4>1, Without
      <4>3. Cardinality(t) <= n
        BY <1>1, <2>2, <4>2
      <4>4. h[t] = Turn(f, h, t)
        BY <2>1, <4>2, <4>3
      <4>5. k[t] = h[t]
        BY <4>2, <4>4
      <4>. QED BY <3>2, <4>5 DEF Turn
    <3>. QED BY <3>1, <3>2
  <2>3. k = [s \in SUBSET S |-> k[s]]
    OBVIOUS
  <2>. HIDE DEF k
  <2>4. Solves(k, n + 1)
    BY <2>2, <2>3
  <2>. HIDE DEF Solves
  <2>5. \E g : Solves(g, n + 1)
    BY <2>4, Zenon
  <2>. QED BY <2>5
<1>. HIDE DEF A
<1>4. \A n \in Nat : n \in A
  BY <1>2, <1>3, NatSteps
<1>5. Cardinality(S) \in A
  BY <1>1, <1>4
<1>6. PICK h : Solves(h, Cardinality(S))
  BY <1>5 DEF A
<1>7. IsSum(f, h, S)
  <2>1. h = [s \in SUBSET S |-> h[s]]
    BY <1>6
  <2>2. \A s \in SUBSET S : h[s] = Turn(f, h, s)
    BY <1>1, <1>6
  <2>. QED BY <2>1, <2>2 DEF IsSum
<1>. QED BY <1>7

\* A solution follows the recursion on every subset.
LEMMA SumTurn ==
    ASSUME NEW f, NEW g, NEW S, IsSum(f, g, S), NEW s, s \subseteq S
    PROVE  g[s] = Turn(f, g, s)
<1>1. g = [r \in SUBSET S |-> Turn(f, g, r)]
  BY DEF IsSum
<1>2. s \in SUBSET S
  OBVIOUS
<1>. QED BY <1>1, <1>2, Zenon

\* Two solutions, on two sets and for two functions, agree where the
\* functions do.
LEMMA SumAgree ==
    ASSUME NEW f1, NEW g1, NEW S1, IsSum(f1, g1, S1),
           NEW f2, NEW g2, NEW S2, IsSum(f2, g2, S2),
           NEW s, s \subseteq S1, s \subseteq S2, IsFiniteSet(s), \A x \in s : f1[x] = f2[x]
    PROVE  g1[s] = g2[s]
<1>. DEFINE A == {n \in Nat : \A t \in SUBSET s : Cardinality(t) <= n => g1[t] = g2[t]}
<1>1. \A t \in SUBSET s : IsFiniteSet(t) /\ Cardinality(t) \in Nat
  BY FS_Subset, FS_CardinalityType
<1>2. \A t \in SUBSET s : g1[t] = Turn(f1, g1, t) /\ g2[t] = Turn(f2, g2, t)
  <2>. TAKE t \in SUBSET s
  <2>1. t \subseteq S1 /\ t \subseteq S2
    OBVIOUS
  <2>. QED BY <2>1, SumTurn
<1>3. 0 \in A
  <2>1. ASSUME NEW t \in SUBSET s, Cardinality(t) <= 0 PROVE g1[t] = g2[t]
    <3>1. t = {}
      BY <1>1, <2>1, FS_EmptySet
    <3>. QED BY <1>2, <3>1 DEF Turn
  <2>. QED BY <2>1
<1>4. ASSUME NEW n \in Nat, n \in A PROVE n + 1 \in A
  <2>1. ASSUME NEW t \in SUBSET s, Cardinality(t) <= n + 1 PROVE g1[t] = g2[t]
    <3>1. CASE t = {}
      BY <1>2, <3>1 DEF Turn
    <3>2. CASE t # {}
      <4>. DEFINE r == t \ {First(t)}
      <4>1. First(t) \in t
        BY <3>2, FirstIn
      <4>2. r \in SUBSET s /\ Cardinality(r) = Cardinality(t) - 1
        BY <1>1, <4>1, Without
      <4>3. g1[r] = g2[r]
        BY <1>1, <1>4, <2>1, <4>2
      <4>4. f1[First(t)] = f2[First(t)]
        BY <4>1
      <4>. QED BY <1>2, <3>2, <4>3, <4>4 DEF Turn
    <3>. QED BY <3>1, <3>2
  <2>. QED BY <2>1
<1>. HIDE DEF A
<1>5. Cardinality(s) \in A
  BY <1>1, <1>3, <1>4, NatSteps
<1>. QED BY <1>1, <1>5 DEF A

\* What the library's sum is.
LEMMA SumIs ==
    ASSUME NEW f, NEW S, IsFiniteSet(S)
    PROVE  \E g : IsSum(f, g, S) /\ SumFunctionOnSet(f, S) = g[S]
  BY SumExists, Unfold

-----------------------------------------------------------------------------

\* Nothing adds up to 0.
LEMMA SumEmpty == ASSUME NEW f PROVE SumFunctionOnSet(f, {}) = 0
<1>1. PICK g : IsSum(f, g, {}) /\ SumFunctionOnSet(f, {}) = g[{}]
  BY SumIs, FS_EmptySet
<1>. QED BY <1>1 DEF IsSum, Turn

\* Only the values on the set matter.
LEMMA SumSame ==
    ASSUME NEW S, IsFiniteSet(S), NEW f1, NEW f2, \A x \in S : f1[x] = f2[x]
    PROVE  SumFunctionOnSet(f1, S) = SumFunctionOnSet(f2, S)
<1>1. PICK g1 : IsSum(f1, g1, S) /\ SumFunctionOnSet(f1, S) = g1[S]
  BY SumIs
<1>2. PICK g2 : IsSum(f2, g2, S) /\ SumFunctionOnSet(f2, S) = g2[S]
  BY SumIs
<1>. QED BY <1>1, <1>2, SumAgree

\* The sum, one element after the other.
LEMMA SumFirst ==
    ASSUME NEW f, NEW S, IsFiniteSet(S), S # {}
    PROVE  SumFunctionOnSet(f, S) = f[First(S)] + SumFunctionOnSet(f, S \ {First(S)})
<1>. DEFINE t == S \ {First(S)}
<1>1. IsFiniteSet(t)
  BY FS_Subset
<1>2. PICK g : IsSum(f, g, S) /\ SumFunctionOnSet(f, S) = g[S]
  BY SumIs
<1>3. PICK h : IsSum(f, h, t) /\ SumFunctionOnSet(f, t) = h[t]
  BY <1>1, SumIs
<1>4. g[t] = h[t]
  <2>1. t \subseteq S /\ \A x \in t : f[x] = f[x]
    OBVIOUS
  <2>. QED BY <1>1, <1>2, <1>3, <2>1, SumAgree
<1>5. g[S] = Turn(f, g, S)
  BY <1>2, SumTurn
<1>. QED BY <1>2, <1>3, <1>4, <1>5 DEF Turn

\* A sum of integers is one, and any element can be taken out first.
LEMMA SumUpTo ==
    ASSUME NEW f, NEW U, IsFiniteSet(U), \A x \in U : f[x] \in Int
    PROVE  \A S \in SUBSET U :
               /\ SumFunctionOnSet(f, S) \in Int
               /\ \A x \in S : SumFunctionOnSet(f, S) = f[x] + SumFunctionOnSet(f, S \ {x})
<1>. DEFINE Good(S) == /\ SumFunctionOnSet(f, S) \in Int
                       /\ \A x \in S : SumFunctionOnSet(f, S) = f[x] + SumFunctionOnSet(f, S \ {x})
            A == {n \in Nat : \A S \in SUBSET U : Cardinality(S) <= n => Good(S)}
<1>1. \A S \in SUBSET U : IsFiniteSet(S) /\ Cardinality(S) \in Nat
  BY FS_Subset, FS_CardinalityType
<1>2. 0 \in A
  <2>1. ASSUME NEW S \in SUBSET U, Cardinality(S) <= 0 PROVE Good(S)
    <3>1. S = {}
      BY <1>1, <2>1, FS_EmptySet
    <3>. QED BY <3>1, SumEmpty
  <2>. QED BY <2>1
<1>3. ASSUME NEW n \in Nat, n \in A PROVE n + 1 \in A
  <2>1. ASSUME NEW S \in SUBSET U, Cardinality(S) <= n + 1, S # {} PROVE Good(S)
    <3>. DEFINE c == First(S)
                r == S \ {c}
    <3>1. c \in S /\ c \in U
      BY <2>1, FirstIn
    <3>. HIDE DEF c
    <3>2. r \in SUBSET U /\ Cardinality(r) = Cardinality(S) - 1
      BY <1>1, <3>1, Without
    <3>3. Good(r)
      <4>1. Cardinality(r) <= n
        BY <1>1, <2>1, <3>2
      <4>. QED BY <1>3, <3>2, <4>1
    <3>4. SumFunctionOnSet(f, S) = f[c] + SumFunctionOnSet(f, r)
      BY <1>1, <2>1, SumFirst DEF c
    <3>5. SumFunctionOnSet(f, S) \in Int
      BY <3>1, <3>3, <3>4
    <3>6. ASSUME NEW x \in S, x # c
          PROVE  SumFunctionOnSet(f, S) = f[x] + SumFunctionOnSet(f, S \ {x})
      <4>. DEFINE q == S \ {x}
                  o == r \ {x}
      <4>1. q \in SUBSET U /\ Cardinality(q) = Cardinality(S) - 1 /\ c \in q /\ x \in r /\ x \in U
        BY <1>1, <3>1, <3>6, Without
      <4>2. Good(q)
        BY <1>1, <1>3, <2>1, <4>1
      <4>3. q \ {c} = o
        OBVIOUS
      <4>4. SumFunctionOnSet(f, q) = f[c] + SumFunctionOnSet(f, o)
        BY <4>1, <4>2, <4>3
      <4>5. SumFunctionOnSet(f, r) = f[x] + SumFunctionOnSet(f, o)
        BY <3>3, <4>1
      <4>6. SumFunctionOnSet(f, o) \in Int
        <5>1. o \in SUBSET U /\ Cardinality(o) = Cardinality(r) - 1
          BY <1>1, <3>2, <4>1, Without
        <5>. QED BY <1>1, <1>3, <2>1, <3>2, <5>1
      <4>7. f[x] \in Int /\ f[c] \in Int
        BY <3>1, <4>1
      <4>. HIDE DEF q, o, r
      <4>8. f[c] + (f[x] + SumFunctionOnSet(f, o)) = f[x] + (f[c] + SumFunctionOnSet(f, o))
        BY <4>6, <4>7
      <4>. QED BY <3>4, <4>4, <4>5, <4>8 DEF q
    <3>. QED BY <3>4, <3>5, <3>6
  <2>2. ASSUME NEW S \in SUBSET U, Cardinality(S) <= n + 1, S = {} PROVE Good(S)
    BY <2>2, SumEmpty
  <2>. QED BY <2>1, <2>2
<1>. HIDE DEF A
<1>4. ASSUME NEW S \in SUBSET U PROVE Good(S)
  <2>1. Cardinality(S) \in A
    BY <1>1, <1>2, <1>3, NatSteps
  <2>. QED BY <1>1, <2>1 DEF A
<1>. QED BY <1>4

\* A sum of integers is an integer.
LEMMA SumInt ==
    ASSUME NEW S, IsFiniteSet(S), NEW f, \A x \in S : f[x] \in Int
    PROVE  SumFunctionOnSet(f, S) \in Int
<1>1. S \in SUBSET S
  OBVIOUS
<1>. QED BY <1>1, SumUpTo

\* One element less.
LEMMA SumRemove ==
    ASSUME NEW S, IsFiniteSet(S), NEW f, \A x \in S : f[x] \in Int, NEW x \in S
    PROVE  SumFunctionOnSet(f, S) = f[x] + SumFunctionOnSet(f, S \ {x})
<1>1. S \in SUBSET S
  OBVIOUS
<1>. QED BY <1>1, SumUpTo

\* One more element.
LEMMA SumAdd ==
    ASSUME NEW S, IsFiniteSet(S), NEW x, x \notin S, NEW f, \A y \in S \cup {x} : f[y] \in Int
    PROVE  SumFunctionOnSet(f, S \cup {x}) = SumFunctionOnSet(f, S) + f[x]
<1>1. IsFiniteSet(S \cup {x}) /\ (S \cup {x}) \ {x} = S
  BY FS_AddElement
<1>2. SumFunctionOnSet(f, S \cup {x}) = f[x] + SumFunctionOnSet(f, S)
  BY <1>1, SumRemove
<1>3. SumFunctionOnSet(f, S) \in Int /\ f[x] \in Int
  BY SumInt
<1>. QED BY <1>2, <1>3

\* Where one function is below another, so is its sum.
LEMMA SumMonotone ==
    ASSUME NEW S, IsFiniteSet(S), NEW f1, NEW f2,
           \A x \in S : f1[x] \in Int /\ f2[x] \in Int /\ f1[x] <= f2[x]
    PROVE  SumFunctionOnSet(f1, S) <= SumFunctionOnSet(f2, S)
<1>. DEFINE Below(T) == SumFunctionOnSet(f1, T) <= SumFunctionOnSet(f2, T)
            A == {n \in Nat : \A T \in SUBSET S : Cardinality(T) <= n => Below(T)}
<1>1. \A T \in SUBSET S : IsFiniteSet(T) /\ Cardinality(T) \in Nat
  BY FS_Subset, FS_CardinalityType
<1>2. 0 \in A
  <2>1. ASSUME NEW T \in SUBSET S, Cardinality(T) <= 0 PROVE Below(T)
    <3>1. T = {}
      BY <1>1, <2>1, FS_EmptySet
    <3>. QED BY <3>1, SumEmpty
  <2>. QED BY <2>1
<1>3. ASSUME NEW n \in Nat, n \in A PROVE n + 1 \in A
  <2>1. ASSUME NEW T \in SUBSET S, Cardinality(T) <= n + 1, T # {} PROVE Below(T)
    <3>. DEFINE c == First(T)
                r == T \ {c}
    <3>1. c \in T /\ c \in S
      BY <2>1, FirstIn
    <3>2. SumFunctionOnSet(f1, T) = f1[c] + SumFunctionOnSet(f1, r)
          /\ SumFunctionOnSet(f2, T) = f2[c] + SumFunctionOnSet(f2, r)
      BY <1>1, <2>1, SumFirst
    <3>. HIDE DEF c
    <3>3. r \in SUBSET S /\ Cardinality(r) = Cardinality(T) - 1
      BY <1>1, <3>1, Without
    <3>4. Below(r)
      BY <1>1, <1>3, <2>1, <3>3
    <3>5. SumFunctionOnSet(f1, r) \in Int /\ SumFunctionOnSet(f2, r) \in Int
      <4>1. (\A x \in r : f1[x] \in Int) /\ (\A x \in r : f2[x] \in Int)
        BY <3>3
      <4>. QED BY <1>1, <3>3, <4>1, SumInt
    <3>. QED BY <3>1, <3>2, <3>4, <3>5
  <2>2. ASSUME NEW T \in SUBSET S, T = {} PROVE Below(T)
    BY <2>2, SumEmpty
  <2>. QED BY <2>1, <2>2
<1>. HIDE DEF A
<1>4. Cardinality(S) \in A
  BY <1>1, <1>2, <1>3, NatSteps
<1>. QED BY <1>1, <1>4 DEF A

\* A sum of natural numbers is one.
LEMMA SumNat ==
    ASSUME NEW S, IsFiniteSet(S), NEW f, \A x \in S : f[x] \in Nat
    PROVE  SumFunctionOnSet(f, S) \in Nat
<1>. DEFINE z == [x \in S |-> 0]
            A == {n \in Nat : \A T \in SUBSET S : Cardinality(T) <= n => SumFunctionOnSet(z, T) = 0}
<1>1. \A T \in SUBSET S : IsFiniteSet(T) /\ Cardinality(T) \in Nat
  BY FS_Subset, FS_CardinalityType
<1>2. 0 \in A
  <2>1. ASSUME NEW T \in SUBSET S, Cardinality(T) <= 0 PROVE SumFunctionOnSet(z, T) = 0
    <3>1. T = {}
      BY <1>1, <2>1, FS_EmptySet
    <3>. QED BY <3>1, SumEmpty
  <2>. QED BY <2>1
<1>3. ASSUME NEW n \in Nat, n \in A PROVE n + 1 \in A
  <2>1. ASSUME NEW T \in SUBSET S, Cardinality(T) <= n + 1, T # {} PROVE SumFunctionOnSet(z, T) = 0
    <3>. DEFINE c == First(T)
                r == T \ {c}
    <3>1. c \in T /\ c \in S
      BY <2>1, FirstIn
    <3>2. SumFunctionOnSet(z, T) = z[c] + SumFunctionOnSet(z, r)
      BY <1>1, <2>1, SumFirst
    <3>. HIDE DEF c
    <3>3. r \in SUBSET S /\ Cardinality(r) = Cardinality(T) - 1
      BY <1>1, <3>1, Without
    <3>4. SumFunctionOnSet(z, r) = 0
      BY <1>1, <1>3, <2>1, <3>3
    <3>. QED BY <3>1, <3>2, <3>4
  <2>2. ASSUME NEW T \in SUBSET S, T = {} PROVE SumFunctionOnSet(z, T) = 0
    BY <2>2, SumEmpty
  <2>. QED BY <2>1, <2>2
<1>. HIDE DEF A
<1>4. Cardinality(S) \in A
  BY <1>1, <1>2, <1>3, NatSteps
<1>5. SumFunctionOnSet(z, S) = 0
  BY <1>1, <1>4 DEF A
<1>6. SumFunctionOnSet(z, S) <= SumFunctionOnSet(f, S)
  <2>1. \A x \in S : z[x] \in Int /\ f[x] \in Int /\ z[x] <= f[x]
    OBVIOUS
  <2>. HIDE DEF z
  <2>. QED BY <2>1, SumMonotone
<1>7. SumFunctionOnSet(f, S) \in Int
  <2>1. \A x \in S : f[x] \in Int
    OBVIOUS
  <2>. QED BY <2>1, SumInt
<1>. QED BY <1>5, <1>6, <1>7

\* A sequence that grows by one value.
LEMMA SumAppend ==
    ASSUME NEW n \in Nat, NEW f, DOMAIN f = 1..n, \A k \in 1..n : f[k] \in Int,
           NEW g, DOMAIN g = 1..n+1, \A k \in 1..n : g[k] = f[k], g[n + 1] \in Int
    PROVE  SumFunction(g) = SumFunction(f) + g[n + 1]
<1>1. 1..n+1 = (1..n) \cup {n + 1} /\ n + 1 \notin 1..n
  OBVIOUS
<1>2. IsFiniteSet(1..n)
  BY FS_Interval
<1>3. \A k \in (1..n) \cup {n + 1} : g[k] \in Int
  OBVIOUS
<1>4. SumFunctionOnSet(g, (1..n) \cup {n + 1}) = SumFunctionOnSet(g, 1..n) + g[n + 1]
  BY <1>1, <1>2, <1>3, SumAdd
<1>5. SumFunctionOnSet(g, 1..n) = SumFunctionOnSet(f, 1..n)
  BY <1>2, SumSame
<1>. QED BY <1>1, <1>4, <1>5 DEF SumFunction

\* One value changed: the sum changes by as much.
LEMMA SumExcept ==
    ASSUME NEW S, IsFiniteSet(S), NEW x \in S, NEW f, NEW g,
           \A y \in S : f[y] \in Int /\ g[y] \in Int,
           \A y \in S \ {x} : g[y] = f[y]
    PROVE  SumFunctionOnSet(g, S) = SumFunctionOnSet(f, S) - f[x] + g[x]
<1>. DEFINE R == S \ {x}
<1>1. IsFiniteSet(R)
  BY FS_Subset
<1>2. SumFunctionOnSet(f, S) = f[x] + SumFunctionOnSet(f, R)
  BY SumRemove
<1>3. SumFunctionOnSet(g, S) = g[x] + SumFunctionOnSet(g, R)
  BY SumRemove
<1>4. SumFunctionOnSet(g, R) = SumFunctionOnSet(f, R)
  BY <1>1, SumSame
<1>5. SumFunctionOnSet(f, R) \in Int
  BY <1>1, SumInt
<1>. QED BY <1>2, <1>3, <1>4, <1>5
=============================================================================
