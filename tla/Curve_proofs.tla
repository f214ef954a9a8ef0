---------------------------- MODULE Curve_proofs ----------------------------
(***************************************************************************)
(* Proofs about the purchases of a launch and the split of its lamports,   *)
(* both on the bonding curve of CurveMath.  Buys, for every number of      *)
(* wallets, balances, curve, fee and slippage: a launch is not its own     *)
(* competitor, and no wallet pays out of its reserve.  Splits, for every   *)
(* curve, amount, share and deviation: what is divided adds up, and nobody *)
(* is favoured at the expense of the others.                               *)
(***************************************************************************)
EXTENDS Buys, Splits, SumTheorems, TLAPS

-----------------------------------------------------------------------------
(* Arithmetic. *)

\* What the quotient of two numbers is.
LEMMA Quotient ==
    ASSUME NEW n \in Nat, NEW d \in Nat \ {0}
    PROVE  /\ n \div d \in Nat
           /\ d * (n \div d) <= n
           /\ n < d * (n \div d) + d
  OBVIOUS

\* A number below the word size is its own remainder.
LEMMA NoWrap == ASSUME NEW w \in Nat \ {0}, NEW n \in 0..w-1 PROVE n % w = n
  OBVIOUS

\* A product grows with its factors.
LEMMA Monotone ==
    ASSUME NEW m \in Nat, NEW a \in Nat, NEW b \in Nat, a <= b
    PROVE  m * a <= m * b
  OBVIOUS

\* A quotient is below what a product is above.
LEMMA Below ==
    ASSUME NEW n \in Nat, NEW d \in Nat \ {0}, NEW h \in Nat, n < d * h
    PROVE  n \div d < h
  <1> DEFINE q == n \div d
  <1>1. q \in Nat /\ d * q <= n
    BY Quotient
  <1> HIDE DEF q
  <1>2. SUFFICES ASSUME h <= q PROVE FALSE
    BY <1>1 DEF q
  <1>3. d * h <= d * q
    BY <1>1, <1>2, Monotone
  <1> QED BY <1>1, <1>3

\* A quotient grows with its numerator.
LEMMA QuotientMonotone ==
    ASSUME NEW a \in Nat, NEW b \in Nat, NEW d \in Nat \ {0}, a <= b
    PROVE  a \div d <= b \div d
  <1> DEFINE q == b \div d
  <1>1. q \in Nat /\ b < d * q + d
    BY Quotient
  <1> HIDE DEF q
  <1>2. d * (q + 1) = d * q + d
    BY <1>1
  <1>3. a < d * (q + 1) /\ d * q \in Nat
    BY <1>1, <1>2
  <1>4. a \div d < q + 1
    BY <1>1, <1>3, Below
  <1>5. a \div d \in Nat
    BY Quotient
  <1> QED BY <1>1, <1>4, <1>5 DEF q

\* A purchase takes some of the tokens and never the last, and at the price
\* before it, it is worth less than what is paid.
LEMMA TokensOutBounds ==
    ASSUME NEW s \in Nat, NEW t \in Nat \ {0}, NEW a \in Nat \ {0}
    PROVE  /\ TokensOut(s, t, a) \in 0..t-1
           /\ TokensOut(s, t, a) * s < a * (t - TokensOut(s, t, a))
  <1> DEFINE q == (s * t) \div (s + a)
  <1>1. s * t \in Nat /\ s + a \in Nat \ {0}
    OBVIOUS
  <1>2. q \in Nat /\ (s + a) * q <= s * t /\ s * t < (s + a) * q + (s + a)
    BY <1>1, Quotient
  <1> HIDE DEF q
  <1>3. q < t
    <2>1. SUFFICES ASSUME q >= t PROVE FALSE
      BY <1>2
    <2>2. (s + a) * t <= (s + a) * q
      BY <1>1, <1>2, <2>1, Monotone
    <2>3. (s + a) * t > s * t
      OBVIOUS
    <2> QED BY <1>1, <1>2, <2>2, <2>3
  <1>4. TokensOut(s, t, a) = t - (q + 1)
    BY DEF TokensOut, TokensLeft, q
  <1>5. (t - (q + 1)) * s < a * (q + 1)
    <2>1. (t - (q + 1)) * s = s * t - s * (q + 1)
      BY <1>2
    <2>2. (s + a) * (q + 1) = (s + a) * q + (s + a)
      BY <1>2
    <2>3. (s + a) * (q + 1) = s * (q + 1) + a * (q + 1)
      BY <1>2
    <2>4. /\ s * t \in Nat /\ s * (q + 1) \in Nat /\ a * (q + 1) \in Nat
          /\ (s + a) * q \in Nat
      BY <1>2
    <2> QED BY <1>2, <2>1, <2>2, <2>3, <2>4
  <1>6. t - (t - (q + 1)) = q + 1
    BY <1>2
  <1> QED BY <1>2, <1>3, <1>4, <1>5, <1>6

\* On a curve with at most the lamports and at least the tokens of the quote,
\* the cost of the tokens is at most what the quote spends.
LEMMA CostBound ==
    ASSUME NEW s \in Nat, NEW t \in Nat, NEW a \in Nat, NEW k \in Nat, k < t,
           k * s < a * (t - k),
           chainVs \in Nat, chainVt \in Nat, chainVs <= s, t <= chainVt
    PROVE  k < chainVt /\ Cost(k) \in Nat /\ Cost(k) <= a
  <1>1. k * chainVs <= k * s /\ k * chainVs \in Nat /\ k * s \in Nat
    BY Monotone
  <1>2. a * (t - k) <= a * (chainVt - k) /\ a * (t - k) \in Nat
    BY Monotone
  <1>3. chainVt - k \in Nat \ {0} /\ a * (chainVt - k) \in Nat
    OBVIOUS
  <1>4. k * chainVs < (chainVt - k) * a
    BY <1>1, <1>2, <1>3
  <1>5. (k * chainVs) \div (chainVt - k) < a /\ (k * chainVs) \div (chainVt - k) \in Nat
    BY <1>1, <1>3, <1>4, Below, Quotient
  <1> QED BY <1>5 DEF Cost

-----------------------------------------------------------------------------
(* The quotes. *)

\* A quote is of one of the wallets, at a slippage that covers the fee, and
\* what the wallet keeps back covers the overhead.
LEMMA Places ==
    ASSUME NEW k \in 1..Quotes
    PROVE  /\ Wallet(k) \in Wallets
           /\ Slip(k) \in Nat /\ FeeBp <= Slip(k) /\ Slip(k) < BasisPoints
  <1> USE BuysAssumption
  <1>1. /\ Early \in 0..Buyers /\ Skipped \in 0..Buyers
        /\ Quotes = 1 + Early + (Buyers - Skipped)
    BY DEF Early, Skipped, Quotes
  <1>2. Wallet(k) \in Wallets
    BY <1>1 DEF Wallet, Wallets
  <1> QED BY <1>2 DEF Slip

LEMMA KeptBound == \A w \in Wallets : Kept(w) \in Nat /\ Overhead <= Kept(w)
  <1> DEFINE n == IF Buyers > MinBuffers THEN Buyers ELSE MinBuffers
  <1>1. n \in Nat /\ Buffer \in Nat /\ DevFixed \in Nat /\ Overhead <= DevFixed
    BY BuysAssumption
  <1>2. Buffer * n \in Nat
    BY <1>1
  <1>3. DevReserve = DevFixed + Buffer * n
    BY DEF DevReserve
  <1> HIDE DEF n
  <1>4. DevReserve \in Nat /\ Overhead <= DevReserve
    BY <1>1, <1>2, <1>3, BuysAssumption
  <1> QED BY <1>4, BuysAssumption DEF Kept

LEMMA QuotesNat == Quotes \in Nat
  BY BuysAssumption DEF Quotes, Early, Skipped

\* When nothing wraps, the maximum is the balance but for the reserve, and the
\* amount that is quoted is smaller by at least the fee.
LEMMA ExactQuote ==
    ASSUME NEW w \in Wallets, sol[w] \in 0..Word-1, vs \in Nat,
           NEW bp \in Nat, FeeBp <= bp, bp < BasisPoints, Exact(w, bp)
    PROVE  LET a == Quoted(MaxCost(w), bp)
           IN  /\ sol[w] = MaxCost(w) + Kept(w)
               /\ MaxCost(w) \in Nat /\ a \in 1..MaxCost(w)
               /\ a + (MaxCost(w) * FeeBp) \div BasisPoints <= MaxCost(w)
               /\ vs + a < Word
  <1> DEFINE m == MaxCost(w)
             a == Quoted(m, bp)
             cut == (m * bp) \div BasisPoints
  <1>0. /\ Word \in Nat \ {0} /\ BasisPoints \in Nat \ {0} /\ FeeBp \in Nat
        /\ Kept(w) \in Nat
    BY BuysAssumption, KeptBound
  <1>1. sol[w] - Kept(w) \in 1..Word-1
    BY <1>0 DEF Exact
  <1>2. m = sol[w] - Kept(w) /\ m \in 1..Word-1
    BY <1>0, <1>1, NoWrap DEF MaxCost
  <1>3. m * bp \in 0..Word-1
    <2>1. m * bp \in Nat
      BY <1>2
    <2> QED BY <1>0, <2>1 DEF Exact
  <1>4. vs + m < Word
    BY DEF Exact
  <1> HIDE DEF m
  <1>5. (m * bp) % Word = m * bp
    BY <1>0, <1>3, NoWrap
  <1>6. cut \in Nat /\ cut < m
    <2>1. m * bp < BasisPoints * m
      <3>1. m * bp <= m * (BasisPoints - 1)
        BY <1>0, <1>2, Monotone
      <3>2. m * (BasisPoints - 1) = m * BasisPoints - m
        BY <1>0, <1>2
      <3>3. m * BasisPoints \in Nat /\ m * BasisPoints = BasisPoints * m
        BY <1>0, <1>2
      <3> QED BY <1>2, <1>3, <3>1, <3>2, <3>3
    <2> QED BY <1>0, <1>2, <1>3, <2>1, Quotient, Below
  <1>7. a = m - cut
    <2>1. a = (m - cut) % Word
      BY <1>5 DEF Quoted
    <2>2. m - cut \in 0..Word-1
      BY <1>0, <1>2, <1>6
    <2> HIDE DEF a, cut
    <2> QED BY <1>0, <2>1, <2>2, NoWrap
  <1>8. (m * FeeBp) \div BasisPoints <= cut /\ (m * FeeBp) \div BasisPoints \in Nat
    <2>1. m * FeeBp <= m * bp /\ m * FeeBp \in Nat /\ m * bp \in Nat
      BY <1>0, <1>2, Monotone
    <2> QED BY <1>0, <2>1, QuotientMonotone, Quotient
  <1> HIDE DEF a, cut
  <1> QED BY <1>0, <1>2, <1>4, <1>6, <1>7, <1>8 DEF m, a

\* Whatever wraps, a quote is a record of numbers and leaves a token.
LEMMA AnyQuote ==
    ASSUME NEW w \in Wallets, sol[w] \in 0..Word-1, vs \in Nat, vt \in Nat \ {0},
           NEW bp \in Nat
    PROVE  LET a == Quoted(MaxCost(w), bp)
           IN  /\ MaxCost(w) \in Nat /\ a \in Nat
               /\ TokensOut(vs, vt, a) \in 0..vt-1
  <1> DEFINE a == Quoted(MaxCost(w), bp)
  <1>0. Word \in Nat \ {0} /\ BasisPoints \in Nat \ {0} /\ Kept(w) \in Nat
    BY BuysAssumption, KeptBound
  <1>1. MaxCost(w) \in Nat
    BY <1>0 DEF MaxCost
  <1>2. a \in Nat
    <2>1. ((MaxCost(w) * bp) % Word) \in Nat
      BY <1>0, <1>1
    <2>2. ((MaxCost(w) * bp) % Word) \div BasisPoints \in Nat
      BY <1>0, <2>1, Quotient
    <2> HIDE DEF MaxCost
    <2> QED BY <1>0, <1>1, <2>2 DEF Quoted
  <1> HIDE DEF a
  <1>3. TokensOut(vs, vt, a) \in 0..vt-1
    <2>1. CASE a = 0
      BY <2>1 DEF TokensOut
    <2>2. CASE a # 0
      BY <1>2, <2>2, TokensOutBounds
    <2> QED BY <2>1, <2>2
  <1> QED BY <1>1, <1>2, <1>3 DEF a

-----------------------------------------------------------------------------
(* The inductive invariant. *)

Types ==
    /\ sol \in [Wallets -> 0..Word-1]
    /\ step \in 1..Quotes+1
    /\ vs \in Nat /\ vt \in Nat \ {0}
    /\ quotes \in Seq(Quotation) /\ Len(quotes) = step - 1
    /\ chainVs \in Nat /\ chainVt \in Nat \ {0}
    /\ done \subseteq DOMAIN quotes
    /\ disturbed \in BOOLEAN

\* Nothing is bought while there are quotes to make.
Quiet ==
    /\ step <= Quotes => done = {} /\ ~disturbed
    /\ done = {} /\ ~disturbed => chainVs = SimSol /\ chainVt = SimTokens

\* What an exact quote says: the fee fits between what is spent and the
\* maximum, and the tokens are worth less than what is spent.
Sound(q) ==
    q.exact =>
        /\ q.spends + (q.max * FeeBp) \div BasisPoints <= q.max
        /\ q.tokens < q.vt /\ q.tokens * q.vs < q.spends * (q.vt - q.tokens)

\* A wallet that has not bought still has what its quotes were made for.
Funds ==
    \A k \in DOMAIN quotes :
        quotes[k].exact /\ ~BoughtBefore(quotes[k].wallet)
            => sol[quotes[k].wallet] = quotes[k].max + Kept(quotes[k].wallet)

\* Each quote is made on the curve the ones before it leave.
Ordered ==
    AllExact =>
        /\ SimSol <= vs /\ vt <= SimTokens
        /\ \A k \in DOMAIN quotes :
              /\ SimSol <= quotes[k].vs /\ quotes[k].vt <= SimTokens
              /\ quotes[k].vs + quotes[k].spends <= vs
              /\ vt <= quotes[k].vt - quotes[k].tokens
              /\ \A j \in DOMAIN quotes : k < j =>
                    /\ quotes[k].vs + quotes[k].spends <= quotes[j].vs
                    /\ quotes[j].vt <= quotes[k].vt - quotes[k].tokens

\* As long as the purchases land in order and nobody else buys, the real curve
\* is no dearer than the simulated one of any quote still to come.
Dominated ==
    AllExact /\ ~disturbed =>
        \A k \in DOMAIN quotes :
            (\A j \in done : j < k) => chainVs <= quotes[k].vs /\ quotes[k].vt <= chainVt

IndInv ==
    /\ Types /\ Quiet /\ Funds /\ Ordered /\ Dominated
    /\ \A k \in DOMAIN quotes : Sound(quotes[k])

LEMMA InitInv == Init => IndInv
  <1> SUFFICES ASSUME Init PROVE IndInv
    OBVIOUS
  <1> USE BuysAssumption, QuotesNat DEF Init
  <1>1. sol \in [Wallets -> 0..Word-1]
    OBVIOUS
  <1>2. Types
    <2>1. quotes \in Seq(Quotation) /\ Len(quotes) = step - 1
      OBVIOUS
    <2>2. step \in 1..Quotes+1 /\ done \subseteq DOMAIN quotes
      OBVIOUS
    <2> QED BY <1>1, <2>1, <2>2 DEF Types
  <1> QED BY <1>2 DEF IndInv, Quiet, Funds, Ordered, Dominated

\* A sound quote on a curve that is no dearer, of a wallet that still has its
\* funds, can execute.
LEMMA Affordable ==
    ASSUME Types, NEW q \in Quotation, Sound(q), q.exact,
           chainVs <= q.vs, q.vt <= chainVt, sol[q.wallet] = q.max + Kept(q.wallet)
    PROVE  Executable(q) /\ Cost(q.tokens) \in Nat /\ Cost(q.tokens) <= q.spends
  <1>1. /\ q.tokens \in Nat /\ q.vs \in Nat /\ q.vt \in Nat /\ q.spends \in Nat
        /\ q.max \in Nat /\ q.wallet \in Wallets
    BY DEF Quotation
  <1>2. q.tokens < q.vt /\ q.tokens * q.vs < q.spends * (q.vt - q.tokens)
    BY DEF Sound
  <1>3. q.tokens < chainVt /\ Cost(q.tokens) \in Nat /\ Cost(q.tokens) <= q.spends
    BY <1>1, <1>2, CostBound DEF Types
  <1>4. Fee(Cost(q.tokens)) <= (q.max * FeeBp) \div BasisPoints /\ Fee(Cost(q.tokens)) \in Nat
    <2> DEFINE c == Cost(q.tokens)
               m == q.max
    <2>1. c \in Nat /\ m \in Nat /\ c <= m /\ FeeBp \in Nat /\ BasisPoints \in Nat \ {0}
      <3>1. (q.max * FeeBp) \div BasisPoints \in Nat
        <4>1. q.max * FeeBp \in Nat
          BY <1>1, BuysAssumption
        <4> QED BY <4>1, BuysAssumption, Quotient
      <3>2. q.spends + (q.max * FeeBp) \div BasisPoints <= q.max
        BY DEF Sound
      <3>3. q.spends <= q.max
        BY <1>1, <3>1, <3>2
      <3> QED BY <1>1, <1>3, <3>3, BuysAssumption
    <2> HIDE DEF c, m
    <2>2. FeeBp * c <= FeeBp * m /\ c * FeeBp = FeeBp * c /\ m * FeeBp = FeeBp * m
          /\ c * FeeBp \in Nat /\ m * FeeBp \in Nat
      BY <2>1, Monotone
    <2>3. (c * FeeBp) \div BasisPoints <= (m * FeeBp) \div BasisPoints
          /\ (c * FeeBp) \div BasisPoints \in Nat
      BY <2>1, <2>2, QuotientMonotone, Quotient
    <2> QED BY <2>3 DEF Fee, c, m
  <1>5. (q.max * FeeBp) \div BasisPoints \in Nat
    <2>1. q.max * FeeBp \in Nat
      BY <1>1, BuysAssumption
    <2> QED BY <2>1, BuysAssumption, Quotient
  <1>6. Total(q) <= q.max /\ Total(q) \in Nat
    BY <1>1, <1>3, <1>4, <1>5 DEF Total, Sound
  <1>7. Kept(q.wallet) \in Nat /\ Overhead <= Kept(q.wallet) /\ Overhead \in Nat
    BY <1>1, KeptBound, BuysAssumption
  <1> QED BY <1>1, <1>3, <1>6, <1>7 DEF Executable

\* What the curve takes is a number.
LEMMA CostNat ==
    ASSUME Types, NEW k \in Nat, k < chainVt
    PROVE  Cost(k) \in Nat /\ Fee(Cost(k)) \in Nat
  <1>1. k * chainVs \in Nat /\ chainVt - k \in Nat \ {0}
    BY DEF Types
  <1>2. Cost(k) \in Nat
    BY <1>1, Quotient DEF Cost
  <1>3. Cost(k) * FeeBp \in Nat
    BY <1>2, BuysAssumption
  <1> QED BY <1>2, <1>3, BuysAssumption, Quotient DEF Fee

LEMMA QuoteInv == IndInv /\ Quote => IndInv'
  <1> SUFFICES ASSUME IndInv, Quote PROVE IndInv'
    OBVIOUS
  <1> DEFINE w == Wallet(step)
             bp == Slip(step)
             a == Quoted(MaxCost(w), bp)
             tokens == TokensOut(vs, vt, a)
             r == [wallet |-> w, max |-> MaxCost(w), spends |-> a, tokens |-> tokens,
                   vs |-> vs, vt |-> vt, exact |-> Exact(w, bp)]
  <1>0. Types /\ Quiet /\ Funds /\ Ordered /\ Dominated
    BY DEF IndInv
  <1>1. step \in 1..Quotes
    BY <1>0, QuotesNat DEF Quote, Types
  <1>2. w \in Wallets /\ bp \in Nat /\ FeeBp <= bp /\ bp < BasisPoints
    BY <1>1, Places
  <1>3. sol[w] \in 0..Word-1 /\ vs \in Nat /\ vt \in Nat \ {0}
    BY <1>0, <1>2 DEF Types
  <1>4. /\ quotes' = Append(quotes, r)
        /\ vs' = (vs + a) % Word /\ vt' = vt - tokens
        /\ step' = step + 1 /\ UNCHANGED chainVars
    BY DEF Quote, MoveCurve
  <1> HIDE DEF w, bp
  <1>5. MaxCost(w) \in Nat /\ a \in Nat /\ tokens \in 0..vt-1
    BY <1>2, <1>3, AnyQuote
  <1>6. Exact(w, bp) =>
          /\ sol[w] = MaxCost(w) + Kept(w) /\ a \in 1..MaxCost(w)
          /\ a + (MaxCost(w) * FeeBp) \div BasisPoints <= MaxCost(w)
          /\ vs + a < Word
    BY <1>2, <1>3, ExactQuote
  <1> HIDE DEF a
  <1>7. Exact(w, bp) => tokens * vs < a * (vt - tokens)
    BY <1>3, <1>5, <1>6, TokensOutBounds
  <1> HIDE DEF tokens
  <1>8. Exact(w, bp) \in BOOLEAN
    BY DEF Exact
  <1>9. r \in Quotation
    BY <1>2, <1>3, <1>5, <1>8 DEF Quotation
  <1>10. /\ r.wallet = w /\ r.max = MaxCost(w) /\ r.spends = a /\ r.tokens = tokens
         /\ r.vs = vs /\ r.vt = vt /\ r.exact = Exact(w, bp)
    OBVIOUS
  <1> HIDE DEF r
  <1>11. /\ quotes' \in Seq(Quotation) /\ Len(quotes') = step
         /\ DOMAIN quotes' = (DOMAIN quotes) \cup {step} /\ DOMAIN quotes = 1..step-1
         /\ quotes'[step] = r
         /\ \A k \in DOMAIN quotes : quotes'[k] = quotes[k]
    BY <1>0, <1>1, <1>4, <1>9 DEF Types
  <1>12. done = {} /\ ~disturbed /\ chainVs = SimSol /\ chainVt = SimTokens
    BY <1>0, <1>1 DEF Quiet
  <1>13. /\ UNCHANGED <<sol, chainVs, chainVt, done, disturbed>>
         /\ step' \in 1..Quotes+1
    BY <1>1, <1>4, QuotesNat DEF chainVars
  <1>14. Types'
    <2>1. vs' \in Nat /\ vt' \in Nat \ {0}
      BY <1>3, <1>4, <1>5, BuysAssumption
    <2> QED BY <1>0, <1>1, <1>4, <1>11, <1>12, <1>13, <2>1 DEF Types
  <1>15. Quiet'
    BY <1>12, <1>13 DEF Quiet
  <1>16. Funds'
    <2>1. \A k \in DOMAIN quotes : ~BoughtBefore(quotes[k].wallet)
      BY <1>12 DEF BoughtBefore
    <2>2. ASSUME NEW k \in DOMAIN quotes', quotes'[k].exact
          PROVE  sol[quotes'[k].wallet] = quotes'[k].max + Kept(quotes'[k].wallet)
      <3>1. CASE k = step
        BY <1>6, <1>10, <1>11, <2>2, <3>1
      <3>2. CASE k \in DOMAIN quotes
        BY <1>0, <1>11, <2>1, <2>2, <3>2 DEF Funds
      <3> QED BY <1>11, <3>1, <3>2
    <2> QED BY <1>13, <2>2 DEF Funds
  <1>17. AllExact' => AllExact /\ Exact(w, bp)
    BY <1>10, <1>11 DEF AllExact
  <1>18. Ordered'
    <2> SUFFICES ASSUME AllExact'
                 PROVE  /\ SimSol <= vs' /\ vt' <= SimTokens
                        /\ \A k \in DOMAIN quotes' :
                              /\ SimSol <= quotes'[k].vs /\ quotes'[k].vt <= SimTokens
                              /\ quotes'[k].vs + quotes'[k].spends <= vs'
                              /\ vt' <= quotes'[k].vt - quotes'[k].tokens
                              /\ \A j \in DOMAIN quotes' : k < j =>
                                    /\ quotes'[k].vs + quotes'[k].spends <= quotes'[j].vs
                                    /\ quotes'[j].vt <= quotes'[k].vt - quotes'[k].tokens
      BY DEF Ordered
    <2>1. /\ SimSol <= vs /\ vt <= SimTokens
          /\ \A k \in DOMAIN quotes :
                /\ SimSol <= quotes[k].vs /\ quotes[k].vt <= SimTokens
                /\ quotes[k].vs + quotes[k].spends <= vs
                /\ vt <= quotes[k].vt - quotes[k].tokens
                /\ \A j \in DOMAIN quotes : k < j =>
                      /\ quotes[k].vs + quotes[k].spends <= quotes[j].vs
                      /\ quotes[j].vt <= quotes[k].vt - quotes[k].tokens
      BY <1>0, <1>17 DEF Ordered
    <2>2. vs' = vs + a /\ vt' = vt - tokens
      <3>1. vs + a \in 0..Word-1
        BY <1>3, <1>5, <1>6, <1>17, BuysAssumption
      <3> QED BY <1>4, <3>1, NoWrap, BuysAssumption
    <2>3. SimSol <= vs' /\ vt' <= SimTokens
      BY <1>3, <1>5, <2>1, <2>2, BuysAssumption
    <2>4. ASSUME NEW k \in DOMAIN quotes'
          PROVE  /\ SimSol <= quotes'[k].vs /\ quotes'[k].vt <= SimTokens
                 /\ quotes'[k].vs + quotes'[k].spends <= vs'
                 /\ vt' <= quotes'[k].vt - quotes'[k].tokens
      <3>1. CASE k = step
        BY <1>3, <1>5, <1>10, <1>11, <2>1, <2>2, <3>1
      <3>2. CASE k \in DOMAIN quotes
        <4>1. quotes[k] \in Quotation
          BY <1>0, <3>2 DEF Types
        <4>2. /\ quotes[k].vs \in Nat /\ quotes[k].spends \in Nat
              /\ quotes[k].vt \in Nat /\ quotes[k].tokens \in Nat
          BY <4>1 DEF Quotation
        <4>3. /\ SimSol <= quotes[k].vs /\ quotes[k].vt <= SimTokens
              /\ quotes[k].vs + quotes[k].spends <= vs
              /\ vt <= quotes[k].vt - quotes[k].tokens
          BY <2>1, <3>2
        <4>4. vs <= vs' /\ vt' <= vt /\ vs' \in Nat /\ vt' \in Nat
          BY <1>3, <1>5, <2>2
        <4>5. quotes'[k] = quotes[k]
          BY <1>11, <3>2
        <4> QED BY <1>3, <4>2, <4>3, <4>4, <4>5
      <3> QED BY <1>11, <3>1, <3>2
    <2>5. ASSUME NEW k \in DOMAIN quotes', NEW j \in DOMAIN quotes', k < j
          PROVE  /\ quotes'[k].vs + quotes'[k].spends <= quotes'[j].vs
                 /\ quotes'[j].vt <= quotes'[k].vt - quotes'[k].tokens
      <3>1. k \in DOMAIN quotes
        BY <1>1, <1>11, <2>5
      <3>2. CASE j = step
        BY <1>10, <1>11, <2>1, <3>1, <3>2
      <3>3. CASE j \in DOMAIN quotes
        BY <1>11, <2>1, <2>5, <3>1, <3>3
      <3> QED BY <1>11, <3>2, <3>3
    <2> QED BY <2>3, <2>4, <2>5
  <1>19. Dominated'
    BY <1>12, <1>13, <1>18, <1>14 DEF Dominated, Ordered
  <1>20. ASSUME NEW k \in DOMAIN quotes' PROVE Sound(quotes'[k])
    <2>1. CASE k = step
      BY <1>3, <1>5, <1>6, <1>7, <1>10, <1>11, <2>1 DEF Sound
    <2>2. CASE k \in DOMAIN quotes
      BY <1>11, <2>2 DEF IndInv
    <2> QED BY <1>11, <2>1, <2>2
  <1> QED BY <1>14, <1>15, <1>16, <1>18, <1>19, <1>20 DEF IndInv, Sound

\* What a quote consists of.
LEMMA QuoteTypes ==
    ASSUME Types, NEW k \in DOMAIN quotes
    PROVE  /\ quotes[k] \in Quotation
           /\ quotes[k].max \in Nat /\ quotes[k].spends \in Nat /\ quotes[k].tokens \in Nat
           /\ quotes[k].vs \in Nat /\ quotes[k].vt \in Nat /\ quotes[k].wallet \in Wallets
           /\ sol[quotes[k].wallet] \in 0..Word-1
  <1>1. quotes[k] \in Quotation
    BY DEF Types
  <1> DEFINE q == quotes[k]
  <1>2. q \in Quotation
    BY <1>1
  <1> HIDE DEF q
  <1>3. /\ q.max \in Nat /\ q.spends \in Nat /\ q.tokens \in Nat
        /\ q.vs \in Nat /\ q.vt \in Nat /\ q.wallet \in Wallets
    BY <1>2 DEF Quotation
  <1>4. sol[q.wallet] \in 0..Word-1
    BY <1>3 DEF Types
  <1> QED BY <1>1, <1>3, <1>4 DEF q

LEMMA ExecuteInv == ASSUME IndInv, NEW e \in DOMAIN quotes, Execute(e) PROVE IndInv'
  <1> DEFINE q == quotes[e]
  <1>0. Types /\ Quiet /\ Funds /\ Ordered /\ Dominated /\ Sound(q)
    BY DEF IndInv
  <1>1. /\ step > Quotes /\ e \notin done /\ Executable(q)
        /\ chainVs' = chainVs + Cost(q.tokens) /\ chainVt' = chainVt - q.tokens
        /\ sol' = [sol EXCEPT ![q.wallet] = @ - Total(q) - Overhead]
        /\ done' = done \cup {e}
        /\ disturbed' = (disturbed \/ \E j \in done : j > e)
        /\ UNCHANGED <<step, vs, vt, quotes>>
    BY DEF Execute, simVars
  <1>3. /\ q.tokens \in Nat /\ q.vs \in Nat /\ q.vt \in Nat /\ q.spends \in Nat
        /\ q.max \in Nat /\ q.wallet \in Wallets /\ sol[q.wallet] \in 0..Word-1
    BY <1>0, QuoteTypes
  <1>4. q.tokens < chainVt /\ Total(q) + Overhead <= sol[q.wallet]
    BY <1>1 DEF Executable
  <1>5. Cost(q.tokens) \in Nat /\ Total(q) \in Nat
    BY <1>0, <1>3, <1>4, CostNat DEF Total
  <1>6. Types'
    <2> HIDE DEF q
    <2>1. sol[q.wallet] - Total(q) - Overhead \in 0..Word-1
      <3>1. Overhead \in Nat /\ Word \in Nat
        BY BuysAssumption
      <3> QED BY <1>3, <1>4, <1>5, <3>1
    <2>2. sol' \in [Wallets -> 0..Word-1]
      BY <1>0, <1>1, <2>1 DEF Types
    <2>3. chainVs' \in Nat /\ chainVt' \in Nat \ {0}
      <3>1. chainVs \in Nat /\ chainVt \in Nat
        BY <1>0 DEF Types
      <3> QED BY <1>1, <1>3, <1>4, <1>5, <3>1
    <2>4. done' \subseteq DOMAIN quotes /\ disturbed' \in BOOLEAN
      BY <1>0, <1>1 DEF Types
    <2> QED BY <1>0, <1>1, <2>2, <2>3, <2>4 DEF Types
  <1>7. Quiet'
    BY <1>0, <1>1, QuotesNat DEF Quiet, Types
  <1>8. Funds'
    <2> SUFFICES ASSUME NEW k \in DOMAIN quotes, quotes[k].exact,
                        ~BoughtBefore(quotes[k].wallet)'
                 PROVE  sol'[quotes[k].wallet] = quotes[k].max + Kept(quotes[k].wallet)
      BY <1>1 DEF Funds, BoughtBefore
    <2>1. ~BoughtBefore(quotes[k].wallet) /\ quotes[k].wallet # q.wallet
      BY <1>1 DEF BoughtBefore
    <2>2. sol[quotes[k].wallet] = quotes[k].max + Kept(quotes[k].wallet)
      BY <1>0, <2>1 DEF Funds
    <2>3. quotes[k].wallet \in Wallets
      BY <1>0, QuoteTypes
    <2>4. sol'[quotes[k].wallet] = sol[quotes[k].wallet]
      BY <1>0, <1>1, <2>1, <2>3 DEF Types
    <2> QED BY <2>2, <2>4
  <1>9. Ordered'
    BY <1>0, <1>1 DEF Ordered, AllExact
  <1>10. Dominated'
    <2> SUFFICES ASSUME AllExact, ~disturbed', NEW k \in DOMAIN quotes,
                        \A j \in done' : j < k
                 PROVE  chainVs' <= quotes[k].vs /\ quotes[k].vt <= chainVt'
      BY <1>1 DEF Dominated, AllExact
    <2>1. ~disturbed /\ \A j \in done : j < e
      <3>1. \A j \in done : j \in Nat /\ j # e /\ e \in Nat
        BY <1>0, <1>1 DEF Types
      <3>2. disturbed' = (disturbed \/ \E j \in done : j > e)
        BY <1>1
      <3>3. ~disturbed /\ ~ \E j \in done : j > e
        BY <3>2, Zenon
      <3> QED BY <3>1, <3>3
    <2>2. chainVs <= q.vs /\ q.vt <= chainVt
      BY <1>0, <2>1 DEF Dominated
    <2>3. q.exact
      BY DEF AllExact
    <2>4. Cost(q.tokens) <= q.spends
      <3>1. q.tokens < q.vt /\ q.tokens * q.vs < q.spends * (q.vt - q.tokens)
        BY <1>0, <2>3 DEF Sound
      <3>2. chainVs \in Nat /\ chainVt \in Nat
        BY <1>0 DEF Types
      <3> QED BY <1>3, <2>2, <3>1, <3>2, CostBound
    <2>5. q.vs + q.spends <= quotes[k].vs /\ quotes[k].vt <= q.vt - q.tokens
      BY <1>0, <1>1 DEF Ordered
    <2>6. quotes[k].vs \in Nat /\ quotes[k].vt \in Nat
      BY <1>0, QuoteTypes
    <2>7. chainVs \in Nat /\ chainVt \in Nat
      BY <1>0 DEF Types
    <2> HIDE DEF q
    <2> QED BY <1>1, <1>3, <1>5, <2>2, <2>4, <2>5, <2>6, <2>7
  <1>11. \A k \in DOMAIN quotes' : Sound(quotes'[k])
    BY <1>1 DEF IndInv
  <1> QED BY <1>6, <1>7, <1>8, <1>9, <1>10, <1>11 DEF IndInv, Sound

LEMMA OtherInv == ASSUME IndInv, NEW t \in Others, OtherBuys(t) PROVE IndInv'
  <1>0. Types /\ Quiet /\ Funds /\ Ordered
    BY DEF IndInv
  <1>1. /\ step > Quotes /\ t < chainVt /\ t \in Nat
        /\ chainVs' = chainVs + Cost(t) /\ chainVt' = chainVt - t
        /\ disturbed' = TRUE
        /\ UNCHANGED <<step, vs, vt, quotes, sol, done>>
    BY BuysAssumption DEF OtherBuys, simVars
  <1>2. Cost(t) \in Nat
    BY <1>0, <1>1, CostNat
  <1>3. Types'
    BY <1>0, <1>1, <1>2 DEF Types
  <1>4. Quiet' /\ Dominated'
    BY <1>0, <1>1, QuotesNat DEF Quiet, Dominated, Types
  <1>5. Funds'
    BY <1>0, <1>1 DEF Funds, BoughtBefore
  <1>6. Ordered'
    BY <1>0, <1>1 DEF Ordered, AllExact
  <1>7. \A k \in DOMAIN quotes' : Sound(quotes'[k])
    BY <1>1 DEF IndInv
  <1> QED BY <1>3, <1>4, <1>5, <1>6, <1>7 DEF IndInv, Sound

LEMMA NextInv == IndInv /\ [Next]_vars => IndInv'
  <1> SUFFICES ASSUME IndInv, [Next]_vars PROVE IndInv'
    OBVIOUS
  <1>1. CASE UNCHANGED vars
    BY <1>1 DEF vars, simVars, chainVars, IndInv, Types, Quiet, Funds, Ordered, Dominated,
                AllExact, BoughtBefore, Sound
  <1> QED BY <1>1, QuoteInv, ExecuteInv, OtherInv DEF Next

\* The inductive invariant: each quote is sound and made behind the others, and
\* the real curve is no dearer than any quote still to come was made on.
THEOREM Invariant == Spec => []IndInv
  BY InitInv, NextInv, PTL DEF Spec

\* Type correctness, although the subtractions of the code may wrap.
THEOREM TypeCorrect == Spec => []TypeOK
  <1>1. IndInv => TypeOK
    BY QuotesNat, BuysAssumption DEF IndInv, Types, TypeOK
  <1> QED BY <1>1, Invariant, PTL

\* For every number of wallets, balances, curve, fee and slippage that covers
\* it: as long as nobody else buys and the purchases land in order, each one
\* that is still to come can execute.
THEOREM OwnBuysExecuteAlways == Spec => []OwnBuysExecute
  <1>1. IndInv => OwnBuysExecute
    <2> SUFFICES ASSUME IndInv, AllExact, ~disturbed, NEW k \in DOMAIN quotes,
                        \A j \in done : j < k, ~BoughtBefore(quotes[k].wallet)
                 PROVE  Executable(quotes[k])
      BY DEF OwnBuysExecute
    <2>1. quotes[k] \in Quotation /\ quotes[k].exact /\ Sound(quotes[k]) /\ Types
      BY DEF IndInv, Types, AllExact
    <2>2. chainVs <= quotes[k].vs /\ quotes[k].vt <= chainVt
      BY DEF IndInv, Dominated
    <2>3. sol[quotes[k].wallet] = quotes[k].max + Kept(quotes[k].wallet)
      BY <2>1 DEF IndInv, Funds
    <2> QED BY <2>1, <2>2, <2>3, Affordable
  <1> QED BY <1>1, Invariant, PTL

\* For every number of wallets, balances, curve, fee and slippage, and whoever
\* else buys: a wallet that is quoted once never pays out of its reserve more
\* than the rent and fees of the purchase.
THEOREM ReserveKeptAlways == Spec => []ReserveKept
  <1> DEFINE Once(k) == \A j \in DOMAIN quotes \ {k} : quotes[j].wallet # quotes[k].wallet
  <1>1. IndInv /\ Init => ReserveKept
    BY DEF Init, ReserveKept
  <1>2. IndInv /\ ReserveKept /\ [Next]_vars => ReserveKept'
    <2> SUFFICES ASSUME IndInv, ReserveKept, [Next]_vars PROVE ReserveKept'
      OBVIOUS
    <2>1. CASE Quote
      <3>1. done = {} /\ done' = done
        BY <2>1 DEF IndInv, Types, Quiet, Quote, chainVars
      <3> QED BY <3>1 DEF ReserveKept
    <2>2. ASSUME NEW e \in DOMAIN quotes, Execute(e) PROVE ReserveKept'
      <3> DEFINE q == quotes[e]
      <3>1. /\ e \notin done /\ Executable(q) /\ UNCHANGED quotes
            /\ sol' = [sol EXCEPT ![q.wallet] = @ - Total(q) - Overhead]
            /\ done' = done \cup {e}
        BY <2>2 DEF Execute, simVars
      <3> SUFFICES ASSUME AllExact, NEW k \in done', Once(k)
                   PROVE  sol'[quotes[k].wallet] >= Kept(quotes[k].wallet) - Overhead
        BY <3>1 DEF ReserveKept, AllExact
      <3>2. /\ sol \in [Wallets -> 0..Word-1] /\ q.wallet \in Wallets
            /\ k \in DOMAIN quotes /\ quotes[k].wallet \in Wallets
            /\ done \subseteq DOMAIN quotes
        <4>1. sol \in [Wallets -> 0..Word-1] /\ done \subseteq DOMAIN quotes
          BY DEF IndInv, Types
        <4>2. k \in DOMAIN quotes
          BY <3>1, <4>1
        <4> QED BY <4>1, <4>2, QuoteTypes DEF IndInv
      <3>3. CASE k = e
        <4>1. ~BoughtBefore(q.wallet)
          BY <3>1, <3>2, <3>3 DEF BoughtBefore
        <4>2. sol[q.wallet] = q.max + Kept(q.wallet)
          BY <4>1 DEF IndInv, Funds, AllExact
        <4>3. q.max \in Nat /\ q.tokens \in Nat /\ q.tokens < chainVt /\ Total(q) <= q.max
          <5>1. q.max \in Nat /\ q.tokens \in Nat
            BY QuoteTypes DEF IndInv
          <5> QED BY <3>1, <5>1 DEF Executable
        <4>4. Total(q) \in Nat
          BY <4>3, CostNat DEF IndInv, Total
        <4>5. Kept(q.wallet) \in Nat /\ Overhead \in Nat
          BY <3>2, KeptBound, BuysAssumption
        <4>6. sol'[q.wallet] = sol[q.wallet] - Total(q) - Overhead
          BY <3>1, <3>2
        <4> QED BY <3>3, <4>2, <4>3, <4>4, <4>5, <4>6
      <3>4. CASE k # e
        <4>1. k \in done /\ q.wallet # quotes[k].wallet
          BY <3>1, <3>4
        <4>2. sol'[quotes[k].wallet] = sol[quotes[k].wallet]
          BY <3>1, <3>2, <4>1
        <4> QED BY <4>1, <4>2 DEF ReserveKept
      <3> QED BY <3>3, <3>4
    <2>3. ASSUME NEW t \in Others, OtherBuys(t) PROVE ReserveKept'
      BY <2>3 DEF OtherBuys, simVars, ReserveKept, AllExact
    <2>4. CASE UNCHANGED vars
      BY <2>4 DEF vars, simVars, chainVars, ReserveKept, AllExact
    <2> QED BY <2>1, <2>2, <2>3, <2>4 DEF Next
  <1> QED BY <1>1, <1>2, InitInv, Invariant, PTL DEF Spec

-----------------------------------------------------------------------------
(* The split of the amount. *)

\* A quotient is at least what a product is at most.
LEMMA AtLeast ==
    ASSUME NEW n \in Nat, NEW d \in Nat \ {0}, NEW h \in Nat, n >= d * h
    PROVE  n \div d >= h
  <1> DEFINE q == n \div d
  <1>1. q \in Nat /\ n < d * q + d
    BY Quotient
  <1> HIDE DEF q
  <1>2. SUFFICES ASSUME q < h PROVE FALSE
    BY <1>1 DEF q
  <1>3. d * (q + 1) <= d * h
    BY <1>1, <1>2, Monotone
  <1>4. d * (q + 1) = d * q + d
    BY <1>1
  <1> QED BY <1>1, <1>3, <1>4

\* A purchase takes some of the tokens and never the last.
LEMMA TokensOutNat ==
    ASSUME NEW s \in Nat \ {0}, NEW t \in Nat \ {0}, NEW a \in Nat
    PROVE  TokensOut(s, t, a) \in 0..t-1
  <1>1. CASE a = 0
    BY <1>1 DEF TokensOut
  <1>2. CASE a # 0
    <2> DEFINE q == (s * t) \div (s + a)
    <2>1. s * t \in Nat /\ s + a \in Nat \ {0}
      OBVIOUS
    <2>2. q \in Nat /\ (s + a) * q <= s * t
      BY <2>1, Quotient
    <2>3. q < t
      <3>1. SUFFICES ASSUME q >= t PROVE FALSE
        BY <2>2
      <3>2. (s + a) * t <= (s + a) * q
        BY <2>1, <2>2, <3>1, Monotone
      <3>3. (s + a) * t > s * t
        BY <1>2
      <3> QED BY <2>1, <2>2, <3>2, <3>3
    <2> QED BY <1>2, <2>2, <2>3 DEF TokensOut, TokensLeft
  <1> QED BY <1>1, <1>2

\* The inductive invariant: what is allocated and what is left make up the
\* amount, and only a returned list leaves nothing.
SplitIndInv ==
    /\ amount \in Nat /\ share \in Nat \ {0} /\ number \in Nat
    /\ simVs \in Nat \ {0} /\ simVt \in Nat \ {0}
    /\ splits \in Seq([sol : Nat, tokens : Nat])
    /\ allocated \in Nat /\ left \in Nat /\ allocated + left = amount
    /\ i = 0 => allocated = 0
    /\ number > 1 => i <= number /\ (i = number => left = 0)
    /\ number <= 1 => i \in {0, 1} /\ (i = 1 => left = 0)

LEMMA SplitInitInv == SplitInit => SplitIndInv
  <1> SUFFICES ASSUME SplitInit PROVE SplitIndInv
    OBVIOUS
  <1> USE SplitsAssumption DEF SplitInit
  <1>1. amount \in Nat /\ share \in Nat \ {0}
    OBVIOUS
  <1>2. simVs \in Nat \ {0} /\ simVt \in Nat \ {0}
    <2>1. PICK dev \in DevBuys : /\ simVs = InitSol + dev
                                /\ simVt = InitTokens - TokensOut(InitSol, InitTokens, dev)
      OBVIOUS
    <2>2. TokensOut(InitSol, InitTokens, dev) \in 0..InitTokens-1
      BY TokensOutNat
    <2> QED BY <2>1, <2>2
  <1>3. number \in Nat
    <2>1. TokensOut(simVs, simVt, amount) \in 0..simVt-1
      BY <1>1, <1>2, TokensOutNat
    <2>2. TokensOut(simVs, simVt, amount) + share - 1 \in Nat
      BY <1>1, <1>2, <2>1
    <2> QED BY <1>1, <2>2, Quotient DEF NumberOfWallets
  <1> QED BY <1>1, <1>2, <1>3 DEF SplitIndInv, i

\* What one turn of the loop does to what is left: the split is at least the
\* base, and at most what leaves half a base to each wallet to come.
LEMMA OneSplit ==
    ASSUME SplitIndInv, i < number - 1, NEW deviation \in Deviations
    PROVE  LET split == Smaller(Base + deviation * i, MostOfLeft)
               m == number - i
           IN  /\ Base \in Nat /\ m * Base <= left /\ left < m * Base + m
               /\ split \in Base..left
               /\ left - split >= (m - 1) * (Base \div 2)
  <1> DEFINE m == number - i
             split == Smaller(Base + deviation * i, MostOfLeft)
             half == Base \div 2
  <1>1. i \in Nat /\ m \in Nat /\ m >= 2 /\ left \in Nat
    BY DEF SplitIndInv, i
  <1>2. Base \in Nat /\ m * Base <= left /\ left < m * Base + m
    <2>1. m \in Nat \ {0}
      BY <1>1
    <2>2. Base = left \div m
      BY DEF Base
    <2> HIDE DEF m
    <2> QED BY <1>1, <2>1, <2>2, Quotient
  <1>3. half \in Nat /\ 2 * half <= Base
    BY <1>2, Quotient
  <1>4. deviation \in Nat
    BY DEF Deviations
  <1>5. deviation * i \in Nat
    BY <1>1, <1>4
  <1>6. (m - 1) * half <= (m - 1) * Base
    BY <1>1, <1>2, <1>3, Monotone
  <1>7. (m - 1) * Base = m * Base - Base
    BY <1>1, <1>2
  <1>8. (m - 1) * half \in Nat
    BY <1>1, <1>3
  <1>9. MostOfLeft = left - (m - 1) * half
    BY DEF MostOfLeft
  <1>10. MostOfLeft \in Base..left
    BY <1>1, <1>2, <1>6, <1>7, <1>8, <1>9
  <1>11. split \in Base..left /\ split <= MostOfLeft
    BY <1>1, <1>2, <1>5, <1>10 DEF Smaller
  <1>12. left - split >= (m - 1) * half
    BY <1>1, <1>2, <1>8, <1>9, <1>11
  <1> QED BY <1>1, <1>2, <1>11, <1>12

LEMMA SplitNextInv == SplitIndInv /\ [SplitNext]_splitVars => SplitIndInv'
  <1> SUFFICES ASSUME SplitIndInv, [SplitNext]_splitVars PROVE SplitIndInv'
    OBVIOUS
  <1>0. i \in Nat
    BY DEF SplitIndInv, i
  <1>1. CASE Single
    <2>0. simVs \in Nat \ {0} /\ simVt \in Nat \ {0} /\ amount \in Nat
      BY DEF SplitIndInv
    <2>1. TokensOut(simVs, simVt, amount) \in Nat
      BY <2>0, TokensOutNat
    <2>2. i' = 1
      BY <1>1 DEF Single, i
    <2> QED BY <1>1, <2>1, <2>2 DEF SplitIndInv, Single, inputs
  <1>2. CASE Split
    <2>1. PICK deviation \in Deviations :
            LET split == Smaller(Base + deviation * i, MostOfLeft)
                tokens == TokensOut(simVs, simVt, split)
            IN  /\ splits' = Append(splits, [sol |-> split, tokens |-> tokens])
                /\ simVs' = simVs + split /\ simVt' = simVt - tokens
                /\ allocated' = Allocated(split)
                /\ left' = left - split
      BY <1>2 DEF Split
    <2> DEFINE split == Smaller(Base + deviation * i, MostOfLeft)
               tokens == TokensOut(simVs, simVt, split)
    <2>2. i < number - 1
      BY <1>2 DEF Split
    <2>3. Base \in Nat /\ split \in Base..left
      BY <2>2, OneSplit
    <2>4. split \in 0..left
      BY <2>3 DEF SplitIndInv
    <2>5. tokens \in 0..simVt-1
      <3>1. split \in Nat /\ simVs \in Nat \ {0} /\ simVt \in Nat \ {0}
        BY <2>4 DEF SplitIndInv
      <3> HIDE DEF split
      <3> QED BY <3>1, TokensOutNat
    <2>6. i' = i + 1 /\ splits' \in Seq([sol : Nat, tokens : Nat])
      BY <2>1, <2>4, <2>5 DEF SplitIndInv, i
    <2>7. UNCHANGED inputs
      BY <1>2 DEF Split
    <2> HIDE DEF split, tokens
    <2>8. /\ simVs' = simVs + split /\ simVt' = simVt - tokens
          /\ allocated' = allocated + split /\ left' = left - split
      BY <2>1 DEF split, tokens, Allocated
    <2> QED BY <1>0, <2>2, <2>4, <2>5, <2>6, <2>7, <2>8 DEF SplitIndInv, inputs
  <1>3. CASE Last
    <2> DEFINE split == amount - allocated
               tokens == TokensOut(simVs, simVt, split)
    <2>1. split \in Nat /\ split = left
      BY DEF SplitIndInv
    <2>2. tokens \in Nat
      <3>1. simVs \in Nat \ {0} /\ simVt \in Nat \ {0}
        BY DEF SplitIndInv
      <3> HIDE DEF split
      <3> QED BY <2>1, <3>1, TokensOutNat
    <2>3. i' = i + 1 /\ splits' \in Seq([sol : Nat, tokens : Nat])
      BY <1>3, <2>1, <2>2 DEF SplitIndInv, i, Last
    <2> QED BY <1>0, <1>3, <2>1, <2>3 DEF SplitIndInv, Last, inputs
  <1>4. CASE UNCHANGED splitVars
    BY <1>4 DEF SplitIndInv, i, splitVars, inputs
  <1> QED BY <1>1, <1>2, <1>3, <1>4 DEF SplitNext

\* The inductive invariant holds in every state of get_splits.
THEOREM SplitInvariant == SplitSpec => []SplitIndInv
  BY SplitInitInv, SplitNextInv, PTL DEF SplitSpec

\* Type correctness: neither amount - total_allocated nor what remains ever
\* wraps, no simulated curve is emptied, and a returned list leaves nothing.
THEOREM SplitTypeCorrect == SplitSpec => []SplitTypeOK
  <1>1. SplitIndInv => SplitTypeOK
    <2> SUFFICES ASSUME SplitIndInv PROVE SplitTypeOK
      OBVIOUS
    <2>1. i \in Nat
      BY DEF SplitIndInv, i
    <2> QED BY <2>1 DEF SplitIndInv, SplitTypeOK, Finished
  <1> QED BY <1>1, SplitInvariant, PTL

\* A turn of the loop in which the deviation is named.
LEMMA SplitStep ==
    ASSUME SplitIndInv, Split
    PROVE  \E deviation \in Deviations :
             LET split == Smaller(Base + deviation * i, MostOfLeft)
             IN  /\ left' = left - split /\ i' = i + 1
                 /\ splits'[i'].sol = split
                 /\ UNCHANGED <<amount, number>>
  <1>1. PICK deviation \in Deviations :
          LET split == Smaller(Base + deviation * i, MostOfLeft)
              tokens == TokensOut(simVs, simVt, split)
          IN  /\ splits' = Append(splits, [sol |-> split, tokens |-> tokens])
              /\ left' = left - split
    BY DEF Split
  <1> DEFINE split == Smaller(Base + deviation * i, MostOfLeft)
             record == [sol |-> split, tokens |-> TokensOut(simVs, simVt, split)]
  <1>2. splits \in Seq([sol : Nat, tokens : Nat]) /\ splits' = Append(splits, record)
    BY <1>1 DEF SplitIndInv
  <1>3. record.sol = split
    OBVIOUS
  <1> HIDE DEF record
  <1>4. Len(splits') = Len(splits) + 1 /\ splits'[Len(splits) + 1] = record
    BY <1>2
  <1> QED BY <1>1, <1>3, <1>4 DEF i, Split, inputs

\* Half of what a wallet was due is left for each wallet after it, for every
\* number of wallets and every sequence of deviations.
THEOREM LeavesEnoughCorrect == SplitSpec => []LeavesEnough
  <1>1. SplitInit => LeavesEnough
    BY DEF SplitInit, LeavesEnough, i
  <1>2. SplitIndInv /\ LeavesEnough /\ [SplitNext]_splitVars => LeavesEnough'
    <2> SUFFICES ASSUME SplitIndInv, LeavesEnough, [SplitNext]_splitVars, (0 < i /\ i < number)'
                 PROVE  (Base >= Due \div 2)'
      BY DEF LeavesEnough
    <2>0. i \in Nat /\ number \in Nat /\ left \in Nat
      BY DEF SplitIndInv, i
    <2>1. CASE Single
      <3>1. i' = 1
        BY <2>1 DEF Single, i
      <3> QED BY <2>0, <2>1, <3>1 DEF Single, inputs
    <2>2. CASE Split
      <3>1. PICK deviation \in Deviations :
              LET split == Smaller(Base + deviation * i, MostOfLeft)
              IN  /\ left' = left - split /\ i' = i + 1
                  /\ splits'[i'].sol = split
                  /\ UNCHANGED <<amount, number>>
        BY <2>2, SplitStep
      <3> DEFINE split == Smaller(Base + deviation * i, MostOfLeft)
                 m == number - i - 1
                 half == Base \div 2
      <3>2. i < number - 1
        BY <2>2 DEF Split
      <3>3. Base \in Nat /\ split \in Base..left /\ left - split >= m * half
        BY <3>2, OneSplit
      <3>4. m \in Nat \ {0} /\ left' \in Nat /\ half \in Nat
        BY <2>0, <3>1, <3>2, <3>3, Quotient
      <3>5. Base' = left' \div m
        BY <2>0, <3>1 DEF Base
      <3>6. Due' = Base
        <4>1. left' + split = left /\ number' - i' + 1 = number - i
          BY <2>0, <3>1, <3>3
        <4>2. Due' = (left' + splits'[i'].sol) \div (number' - i' + 1)
          BY DEF Due
        <4> QED BY <3>1, <4>1, <4>2 DEF Base
      <3>7. left' \div m >= half
        <4>1. left' >= m * half
          BY <3>1, <3>3
        <4> HIDE DEF m, half
        <4> QED BY <3>4, <4>1, AtLeast
      <3> QED BY <3>5, <3>6, <3>7
    <2>3. CASE Last
      <3>1. i' = i + 1 /\ number' = number
        BY <2>3 DEF Last, i, inputs, SplitIndInv
      <3> QED BY <2>0, <2>3, <3>1 DEF Last
    <2>4. CASE UNCHANGED splitVars
      BY <2>4 DEF LeavesEnough, Base, Due, i, splitVars, inputs
    <2> QED BY <2>1, <2>2, <2>3, <2>4 DEF SplitNext
  <1> QED BY <1>1, <1>2, SplitInvariant, PTL DEF SplitSpec

\* An equal part of the amount, rounded up, is at least what remains for each
\* wallet after any turn: the last one never gets more than that.
THEOREM LastGetsLeastCorrect == SplitSpec => []LastGetsLeast
  <1> DEFINE part == (amount + number - 1) \div number
  <1>1. SplitIndInv /\ SplitInit => LastGetsLeast
    <2> SUFFICES ASSUME SplitIndInv, SplitInit, i < number PROVE left <= (number - i) * part
      BY DEF LastGetsLeast
    <2>1. i = 0 /\ left = amount /\ number \in Nat \ {0} /\ amount \in Nat
      BY DEF SplitInit, i, SplitIndInv
    <2>2. part \in Nat /\ amount + number - 1 < number * part + number
      <3>1. amount + number - 1 \in Nat
        BY <2>1
      <3> QED BY <2>1, <3>1, Quotient
    <2>3. number * part \in Nat
      BY <2>1, <2>2
    <2> QED BY <2>1, <2>2, <2>3
  <1>2. SplitIndInv /\ LastGetsLeast /\ [SplitNext]_splitVars => LastGetsLeast'
    <2> SUFFICES ASSUME SplitIndInv, LastGetsLeast, [SplitNext]_splitVars, (i < number)'
                 PROVE  (left <= (number - i) * part)'
      BY DEF LastGetsLeast
    <2>0. i \in Nat /\ number \in Nat /\ left \in Nat /\ amount \in Nat
      BY DEF SplitIndInv, i
    <2>1. CASE Single
      <3>1. i' = 1
        BY <2>1 DEF Single, i
      <3> QED BY <2>0, <2>1, <3>1 DEF Single, inputs
    <2>2. CASE Split
      <3>1. PICK deviation \in Deviations :
              LET split == Smaller(Base + deviation * i, MostOfLeft)
              IN  /\ left' = left - split /\ i' = i + 1
                  /\ splits'[i'].sol = split
                  /\ UNCHANGED <<amount, number>>
        BY <2>2, SplitStep
      <3> DEFINE split == Smaller(Base + deviation * i, MostOfLeft)
                 m == number - i
      <3>2. i < number - 1
        BY <2>2 DEF Split
      <3>3. Base \in Nat /\ split \in Base..left /\ left < m * Base + m
        BY <3>2, OneSplit
      <3>4. part \in Nat
        <4>1. amount + number - 1 \in Nat /\ number \in Nat \ {0}
          BY <2>0, <3>2
        <4> QED BY <4>1, Quotient
      <3>5. left <= m * part
        BY <2>0, <3>2 DEF LastGetsLeast
      <3>6. part' = part /\ (number - i)' = m - 1 /\ left' <= left - Base
        BY <2>0, <3>1, <3>3
      <3>7. m \in Nat /\ m >= 2
        BY <2>0, <3>2
      <3> HIDE DEF part, m, split
      <3>8. left - Base <= (m - 1) * part
        <4>1. CASE Base >= part
          BY <2>0, <3>3, <3>4, <3>5, <3>7, <4>1
        <4>2. CASE Base < part
          <5>1. (m - 1) * (Base + 1) <= (m - 1) * part
            BY <3>3, <3>4, <3>7, <4>2, Monotone
          <5>2. (m - 1) * (Base + 1) = m * Base + m - Base - 1
            BY <3>3, <3>7
          <5>3. m * Base \in Nat /\ (m - 1) * part \in Nat
            BY <3>3, <3>4, <3>7
          <5> QED BY <2>0, <3>3, <3>7, <5>1, <5>2, <5>3
        <4> QED BY <3>3, <3>4, <4>1, <4>2
      <3>9. left' \in Nat /\ (m - 1) * part \in Nat
        BY <2>0, <3>1, <3>3, <3>4, <3>7 DEF split
      <3> QED BY <2>0, <3>3, <3>6, <3>8, <3>9
    <2>3. CASE Last
      <3>1. i' = i + 1 /\ number' = number
        BY <2>3 DEF Last, i, inputs, SplitIndInv
      <3> QED BY <2>0, <2>3, <3>1 DEF Last
    <2>4. CASE UNCHANGED splitVars
      BY <2>4 DEF LastGetsLeast, i, splitVars, inputs
    <2> QED BY <2>1, <2>2, <2>3, <2>4 DEF SplitNext
  <1> QED BY <1>1, <1>2, SplitInitInv, SplitInvariant, PTL DEF SplitSpec

-----------------------------------------------------------------------------
(* What the wallets get together. *)

\* A list with one more wallet: its lamports and tokens are added.
LEMMA OneMoreWallet ==
    ASSUME splits \in Seq([sol : Nat, tokens : Nat]), NEW paid \in Nat, NEW tokens \in Nat,
           splits' = Append(splits, [sol |-> paid, tokens |-> tokens])
    PROVE  /\ SumFunction(Sols') = SumFunction(Sols) + paid
           /\ SumFunction(Tokens') = SumFunction(Tokens) + tokens
  <1> DEFINE wallet == [sol |-> paid, tokens |-> tokens]
             n == Len(splits)
  <1> DEFINE W == [sol : Nat, tokens : Nat]
  <1>0. splits \in Seq(W)
    OBVIOUS
  <1> HIDE DEF W
  <1>1. n \in Nat /\ DOMAIN splits = 1..n /\ \A k \in 1..n : splits[k] \in W
    BY <1>0
  <1>2. wallet \in W /\ wallet.sol = paid /\ wallet.tokens = tokens
    BY DEF W
  <1> HIDE DEF wallet
  <1>3. DOMAIN splits' = 1..n+1 /\ splits'[n + 1] = wallet /\ \A k \in 1..n : splits'[k] = splits[k]
    BY <1>0, <1>2 DEF wallet
  <1> HIDE DEF n
  <1>4. /\ DOMAIN Sols = 1..n /\ \A k \in 1..n : Sols[k] = splits[k].sol
        /\ DOMAIN Tokens = 1..n /\ \A k \in 1..n : Tokens[k] = splits[k].tokens
    BY <1>1 DEF Sols, Tokens
  <1>5. /\ DOMAIN Sols' = 1..n+1 /\ \A k \in 1..n+1 : Sols'[k] = splits'[k].sol
        /\ DOMAIN Tokens' = 1..n+1 /\ \A k \in 1..n+1 : Tokens'[k] = splits'[k].tokens
    BY <1>3 DEF Sols, Tokens
  <1>6. \A k \in 1..n : k \in 1..n+1 /\ splits[k].sol \in Int /\ splits[k].tokens \in Int
    BY <1>1 DEF W
  <1>9. n + 1 \in 1..n+1
    BY <1>1
  <1>10. Sols'[n + 1] = paid /\ Tokens'[n + 1] = tokens
    BY <1>2, <1>3, <1>5, <1>9
  <1> DEFINE f == Sols
             g == Sols'
             f2 == Tokens
             g2 == Tokens'
  <1> HIDE DEF f, g, f2, g2
  <1>7. SumFunction(g) = SumFunction(f) + g[n + 1]
    <2>1. DOMAIN f = 1..n /\ \A k \in 1..n : f[k] \in Int
      BY <1>4, <1>6 DEF f
    <2>2. DOMAIN g = 1..n+1 /\ \A k \in 1..n : g[k] = f[k]
      BY <1>3, <1>4, <1>5, <1>6 DEF f, g
    <2>3. g[n + 1] \in Int
      BY <1>10 DEF g
    <2> QED BY <1>1, <2>1, <2>2, <2>3, SumAppend
  <1>8. SumFunction(g2) = SumFunction(f2) + g2[n + 1]
    <2>1. DOMAIN f2 = 1..n /\ \A k \in 1..n : f2[k] \in Int
      BY <1>4, <1>6 DEF f2
    <2>2. DOMAIN g2 = 1..n+1 /\ \A k \in 1..n : g2[k] = f2[k]
      BY <1>3, <1>4, <1>5, <1>6 DEF f2, g2
    <2>3. g2[n + 1] \in Int
      BY <1>10 DEF g2
    <2> QED BY <1>1, <2>1, <2>2, <2>3, SumAppend
  <1> QED BY <1>7, <1>8, <1>10 DEF f, g, f2, g2

\* Before the first wallet nothing is given away.
LEMMA NoWallet ==
    ASSUME splits = <<>>
    PROVE  SumFunction(Sols) = 0 /\ SumFunction(Tokens) = 0
  <1>1. DOMAIN Sols = {} /\ DOMAIN Tokens = {}
    BY DEF Sols, Tokens
  <1> QED BY <1>1, SumEmpty DEF SumFunction

\* What a step adds to the list: the wallet it appends, or nothing.
LEMMA WalletOfStep ==
    ASSUME SplitIndInv, SplitNext
    PROVE  \E paid \in Nat :
               LET tokens == TokensOut(simVs, simVt, paid)
               IN  /\ splits' = Append(splits, [sol |-> paid, tokens |-> tokens])
                   /\ i' = i + 1 /\ tokens \in 0..simVt-1
                   /\ allocated' = allocated + paid
                   /\ UNCHANGED inputs
                   /\ \/ Split /\ simVs' = simVs + paid /\ simVt' = simVt - tokens
                      \/ (Single \/ Last) /\ paid = amount - allocated /\ i' >= number
  <1>1. i \in Nat /\ splits \in Seq([sol : Nat, tokens : Nat]) /\ simVs \in Nat \ {0} /\ simVt \in Nat \ {0}
        /\ amount \in Nat /\ allocated \in Nat /\ allocated <= amount /\ number \in Nat
    BY DEF SplitIndInv, i
  <1>2. \A paid \in Nat : TokensOut(simVs, simVt, paid) \in 0..simVt-1
    BY <1>1, TokensOutNat
  <1>3. CASE Split
    <2>1. PICK deviation \in Deviations :
            LET split == Smaller(Base + deviation * i, MostOfLeft)
                tokens == TokensOut(simVs, simVt, split)
            IN  /\ splits' = Append(splits, [sol |-> split, tokens |-> tokens])
                /\ simVs' = simVs + split /\ simVt' = simVt - tokens
                /\ allocated' = Allocated(split)
      BY <1>3 DEF Split
    <2> DEFINE split == Smaller(Base + deviation * i, MostOfLeft)
    <2>2. i < number - 1
      BY <1>3 DEF Split
    <2>3. split \in Nat
      <3>1. Base \in Nat /\ split \in Base..left
        BY <2>2, OneSplit
      <3> QED BY <3>1 DEF SplitIndInv
    <2>4. /\ splits' = Append(splits, [sol |-> split, tokens |-> TokensOut(simVs, simVt, split)])
          /\ simVs' = simVs + split /\ simVt' = simVt - TokensOut(simVs, simVt, split)
          /\ allocated' = allocated + split /\ UNCHANGED inputs
      BY <1>3, <2>1 DEF Allocated, Split
    <2> HIDE DEF split
    <2>5. i' = i + 1
      BY <1>1, <2>4 DEF i
    <2> QED BY <1>2, <1>3, <2>3, <2>4, <2>5
  <1>4. CASE Single
    <2>1. splits = <<>> /\ number <= 1
      BY <1>1, <1>4 DEF Single, i
    <2>2. allocated = 0
      BY <1>4 DEF Single, SplitIndInv
    <2>3. /\ splits' = Append(splits, [sol |-> amount, tokens |-> TokensOut(simVs, simVt, amount)])
          /\ allocated' = allocated + amount /\ amount = amount - allocated /\ UNCHANGED inputs
      BY <1>1, <1>4, <2>1, <2>2 DEF Single
    <2>4. i' = i + 1 /\ i' >= number
      BY <1>1, <1>4, <2>1, <2>3 DEF i, inputs
    <2> QED BY <1>1, <1>2, <1>4, <2>3, <2>4
  <1>5. CASE Last
    <2> DEFINE split == amount - allocated
    <2>1. split \in Nat
      BY <1>1
    <2>2. /\ splits' = Append(splits, [sol |-> split, tokens |-> TokensOut(simVs, simVt, split)])
          /\ allocated' = allocated + split /\ UNCHANGED inputs
      BY <1>5 DEF Last
    <2>3. i' = i + 1
      BY <1>1, <2>2 DEF i
    <2>4. i' >= number
      BY <1>1, <1>5, <2>3 DEF Last, inputs
    <2> QED BY <1>2, <1>5, <2>1, <2>2, <2>3, <2>4
  <1> QED BY <1>3, <1>4, <1>5 DEF SplitNext

\* What has been allocated is what the wallets got.
SolsInv == SumFunction(Sols) = allocated

\* The splits add up to the amount, for every number of wallets and every
\* sequence of deviations: the debug assertion at the end of get_splits.
THEOREM SumExactCorrect == SplitSpec => []SumExact
  <1>1. SplitInit => SolsInv
    BY NoWallet DEF SplitInit, SolsInv
  <1>2. ASSUME SplitIndInv, SolsInv, [SplitNext]_splitVars PROVE SolsInv'
    <2>1. CASE SplitNext
      <3>1. PICK paid \in Nat :
               /\ splits' = Append(splits, [sol |-> paid, tokens |-> TokensOut(simVs, simVt, paid)])
               /\ TokensOut(simVs, simVt, paid) \in 0..simVt-1
               /\ allocated' = allocated + paid
        BY <1>2, <2>1, WalletOfStep
      <3>2. TokensOut(simVs, simVt, paid) \in Nat /\ splits \in Seq([sol : Nat, tokens : Nat])
        BY <1>2, <3>1 DEF SplitIndInv
      <3>3. SumFunction(Sols') = SumFunction(Sols) + paid
        BY <3>1, <3>2, OneMoreWallet
      <3> QED BY <1>2, <3>1, <3>3 DEF SolsInv
    <2>2. CASE UNCHANGED splitVars
      BY <1>2, <2>2 DEF SolsInv, Sols, splitVars
    <2> QED BY <1>2, <2>1, <2>2
  <1>3. SplitIndInv /\ SolsInv => SumExact
    <2> SUFFICES ASSUME SplitIndInv, SolsInv, Finished PROVE SumFunction(Sols) = amount
      BY DEF SumExact
    <2>1. i \in Nat
      BY DEF SplitIndInv, i
    <2>2. left = 0
      BY <2>1 DEF SplitIndInv, Finished
    <2> QED BY <2>2 DEF SplitIndInv, SolsInv
  <1> QED BY <1>1, <1>2, <1>3, SplitInvariant, PTL DEF SplitSpec

\* A purchase never lets the product of the reserves fall; only a purchase for
\* nothing keeps it.
LEMMA ProductGrows ==
    ASSUME NEW s \in Nat \ {0}, NEW t \in Nat \ {0}, NEW a \in Nat \ {0}
    PROVE  s * t < (s + a) * (t - TokensOut(s, t, a))
  <1> DEFINE d == s + a
             p == s * t
             q == p \div d
  <1>1. p \in Nat /\ d \in Nat \ {0}
    OBVIOUS
  <1>2. q \in Nat /\ p < d * q + d
    BY <1>1, Quotient
  <1>3. t - TokensOut(s, t, a) = q + 1
    BY <1>2 DEF TokensOut, TokensLeft
  <1> HIDE DEF q
  <1>4. d * (q + 1) = d * q + d
    BY <1>1, <1>2
  <1> QED BY <1>2, <1>3, <1>4

\* Whoever pays at most a, in however many purchases, gets at most the tokens
\* a single purchase for a gets.
LEMMA WithinWhole ==
    ASSUME NEW s0 \in Nat \ {0}, NEW t0 \in Nat \ {0}, NEW a \in Nat,
           NEW b \in Nat, b <= a, NEW t \in Nat \ {0},
           (b = 0 /\ t = t0) \/ s0 * t0 < (s0 + b) * t \/ t >= t0
    PROVE  t0 - t <= TokensOut(s0, t0, a)
  <1>1. TokensOut(s0, t0, a) \in 0..t0-1
    BY TokensOutNat
  <1>2. CASE t >= t0
    BY <1>1, <1>2
  <1>3. CASE t < t0 /\ a = 0
    <2>1. b = 0 /\ s0 * t0 < s0 * t
      BY <1>3
    <2>2. s0 * t <= s0 * t0
      BY <1>3, Monotone
    <2> QED BY <2>1, <2>2
  <1>4. CASE t < t0 /\ a # 0
    <2> DEFINE d == s0 + a
               p == s0 * t0
               q == p \div d
               m == (s0 + b) * t
    <2>1. p \in Nat /\ d \in Nat \ {0} /\ m \in Nat
      OBVIOUS
    <2>2. q \in Nat /\ d * q <= p
      BY <2>1, Quotient
    <2>3. p < m
      BY <1>4
    <2>4. TokensOut(s0, t0, a) = t0 - q - 1
      BY <1>4, <2>2 DEF TokensOut, TokensLeft
    <2>5. q < t
      <3>1. SUFFICES ASSUME q >= t PROVE FALSE
        BY <2>2
      <3>2. d * t <= d * q
        BY <2>1, <2>2, <3>1, Monotone
      <3>3. m <= d * t
        <4>1. s0 + b \in Nat /\ s0 + b <= d
          OBVIOUS
        <4>2. t * (s0 + b) <= t * d
          BY <2>1, <4>1, Monotone
        <4> QED BY <2>1, <4>2
      <3>4. d * t \in Nat /\ d * q \in Nat
        BY <2>1, <2>2
      <3> QED BY <2>1, <2>2, <2>3, <3>2, <3>3, <3>4
    <2> QED BY <2>2, <2>4, <2>5
  <1> QED BY <1>2, <1>3, <1>4

\* The reserves s0 and t0 of the curve the number of wallets was computed on:
\* until the list is returned the curve tells what was paid and given out
\* since, and then all of it is no more than one purchase would have given.
Drawn(s0, t0) ==
    /\ number = NumberOfWallets(TokensOut(s0, t0, amount), share)
    /\ i = 0 \/ i < number =>
         /\ simVs = s0 + allocated
         /\ SumFunction(Tokens) = t0 - simVt
         /\ (allocated = 0 /\ simVt = t0) \/ s0 * t0 < simVs * simVt
    /\ SumFunction(Tokens) \in Int /\ SumFunction(Tokens) <= TokensOut(s0, t0, amount)

DrawnInv == \E s0, t0 \in Nat \ {0} : Drawn(s0, t0)

\* It holds of the empty list.
LEMMA InitDrawn == SplitInit => DrawnInv
  <1> SUFFICES ASSUME SplitInit PROVE DrawnInv
    OBVIOUS
  <1>1. simVs \in Nat \ {0} /\ simVt \in Nat \ {0} /\ amount \in Nat
    BY SplitInitInv DEF SplitIndInv
  <1>2. SumFunction(Tokens) = 0
    BY NoWallet DEF SplitInit
  <1>3. TokensOut(simVs, simVt, amount) \in 0..simVt-1
    BY <1>1, TokensOutNat
  <1>4. Drawn(simVs, simVt)
    BY <1>1, <1>2, <1>3 DEF SplitInit, Drawn, i
  <1> QED BY <1>1, <1>4 DEF DrawnInv

\* A wallet added keeps it.
LEMMA NextDrawn == SplitIndInv /\ DrawnInv /\ [SplitNext]_splitVars => DrawnInv'
  <1> SUFFICES ASSUME SplitIndInv, DrawnInv, [SplitNext]_splitVars PROVE DrawnInv'
    OBVIOUS
  <1>1. PICK s0 \in Nat \ {0}, t0 \in Nat \ {0} : Drawn(s0, t0)
    BY DEF DrawnInv
  <1>2. CASE UNCHANGED splitVars
    <2>1. Drawn(s0, t0)'
      BY <1>1, <1>2 DEF Drawn, Tokens, i, splitVars, inputs
    <2> QED BY <2>1 DEF DrawnInv
  <1>3. CASE SplitNext
    <2>0. /\ i \in Nat /\ number \in Nat /\ simVs \in Nat \ {0} /\ simVt \in Nat \ {0} /\ amount \in Nat
          /\ allocated \in Nat /\ allocated <= amount /\ splits \in Seq([sol : Nat, tokens : Nat])
      BY DEF SplitIndInv, i
    <2>1. PICK paid \in Nat :
             LET tokens == TokensOut(simVs, simVt, paid)
             IN  /\ splits' = Append(splits, [sol |-> paid, tokens |-> tokens])
                 /\ i' = i + 1 /\ tokens \in 0..simVt-1
                 /\ allocated' = allocated + paid
                 /\ UNCHANGED inputs
                 /\ \/ Split /\ simVs' = simVs + paid /\ simVt' = simVt - tokens
                    \/ (Single \/ Last) /\ paid = amount - allocated /\ i' >= number
      BY <1>3, WalletOfStep
    <2> DEFINE tokens == TokensOut(simVs, simVt, paid)
               t == simVt - tokens
               b == allocated + paid
    <2>2. tokens \in Nat /\ t \in Nat \ {0} /\ b \in Nat
      BY <2>0, <2>1
    <2>3. SumFunction(Tokens') = SumFunction(Tokens) + tokens
      BY <2>0, <2>1, <2>2, OneMoreWallet
    <2>4. i = 0 \/ i < number
      BY <2>0, <1>3 DEF SplitNext, Single, Split, Last
    <2>5. /\ simVs = s0 + allocated /\ SumFunction(Tokens) = t0 - simVt
          /\ (allocated = 0 /\ simVt = t0) \/ s0 * t0 < simVs * simVt
          /\ number = NumberOfWallets(TokensOut(s0, t0, amount), share)
      BY <1>1, <2>4 DEF Drawn
    <2>6. SumFunction(Tokens') = t0 - t
      BY <2>0, <2>2, <2>3, <2>5
    <2>7. (b = 0 /\ t = t0) \/ s0 * t0 < (s0 + b) * t
      <3>1. CASE paid = 0
        <4>1. tokens = 0
          BY <3>1 DEF TokensOut
        <4> HIDE DEF tokens
        <4> QED BY <2>0, <2>5, <3>1, <4>1
      <3>2. CASE paid # 0
        <4>1. simVs * simVt < (simVs + paid) * t
          BY <2>0, <3>2, ProductGrows
        <4>2. simVs + paid = s0 + b
          BY <2>0, <2>5
        <4>3. s0 * t0 <= simVs * simVt
          <5>1. CASE allocated = 0 /\ simVt = t0
            <6>1. simVs = s0
              BY <2>5, <5>1
            <6>. QED BY <2>0, <5>1, <6>1
          <5>2. CASE s0 * t0 < simVs * simVt
            BY <2>0, <5>2
          <5>. QED BY <2>5, <5>1, <5>2
        <4>4. s0 * t0 \in Nat /\ simVs * simVt \in Nat /\ (s0 + b) * t \in Nat
          BY <2>0, <2>2
        <4> HIDE DEF t, b
        <4> QED BY <4>1, <4>2, <4>3, <4>4
      <3> QED BY <3>1, <3>2
    <2>8. b <= amount
      <3>1. allocated' <= amount'
        <4>1. SplitIndInv'
          BY SplitNextInv
        <4>2. allocated' \in Nat /\ left' \in Nat /\ allocated' + left' = amount'
          BY <4>1 DEF SplitIndInv
        <4> QED BY <4>2
      <3>2. allocated' = b /\ amount' = amount
        BY <2>1 DEF inputs
      <3> QED BY <3>1, <3>2
    <2>9. t0 - t <= TokensOut(s0, t0, amount)
      <3> HIDE DEF t, b
      <3> QED BY <2>0, <2>2, <2>7, <2>8, WithinWhole
    <2>10. /\ number' = number /\ amount' = amount /\ share' = share
           /\ allocated' = b /\ i' = i + 1
      BY <2>1 DEF inputs
    <2>11. i' < number' => simVs' = s0 + b /\ simVt' = t
      BY <2>0, <2>1, <2>5, <2>10
    <2> HIDE DEF t, b
    <2>12. Drawn(s0, t0)'
      <3>1. (number = NumberOfWallets(TokensOut(s0, t0, amount), share))'
        BY <2>5, <2>10
      <3>2. i' = 0 \/ i' < number' =>
              /\ simVs' = s0 + allocated'
              /\ SumFunction(Tokens') = t0 - simVt'
              /\ (allocated' = 0 /\ simVt' = t0) \/ s0 * t0 < simVs' * simVt'
        BY <2>0, <2>6, <2>7, <2>10, <2>11
      <3>3. SumFunction(Tokens') \in Int /\ SumFunction(Tokens') <= TokensOut(s0, t0, amount')
        BY <2>2, <2>6, <2>9, <2>10 
      <3> QED BY <3>1, <3>2, <3>3 DEF Drawn
    <2> QED BY <2>12 DEF DrawnInv
  <1> QED BY <1>2, <1>3

\* On average no wallet gets more than its share, for every curve, amount,
\* share and sequence of deviations: together they get no more than the single
\* purchase the number of wallets was computed for.
THEOREM AverageWithinShareCorrect == SplitSpec => []AverageWithinShare
  <1>1. SplitIndInv /\ DrawnInv => AverageWithinShare
    <2> SUFFICES ASSUME SplitIndInv, DrawnInv PROVE SumFunction(Tokens) <= number * share
      BY DEF AverageWithinShare
    <2>1. PICK s0 \in Nat \ {0}, t0 \in Nat \ {0} : Drawn(s0, t0)
      BY DEF DrawnInv
    <2> DEFINE whole == TokensOut(s0, t0, amount)
               up == whole + share - 1
    <2>2. amount \in Nat /\ share \in Nat \ {0} /\ number \in Nat
      BY DEF SplitIndInv
    <2>3. whole \in Nat
      BY <2>2, TokensOutNat
    <2> HIDE DEF whole
    <2>4. up \in Nat
      BY <2>2, <2>3
    <2>5. number = up \div share
      BY <2>1 DEF Drawn, NumberOfWallets, whole
    <2>6. up < share * number + share
      <3> HIDE DEF up
      <3> QED BY <2>2, <2>4, <2>5, Quotient
    <2>7. SumFunction(Tokens) \in Int /\ SumFunction(Tokens) <= whole
      BY <2>1 DEF Drawn, whole
    <2> QED BY <2>2, <2>3, <2>6, <2>7
  <1> QED BY <1>1, InitDrawn, NextDrawn, SplitInvariant, PTL DEF SplitSpec
=============================================================================
