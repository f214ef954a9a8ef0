-------------------------------- MODULE Buys --------------------------------
(***************************************************************************)
(* How much each wallet buys (collect_first_bundle_txs and                 *)
(* collect_rest_txs of src/jito/help.rs, buy_ixs of src/pumpfun/pump.rs),  *)
(* and whether the chain takes it.  All quotes are made before anything is *)
(* sent, in the order of the list, on one simulated curve; the purchases   *)
(* reach the real curve later, in whatever order their bundles land, and   *)
(* among purchases of others.  Numbers are u64 and wrap, as in the release *)
(* build of the README.                                                    *)
(***************************************************************************)
EXTENDS CurveMath, Sequences

CONSTANTS Buyers,      \* number of wallets besides the developer
          WithDelay,
          FirstBuyers, \* MAX_BUYERS_FIRST_BUNDLE (19)
          Balances,    \* lamports of a wallet
          Reserve,     \* kept back by a buyer (10000000)
          DevFixed, Buffer, MinBuffers,  \* kept back by the developer
          FirstSlip, LateSlip, BasisPoints,   \* 500, 800 of 10000
          SimSol, SimTokens,   \* the default curve
          Word,        \* 2^64
          FeeBp,       \* the curve's fee
          Overhead,    \* rent and fees a purchase costs besides
          Others       \* tokens somebody else may buy

ASSUME BuysAssumption ==
    /\ Buyers \in Nat /\ WithDelay \in BOOLEAN /\ FirstBuyers \in Nat
    /\ Word \in Nat \ {0} /\ Balances \subseteq 0..Word-1
    /\ {Reserve, DevFixed, Buffer, MinBuffers, Overhead} \subseteq Nat
    /\ Overhead <= Reserve /\ Overhead <= DevFixed
    /\ BasisPoints \in Nat \ {0}
    /\ FeeBp \in Nat
    /\ {FirstSlip, LateSlip} \subseteq FeeBp..BasisPoints-1
    /\ SimSol \in Nat \ {0} /\ SimTokens \in Nat \ {0}
    /\ Others \subseteq Nat

VARIABLES sol,       \* chain: the balance of each wallet, 0 is the developer
          step,      \* the next purchase to quote
          vs, vt,    \* the simulated curve
          quotes,    \* one record per quote
          chainVs, chainVt,  \* the real curve
          done,      \* chain: the purchases that executed
          disturbed  \* chain: somebody else has bought, or one of the
                     \* purchases overtook another

simVars == <<step, vs, vt, quotes>>
chainVars == <<sol, chainVs, chainVt, done, disturbed>>
vars == <<simVars, chainVars>>

Wallets == 0..Buyers

\* The wallets in the order in which they are quoted: the developer, those in
\* the first bundle, and those in the late ones.  The buyer at position
\* FirstBuyers is in both.
Early == IF WithDelay THEN 0 ELSE IF Buyers < FirstBuyers + 1 THEN Buyers ELSE FirstBuyers + 1
Skipped == IF WithDelay THEN 0 ELSE IF Buyers < FirstBuyers THEN Buyers ELSE FirstBuyers
Quotes == 1 + Early + (Buyers - Skipped)
Wallet(i) == IF i <= 1 + Early THEN i - 1 ELSE Skipped + (i - 1 - Early)
Slip(i) == IF i <= 1 + Early THEN FirstSlip ELSE LateSlip

\* What a wallet keeps back.
DevReserve == DevFixed + Buffer * (IF Buyers > MinBuffers THEN Buyers ELSE MinBuffers)
Kept(w) == IF w = 0 THEN DevReserve ELSE Reserve

\* balance - reserve in u64.  NothingKept forgets the reserve, and SignedCost
\* takes the difference for signed.
NothingKept(w) == sol[w]
SignedCost(w) == sol[w] - Kept(w)
MaxCost(w) == (sol[w] - Kept(w)) % Word

\* calculate_with_slippage, the amount that is quoted.
Quoted(amount, bp) == (amount - ((amount * bp) % Word) \div BasisPoints) % Word

Init ==
    /\ sol \in [Wallets -> Balances]
    /\ step = 1
    /\ vs = SimSol /\ vt = SimTokens
    /\ quotes = <<>>
    /\ chainVs = SimSol /\ chainVt = SimTokens
    /\ done = {} /\ disturbed = FALSE

\* Neither the subtraction, nor the product, nor the reserve wraps.
Exact(w, bp) ==
    /\ sol[w] > Kept(w)
    /\ MaxCost(w) * bp < Word
    /\ vs + MaxCost(w) < Word

\* buy_ixs on the simulated curve.  StaleCurve quotes everybody on the same
\* curve, as if nobody had bought before.
StaleCurve(a, tokens) == UNCHANGED <<vs, vt>>
MoveCurve(a, tokens) == vs' = (vs + a) % Word /\ vt' = vt - tokens

Quote ==
    /\ step <= Quotes
    /\ LET w == Wallet(step)
           a == Quoted(MaxCost(w), Slip(step))
           tokens == TokensOut(vs, vt, a)
       IN  /\ quotes' = Append(quotes, [wallet |-> w, max |-> MaxCost(w), spends |-> a,
                                        tokens |-> tokens, vs |-> vs, vt |-> vt,
                                        exact |-> Exact(w, Slip(step))])
           /\ MoveCurve(a, tokens)
    /\ step' = step + 1
    /\ UNCHANGED chainVars

-----------------------------------------------------------------------------
(* The chain. *)

\* What the curve takes for a purchase of a number of tokens, and the fee.
Cost(tokens) == (tokens * chainVs) \div (chainVt - tokens) + 1
Fee(cost) == (cost * FeeBp) \div BasisPoints
Total(q) == Cost(q.tokens) + Fee(Cost(q.tokens))

Executable(q) ==
    /\ q.tokens < chainVt
    /\ Total(q) <= q.max
    /\ Total(q) + Overhead <= sol[q.wallet]

Execute(i) ==
    /\ step > Quotes /\ i \in DOMAIN quotes \ done
    /\ LET q == quotes[i] IN
       /\ Executable(q)
       /\ chainVs' = chainVs + Cost(q.tokens)
       /\ chainVt' = chainVt - q.tokens
       /\ sol' = [sol EXCEPT ![q.wallet] = @ - Total(q) - Overhead]
    /\ done' = done \cup {i}
    /\ disturbed' = (disturbed \/ \E j \in done : j > i)
    /\ UNCHANGED simVars

OtherBuys(tokens) ==
    /\ step > Quotes /\ ~disturbed /\ tokens < chainVt
    /\ chainVs' = chainVs + Cost(tokens)
    /\ chainVt' = chainVt - tokens
    /\ disturbed' = TRUE
    /\ UNCHANGED <<simVars, sol, done>>

Next == Quote \/ (\E i \in DOMAIN quotes : Execute(i)) \/ (\E t \in Others : OtherBuys(t))

Spec == Init /\ [][Next]_vars

-----------------------------------------------------------------------------
(* Properties. *)

Quotation == [wallet : Wallets, max : Nat, spends : Nat, tokens : Nat,
              vs : Nat, vt : Nat, exact : BOOLEAN]

\* Every variable keeps to its set, and no curve runs out of tokens.
TypeOK ==
    /\ sol \in [Wallets -> Nat]
    /\ step \in 1..Quotes+1
    /\ vs \in Nat /\ vt \in Nat \ {0}
    /\ quotes \in Seq(Quotation) /\ Len(quotes) = step - 1
    /\ chainVs \in Nat /\ chainVt \in Nat \ {0}
    /\ done \subseteq DOMAIN quotes
    /\ disturbed \in BOOLEAN

AllExact == \A i \in DOMAIN quotes : quotes[i].exact
BoughtBefore(w) == \E j \in done : quotes[j].wallet = w

\* A launch is not its own competitor.  As long as nobody else buys and the
\* purchases land in their order, each that is still to come costs no more
\* than its maximum, fee included, and its wallet can pay: also when some
\* before it were lost.  Only a wallet that is quoted twice cannot buy twice.
OwnBuysExecute ==
    AllExact /\ ~disturbed =>
        \A i \in DOMAIN quotes :
            (\A j \in done : j < i) /\ ~BoughtBefore(quotes[i].wallet) => Executable(quotes[i])

\* A wallet that is quoted once ends with what it keeps back, less the rent
\* and fees of the purchase, whatever the curve did in between.  The one that
\* is quoted twice may buy twice, the second time out of its reserve.
ReserveKept ==
    AllExact =>
        \A i \in done :
            LET w == quotes[i].wallet IN
            (\A j \in DOMAIN quotes \ {i} : quotes[j].wallet # w)
                => sol[w] >= Kept(w) - Overhead
=============================================================================
