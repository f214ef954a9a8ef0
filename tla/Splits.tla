------------------------------- MODULE Splits -------------------------------
(***************************************************************************)
(* get_splits (src/pumpfun/utils.rs): the lamports of a launch are divided *)
(* over as many wallets as keep each below its share of the tokens.  Both  *)
(* figures are taken on a simulated curve after the developer's purchase.  *)
(* The f64 quotient of the number of wallets is taken to be exact.         *)
(***************************************************************************)
EXTENDS CurveMath, Sequences, Functions

CONSTANTS InitSol, InitTokens,   \* default()
          DevBuys, Amounts,      \* dev_buy, amount
          Shares,                \* max_tokens_per_wallet, in whole tokens
          Percent                \* the range of the deviation (5)

\* A share of no token at all asks for u64::MAX wallets (see the README).
ASSUME SplitsAssumption ==
    /\ InitSol \in Nat \ {0} /\ InitTokens \in Nat \ {0}
    /\ DevBuys \subseteq Nat /\ Amounts \subseteq Nat
    /\ Shares \subseteq Nat \ {0}
    /\ Percent \in 0..100

VARIABLES amount, share, number,
          simVs, simVt,      \* the simulated curve
          splits,      \* per wallet the lamports and the tokens they buy
          allocated,   \* total_allocated
          left         \* remaining_sol

inputs == <<amount, share, number>>
splitVars == <<inputs, simVs, simVt, splits, allocated, left>>

\* number_of_wallets, rounded up.  RoundedDown rounds the wrong way.
RoundedDown(tokens, max) == tokens \div max
NumberOfWallets(tokens, max) == (tokens + max - 1) \div max

i == Len(splits)   \* the loop's index
Finished == i >= 1 /\ i >= number

SplitInit ==
    /\ amount \in Amounts /\ share \in Shares
    /\ \E dev \in DevBuys :
         /\ simVs = InitSol + dev
         /\ simVt = InitTokens - TokensOut(InitSol, InitTokens, dev)
    /\ number = NumberOfWallets(TokensOut(simVs, simVt, amount), share)
    /\ splits = <<>> /\ allocated = 0 /\ left = amount

\* base_amount
Base == left \div (number - i)

\* The deviation, drawn between -Percent and +Percent of the base and cast to
\* u64, which makes 0 of whatever is negative.
Deviations == 0 .. (Base * Percent) \div 100

\* max_this_split: half a base for each of the wallets to come.  OneForgotten
\* leaves it to all of them but one.
OneForgotten == left - (number - i - 2) * (Base \div 2)
MostOfLeft == left - (number - i - 1) * (Base \div 2)

Smaller(a, b) == IF a < b THEN a ELSE b

\* total_allocated.  AllocatedBase counts the base for the split.
AllocatedBase(split) == allocated + Base
Allocated(split) == allocated + split

\* If one wallet is enough, or none, it gets everything.
Single ==
    /\ number <= 1 /\ i = 0
    /\ splits' = <<[sol |-> amount, tokens |-> TokensOut(simVs, simVt, amount)]>>
    /\ allocated' = amount /\ left' = 0
    /\ UNCHANGED <<inputs, simVs, simVt>>

Split ==
    /\ i < number - 1
    /\ \E deviation \in Deviations :
         LET split == Smaller(Base + deviation * i, MostOfLeft)
             tokens == TokensOut(simVs, simVt, split)
         IN  /\ splits' = Append(splits, [sol |-> split, tokens |-> tokens])
             /\ simVs' = simVs + split /\ simVt' = simVt - tokens
             /\ allocated' = Allocated(split)
             /\ left' = left - split
    /\ UNCHANGED inputs

\* The last wallet gets what is left.  Its purchase is not simulated.
Last ==
    /\ number > 1 /\ i = number - 1
    /\ LET split == amount - allocated
       IN  /\ splits' = Append(splits, [sol |-> split, tokens |-> TokensOut(simVs, simVt, split)])
           /\ allocated' = allocated + split
           /\ left' = left - split
    /\ UNCHANGED <<inputs, simVs, simVt>>

SplitNext == Single \/ Split \/ Last

SplitSpec == SplitInit /\ [][SplitNext]_splitVars

-----------------------------------------------------------------------------
(* Properties. *)

\* What the wallets so far get.
Sols == [k \in DOMAIN splits |-> splits[k].sol]
Tokens == [k \in DOMAIN splits |-> splits[k].tokens]

\* What the latest wallet of the loop was due before the deviation.
Due == (left + splits[i].sol) \div (number - i + 1)

\* The variables keep to their sets: neither amount - total_allocated nor the
\* subtractions from what is left go below zero, and nothing is left over.
SplitTypeOK ==
    /\ amount \in Nat /\ share \in Nat \ {0} /\ number \in Nat
    /\ simVs \in Nat \ {0} /\ simVt \in Nat \ {0}
    /\ splits \in Seq([sol : Nat, tokens : Nat])
    /\ i \in 0..number \/ (number = 0 /\ i = 1)
    /\ allocated \in 0..amount /\ left \in 0..amount
    /\ Finished => left = 0

\* The debug assertion at the end of get_splits (utils.rs:77), which a release
\* build does not contain: the splits add up to the amount.
SumExact == Finished => SumFunction(Sols) = amount

\* The comment on max_this_split, "leave enough for other wallets"
\* (utils.rs:63): each of those to come can still have half of what the one
\* before was due, although the deviations, multiplied by the index, are all
\* at their expense.
LeavesEnough == 0 < i /\ i < number => Base >= Due \div 2

\* Because a negative deviation is cast to 0, those to come pay for every
\* deviation and gain by none: what is left for each never exceeds an equal
\* part of the amount, so the last wallet gets at most that.
LastGetsLeast ==
    i < number => left <= (number - i) * ((amount + number - 1) \div number)

\* On average no wallet gets more than its share of the tokens, the purchases
\* being made one after the other on the curve the number was computed on.
AverageWithinShare == number > 0 => SumFunction(Tokens) <= number * share
=============================================================================
