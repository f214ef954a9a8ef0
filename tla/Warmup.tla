------------------------------- MODULE Warmup -------------------------------
(***************************************************************************)
(* How the wallets of a launch are funded: init_alloc_ixs and              *)
(* shadow_bundle of src/warmup/token_manager.rs, with buy_ixs and sell_ixs *)
(* of src/pumpfun/swap.rs.  The admin wraps the total, buys one token per  *)
(* wallet, sells each token into the wrapped SOL account of its wallet,    *)
(* and closes those accounts.  The admin's token accounts are shared by    *)
(* all launches that run.  Amounts are counted in what one wallet is       *)
(* worth, and prices do not move.                                          *)
(***************************************************************************)
EXTENDS Integers, FiniteSets, Functions

CONSTANTS Jobs,      \* launches running at the same time
          Wallets,   \* wallets of a launch, the developer's included
          NumMints,  \* tokens of init_mints (33)
          MaxLate    \* bound: transactions in flight after an error

ASSUME WarmupAssumption ==
    /\ IsFiniteSet(Jobs)
    /\ Wallets \in Nat \ {0} /\ NumMints \in Nat \ {0} /\ MaxLate \in Nat

\* Wallet i of a launch is paired with token i, while there is one.
Tokens == 0..NumMints-1
Paired == 0..Wallets-1 \cap Tokens

VARIABLES wsol,    \* the admin's wrapped SOL
          open,    \* the admin's wrapped SOL account exists
          tokens,  \* the admin's balance of each token
          phase,   \* the loop a launch is in
          at,      \* the wallet its loop is at, or -1
          todo,    \* the wallets the loop has still to visit
          tx,      \* the sale built and not yet sent, or NoTx
          ata,     \* [Jobs -> the wallets with a wrapped SOL account]
          got,     \* wrapped SOL of each wallet
          sol,     \* SOL of each wallet
          late     \* transactions that may land after their error

vars == <<wsol, open, tokens, phase, at, todo, tx, ata, got, sol, late>>
adminVars == <<wsol, open, tokens>>
walletVars == <<ata, got, sol>>

NoTx == [kind |-> "none"]

\* A sale creates the wallet's account; without that it does not sell.
BuyTx(j, i) == [kind |-> "buy", job |-> j, wallet |-> i]
SellTx(j, i, amount) == [kind |-> "sell", job |-> j, wallet |-> i, amount |-> amount]
FeeTx == [kind |-> "fee"]

Init ==
    /\ wsol = 0 /\ open = FALSE
    /\ tokens = [i \in Tokens |-> 0]
    /\ phase = [j \in Jobs |-> "wrap"]
    /\ at = [j \in Jobs |-> -1]
    /\ todo = [j \in Jobs |-> Paired]
    /\ tx = [j \in Jobs |-> NoTx]
    /\ ata = [j \in Jobs |-> {}]
    /\ got = [j \in Jobs |-> [i \in Paired |-> 0]]
    /\ sol = [j \in Jobs |-> [i \in Paired |-> 0]]
    /\ late = {}

-----------------------------------------------------------------------------
(* The chain. *)

\* The admin has what a sale sells.  Oversells takes no notice.
Oversells(t) == TRUE
Covered(t) == tokens[t.wallet] >= t.amount

\* Whether a transaction can execute, and what it does then.
Executes(t) ==
    CASE t.kind = "buy"  -> open /\ wsol >= 1
      [] t.kind = "sell" -> t.wallet \notin ata[t.job] /\ Covered(t)
      [] t.kind = "fee"  -> TRUE

Execute(t) ==
    /\ Executes(t)
    /\ wsol' = IF t.kind = "buy" THEN wsol - 1 ELSE wsol
    /\ tokens' =
         CASE t.kind = "buy"  -> [tokens EXCEPT ![t.wallet] = @ + 1]
           [] t.kind = "sell" -> [tokens EXCEPT ![t.wallet] = @ - t.amount]
           [] t.kind = "fee"  -> tokens
    /\ IF t.kind = "sell"
       THEN /\ ata' = [ata EXCEPT ![t.job] = @ \cup {t.wallet}]
            /\ got' = [got EXCEPT ![t.job][t.wallet] = @ + t.amount]
       ELSE UNCHANGED <<ata, got>>
    /\ UNCHANGED <<open, sol>>

\* A transaction whose confirmation failed lands after all, or expires.
LandLate(t) ==
    /\ t \in late
    /\ Execute(t)
    /\ late' = late \ {t}
    /\ UNCHANGED <<phase, at, todo, tx>>

Expire(t) ==
    /\ t \in late
    /\ late' = late \ {t}
    /\ UNCHANGED <<adminVars, phase, at, todo, tx, walletVars>>

-----------------------------------------------------------------------------
(* The loops of a launch. *)

\* for (wallet, swap_info) in the hash map: any order, each once.
Visit(j) ==
    /\ phase[j] \in {"buy", "sell", "close"} /\ at[j] = -1
    /\ \E i \in todo[j] : at' = [at EXCEPT ![j] = i]
    /\ UNCHANGED <<adminVars, phase, todo, tx, walletVars, late>>

Visited(j) ==
    /\ todo' = [todo EXCEPT ![j] = @ \ {at[j]}]
    /\ at' = [at EXCEPT ![j] = -1]

NextPhase == [buy |-> "sell", sell |-> "close", close |-> "closeAdmin"]

LoopEnds(j) ==
    /\ phase[j] \in DOMAIN NextPhase /\ at[j] = -1 /\ todo[j] = {}
    /\ phase' = [phase EXCEPT ![j] = NextPhase[phase[j]]]
    /\ todo' = [todo EXCEPT ![j] = Paired]
    /\ UNCHANGED <<adminVars, at, tx, walletVars, late>>

\* wrap_admin_sol and its unwrapped confirmation: the total is that of all
\* the wallets, paired or not.
Wrap(j) ==
    /\ phase[j] = "wrap"
    /\ \/ wsol' = wsol + Wallets /\ open' = TRUE
          /\ phase' \in {[phase EXCEPT ![j] = "buy"], [phase EXCEPT ![j] = "panicked"]}
       \/ UNCHANGED <<wsol, open>> /\ phase' = [phase EXCEPT ![j] = "panicked"]
    /\ UNCHANGED <<tokens, at, todo, tx, walletVars, late>>

\* An error is retried: the transaction did not execute, or it did, or it
\* still may.  AnyAnswer goes on to the next wallet.
AnyAnswer(j) == Visited(j)
Again(j) == UNCHANGED <<todo, at>>

Confirmed(j, t) == Execute(t) /\ Visited(j) /\ UNCHANGED late

NotConfirmed(j, t) ==
    /\ Again(j)
    /\ \/ Execute(t) /\ UNCHANGED late
       \/ UNCHANGED <<adminVars, walletVars, late>>
       \/ /\ Cardinality(late \cup {t}) <= MaxLate
          /\ late' = late \cup {t}
          /\ UNCHANGED <<adminVars, walletVars>>

SendBuy(j) ==
    /\ phase[j] = "buy" /\ at[j] # -1
    /\ Confirmed(j, BuyTx(j, at[j])) \/ NotConfirmed(j, BuyTx(j, at[j]))
    /\ UNCHANGED <<phase, tx>>

\* sell_ixs reads the admin's whole balance of the token.  While that is
\* zero the search for a route may go on for ever, or it quotes nothing.
\* The sale is left out when the wallet has an account already; Recreates
\* forgets to look.
Recreates(j) == FALSE
HasAccount(j) == at[j] \in ata[j]

BuildSale(j) ==
    /\ phase[j] = "sell" /\ at[j] # -1 /\ tx[j] = NoTx
    /\ tx' = [tx EXCEPT ![j] = IF HasAccount(j) THEN FeeTx
                               ELSE SellTx(j, at[j], tokens[at[j]])]
    /\ UNCHANGED <<adminVars, phase, at, todo, walletVars, late>>

SendSale(j) ==
    /\ phase[j] = "sell" /\ tx[j] # NoTx
    /\ Confirmed(j, tx[j]) \/ NotConfirmed(j, tx[j])
    /\ tx' = [tx EXCEPT ![j] = NoTx]
    /\ UNCHANGED phase

\* close_tx: the wallet closes its account and has its SOL.  A failure is
\* logged, whether the account was closed or not.
CloseWallet(j) ==
    /\ phase[j] = "close" /\ at[j] # -1
    /\ Visited(j)
    /\ LET i == at[j]
       IN  \/ /\ i \in ata[j]
              /\ ata' = [ata EXCEPT ![j] = @ \ {i}]
              /\ sol' = [sol EXCEPT ![j][i] = @ + got[j][i]]
              /\ got' = [got EXCEPT ![j][i] = 0]
           \/ UNCHANGED walletVars
    /\ UNCHANGED <<adminVars, phase, tx, late>>

\* close_admin_wsol: whatever the account holds goes back to the admin.
CloseAdmin(j) ==
    /\ phase[j] = "closeAdmin"
    /\ phase' = [phase EXCEPT ![j] = "done"]
    /\ \/ open /\ open' = FALSE /\ wsol' = 0
       \/ UNCHANGED <<open, wsol>>
    /\ UNCHANGED <<tokens, at, todo, tx, walletVars, late>>

\* A blockhash, a balance or a creator that cannot be read is unwrapped.
Panic(j) ==
    /\ phase[j] \in {"buy", "sell", "close", "closeAdmin"}
    /\ phase' = [phase EXCEPT ![j] = "panicked"]
    /\ tx' = [tx EXCEPT ![j] = NoTx]
    /\ UNCHANGED <<adminVars, at, todo, walletVars, late>>

Step(j) ==
    \/ Wrap(j) \/ Visit(j) \/ LoopEnds(j) \/ SendBuy(j)
    \/ BuildSale(j) \/ SendSale(j) \/ CloseWallet(j) \/ CloseAdmin(j)

Next ==
    \/ \E j \in Jobs : Step(j) \/ Panic(j)
    \/ \E t \in late : LandLate(t) \/ Expire(t)

\* pumpswap_pool_id asks for a route until it is given one; nothing ends that
\* search while there is nothing to sell.
SearchEnds(j) ==
    phase[j] = "sell" /\ at[j] # -1 /\ tx[j] = NoTx => tokens[at[j]] > 0

\* The task runs.  Of a transaction sent for ever, not every one is lost and
\* not every confirmation fails, when it can execute at all.
Spec ==
    /\ Init /\ [][Next]_vars
    /\ \A j \in Jobs :
         /\ WF_vars(Step(j) /\ SearchEnds(j))
         /\ SF_vars(SendBuy(j) /\ todo'[j] # todo[j])
         /\ SF_vars(SendSale(j) /\ todo'[j] # todo[j])

-----------------------------------------------------------------------------
(* Properties. *)

\* Every variable keeps to its set of values, and no balance is negative.
TypeOK ==
    /\ wsol \in Nat /\ open \in BOOLEAN
    /\ tokens \in [Tokens -> Nat]
    /\ phase \in [Jobs -> {"wrap", "buy", "sell", "close", "closeAdmin", "done", "panicked"}]
    /\ at \in [Jobs -> {-1} \cup Paired]
    /\ todo \in [Jobs -> SUBSET Paired]
    /\ ata \in [Jobs -> SUBSET Paired]
    /\ got \in [Jobs -> [Paired -> Nat]] /\ sol \in [Jobs -> [Paired -> Nat]]
    /\ Cardinality(late) <= MaxLate

\* Once the loops are through, every paired wallet has been given at least
\* its amount, although transactions are lost, land late or land unseen, as
\* long as no other launch has started.
Alone(j) == \A k \in Jobs \ {j} : phase[k] = "wrap"

Funded(j) ==
    phase[j] \in {"close", "closeAdmin", "done"} /\ Alone(j) =>
        \A i \in Paired : got[j][i] + sol[j][i] >= 1

\* Launches that run together may take each other's tokens, but none of those
\* bought is lost: it is the admin's still, or with a wallet it is paired with.
Bought(i) ==
    {j \in Jobs : phase[j] \in {"sell", "close", "closeAdmin", "done"}
                    \/ (phase[j] = "buy" /\ i \notin todo[j])}

Held(i) == SumFunction([j \in Jobs |-> got[j][i] + sol[j][i]])

Accounted == \A i \in Paired : tokens[i] + Held(i) >= Cardinality(Bought(i))

\* Between them the launches lose no token: a launch on its own funds all its
\* wallets, and launches that run together only swap what was bought
\* (token_manager.rs:60-230).
NoTokenLost == (\A j \in Jobs : Funded(j)) /\ Accounted

\* The warm-up ends, or it spins for ever in one of two loops: buying with
\* nothing left to pay, or selling a token of which the admin has none.
NothingToPay(j)  == phase[j] = "buy" /\ wsol = 0
NothingToSell(j) == phase[j] = "sell" /\ at[j] # -1 /\ tokens[at[j]] = 0

EndsOrSpins ==
    \A j \in Jobs :
        \/ <>(phase[j] \in {"done", "panicked"})
        \/ <>[]NothingToPay(j) \/ <>[]NothingToSell(j)
==============================================================================
