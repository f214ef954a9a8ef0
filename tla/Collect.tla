------------------------------- MODULE Collect -------------------------------
(***************************************************************************)
(* One call of recursive_pay (src/solana/recursive_pay.rs), by which       *)
(* /free-pay collects an amount, and /sell-all and /withdraw collect all   *)
(* the SOL of a mint's wallets.  It reads the balances one by one, builds  *)
(* one bundle from what it read, and asks the engine what became of it.    *)
(* The balances are the chain's: sales, refunds and other collections      *)
(* change them at any time.  The packing into transactions is left to      *)
(* CollectBundle, the polling is what Submission promises a caller without *)
(* a client.                                                               *)
(***************************************************************************)
EXTENDS PayTx, FiniteSets

CONSTANTS Wallets,    \* wallets with a key file below accounts/<user>/<mint>
          Balances,   \* what a wallet may hold
          Asked,      \* amounts asked for with /free-pay
          All,        \* asked for: whatever there is
          Rent,       \* the rent-exempt minimum of an account without data
          Guard,      \* 3000000, what a withdrawal wants per wallet
          Tip         \* 2000000

\* No wallet holds less than the rent-exempt minimum unless it is empty: the
\* chain accepts no other balance.
ASSUME CollectAssumption ==
    /\ Rent \in Nat /\ Guard \in Nat /\ Tip \in Nat
    /\ Guard > Rent + Tip
    /\ Balances \subseteq Nat /\ Asked \subseteq Nat
    /\ \A b \in Balances : b = 0 \/ b >= Rent
    /\ All \notin Nat
    /\ IsFiniteSet(Wallets)

VARIABLES sol,        \* the balance of each wallet on the chain
          toUser,     \* ~with_admin_transfer: only /withdraw pays the user
          asked,      \* lamports: Some(amount), or All for None
          pc,
          left,       \* key files not yet visited
          remaining,  \* remaining_lamports; All when all is asked for
          available,  \* total_available
          total,      \* total_wallets_balance
          count,      \* wallet_count
          ixs,        \* the transfers: wallets to amounts
          fate,       \* of the bundle, as in Submission
          moved,      \* lamports the transfers moved
          answer

callVars == <<toUser, asked>>
loopVars == <<left, remaining, available, total, count, ixs>>
chainVars == <<sol, fate, moved>>
vars == <<callVars, pc, loopVars, chainVars, answer>>

NoTransfers == [w \in {} |-> 0]

\* /free-pay asks for an amount, for the admin; the others for all there is.
Init ==
    /\ sol \in [Wallets -> Balances]
    /\ \/ asked \in Asked /\ toUser = FALSE
       \/ asked = All /\ toUser \in BOOLEAN
    /\ pc = "open"
    /\ left = Wallets
    /\ remaining = asked /\ available = 0
    /\ total = 0 /\ count = 0
    /\ ixs = NoTransfers
    /\ fate = "unsent" /\ moved = 0
    /\ answer = "none"

-----------------------------------------------------------------------------
(* The code. *)

Return(a) == answer' = a /\ pc' = "done"

\* read_dir; without the directory the call answers false.
OpenDir ==
    /\ pc = "open"
    /\ \/ pc' = "read" /\ UNCHANGED answer
       \/ Return("false")
    /\ UNCHANGED <<callVars, loopVars, chainVars>>

\* The loop breaks at the first entry after the amount is covered.
Covered == remaining = 0
Visiting(w) == pc = "read" /\ ~Covered /\ w \in left

\* A directory entry or a balance that cannot be read is passed over.
SkipWallet(w) ==
    /\ Visiting(w)
    /\ left' = left \ {w}
    /\ UNCHANGED <<callVars, pc, remaining, available, total, count, ixs, chainVars, answer>>

\* transfer_amount of a wallet that holds b.  TakesAll forgets the minimum.
TakesAll(b) == b - Rent
Taken(b) == IF remaining = All \/ remaining > b - Rent THEN b - Rent ELSE remaining

Minus(r, amount) == IF r = All THEN All ELSE IF r > amount THEN r - amount ELSE 0

\* The instruction pushed for w.
WithTransfer(w, b, amount) == [v \in DOMAIN ixs \cup {w} |-> IF v = w THEN amount ELSE ixs[v]]

ReadWallet(w) ==
    LET b == sol[w]  amount == Taken(b)
    IN  /\ Visiting(w)
        /\ left' = left \ {w}
        /\ total' = total + b
        /\ count' = count + 1
        /\ IF b < Rent
           THEN UNCHANGED <<remaining, available, ixs>>
           ELSE /\ remaining' = Minus(remaining, amount)
                /\ available' = available + amount
                /\ ixs' = WithTransfer(w, b, amount)
        /\ UNCHANGED <<callVars, pc, chainVars, answer>>

\* The checks behind the loop.  NeverShort collects what it can get,
\* PoorByTotal forgets the number of wallets.
NeverShort == FALSE
Short == remaining # All /\ remaining > 0
PoorByTotal == total < Guard
Poor == total < Guard * count

EndRead ==
    /\ pc = "read" /\ (left = {} \/ Covered)
    /\ IF Short \/ (toUser /\ Poor)
       THEN Return("false")
       ELSE pc' = "send" /\ UNCHANGED answer
    /\ UNCHANGED <<callVars, loopVars, chainVars>>

\* A blockhash is read for every instruction.
NoBlockhash ==
    /\ pc = "send"
    /\ Return("false")
    /\ UNCHANGED <<callVars, loopVars, chainVars>>

\* send_bundle: a call that fails is unwrapped, whether the engine has the
\* bundle or not; a bundle that is too long is refused, without a UUID to
\* poll for; any other is taken.
Refused == TxsNeeded(Cardinality(DOMAIN ixs), toUser) > MaxTxs
SendBundle ==
    /\ pc = "send"
    /\ \/ ~Refused /\ fate' = "inflight" /\ (Return("gone") \/ (pc' = "poll" /\ UNCHANGED answer))
       \/ fate' = "dropped" /\ Return("gone")
       \/ Refused /\ fate' = "dropped" /\ Return("false")
    /\ UNCHANGED <<callVars, loopVars, sol, moved>>

\* The verdict of validate_bundle as a boolean.  AlwaysTrue drops it.
AlwaysTrue(verdict) == "true"
Result(verdict) == IF verdict = "ok" THEN "true" ELSE "false"

\* The polling, as far as Submission promises anything to a caller without a
\* client: it ends, and an Ok means that the bundle landed.
Engine == INSTANCE Submission
              WITH caller <- "plain", curve <- "live",
                   verdict <- CASE answer = "true" -> "ok" [] answer = "none" -> "none"
                                [] OTHER -> "err"
Answered(verdict) == Return(Result(verdict))

PollOk ==
    /\ pc = "poll" /\ Engine!OkEarned
    /\ Answered("ok")
    /\ UNCHANGED <<callVars, loopVars, chainVars>>
PollErr ==
    /\ pc = "poll"
    /\ Answered("err")
    /\ UNCHANGED <<callVars, loopVars, chainVars>>

\* An unreadable key file, no tip account, or a stop of the server.
Stop ==
    /\ pc # "done"
    /\ Return("gone")
    /\ UNCHANGED <<callVars, loopVars, chainVars>>

-----------------------------------------------------------------------------
(* The chain. *)

\* A bundle is atomic.  It lands only if every wallet still holds its amount
\* and keeps nothing or the rent-exempt minimum.
Payable(w) == sol[w] = ixs[w] \/ sol[w] - ixs[w] >= Rent

Land ==
    /\ fate = "inflight"
    /\ \A w \in DOMAIN ixs : Payable(w)
    /\ fate' = "landed"
    /\ moved' = moved + available
    /\ sol' = [w \in Wallets |-> IF w \in DOMAIN ixs THEN sol[w] - ixs[w] ELSE sol[w]]
    /\ UNCHANGED <<callVars, pc, loopVars, answer>>

Drop ==
    /\ fate = "inflight"
    /\ fate' = "dropped"
    /\ UNCHANGED <<callVars, pc, loopVars, sol, moved, answer>>

\* Any other use of the wallet.
OtherUse(w) ==
    /\ \E b \in Balances : sol' = [sol EXCEPT ![w] = b]
    /\ UNCHANGED <<callVars, pc, loopVars, fate, moved, answer>>

-----------------------------------------------------------------------------

Code ==
    \/ OpenDir
    \/ \E w \in Wallets : SkipWallet(w) \/ ReadWallet(w)
    \/ EndRead \/ NoBlockhash \/ SendBundle
    \/ PollOk \/ PollErr
Chain == Land \/ Drop \/ \E w \in Wallets : OtherUse(w)

Next == Code \/ Stop \/ Chain

Spec == Init /\ [][Next]_vars /\ WF_vars(Code)

-----------------------------------------------------------------------------
(* Properties. *)

\* Every variable keeps to its set, only wallets that were visited pay, and
\* an amount asked for is split without loss into what is still missing and
\* what the transfers bring.
TypeOK ==
    /\ sol \in [Wallets -> Nat]
    /\ toUser \in BOOLEAN /\ asked \in Asked \cup {All}
    /\ pc \in {"open", "read", "send", "poll", "done"}
    /\ left \subseteq Wallets
    /\ available \in Nat /\ total \in Nat /\ count \in Nat
    /\ remaining \in Nat \cup {All}
    /\ IF asked = All THEN remaining = All
                      ELSE remaining \in Nat /\ remaining + available = asked
    /\ DOMAIN ixs \subseteq Wallets \ left
    /\ \A w \in DOMAIN ixs : ixs[w] \in Nat
    /\ fate \in {"unsent", "inflight", "landed", "dropped"}
    /\ moved \in Nat
    /\ answer \in {"none", "true", "false", "gone"}
    /\ pc = "done" <=> answer # "none"

\* The recipient gets exactly what was asked for or nothing, whatever happens
\* to the wallets while the balances are read, and however late it lands.
PaidExactly ==
    /\ fate # "landed" => moved = 0
    /\ fate = "landed" /\ asked # All => moved = asked

\* A withdrawal is sent only when it brings more than the tip for each wallet
\* that could be read.
WorthTheTip == toUser /\ fate # "unsent" /\ count > 0 => available > Tip * count

Contract == INSTANCE Payment WITH paid <- fate = "landed"

\* The call keeps the promise of Payment.
ImplementsPayment == Contract!PaySpec
==============================================================================
