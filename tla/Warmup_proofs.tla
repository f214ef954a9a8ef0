--------------------------- MODULE Warmup_proofs ---------------------------
(***************************************************************************)
(* Proofs about Warmup, for every set of launches, every number of wallets *)
(* and tokens and every bound on the transactions in flight: the variables *)
(* keep to their sets, no token is lost between launches, and a launch     *)
(* that runs on its own funds all its wallets.                             *)
(***************************************************************************)
EXTENDS Warmup, SumTheorems, FiniteSetTheorems, TLAPS

-----------------------------------------------------------------------------
(* The transactions, and where each variable is. *)

Buys == [kind : {"buy"}, job : Jobs, wallet : Paired]
Sales == [kind : {"sell"}, job : Jobs, wallet : Paired, amount : Nat]
Sent == Buys \cup Sales \cup {FeeTx}

\* A launch visits a wallet of its list, has a sale built only for that
\* wallet, and has no account for wrapped SOL before it sells.
Visiting(j) ==
    /\ at[j] # -1 => at[j] \in todo[j]
    /\ tx[j] # NoTx => phase[j] = "sell" /\ at[j] # -1
    /\ tx[j].kind = "sell" => tx[j].job = j /\ tx[j].wallet = at[j]
    /\ phase[j] = "wrap" => todo[j] = Paired /\ at[j] = -1
    /\ phase[j] \in {"wrap", "buy"} => ata[j] = {}

\* What is in flight was sent by a launch that has come so far.
InFlight(t) ==
    /\ t.kind = "buy" => phase[t.job] # "wrap"
    /\ t.kind = "sell" => phase[t.job] \notin {"wrap", "buy"}

WInv ==
    /\ TypeOK
    /\ IsFiniteSet(late) /\ late \subseteq Sent
    /\ tx \in [Jobs -> {NoTx, FeeTx} \cup Sales]
    /\ \A j \in Jobs : Visiting(j)
    /\ \A t \in late : InFlight(t)

\* A wallet is the number of a token, and none is the mark of no wallet.
LEMMA PairedTokens == Paired \subseteq Tokens /\ Paired \subseteq Nat /\ -1 \notin Paired
  BY WarmupAssumption DEF Paired, Tokens

\* The three kinds of transactions.
LEMMA Kinds ==
    /\ \A t \in Sent : \/ t \in Buys /\ t.kind = "buy"
                       \/ t \in Sales /\ t.kind = "sell"
                       \/ t = FeeTx /\ t.kind = "fee"
    /\ \A t \in Buys : t.job \in Jobs /\ t.wallet \in Paired
    /\ \A t \in Sales : t.kind = "sell" /\ t.job \in Jobs /\ t.wallet \in Paired /\ t.amount \in Nat
    /\ \A j \in Jobs, i \in Paired : BuyTx(j, i) \in Buys /\ BuyTx(j, i).job = j /\ BuyTx(j, i).wallet = i
    /\ \A j \in Jobs, i \in Paired, a \in Nat :
           SellTx(j, i, a) \in Sales /\ SellTx(j, i, a).job = j /\ SellTx(j, i, a).wallet = i
    /\ NoTx # FeeTx /\ NoTx.kind = "none" /\ FeeTx.kind = "fee" /\ NoTx \notin Sales
    /\ FeeTx \notin Sales
  BY DEF Sent, Buys, Sales, FeeTx, NoTx, BuyTx, SellTx

\* What a purchase and a sale do to the balances.
LEMMA Executed ==
    ASSUME NEW t \in Sent, Execute(t)
    PROVE  /\ sol' = sol /\ open' = open
           /\ t.kind = "buy" =>
                  /\ t \in Buys /\ wsol >= 1 /\ wsol' = wsol - 1
                  /\ tokens' = [tokens EXCEPT ![t.wallet] = @ + 1]
                  /\ UNCHANGED <<ata, got>>
           /\ t.kind = "sell" =>
                  /\ t \in Sales /\ wsol' = wsol
                  /\ tokens[t.wallet] >= t.amount /\ t.wallet \notin ata[t.job]
                  /\ tokens' = [tokens EXCEPT ![t.wallet] = @ - t.amount]
                  /\ ata' = [ata EXCEPT ![t.job] = @ \cup {t.wallet}]
                  /\ got' = [got EXCEPT ![t.job][t.wallet] = @ + t.amount]
           /\ t.kind = "fee" => UNCHANGED <<wsol, tokens, ata, got>>
<1>1. CASE t \in Buys /\ t.kind = "buy"
  BY <1>1 DEF Execute, Executes
<1>2. CASE t \in Sales /\ t.kind = "sell"
  BY <1>2 DEF Execute, Executes, Covered
<1>3. CASE t = FeeTx /\ t.kind = "fee"
  BY <1>3 DEF Execute, Executes
<1>. QED BY <1>1, <1>2, <1>3, Kinds

\* The balances keep to their sets.
Balances ==
    /\ wsol \in Nat /\ open \in BOOLEAN
    /\ tokens \in [Tokens -> Nat]
    /\ ata \in [Jobs -> SUBSET Paired]
    /\ got \in [Jobs -> [Paired -> Nat]] /\ sol \in [Jobs -> [Paired -> Nat]]

LEMMA ExecuteTypes ==
    ASSUME Balances, NEW t \in Sent, Execute(t)
    PROVE  Balances'
<1>. USE DEF Balances
<1>1. CASE t.kind = "buy"
  <2>1. /\ sol' = sol /\ open' = open /\ wsol >= 1 /\ wsol' = wsol - 1
        /\ tokens' = [tokens EXCEPT ![t.wallet] = @ + 1] /\ ata' = ata /\ got' = got
    BY <1>1, Executed, Zenon
  <2>2. t.wallet \in Tokens
    BY <1>1, Kinds, PairedTokens
  <2>3. tokens' \in [Tokens -> Nat] /\ wsol' \in Nat
    BY <2>1, <2>2
  <2>. QED BY <2>1, <2>3
<1>2. CASE t.kind = "sell"
  <2>1. /\ sol' = sol /\ open' = open /\ wsol' = wsol /\ tokens[t.wallet] >= t.amount
        /\ tokens' = [tokens EXCEPT ![t.wallet] = @ - t.amount]
        /\ ata' = [ata EXCEPT ![t.job] = @ \cup {t.wallet}]
        /\ got' = [got EXCEPT ![t.job][t.wallet] = @ + t.amount]
    BY <1>2, Executed, Zenon
  <2>2. t.wallet \in Tokens /\ t.wallet \in Paired /\ t.job \in Jobs /\ t.amount \in Nat
    BY <1>2, Kinds, PairedTokens
  <2>3. tokens[t.wallet] - t.amount \in Nat /\ got[t.job][t.wallet] + t.amount \in Nat
    BY <2>1, <2>2
  <2>4. tokens' \in [Tokens -> Nat]
    BY <2>1, <2>3
  <2>5. got' \in [Jobs -> [Paired -> Nat]]
    BY <2>1, <2>3
  <2>6. ata' \in [Jobs -> SUBSET Paired]
    BY <2>1, <2>2
  <2>. QED BY <2>1, <2>4, <2>5, <2>6
<1>3. CASE t.kind = "fee"
  BY <1>3, Executed
<1>. QED BY <1>1, <1>2, <1>3, Kinds

\* What a transaction that was sent does to the chain: it executes, or not,
\* or stays in flight.
ChainStep(t) ==
    \/ Execute(t) /\ UNCHANGED late
    \/ UNCHANGED <<adminVars, walletVars, late>>
    \/ /\ Cardinality(late \cup {t}) <= MaxLate
       /\ late' = late \cup {t}
       /\ UNCHANGED <<adminVars, walletVars>>

InSets == Balances /\ IsFiniteSet(late) /\ late \subseteq Sent /\ Cardinality(late) <= MaxLate

LEMMA ChainTypes ==
    ASSUME InSets, NEW t \in Sent, ChainStep(t)
    PROVE  InSets'
<1>1. CASE Execute(t) /\ UNCHANGED late
  BY <1>1, ExecuteTypes DEF InSets
<1>2. CASE UNCHANGED <<adminVars, walletVars, late>>
  BY <1>2 DEF InSets, Balances, adminVars, walletVars
<1>3. CASE /\ Cardinality(late \cup {t}) <= MaxLate
           /\ late' = late \cup {t}
           /\ UNCHANGED <<adminVars, walletVars>>
  <2>1. IsFiniteSet(late \cup {t})
    BY FS_AddElement DEF InSets
  <2>. QED BY <1>3, <2>1 DEF InSets, Balances, adminVars, walletVars
<1>. QED BY <1>1, <1>2, <1>3 DEF ChainStep

\* An account for wrapped SOL comes only with a sale, and only its wallet.
LEMMA ChainAccounts ==
    ASSUME InSets, NEW t \in Sent, ChainStep(t)
    PROVE  /\ \A k \in Jobs : t.kind # "sell" \/ k # t.job => ata'[k] = ata[k]
           /\ \A u \in late' : u \in late \/ u = t
<1>1. CASE Execute(t) /\ UNCHANGED late
  <2>1. CASE t.kind = "sell"
    <3>1. ata' = [ata EXCEPT ![t.job] = @ \cup {t.wallet}]
      BY <1>1, <2>1, Executed, Zenon
    <3>. QED BY <1>1, <2>1, <3>1 DEF InSets, Balances
  <2>2. CASE t.kind # "sell"
    <3>1. ata' = ata
      BY <1>1, <2>2, Executed, Kinds
    <3>. QED BY <1>1, <2>2, <3>1
  <2>. QED BY <2>1, <2>2
<1>2. CASE ~Execute(t)
  BY <1>2 DEF ChainStep, walletVars
<1>. QED BY <1>1, <1>2 DEF ChainStep, walletVars

-----------------------------------------------------------------------------
(* Type correctness. *)

Phases == {"wrap", "buy", "sell", "close", "closeAdmin", "done", "panicked"}
Control ==
    /\ phase \in [Jobs -> Phases]
    /\ at \in [Jobs -> {-1} \cup Paired]
    /\ todo \in [Jobs -> SUBSET Paired]
    /\ tx \in [Jobs -> {NoTx, FeeTx} \cup Sales]

LEMMA WInvParts ==
    WInv <=> /\ Control /\ InSets
             /\ \A j \in Jobs : Visiting(j)
             /\ \A t \in late : InFlight(t)
  BY DEF WInv, TypeOK, Control, Phases, InSets, Balances

\* What a step of a launch may change: its own place, and not back to where
\* it had not bought or sold yet.
OwnChange(j) ==
    /\ Control' /\ InSets' /\ Visiting(j)'
    /\ \A k \in Jobs \ {j} : /\ phase'[k] = phase[k] /\ at'[k] = at[k] /\ todo'[k] = todo[k]
                             /\ tx'[k] = tx[k] /\ ata'[k] = ata[k]
    /\ phase'[j] = "wrap" => phase[j] = "wrap"
    /\ phase'[j] = "buy" => phase[j] \in {"wrap", "buy"}
    /\ \A u \in late' : u \in late \/ (u \in Sent /\ (u.kind # "fee" => u.job = j) /\ InFlight(u)')

LEMMA OwnStep ==
    ASSUME WInv, NEW j \in Jobs, OwnChange(j)
    PROVE  WInv'
<1>. USE DEF OwnChange
<1>1. \A k \in Jobs : Visiting(k)'
  <2>. SUFFICES ASSUME NEW k \in Jobs \ {j} PROVE Visiting(k)'
    OBVIOUS
  <2>. QED BY WInvParts DEF Visiting
<1>2. \A u \in late : InFlight(u)'
  <2>. SUFFICES ASSUME NEW u \in late PROVE InFlight(u)'
    OBVIOUS
  <2>1. InFlight(u) /\ u \in Sent
    BY WInvParts DEF InSets
  <2>2. CASE u.kind = "fee"
    BY <2>2 DEF InFlight
  <2>3. CASE u.kind # "fee"
    <3>1. u.job \in Jobs
      BY <2>1, <2>3, Kinds
    <3>. QED BY <2>1, <3>1 DEF InFlight
  <2>. QED BY <2>2, <2>3
<1>3. \A u \in late' : InFlight(u)'
  BY <1>2
<1>. QED BY <1>1, <1>3 DEF WInv, TypeOK, Control, Phases, InSets, Balances

LEMMA WrapTypes == ASSUME WInv, NEW j \in Jobs, Wrap(j) PROVE WInv'
<1>1. Control /\ InSets /\ Visiting(j)
  BY WInvParts
<1>2. /\ UNCHANGED <<tokens, at, todo, tx, ata, got, sol, late>>
      /\ phase[j] = "wrap"
      /\ phase' = [phase EXCEPT ![j] = "buy"] \/ phase' = [phase EXCEPT ![j] = "panicked"]
      /\ (wsol' = wsol + Wallets /\ open' = TRUE) \/ UNCHANGED <<wsol, open>>
  BY DEF Wrap, walletVars
<1>3. InSets'
  <2>0. Balances /\ IsFiniteSet(late) /\ late \subseteq Sent /\ Cardinality(late) <= MaxLate
    BY <1>1 DEF InSets
  <2>1. wsol' \in Nat
    BY <1>1, <1>2, WarmupAssumption DEF InSets, Balances
  <2>2. open' \in BOOLEAN
    BY <1>2, <2>0 DEF Balances
  <2>. QED BY <1>2, <2>0, <2>1, <2>2 DEF InSets, Balances
<1>4. Control'
  BY <1>1, <1>2 DEF Control, Phases
<1>5. phase'[j] \in {"buy", "panicked"} /\ \A k \in Jobs \ {j} : phase'[k] = phase[k]
  BY <1>1, <1>2 DEF Control
<1>6. Visiting(j)'
  BY <1>1, <1>2, <1>5 DEF Visiting
<1>q. OwnChange(j)
  BY <1>2, <1>3, <1>4, <1>5, <1>6 DEF OwnChange
<1>. QED BY <1>q, OwnStep

LEMMA PanicTypes == ASSUME WInv, NEW j \in Jobs, Panic(j) PROVE WInv'
<1>1. Control /\ InSets /\ Visiting(j)
  BY WInvParts
<1>2. /\ UNCHANGED <<wsol, open, tokens, at, todo, ata, got, sol, late>>
      /\ phase[j] # "wrap"
      /\ phase' = [phase EXCEPT ![j] = "panicked"] /\ tx' = [tx EXCEPT ![j] = NoTx]
  BY DEF Panic, adminVars, walletVars
<1>3. InSets'
  BY <1>1, <1>2 DEF InSets, Balances
<1>4. Control'
  BY <1>1, <1>2 DEF Control, Phases
<1>5. /\ phase'[j] = "panicked" /\ tx'[j] = NoTx
      /\ \A k \in Jobs \ {j} : phase'[k] = phase[k] /\ tx'[k] = tx[k]
  BY <1>1, <1>2 DEF Control
<1>6. Visiting(j)'
  BY <1>1, <1>2, <1>5, Kinds DEF Visiting
<1>q. OwnChange(j)
  BY <1>2, <1>3, <1>4, <1>5, <1>6 DEF OwnChange
<1>. QED BY <1>q, OwnStep

LEMMA VisitTypes == ASSUME WInv, NEW j \in Jobs, Visit(j) PROVE WInv'
<1>1. Control /\ InSets /\ Visiting(j)
  BY WInvParts
<1>2. PICK i \in todo[j] : at' = [at EXCEPT ![j] = i]
  BY DEF Visit
<1>3. /\ UNCHANGED <<wsol, open, tokens, phase, todo, tx, ata, got, sol, late>>
      /\ phase[j] # "wrap" /\ at[j] = -1 /\ i \in Paired
  BY <1>1, <1>2 DEF Visit, adminVars, walletVars, Control
<1>4. InSets'
  BY <1>1, <1>3 DEF InSets, Balances
<1>5. Control'
  BY <1>1, <1>2, <1>3 DEF Control
<1>6. at'[j] = i /\ \A k \in Jobs \ {j} : at'[k] = at[k]
  BY <1>1, <1>2 DEF Control
<1>7. tx[j] = NoTx
  BY <1>1, <1>3 DEF Visiting
<1>8. Visiting(j)'
  BY <1>1, <1>3, <1>6, <1>7, Kinds DEF Visiting
<1>q. OwnChange(j)
  BY <1>3, <1>4, <1>5, <1>6, <1>8 DEF OwnChange
<1>. QED BY <1>q, OwnStep

LEMMA LoopEndsTypes == ASSUME WInv, NEW j \in Jobs, LoopEnds(j) PROVE WInv'
<1>1. Control /\ InSets /\ Visiting(j)
  BY WInvParts
<1>2. /\ UNCHANGED <<wsol, open, tokens, at, tx, ata, got, sol, late>>
      /\ phase[j] \in DOMAIN NextPhase /\ at[j] = -1
      /\ phase' = [phase EXCEPT ![j] = NextPhase[phase[j]]]
      /\ todo' = [todo EXCEPT ![j] = Paired]
  BY DEF LoopEnds, adminVars, walletVars
<1>3. NextPhase[phase[j]] \in {"sell", "close", "closeAdmin"}
  BY <1>2 DEF NextPhase
<1>4. InSets'
  BY <1>1, <1>2 DEF InSets, Balances
<1>5. Control'
  BY <1>1, <1>2, <1>3 DEF Control, Phases
<1>6. /\ phase'[j] \in {"sell", "close", "closeAdmin"} /\ todo'[j] = Paired
      /\ \A k \in Jobs \ {j} : phase'[k] = phase[k] /\ todo'[k] = todo[k]
  BY <1>1, <1>2, <1>3 DEF Control
<1>7. tx[j] = NoTx
  BY <1>1, <1>2 DEF Visiting
<1>8. Visiting(j)'
  BY <1>1, <1>2, <1>6, <1>7, Kinds DEF Visiting
<1>q. OwnChange(j)
  BY <1>2, <1>4, <1>5, <1>6, <1>8 DEF OwnChange
<1>. QED BY <1>q, OwnStep

LEMMA BuildTypes == ASSUME WInv, NEW j \in Jobs, BuildSale(j) PROVE WInv'
<1>. DEFINE t == IF HasAccount(j) THEN FeeTx ELSE SellTx(j, at[j], tokens[at[j]])
<1>1. Control /\ InSets /\ Visiting(j)
  BY WInvParts
<1>2. /\ UNCHANGED <<wsol, open, tokens, phase, at, todo, ata, got, sol, late>>
      /\ phase[j] = "sell" /\ at[j] # -1
      /\ tx' = [tx EXCEPT ![j] = t]
  BY DEF BuildSale, adminVars, walletVars
<1>3. at[j] \in Paired /\ tokens[at[j]] \in Nat
  BY <1>1, <1>2, PairedTokens DEF Control, InSets, Balances
<1>4. \/ t = FeeTx /\ t.kind = "fee"
      \/ t \in Sales /\ t.job = j /\ t.wallet = at[j]
  BY <1>3, Kinds
<1>. HIDE DEF t
<1>5. InSets'
  BY <1>1, <1>2 DEF InSets, Balances
<1>6. Control'
  BY <1>1, <1>2, <1>4 DEF Control
<1>7. tx'[j] = t /\ \A k \in Jobs \ {j} : tx'[k] = tx[k]
  BY <1>1, <1>2 DEF Control
<1>8. Visiting(j)'
  BY <1>1, <1>2, <1>4, <1>7 DEF Visiting
<1>q. OwnChange(j)
  BY <1>2, <1>5, <1>6, <1>7, <1>8 DEF OwnChange
<1>. QED BY <1>q, OwnStep

LEMMA CloseWalletTypes == ASSUME WInv, NEW j \in Jobs, CloseWallet(j) PROVE WInv'
<1>1. Control /\ InSets /\ Visiting(j)
  BY WInvParts
<1>. DEFINE i == at[j]
<1>2. /\ UNCHANGED <<wsol, open, tokens, phase, tx, late>>
      /\ phase[j] = "close" /\ i # -1 /\ Visited(j)
      /\ \/ /\ ata' = [ata EXCEPT ![j] = @ \ {i}]
            /\ sol' = [sol EXCEPT ![j][i] = @ + got[j][i]]
            /\ got' = [got EXCEPT ![j][i] = 0]
         \/ UNCHANGED <<ata, got, sol>>
  BY DEF CloseWallet, adminVars, walletVars
<1>3. i \in Paired
  BY <1>1, <1>2 DEF Control
<1>4. Balances /\ sol[j][i] + got[j][i] \in Nat
  BY <1>1, <1>3 DEF InSets, Balances
<1>5. /\ sol' \in [Jobs -> [Paired -> Nat]] /\ got' \in [Jobs -> [Paired -> Nat]]
      /\ ata' \in [Jobs -> SUBSET Paired] /\ \A k \in Jobs \ {j} : ata'[k] = ata[k]
  <2>1. CASE UNCHANGED <<ata, got, sol>>
    BY <1>4, <2>1 DEF Balances
  <2>2. CASE /\ ata' = [ata EXCEPT ![j] = @ \ {i}]
             /\ sol' = [sol EXCEPT ![j][i] = @ + got[j][i]]
             /\ got' = [got EXCEPT ![j][i] = 0]
    <3>1. ata[j] \ {i} \in SUBSET Paired
      BY <1>4 DEF Balances
    <3>. HIDE DEF i
    <3>2. sol' \in [Jobs -> [Paired -> Nat]]
      BY <1>3, <1>4, <2>2 DEF Balances
    <3>3. got' \in [Jobs -> [Paired -> Nat]]
      BY <1>3, <1>4, <2>2 DEF Balances
    <3>4. ata' \in [Jobs -> SUBSET Paired] /\ \A k \in Jobs \ {j} : ata'[k] = ata[k]
      BY <1>4, <2>2, <3>1 DEF Balances
    <3>. QED BY <3>2, <3>3, <3>4
  <2>. QED BY <1>2, <2>1, <2>2
<1>6. InSets'
  BY <1>1, <1>2, <1>5 DEF InSets, Balances
<1>7. /\ Control' /\ at'[j] = -1
      /\ \A k \in Jobs \ {j} : at'[k] = at[k] /\ todo'[k] = todo[k]
  BY <1>1, <1>2 DEF Visited, Control
<1>8. tx[j] = NoTx
  BY <1>1, <1>2 DEF Visiting
<1>9. Visiting(j)'
  BY <1>2, <1>7, <1>8, Kinds DEF Visiting
<1>q. OwnChange(j)
  BY <1>2, <1>5, <1>6, <1>7, <1>9 DEF OwnChange
<1>. QED BY <1>q, OwnStep

LEMMA CloseAdminTypes == ASSUME WInv, NEW j \in Jobs, CloseAdmin(j) PROVE WInv'
<1>1. Control /\ InSets /\ Visiting(j)
  BY WInvParts
<1>2. /\ UNCHANGED <<tokens, at, todo, tx, ata, got, sol, late>>
      /\ phase[j] = "closeAdmin" /\ phase' = [phase EXCEPT ![j] = "done"]
      /\ (open' = FALSE /\ wsol' = 0) \/ UNCHANGED <<wsol, open>>
  BY DEF CloseAdmin, walletVars
<1>3. InSets'
  <2>0. Balances /\ IsFiniteSet(late) /\ late \subseteq Sent /\ Cardinality(late) <= MaxLate
    BY <1>1 DEF InSets
  <2>1. wsol' \in Nat
    BY <1>1, <1>2 DEF InSets, Balances
  <2>2. open' \in BOOLEAN
    BY <1>2, <2>0 DEF Balances
  <2>. QED BY <1>2, <2>0, <2>1, <2>2 DEF InSets, Balances
<1>4. Control'
  BY <1>1, <1>2 DEF Control, Phases
<1>5. phase'[j] = "done" /\ \A k \in Jobs \ {j} : phase'[k] = phase[k]
  BY <1>1, <1>2 DEF Control
<1>6. Visiting(j)'
  BY <1>1, <1>2, <1>5 DEF Visiting
<1>q. OwnChange(j)
  BY <1>2, <1>3, <1>4, <1>5, <1>6 DEF OwnChange
<1>. QED BY <1>q, OwnStep

\* A launch sends a transaction of its own, and goes on to the next wallet
\* only when it executed.
Sends(j, t) == (Confirmed(j, t) \/ NotConfirmed(j, t))

LEMMA SendEffect ==
    ASSUME NEW j \in Jobs, NEW t, Sends(j, t)
    PROVE  /\ ChainStep(t)
           /\ \/ Execute(t) /\ UNCHANGED late /\ Visited(j)
              \/ UNCHANGED <<todo, at>>
  BY DEF Sends, Confirmed, NotConfirmed, Again, ChainStep

LEMMA SendTypes ==
    ASSUME WInv, NEW j \in Jobs, NEW t \in Sent, Sends(j, t),
           t.kind # "fee" => t.job = j, InFlight(t),
           phase' = phase, phase[j] \in {"buy", "sell"}, t.kind = "sell" => phase[j] = "sell",
           tx' = [tx EXCEPT ![j] = NoTx]
    PROVE  WInv'
<1>1. Control /\ InSets /\ Visiting(j)
  BY WInvParts
<1>2. ChainStep(t)
  BY SendEffect
<1>3. InSets'
  BY <1>1, <1>2, ChainTypes
<1>4. /\ \A k \in Jobs : t.kind # "sell" \/ k # t.job => ata'[k] = ata[k]
      /\ \A u \in late' : u \in late \/ u = t
  BY <1>1, <1>2, ChainAccounts
<1>5. \A k \in Jobs \ {j} : ata'[k] = ata[k]
  BY <1>4
<1>6. phase[j] = "buy" => ata'[j] = ata[j]
  BY <1>4
<1>7. Visited(j) \/ UNCHANGED <<todo, at>>
  BY SendEffect
<1>8. Control'
  BY <1>1, <1>7 DEF Control, Visited
<1>9. /\ at'[j] = -1 \/ UNCHANGED <<todo, at>>
      /\ \A k \in Jobs \ {j} : at'[k] = at[k] /\ todo'[k] = todo[k] /\ tx'[k] = tx[k]
  BY <1>1, <1>7 DEF Control, Visited
<1>10. tx'[j] = NoTx
  BY <1>1 DEF Control
<1>11. Visiting(j)'
  BY <1>1, <1>6, <1>9, <1>10, Kinds DEF Visiting
<1>12. InFlight(t)'
  BY DEF InFlight
<1>q. OwnChange(j)
  BY <1>3, <1>4, <1>5, <1>8, <1>9, <1>11, <1>12 DEF OwnChange
<1>. QED BY <1>q, OwnStep

LEMMA SendBuyTypes == ASSUME WInv, NEW j \in Jobs, SendBuy(j) PROVE WInv'
<1>. DEFINE t == BuyTx(j, at[j])
<1>1. Control /\ Visiting(j)
  BY WInvParts
<1>2. phase[j] = "buy" /\ at[j] \in Paired /\ Sends(j, t) /\ phase' = phase /\ tx' = tx
  BY <1>1 DEF SendBuy, Control, Sends
<1>3. t \in Sent /\ t.job = j /\ t.kind = "buy"
  BY <1>2, Kinds DEF Sent, BuyTx
<1>. HIDE DEF t
<1>4. InFlight(t)
  BY <1>2, <1>3 DEF InFlight
<1>5. tx[j] = NoTx
  BY <1>1, <1>2 DEF Visiting
<1>6. tx' = [tx EXCEPT ![j] = NoTx]
  BY <1>1, <1>2, <1>5 DEF Control
<1>. QED BY <1>2, <1>3, <1>4, <1>6, SendTypes

LEMMA SendSaleTypes == ASSUME WInv, NEW j \in Jobs, SendSale(j) PROVE WInv'
<1>. DEFINE t == tx[j]
<1>1. Control /\ Visiting(j)
  BY WInvParts
<1>2. /\ phase[j] = "sell" /\ t # NoTx /\ Sends(j, t) /\ phase' = phase
      /\ tx' = [tx EXCEPT ![j] = NoTx]
  BY <1>1 DEF SendSale, Sends
<1>3. t \in {FeeTx} \cup Sales
  BY <1>1, <1>2 DEF Control
<1>4. t \in Sent /\ (t.kind # "fee" => t.job = j) /\ t.kind # "buy"
  BY <1>1, <1>3, Kinds DEF Sent, Visiting
<1>. HIDE DEF t
<1>5. InFlight(t)
  BY <1>2, <1>4 DEF InFlight
<1>. QED BY <1>2, <1>4, <1>5, SendTypes

LEMMA LateTypes == ASSUME WInv, NEW t \in late, LandLate(t) \/ Expire(t) PROVE WInv'
<1>1. Control /\ InSets /\ t \in Sent /\ InFlight(t)
  BY WInvParts DEF InSets
<1>2. late' = late \ {t} /\ UNCHANGED <<phase, at, todo, tx>>
  BY DEF LandLate, Expire
<1>3. Control' /\ \A u \in late' : InFlight(u)'
  <2>1. Control'
    BY <1>1, <1>2 DEF Control
  <2>2. ASSUME NEW u \in late' PROVE InFlight(u)'
    <3>1. InFlight(u)
      BY <1>2, <2>2, WInvParts
    <3>. QED BY <1>2, <3>1 DEF InFlight
  <2>. QED BY <2>1, <2>2
<1>4. IsFiniteSet(late') /\ late' \subseteq Sent /\ Cardinality(late') <= MaxLate
  <2>1. IsFiniteSet(late) /\ Cardinality(late) \in Nat /\ Cardinality(late) <= MaxLate
    BY <1>1, FS_CardinalityType DEF InSets
  <2>2. late' \in SUBSET late
    BY <1>2
  <2>3. IsFiniteSet(late') /\ Cardinality(late') <= Cardinality(late) /\ Cardinality(late') \in Nat
    BY <2>1, <2>2, FS_Subset, FS_CardinalityType
  <2>. QED BY <1>1, <2>1, <2>2, <2>3, WarmupAssumption DEF InSets
<1>5. CASE LandLate(t)
  <2>1. Execute(t)
    BY <1>5 DEF LandLate
  <2>2. Balances'
    BY <1>1, <2>1, ExecuteTypes DEF InSets
  <2>3. \A k \in Jobs : t.kind # "sell" \/ k # t.job => ata'[k] = ata[k]
    <3>1. CASE t.kind = "sell"
      <4>1. ata' = [ata EXCEPT ![t.job] = @ \cup {t.wallet}]
        BY <1>1, <2>1, <3>1, Executed, Zenon
      <4>. QED BY <1>1, <3>1, <4>1 DEF InSets, Balances
    <3>2. CASE t.kind # "sell"
      BY <1>1, <2>1, <3>2, Executed, Kinds
    <3>. QED BY <3>1, <3>2
  <2>4. ASSUME NEW k \in Jobs PROVE Visiting(k)'
    <3>1. Visiting(k)
      BY WInvParts
    <3>2. phase[k] \in {"wrap", "buy"} => ata'[k] = ata[k]
      BY <1>1, <2>3 DEF InFlight
    <3>. QED BY <1>2, <3>1, <3>2 DEF Visiting
  <2>. QED BY <1>3, <1>4, <2>2, <2>4 DEF WInv, TypeOK, Control, Phases, InSets, Balances
<1>6. CASE Expire(t)
  <2>1. UNCHANGED <<wsol, open, tokens, ata, got, sol>>
    BY <1>6 DEF Expire, adminVars, walletVars
  <2>2. Balances'
    BY <1>1, <2>1 DEF InSets, Balances
  <2>3. ASSUME NEW k \in Jobs PROVE Visiting(k)'
    <3>1. Visiting(k)
      BY WInvParts
    <3>. QED BY <1>2, <2>1, <3>1 DEF Visiting
  <2>. QED BY <1>3, <1>4, <2>2, <2>3 DEF WInv, TypeOK, Control, Phases, InSets, Balances
<1>. QED BY <1>5, <1>6

\* Every step keeps the variables in their sets.
LEMMA NextWInv == ASSUME WInv, [Next]_vars PROVE WInv'
<1>1. CASE UNCHANGED vars
  BY <1>1 DEF vars, WInv, TypeOK, Visiting, InFlight, adminVars, walletVars
<1>2. ASSUME NEW j \in Jobs, Step(j) \/ Panic(j) PROVE WInv'
  BY <1>2, WrapTypes, PanicTypes, VisitTypes, LoopEndsTypes, BuildTypes, CloseWalletTypes,
     CloseAdminTypes, SendBuyTypes, SendSaleTypes DEF Step
<1>3. ASSUME NEW t \in late, LandLate(t) \/ Expire(t) PROVE WInv'
  BY <1>3, LateTypes
<1>. QED BY <1>1, <1>2, <1>3 DEF Next

\* No launch has started.
LEMMA InitWInv == Init => WInv
<1>. SUFFICES ASSUME Init PROVE WInv
  OBVIOUS
<1>1. Control /\ Balances
  BY PairedTokens DEF Init, Control, Phases, Balances
<1>2. IsFiniteSet(late) /\ Cardinality(late) = 0 /\ late = {}
  BY FS_EmptySet DEF Init
<1>3. \A j \in Jobs : Visiting(j)
  BY Kinds DEF Init, Visiting
<1>. QED BY <1>1, <1>2, <1>3, WarmupAssumption DEF WInv, TypeOK, Control, Phases, Balances

LEMMA AlwaysWInv == Spec => []WInv
  BY InitWInv, NextWInv, PTL DEF Spec

\* The variables of the warm-up keep to their sets and no balance is negative,
\* for every number of launches, wallets and tokens, whatever is lost or late.
THEOREM WarmupTypeCorrect == Spec => []TypeOK
<1>1. WInv => TypeOK
  BY DEF WInv
<1>. QED BY <1>1, AlwaysWInv, PTL

-----------------------------------------------------------------------------
(* No token is lost between the launches. *)

LEMMA JobsFinite == IsFiniteSet(Jobs)
  BY WarmupAssumption

\* What the wallets paired with a token hold changes with what one of them does.
LEMMA HeldNat == ASSUME Balances, NEW i \in Paired PROVE Held(i) \in Nat
<1>. DEFINE f == [j \in Jobs |-> got[j][i] + sol[j][i]]
<1>1. \A j \in Jobs : f[j] \in Nat
  BY DEF Balances
<1>2. Held(i) = SumFunctionOnSet(f, Jobs)
  BY DEF Held, SumFunction
<1>. HIDE DEF f
<1>. QED BY <1>1, <1>2, JobsFinite, SumNat

LEMMA HeldChange ==
    ASSUME Balances, Balances', NEW i \in Paired, NEW k \in Jobs,
           \A j \in Jobs \ {k} : got'[j][i] + sol'[j][i] = got[j][i] + sol[j][i]
    PROVE  Held(i)' = Held(i) + (got'[k][i] + sol'[k][i]) - (got[k][i] + sol[k][i])
<1>. DEFINE f == [j \in Jobs |-> got[j][i] + sol[j][i]]
            g == [j \in Jobs |-> got'[j][i] + sol'[j][i]]
<1>1. \A j \in Jobs : f[j] \in Int /\ g[j] \in Int
  BY DEF Balances
<1>2. Held(i) = SumFunctionOnSet(f, Jobs)
  BY DEF Held, SumFunction
<1>3. Held(i)' = SumFunctionOnSet(g, Jobs)
  BY DEF Held, SumFunction
<1>4. \A j \in Jobs \ {k} : g[j] = f[j]
  OBVIOUS
<1>5. f[k] = got[k][i] + sol[k][i] /\ g[k] = got'[k][i] + sol'[k][i]
  OBVIOUS
<1>6. SumFunctionOnSet(f, Jobs) \in Int
  <2>. HIDE DEF f, g
  <2>. QED BY <1>1, JobsFinite, SumInt
<1>7. SumFunctionOnSet(g, Jobs) = SumFunctionOnSet(f, Jobs) - f[k] + g[k]
  <2>. HIDE DEF f, g
  <2>. QED BY <1>1, <1>4, JobsFinite, SumExcept
<1>8. f[k] \in Int /\ g[k] \in Int
  BY <1>1
<1>. HIDE DEF f, g
<1>9. SumFunctionOnSet(g, Jobs) = SumFunctionOnSet(f, Jobs) + g[k] - f[k]
  BY <1>6, <1>7, <1>8
<1>. QED BY <1>2, <1>3, <1>5, <1>9

LEMMA HeldSame ==
    ASSUME NEW i \in Paired, got' = got, sol' = sol
    PROVE  Held(i)' = Held(i)
  BY DEF Held

\* A purchase adds a token, and a sale only moves what it sells.
LEMMA ExecuteHeld ==
    ASSUME Balances, NEW t \in Sent, Execute(t), NEW i \in Paired
    PROVE  tokens'[i] + Held(i)' =
               tokens[i] + Held(i) + (IF t.kind = "buy" /\ t.wallet = i THEN 1 ELSE 0)
<1>0. Balances' /\ tokens[i] \in Nat /\ Held(i) \in Nat
  BY ExecuteTypes, HeldNat, PairedTokens DEF Balances
<1>1. CASE t.kind = "buy"
  <2>1. got' = got /\ sol' = sol /\ tokens' = [tokens EXCEPT ![t.wallet] = @ + 1]
    BY <1>1, Executed, Zenon
  <2>2. Held(i)' = Held(i)
    BY <2>1, HeldSame
  <2>3. tokens'[i] = tokens[i] + (IF t.wallet = i THEN 1 ELSE 0)
    BY <2>1, PairedTokens DEF Balances
  <2>. QED BY <1>0, <1>1, <2>2, <2>3
<1>2. CASE t.kind = "sell"
  <2>1. /\ sol' = sol /\ tokens[t.wallet] >= t.amount
        /\ tokens' = [tokens EXCEPT ![t.wallet] = @ - t.amount]
        /\ got' = [got EXCEPT ![t.job][t.wallet] = @ + t.amount]
    BY <1>2, Executed, Zenon
  <2>2. t.job \in Jobs /\ t.wallet \in Paired /\ t.amount \in Nat
    BY <1>2, Kinds
  <2>3. \A j \in Jobs : got'[j][i] =
            got[j][i] + (IF j = t.job /\ i = t.wallet THEN t.amount ELSE 0)
    BY <2>1, <2>2 DEF Balances
  <2>4. Held(i)' = Held(i) + (got'[t.job][i] + sol'[t.job][i]) - (got[t.job][i] + sol[t.job][i])
    <3>1. \A j \in Jobs \ {t.job} : got'[j][i] + sol'[j][i] = got[j][i] + sol[j][i]
      BY <2>1, <2>3 DEF Balances
    <3>. QED BY <1>0, <2>2, <3>1, HeldChange
  <2>5. got[t.job][i] \in Nat /\ sol[t.job][i] \in Nat
    BY <2>2 DEF Balances
  <2>6. tokens'[i] = tokens[i] - (IF i = t.wallet THEN t.amount ELSE 0)
    BY <2>1, <2>2, PairedTokens DEF Balances
  <2>7. got'[t.job][i] = got[t.job][i] + (IF i = t.wallet THEN t.amount ELSE 0)
    BY <2>2, <2>3
  <2>. QED BY <1>0, <1>2, <2>1, <2>2, <2>4, <2>5, <2>6, <2>7
<1>3. CASE t.kind = "fee"
  <2>1. got' = got /\ sol' = sol /\ tokens' = tokens
    BY <1>3, Executed, Zenon
  <2>2. Held(i)' = Held(i)
    BY <2>1, HeldSame
  <2>. QED BY <1>0, <1>3, <2>1, <2>2
<1>. QED BY <1>1, <1>2, <1>3, Kinds

LEMMA BoughtFinite ==
    ASSUME NEW i PROVE IsFiniteSet(Bought(i)) /\ Cardinality(Bought(i)) \in Nat
<1>1. Bought(i) \in SUBSET Jobs
  BY DEF Bought
<1>2. IsFiniteSet(Bought(i))
  BY <1>1, JobsFinite, FS_Subset
<1>. QED BY <1>2, FS_CardinalityType

\* The tokens of a kind stay enough while nobody buys one of them more.
LEMMA StillAccounted ==
    ASSUME Balances, NEW i \in Paired, tokens[i] + Held(i) >= Cardinality(Bought(i)),
           Balances', tokens'[i] + Held(i)' >= tokens[i] + Held(i), Bought(i)' \subseteq Bought(i)
    PROVE  tokens'[i] + Held(i)' >= Cardinality(Bought(i)')
<1>. DEFINE A == Bought(i)
            B == Bought(i)'
<1>1. IsFiniteSet(A) /\ Cardinality(A) \in Nat
  BY BoughtFinite
<1>2. B \in SUBSET A
  OBVIOUS
<1>. HIDE DEF A, B
<1>3. Cardinality(B) <= Cardinality(A) /\ Cardinality(B) \in Nat
  BY <1>1, <1>2, FS_Subset, FS_CardinalityType
<1>4. tokens[i] \in Nat /\ Held(i) \in Nat
  BY HeldNat, PairedTokens DEF Balances
<1>5. tokens'[i] \in Nat
  BY PairedTokens DEF Balances
<1>6. Held(i)' \in Nat
  <2>. DEFINE f == [j \in Jobs |-> got'[j][i] + sol'[j][i]]
  <2>1. \A j \in Jobs : f[j] \in Nat
    BY DEF Balances
  <2>2. Held(i)' = SumFunctionOnSet(f, Jobs)
    BY DEF Held, SumFunction
  <2>. HIDE DEF f
  <2>. QED BY <2>1, <2>2, JobsFinite, SumNat
<1>7. tokens[i] + Held(i) >= Cardinality(A) /\ tokens'[i] + Held(i)' >= tokens[i] + Held(i)
  BY DEF A
<1>. QED BY <1>1, <1>3, <1>4, <1>5, <1>6, <1>7 DEF B

LEMMA SendBuyAccounted == ASSUME WInv, Accounted, NEW j \in Jobs, SendBuy(j) PROVE Accounted'
<1>. DEFINE w == at[j]
            t == BuyTx(j, w)
<1>1. Control /\ InSets /\ Balances /\ Visiting(j)
  BY WInvParts DEF InSets
<1>2. phase[j] = "buy" /\ w \in Paired /\ w \in todo[j] /\ Sends(j, t) /\ phase' = phase
  BY <1>1 DEF SendBuy, Control, Sends, Visiting
<1>3. t \in Sent /\ t.job = j /\ t.kind = "buy" /\ t.wallet = w
  BY <1>2, Kinds DEF Sent, BuyTx
<1>. HIDE DEF t
<1>4. CASE Execute(t)
  <2>1. Balances'
    BY <1>1, <1>3, <1>4, ExecuteTypes
  <2>2. /\ \A k \in Jobs \ {j} : todo'[k] = todo[k]
        /\ todo'[j] = todo[j] \/ todo'[j] = todo[j] \ {w}
    BY <1>1, <1>2, SendEffect DEF Visited, Control
  <2>3. ASSUME NEW i \in Paired PROVE tokens'[i] + Held(i)' >= Cardinality(Bought(i)')
    <3>1. tokens'[i] + Held(i)' = tokens[i] + Held(i) + (IF i = w THEN 1 ELSE 0)
      BY <1>1, <1>3, <1>4, ExecuteHeld
    <3>2. tokens[i] \in Nat /\ Held(i) \in Nat /\ tokens[i] + Held(i) >= Cardinality(Bought(i))
      BY <1>1, HeldNat, PairedTokens DEF Balances, Accounted
    <3>3. CASE i = w
      <4>1. Bought(i)' \subseteq Bought(i) \cup {j}
        BY <1>2, <2>2 DEF Bought
      <4>2. IsFiniteSet(Bought(i)) /\ Cardinality(Bought(i)) \in Nat
        BY BoughtFinite
      <4>3. IsFiniteSet(Bought(i) \cup {j}) /\ Cardinality(Bought(i) \cup {j}) <= Cardinality(Bought(i)) + 1
        BY <4>2, FS_AddElement
      <4>4. Cardinality(Bought(i)') <= Cardinality(Bought(i) \cup {j})
        BY <4>1, <4>3, FS_Subset
      <4>5. Cardinality(Bought(i)') \in Nat /\ Cardinality(Bought(i) \cup {j}) \in Nat
        BY <4>1, <4>3, FS_Subset, FS_CardinalityType
      <4>. QED BY <3>1, <3>2, <3>3, <4>2, <4>3, <4>4, <4>5
    <3>4. CASE i # w
      <4>1. Bought(i)' \subseteq Bought(i)
        BY <1>2, <2>2, <3>4 DEF Bought
      <4>2. tokens'[i] + Held(i)' >= tokens[i] + Held(i)
        BY <3>1, <3>2, <3>4
      <4>. QED BY <1>1, <2>1, <3>2, <4>1, <4>2, StillAccounted
    <3>. QED BY <3>3, <3>4
  <2>. QED BY <2>3 DEF Accounted
<1>5. CASE ~Execute(t)
  <2>1. UNCHANGED <<tokens, got, sol, todo>>
    BY <1>2, <1>5 DEF Sends, Confirmed, NotConfirmed, Again, adminVars, walletVars
  <2>. QED BY <1>2, <2>1 DEF Accounted, Held, Bought
<1>. QED BY <1>4, <1>5

\* No other step buys, and none takes a token from all of them.
LEMMA OtherAccounted ==
    ASSUME WInv, Accounted, Balances',
           \A i \in Paired : /\ tokens'[i] + Held(i)' >= tokens[i] + Held(i)
                             /\ Bought(i)' \subseteq Bought(i)
    PROVE  Accounted'
<1>1. Balances
  BY WInvParts DEF InSets
<1>2. ASSUME NEW i \in Paired PROVE tokens'[i] + Held(i)' >= Cardinality(Bought(i)')
  BY <1>1, StillAccounted DEF Accounted
<1>. QED BY <1>2 DEF Accounted

LEMMA BalancesSum ==
    ASSUME Balances, NEW i \in Paired PROVE tokens[i] + Held(i) \in Nat
  BY HeldNat, PairedTokens DEF Balances

\* A sale keeps what is accounted for, whoever sends it and whenever it lands.
LEMMA ChainHeld ==
    ASSUME InSets, NEW t \in Sent, ChainStep(t), NEW i \in Paired
    PROVE  tokens'[i] + Held(i)' >= tokens[i] + Held(i)
<1>1. Balances /\ tokens[i] + Held(i) \in Nat
  BY BalancesSum DEF InSets
<1>2. CASE Execute(t)
  BY <1>1, <1>2, ExecuteHeld
<1>3. CASE ~Execute(t)
  <2>1. tokens' = tokens /\ got' = got /\ sol' = sol
    BY <1>3 DEF ChainStep, adminVars, walletVars
  <2>2. Held(i)' = Held(i)
    BY <2>1, HeldSame
  <2>. QED BY <1>1, <2>1, <2>2
<1>. QED BY <1>2, <1>3

LEMMA SendSaleAccounted == ASSUME WInv, Accounted, NEW j \in Jobs, SendSale(j) PROVE Accounted'
<1>. DEFINE t == tx[j]
<1>1. Control /\ InSets /\ Visiting(j) /\ Balances' /\ WInv'
  <2>1. WInv'
    BY SendSaleTypes
  <2>. QED BY <2>1, WInvParts DEF WInv, TypeOK, Balances
<1>2. phase[j] = "sell" /\ t # NoTx /\ Sends(j, t) /\ phase' = phase
  BY <1>1 DEF SendSale, Sends
<1>3. t \in Sent
  BY <1>1, <1>2 DEF Control, Sent
<1>. HIDE DEF t
<1>4. ChainStep(t) /\ (Visited(j) \/ UNCHANGED <<todo, at>>)
  BY <1>2, SendEffect
<1>5. \A k \in Jobs \ {j} : todo'[k] = todo[k]
  BY <1>1, <1>4 DEF Visited, Control
<1>6. \A i \in Paired : Bought(i)' \subseteq Bought(i)
  BY <1>2, <1>5 DEF Bought
<1>7. \A i \in Paired : tokens'[i] + Held(i)' >= tokens[i] + Held(i)
  BY <1>1, <1>3, <1>4, ChainHeld
<1>. QED BY <1>1, <1>6, <1>7, OtherAccounted

LEMMA LateAccounted == ASSUME WInv, Accounted, NEW t \in late, LandLate(t) \/ Expire(t) PROVE Accounted'
<1>1. Control /\ InSets /\ t \in Sent /\ Balances'
  <2>1. WInv'
    BY LateTypes
  <2>. QED BY <2>1, WInvParts DEF WInv, TypeOK, Balances, InSets
<1>2. \A i \in Paired : Bought(i)' \subseteq Bought(i)
  BY DEF LandLate, Expire, Bought
<1>3. ASSUME NEW i \in Paired PROVE tokens'[i] + Held(i)' >= tokens[i] + Held(i)
  <2>1. Balances /\ tokens[i] + Held(i) \in Nat
    BY <1>1, BalancesSum DEF InSets
  <2>2. CASE LandLate(t)
    BY <1>1, <2>1, <2>2, ExecuteHeld DEF LandLate
  <2>3. CASE Expire(t)
    <3>1. tokens' = tokens /\ got' = got /\ sol' = sol
      BY <2>3 DEF Expire, adminVars, walletVars
    <3>2. Held(i)' = Held(i)
      BY <3>1, HeldSame
    <3>. QED BY <2>1, <3>1, <3>2
  <2>. QED BY <2>2, <2>3
<1>. QED BY <1>1, <1>2, <1>3, OtherAccounted

LEMMA CloseWalletAccounted == ASSUME WInv, Accounted, NEW j \in Jobs, CloseWallet(j) PROVE Accounted'
<1>1. Control /\ Balances /\ Balances'
  <2>1. WInv'
    BY CloseWalletTypes
  <2>. QED BY <2>1, WInvParts DEF WInv, TypeOK, Balances, InSets
<1>. DEFINE w == at[j]
<1>2. /\ phase[j] = "close" /\ w \in Paired /\ UNCHANGED <<phase, tokens>> /\ Visited(j)
      /\ \/ /\ sol' = [sol EXCEPT ![j][w] = @ + got[j][w]]
            /\ got' = [got EXCEPT ![j][w] = 0]
         \/ UNCHANGED <<got, sol>>
  BY <1>1 DEF CloseWallet, Control, walletVars, adminVars
<1>3. \A k \in Jobs \ {j} : todo'[k] = todo[k]
  BY <1>1, <1>2 DEF Visited, Control
<1>4. \A i \in Paired : Bought(i)' \subseteq Bought(i)
  BY <1>2, <1>3 DEF Bought
<1>5. ASSUME NEW i \in Paired PROVE tokens'[i] + Held(i)' >= tokens[i] + Held(i)
  <2>0. tokens[i] + Held(i) \in Nat
    BY <1>1, BalancesSum
  <2>1. CASE UNCHANGED <<got, sol>>
    BY <1>2, <2>0, <2>1, HeldSame
  <2>2. CASE /\ sol' = [sol EXCEPT ![j][w] = @ + got[j][w]]
             /\ got' = [got EXCEPT ![j][w] = 0]
    <3>1. \A k \in Jobs : got[k][i] \in Nat /\ sol[k][i] \in Nat
      BY <1>1 DEF Balances
    <3>2. \A k \in Jobs : got'[k][i] = (IF k = j /\ i = w THEN 0 ELSE got[k][i])
      BY <1>1, <1>2, <2>2 DEF Balances
    <3>3. \A k \in Jobs : sol'[k][i] = (IF k = j /\ i = w THEN sol[k][i] + got[k][i] ELSE sol[k][i])
      BY <1>1, <1>2, <2>2 DEF Balances
    <3>4. \A k \in Jobs : got'[k][i] + sol'[k][i] = got[k][i] + sol[k][i]
      BY <3>1, <3>2, <3>3
    <3>5. Held(i)' = Held(i)
      BY <3>4 DEF Held
    <3>. QED BY <1>2, <2>0, <3>5
  <2>. QED BY <1>2, <2>1, <2>2
<1>. QED BY <1>1, <1>4, <1>5, OtherAccounted

\* Of the other steps none moves a token, and none adds to those bought.
LEMMA PlaceAccounted ==
    ASSUME WInv, Accounted, NEW j \in Jobs,
           Wrap(j) \/ Panic(j) \/ Visit(j) \/ LoopEnds(j) \/ BuildSale(j) \/ CloseAdmin(j)
    PROVE  Accounted'
<1>1. Control /\ Balances /\ Visiting(j) /\ Balances'
  <2>1. WInv'
    BY WrapTypes, PanicTypes, VisitTypes, LoopEndsTypes, BuildTypes, CloseAdminTypes
  <2>. QED BY <2>1, WInvParts DEF WInv, TypeOK, Balances, InSets
<1>2. tokens' = tokens /\ got' = got /\ sol' = sol
  BY DEF Wrap, Panic, Visit, LoopEnds, BuildSale, CloseAdmin, adminVars, walletVars
<1>3. ASSUME NEW i \in Paired PROVE tokens'[i] + Held(i)' >= tokens[i] + Held(i)
  <2>1. tokens[i] + Held(i) \in Nat
    BY <1>1, BalancesSum
  <2>. QED BY <1>2, <2>1, HeldSame
<1>4. ASSUME NEW i \in Paired PROVE Bought(i)' \subseteq Bought(i)
  <2>1. CASE Wrap(j)
    <3>1. /\ \A k \in Jobs \ {j} : phase'[k] = phase[k]
          /\ phase'[j] \in {"buy", "panicked"} /\ todo' = todo /\ todo[j] = Paired
      BY <1>1, <2>1 DEF Wrap, Control, Visiting
    <3>. QED BY <3>1 DEF Bought
  <2>2. CASE Panic(j)
    <3>1. /\ \A k \in Jobs \ {j} : phase'[k] = phase[k]
          /\ phase'[j] = "panicked" /\ todo' = todo
      BY <1>1, <2>2 DEF Panic, Control
    <3>. QED BY <3>1 DEF Bought
  <2>3. CASE LoopEnds(j)
    <3>1. /\ \A k \in Jobs \ {j} : phase'[k] = phase[k] /\ todo'[k] = todo[k]
          /\ todo[j] = {} /\ phase[j] \in {"buy", "sell", "close"}
      BY <1>1, <2>3 DEF LoopEnds, Control, NextPhase
    <3>. QED BY <3>1 DEF Bought
  <2>4. CASE CloseAdmin(j)
    <3>1. /\ \A k \in Jobs \ {j} : phase'[k] = phase[k]
          /\ phase[j] = "closeAdmin" /\ todo' = todo
      BY <1>1, <2>4 DEF CloseAdmin, Control
    <3>. QED BY <3>1 DEF Bought
  <2>5. CASE Visit(j) \/ BuildSale(j)
    BY <2>5 DEF Visit, BuildSale, Bought
  <2>. QED BY <2>1, <2>2, <2>3, <2>4, <2>5
<1>. QED BY <1>1, <1>3, <1>4, OtherAccounted

LEMMA NextAccounted == ASSUME WInv, Accounted, [Next]_vars PROVE Accounted'
<1>1. CASE UNCHANGED vars
  BY <1>1 DEF vars, Accounted, Held, Bought, adminVars, walletVars
<1>2. ASSUME NEW j \in Jobs, Step(j) \/ Panic(j) PROVE Accounted'
  BY <1>2, SendBuyAccounted, SendSaleAccounted, CloseWalletAccounted, PlaceAccounted DEF Step
<1>3. ASSUME NEW t \in late, LandLate(t) \/ Expire(t) PROVE Accounted'
  BY <1>3, LateAccounted
<1>. QED BY <1>1, <1>2, <1>3 DEF Next

LEMMA InitAccounted == Init => Accounted
<1>. SUFFICES ASSUME Init, NEW i \in Paired PROVE tokens[i] + Held(i) >= Cardinality(Bought(i))
  BY DEF Accounted
<1>1. WInv
  BY InitWInv
<1>2. tokens[i] + Held(i) \in Nat
  BY <1>1, WInvParts, BalancesSum DEF InSets
<1>3. Bought(i) = {}
  BY DEF Init, Bought
<1>4. Cardinality(Bought(i)) = 0
  BY <1>3, FS_EmptySet
<1>. QED BY <1>2, <1>4

-----------------------------------------------------------------------------
(* A launch on its own funds its wallets. *)

\* While it sells, a wallet that has its account has its amount, and for each
\* other one there is a token, as no sale of the launch is for nothing.
Stocked(j) ==
    /\ \A i \in ata[j] : got[j][i] + sol[j][i] >= 1
    /\ \A i \in Paired \ ata[j] : tokens[i] >= 1

Selling(j) ==
    /\ Stocked(j)
    /\ Paired \ todo[j] \subseteq ata[j]
    /\ tx[j].kind = "sell" => tx[j].amount >= 1
    /\ tx[j].kind = "fee" => at[j] \in ata[j]
    /\ \A t \in late : t.kind = "sell" /\ t.job = j => t.amount >= 1

Past == {"close", "closeAdmin", "done"}

OnItsWay(j) ==
    /\ phase[j] = "buy" => \A i \in Paired \ todo[j] : tokens[i] >= 1
    /\ phase[j] = "sell" => Selling(j)
    /\ phase[j] \in Past => \A i \in Paired : got[j][i] + sol[j][i] >= 1

FundInv == \A j \in Jobs : Alone(j) => OnItsWay(j)

\* A transaction takes tokens only by a sale, and no wallet loses anything.
LEMMA ExecuteKeeps ==
    ASSUME Balances, NEW t \in Sent, Execute(t), NEW i \in Paired
    PROVE  /\ t.kind # "sell" => tokens'[i] >= tokens[i]
           /\ \A j \in Jobs : got'[j][i] + sol'[j][i] >= got[j][i] + sol[j][i]
<1>0. Balances' /\ i \in Tokens
  BY ExecuteTypes, PairedTokens
<1>1. CASE t.kind = "buy"
  <2>1. got' = got /\ sol' = sol /\ tokens' = [tokens EXCEPT ![t.wallet] = @ + 1]
    BY <1>1, Executed, Zenon
  <2>2. tokens'[i] = tokens[i] + (IF t.wallet = i THEN 1 ELSE 0)
    BY <1>0, <2>1 DEF Balances
  <2>. QED BY <1>0, <2>1, <2>2 DEF Balances
<1>2. CASE t.kind = "sell"
  <2>1. sol' = sol /\ got' = [got EXCEPT ![t.job][t.wallet] = @ + t.amount]
    BY <1>2, Executed, Zenon
  <2>2. t.job \in Jobs /\ t.wallet \in Paired /\ t.amount \in Nat
    BY <1>2, Kinds
  <2>3. \A j \in Jobs : got'[j][i] =
            got[j][i] + (IF j = t.job /\ i = t.wallet THEN t.amount ELSE 0)
    BY <2>1, <2>2 DEF Balances
  <2>4. \A j \in Jobs : got[j][i] \in Nat /\ sol[j][i] \in Nat
    BY DEF Balances
  <2>. QED BY <1>2, <2>1, <2>2, <2>3, <2>4
<1>3. CASE t.kind = "fee"
  <2>1. got' = got /\ sol' = sol /\ tokens' = tokens
    BY <1>3, Executed, Zenon
  <2>. QED BY <1>0, <2>1 DEF Balances
<1>. QED BY <1>1, <1>2, <1>3, Kinds

\* While the launch sells, its own sales keep its stock.
LEMMA ExecuteStocked ==
    ASSUME Balances, NEW j \in Jobs, Stocked(j), NEW t \in Sent, Execute(t),
           t.kind = "sell" => t.job = j /\ t.amount >= 1
    PROVE  /\ Stocked(j)' /\ ata[j] \subseteq ata'[j]
           /\ t.kind = "sell" => t.wallet \in ata'[j]
<1>0. Balances' /\ \A i \in Paired : /\ tokens[i] \in Nat /\ tokens'[i] \in Nat
                                     /\ got[j][i] \in Nat /\ sol[j][i] \in Nat
                                     /\ got'[j][i] \in Nat /\ sol'[j][i] \in Nat
  BY ExecuteTypes, PairedTokens DEF Balances
<1>1. CASE t.kind = "sell"
  <2>1. /\ sol' = sol /\ tokens' = [tokens EXCEPT ![t.wallet] = @ - t.amount]
        /\ ata' = [ata EXCEPT ![t.job] = @ \cup {t.wallet}]
        /\ got' = [got EXCEPT ![t.job][t.wallet] = @ + t.amount]
    BY <1>1, Executed, Zenon
  <2>2. t.wallet \in Paired /\ t.amount \in Nat /\ t.job = j /\ t.amount >= 1
    BY <1>1, Kinds
  <2>3. ata'[j] = ata[j] \cup {t.wallet}
    BY <2>1, <2>2 DEF Balances
  <2>4. \A i \in Paired : tokens'[i] = tokens[i] - (IF i = t.wallet THEN t.amount ELSE 0)
    BY <2>1, <2>2, PairedTokens DEF Balances
  <2>5. \A i \in Paired : got'[j][i] = got[j][i] + (IF i = t.wallet THEN t.amount ELSE 0)
    BY <2>1, <2>2 DEF Balances
  <2>6. ASSUME NEW i \in ata'[j] PROVE got'[j][i] + sol'[j][i] >= 1
    <3>1. i \in Paired
      BY <1>0 DEF Balances
    <3>2. CASE i = t.wallet
      BY <1>0, <2>1, <2>2, <2>5, <3>1, <3>2
    <3>3. CASE i # t.wallet
      <4>1. got[j][i] + sol[j][i] >= 1
        BY <2>3, <3>3 DEF Stocked
      <4>. QED BY <1>0, <2>1, <2>5, <3>1, <3>3, <4>1
    <3>. QED BY <3>2, <3>3
  <2>7. ASSUME NEW i \in Paired \ ata'[j] PROVE tokens'[i] >= 1
    <3>1. i # t.wallet /\ tokens[i] >= 1
      BY <2>3 DEF Stocked
    <3>. QED BY <1>0, <2>4, <3>1
  <2>. QED BY <2>3, <2>6, <2>7 DEF Stocked
<1>2. CASE t.kind # "sell"
  <2>1. ata' = ata
    BY <1>2, Executed, Kinds
  <2>2. \A i \in Paired : tokens'[i] >= tokens[i] /\ got'[j][i] + sol'[j][i] >= got[j][i] + sol[j][i]
    BY <1>2, ExecuteKeeps
  <2>3. ASSUME NEW i \in ata'[j] PROVE got'[j][i] + sol'[j][i] >= 1
    <3>1. i \in Paired /\ got[j][i] + sol[j][i] >= 1
      BY <1>0, <2>1 DEF Balances, Stocked
    <3>. QED BY <1>0, <2>2, <3>1
  <2>4. ASSUME NEW i \in Paired \ ata'[j] PROVE tokens'[i] >= 1
    <3>1. tokens[i] >= 1
      BY <2>1 DEF Stocked
    <3>. QED BY <1>0, <2>2, <3>1
  <2>. QED BY <1>2, <2>1, <2>3, <2>4 DEF Stocked
<1>. QED BY <1>1, <1>2

\* A transaction that was sent by the launch, as it answers, lands late or is
\* given up.  Only the list of what is in flight is left open.
LEMMA ExecuteOnItsWay ==
    ASSUME WInv, NEW j \in Jobs, OnItsWay(j), NEW t \in Sent, Execute(t), InFlight(t),
           t.kind = "sell" => t.job = j,
           phase[j] = "sell" /\ t.kind = "sell" => t.amount >= 1
    PROVE  /\ phase[j] = "buy" => \A i \in Paired \ todo[j] : tokens'[i] >= 1
           /\ phase[j] = "sell" => /\ Stocked(j)' /\ ata[j] \subseteq ata'[j]
                                   /\ t.kind = "sell" => t.wallet \in ata'[j]
           /\ phase[j] \in Past => \A i \in Paired : got'[j][i] + sol'[j][i] >= 1
<1>1. Balances /\ Balances'
  BY WInvParts, ExecuteTypes DEF InSets
<1>2. \A i \in Paired : /\ tokens[i] \in Nat /\ tokens'[i] \in Nat
                        /\ got[j][i] \in Nat /\ sol[j][i] \in Nat
                        /\ got'[j][i] \in Nat /\ sol'[j][i] \in Nat
  <2>1. \A i \in Paired : tokens[i] \in Nat /\ tokens'[i] \in Nat
    BY <1>1, PairedTokens DEF Balances
  <2>2. \A i \in Paired : got[j][i] \in Nat /\ sol[j][i] \in Nat
    BY <1>1 DEF Balances
  <2>3. \A i \in Paired : got'[j][i] \in Nat /\ sol'[j][i] \in Nat
    BY <1>1 DEF Balances
  <2>. QED BY <2>1, <2>2, <2>3
<1>3. ASSUME phase[j] = "buy", NEW i \in Paired \ todo[j] PROVE tokens'[i] >= 1
  <2>1. t.kind # "sell" /\ tokens[i] >= 1
    BY <1>3 DEF InFlight, OnItsWay
  <2>2. tokens'[i] >= tokens[i]
    BY <1>1, <2>1, ExecuteKeeps
  <2>. QED BY <1>2, <2>1, <2>2
<1>4. ASSUME phase[j] = "sell"
      PROVE  /\ Stocked(j)' /\ ata[j] \subseteq ata'[j]
             /\ t.kind = "sell" => t.wallet \in ata'[j]
  BY <1>1, <1>4, ExecuteStocked DEF OnItsWay, Selling
<1>5. ASSUME phase[j] \in Past, NEW i \in Paired PROVE got'[j][i] + sol'[j][i] >= 1
  <2>1. got[j][i] + sol[j][i] >= 1
    BY <1>5 DEF OnItsWay
  <2>2. got'[j][i] + sol'[j][i] >= got[j][i] + sol[j][i]
    BY <1>1, ExecuteKeeps
  <2>. QED BY <1>2, <2>1, <2>2
<1>. QED BY <1>3, <1>4, <1>5

\* Once a launch is on its own, only its own steps leave it so.
LEMMA OtherStarts ==
    ASSUME WInv, NEW j \in Jobs, NEW k \in Jobs \ {j}, Step(k) \/ Panic(k)
    PROVE  ~Alone(j)'
<1>1. Control /\ Visiting(k)
  BY WInvParts
<1>2. SUFFICES phase'[k] # "wrap"
  BY DEF Alone
<1>3. CASE Wrap(k)
  BY <1>1, <1>3 DEF Wrap, Control
<1>4. CASE Panic(k)
  BY <1>1, <1>4 DEF Panic, Control
<1>5. CASE LoopEnds(k)
  BY <1>1, <1>5 DEF LoopEnds, Control, NextPhase
<1>6. CASE CloseAdmin(k)
  BY <1>1, <1>6 DEF CloseAdmin, Control
<1>7. CASE Visit(k) \/ SendBuy(k) \/ BuildSale(k) \/ SendSale(k) \/ CloseWallet(k)
  BY <1>1, <1>7 DEF Visit, SendBuy, BuildSale, SendSale, CloseWallet
<1>. QED BY <1>3, <1>4, <1>5, <1>6, <1>7 DEF Step

\* A launch that was not alone, with others that have started, never is again.
LEMMA StaysAlone ==
    ASSUME WInv, NEW j \in Jobs, Step(j) \/ Panic(j), Alone(j)'
    PROVE  Alone(j)
<1>1. Control
  BY WInvParts
<1>2. ASSUME NEW k \in Jobs \ {j} PROVE phase[k] = phase'[k]
  BY <1>1, <1>2 DEF Step, Wrap, Panic, LoopEnds, CloseAdmin, Visit, SendBuy, BuildSale, SendSale,
     CloseWallet, Control
<1>. QED BY <1>2 DEF Alone

LEMMA SendBuyFunds ==
    ASSUME WInv, NEW j \in Jobs, OnItsWay(j), SendBuy(j)
    PROVE  OnItsWay(j)'
<1>. DEFINE w == at[j]
            t == BuyTx(j, w)
<1>1. Control /\ InSets /\ Balances /\ Visiting(j)
  BY WInvParts DEF InSets
<1>2. phase[j] = "buy" /\ w \in Paired /\ w \in todo[j] /\ Sends(j, t) /\ phase' = phase
  BY <1>1 DEF SendBuy, Control, Sends, Visiting
<1>3. t \in Sent /\ t.job = j /\ t.kind = "buy" /\ t.wallet = w
  BY <1>2, Kinds DEF Sent, BuyTx
<1>. HIDE DEF t
<1>4. CASE Execute(t)
  <2>1. \A i \in Paired \ todo[j] : tokens'[i] >= 1
    BY <1>2, <1>3, <1>4, ExecuteOnItsWay DEF InFlight
  <2>2. tokens' = [tokens EXCEPT ![w] = @ + 1]
    BY <1>3, <1>4, Executed, Zenon
  <2>3. tokens'[w] >= 1
    <3>1. w \in Tokens /\ tokens \in [Tokens -> Nat]
      BY <1>1, <1>2, PairedTokens DEF Balances
    <3>. HIDE DEF w
    <3>. QED BY <2>2, <3>1
  <2>4. todo'[j] = todo[j] \/ todo'[j] = todo[j] \ {w}
    BY <1>1, <1>2, SendEffect DEF Visited, Control
  <2>. QED BY <1>2, <2>1, <2>3, <2>4 DEF OnItsWay, Past
<1>5. CASE ~Execute(t)
  <2>1. UNCHANGED <<tokens, todo>>
    BY <1>2, <1>5 DEF Sends, Confirmed, NotConfirmed, Again, adminVars
  <2>. QED BY <1>2, <2>1 DEF OnItsWay, Past
<1>. QED BY <1>4, <1>5

LEMMA SendSaleFunds ==
    ASSUME WInv, NEW j \in Jobs, OnItsWay(j), SendSale(j)
    PROVE  OnItsWay(j)'
<1>. DEFINE t == tx[j]
<1>1. Control /\ InSets /\ Visiting(j) /\ Selling(j)
  BY WInvParts DEF SendSale, OnItsWay
<1>2. /\ phase[j] = "sell" /\ t # NoTx /\ Sends(j, t) /\ phase' = phase
      /\ tx' = [tx EXCEPT ![j] = NoTx]
  BY <1>1 DEF SendSale, Sends
<1>3. /\ t \in Sent /\ (t.kind # "fee" => t.job = j /\ t.wallet = at[j])
      /\ t.kind # "buy" /\ t.kind \in {"sell", "fee"}
  BY <1>1, <1>2, Kinds DEF Control, Sent, Visiting
<1>4. t.kind = "sell" => t.amount >= 1
  BY <1>1 DEF Selling
<1>5. t.kind = "fee" => at[j] \in ata[j]
  BY <1>1 DEF Selling
<1>6. tx'[j].kind = "none"
  BY <1>1, <1>2, Kinds DEF Control
<1>. HIDE DEF t
<1>7. ChainStep(t)
  BY <1>2, SendEffect
<1>8. \A u \in late' : u.kind = "sell" /\ u.job = j => u.amount >= 1
  <2>1. \A u \in late' : u \in late \/ u = t
    BY <1>1, <1>3, <1>7, ChainAccounts
  <2>. QED BY <1>1, <1>4, <2>1 DEF Selling
<1>9. CASE Execute(t)
  <2>1. Stocked(j)' /\ ata[j] \subseteq ata'[j] /\ (t.kind = "sell" => at[j] \in ata'[j])
    BY <1>2, <1>3, <1>4, <1>9, ExecuteOnItsWay DEF InFlight
  <2>2. todo'[j] = todo[j] \/ todo'[j] = todo[j] \ {at[j]}
    BY <1>1, <1>2, SendEffect DEF Visited, Control
  <2>3. Paired \ todo'[j] \subseteq ata'[j]
    BY <1>1, <1>3, <1>5, <2>1, <2>2 DEF Selling
  <2>4. Selling(j)'
    BY <1>6, <1>8, <2>1, <2>3 DEF Selling
  <2>. QED BY <1>2, <2>4 DEF OnItsWay, Past
<1>10. CASE ~Execute(t)
  <2>1. UNCHANGED <<tokens, ata, got, sol, todo, at>>
    BY <1>2, <1>10 DEF Sends, Confirmed, NotConfirmed, Again, adminVars, walletVars
  <2>2. Selling(j)'
    BY <1>1, <1>6, <1>8, <2>1 DEF Selling, Stocked
  <2>. QED BY <1>2, <2>2 DEF OnItsWay, Past
<1>. QED BY <1>9, <1>10

LEMMA BuildSaleFunds ==
    ASSUME WInv, NEW j \in Jobs, OnItsWay(j), BuildSale(j)
    PROVE  OnItsWay(j)'
<1>. DEFINE t == IF HasAccount(j) THEN FeeTx ELSE SellTx(j, at[j], tokens[at[j]])
<1>1. Control /\ InSets /\ Visiting(j) /\ Selling(j)
  BY WInvParts DEF BuildSale, OnItsWay
<1>2. /\ UNCHANGED <<tokens, phase, at, todo, ata, got, sol, late>>
      /\ phase[j] = "sell" /\ at[j] \in Paired
      /\ tx' = [tx EXCEPT ![j] = t]
  BY <1>1 DEF BuildSale, adminVars, walletVars, Control
<1>3. /\ t.kind = "sell" => t.amount >= 1
      /\ t.kind = "fee" => at[j] \in ata[j]
  BY <1>1, <1>2 DEF Selling, Stocked, HasAccount, FeeTx, SellTx
<1>. HIDE DEF t
<1>4. tx'[j] = t
  BY <1>1, <1>2 DEF Control
<1>5. Selling(j)'
  BY <1>1, <1>2, <1>3, <1>4 DEF Selling, Stocked
<1>. QED BY <1>2, <1>5 DEF OnItsWay, Past

LEMMA LoopEndsFunds ==
    ASSUME WInv, NEW j \in Jobs, OnItsWay(j), LoopEnds(j)
    PROVE  OnItsWay(j)'
<1>1. Control /\ InSets /\ Visiting(j)
  BY WInvParts
<1>2. /\ UNCHANGED <<tokens, at, tx, ata, got, sol, late>>
      /\ phase[j] \in {"buy", "sell", "close"} /\ at[j] = -1 /\ todo[j] = {}
      /\ todo'[j] = Paired /\ phase'[j] = NextPhase[phase[j]]
  BY <1>1 DEF LoopEnds, adminVars, walletVars, Control, NextPhase
<1>3. tx[j] = NoTx
  BY <1>1, <1>2 DEF Visiting
<1>4. CASE phase[j] = "buy"
  <2>1. phase'[j] = "sell"
    BY <1>2, <1>4 DEF NextPhase
  <2>2. \A i \in Paired : tokens'[i] >= 1
    BY <1>2, <1>4 DEF OnItsWay
  <2>3. ata'[j] = {}
    BY <1>1, <1>2, <1>4 DEF Visiting
  <2>4. \A t \in late' : ~(t.kind = "sell" /\ t.job = j)
    BY <1>2, <1>4, WInvParts DEF InFlight
  <2>5. tx'[j].kind = "none"
    BY <1>2, <1>3, Kinds
  <2>6. Stocked(j)'
    BY <2>2, <2>3 DEF Stocked
  <2>7. Selling(j)'
    BY <1>2, <2>4, <2>5, <2>6 DEF Selling
  <2>. QED BY <2>1, <2>7 DEF OnItsWay, Past
<1>5. CASE phase[j] = "sell"
  <2>1. phase'[j] = "close"
    BY <1>2, <1>5 DEF NextPhase
  <2>2. Paired \subseteq ata[j] /\ Stocked(j)
    BY <1>2, <1>5 DEF OnItsWay, Selling
  <2>3. \A i \in Paired : got'[j][i] + sol'[j][i] >= 1
    BY <1>2, <2>2 DEF Stocked
  <2>. QED BY <2>1, <2>3 DEF OnItsWay, Past
<1>6. CASE phase[j] = "close"
  <2>1. phase'[j] = "closeAdmin"
    BY <1>2, <1>6 DEF NextPhase
  <2>. QED BY <1>2, <1>6, <2>1 DEF OnItsWay, Past
<1>. QED BY <1>2, <1>4, <1>5, <1>6

LEMMA CloseWalletFunds ==
    ASSUME WInv, NEW j \in Jobs, OnItsWay(j), CloseWallet(j)
    PROVE  OnItsWay(j)'
<1>. DEFINE w == at[j]
<1>1. Control /\ Balances
  BY WInvParts DEF InSets
<1>2. /\ phase[j] = "close" /\ w \in Paired /\ UNCHANGED <<phase, tokens>>
      /\ \/ /\ sol' = [sol EXCEPT ![j][w] = @ + got[j][w]]
            /\ got' = [got EXCEPT ![j][w] = 0]
         \/ UNCHANGED <<got, sol>>
  BY <1>1 DEF CloseWallet, Control, walletVars, adminVars
<1>3. \A i \in Paired : got[j][i] + sol[j][i] >= 1 /\ got[j][i] \in Nat /\ sol[j][i] \in Nat
  BY <1>1, <1>2 DEF OnItsWay, Past, Balances
<1>4. ASSUME NEW i \in Paired PROVE got'[j][i] + sol'[j][i] >= 1
  <2>1. CASE UNCHANGED <<got, sol>>
    BY <1>3, <2>1
  <2>2. CASE /\ sol' = [sol EXCEPT ![j][w] = @ + got[j][w]]
             /\ got' = [got EXCEPT ![j][w] = 0]
    <3>1. got'[j][i] = (IF i = w THEN 0 ELSE got[j][i])
      BY <1>1, <1>2, <2>2 DEF Balances
    <3>2. sol'[j][i] = (IF i = w THEN sol[j][i] + got[j][i] ELSE sol[j][i])
      BY <1>1, <1>2, <2>2 DEF Balances
    <3>. QED BY <1>3, <3>1, <3>2
  <2>. QED BY <1>2, <2>1, <2>2
<1>. QED BY <1>2, <1>4 DEF OnItsWay, Past

LEMMA PlaceFunds ==
    ASSUME WInv, NEW j \in Jobs, OnItsWay(j), Wrap(j) \/ Panic(j) \/ Visit(j) \/ CloseAdmin(j)
    PROVE  OnItsWay(j)'
<1>1. Control /\ Visiting(j)
  BY WInvParts
<1>2. UNCHANGED <<tokens, todo, ata, got, sol, late>>
  BY DEF Wrap, Panic, Visit, CloseAdmin, adminVars, walletVars
<1>3. CASE Wrap(j)
  <2>1. phase'[j] \in {"buy", "panicked"} /\ todo[j] = Paired
    BY <1>1, <1>3 DEF Wrap, Control, Visiting
  <2>. QED BY <1>2, <2>1 DEF OnItsWay, Past
<1>4. CASE Panic(j)
  <2>1. phase'[j] = "panicked"
    BY <1>1, <1>4 DEF Panic, Control
  <2>. QED BY <2>1 DEF OnItsWay, Past
<1>5. CASE Visit(j)
  <2>1. phase' = phase /\ tx' = tx /\ at[j] = -1
    BY <1>5 DEF Visit
  <2>2. tx'[j] = NoTx
    BY <1>1, <2>1 DEF Visiting
  <2>. QED BY <1>2, <2>1, <2>2, Kinds DEF OnItsWay, Past, Selling, Stocked
<1>6. CASE CloseAdmin(j)
  <2>1. phase[j] = "closeAdmin" /\ phase'[j] = "done"
    BY <1>1, <1>6 DEF CloseAdmin, Control
  <2>. QED BY <1>2, <2>1 DEF OnItsWay, Past
<1>. QED BY <1>3, <1>4, <1>5, <1>6

LEMMA LateFunds ==
    ASSUME WInv, NEW j \in Jobs, Alone(j), OnItsWay(j), NEW t \in late, LandLate(t) \/ Expire(t)
    PROVE  OnItsWay(j)'
<1>1. InSets /\ t \in Sent /\ InFlight(t) /\ \A k \in Jobs : Visiting(k)
  BY WInvParts DEF InSets
<1>2. late' = late \ {t} /\ UNCHANGED <<phase, at, todo, tx>>
  BY DEF LandLate, Expire
<1>3. CASE LandLate(t)
  <2>1. Execute(t)
    BY <1>3 DEF LandLate
  <2>2. t.kind = "sell" => t.job = j
    <3>1. t.kind = "sell" => t.job \in Jobs
      BY <1>1, Kinds
    <3>. QED BY <1>1, <3>1 DEF InFlight, Alone
  <2>3. phase[j] = "sell" /\ t.kind = "sell" => t.amount >= 1
    BY <2>2 DEF OnItsWay, Selling
  <2>4. /\ phase[j] = "buy" => \A i \in Paired \ todo[j] : tokens'[i] >= 1
        /\ phase[j] = "sell" => Stocked(j)' /\ ata[j] \subseteq ata'[j]
        /\ phase[j] \in Past => \A i \in Paired : got'[j][i] + sol'[j][i] >= 1
    BY <1>1, <2>1, <2>2, <2>3, ExecuteOnItsWay
  <2>5. phase[j] = "sell" => Selling(j)'
    BY <1>2, <2>4 DEF OnItsWay, Selling
  <2>. QED BY <1>2, <2>4, <2>5 DEF OnItsWay
<1>4. CASE Expire(t)
  BY <1>2, <1>4 DEF Expire, adminVars, walletVars, OnItsWay, Selling, Stocked
<1>. QED BY <1>3, <1>4

LEMMA NextFundInv == ASSUME WInv, FundInv, [Next]_vars PROVE FundInv'
<1>. SUFFICES ASSUME NEW j \in Jobs, Alone(j)' PROVE OnItsWay(j)'
  BY DEF FundInv
<1>1. CASE UNCHANGED vars
  BY <1>1 DEF vars, FundInv, Alone, OnItsWay, Selling, Stocked, adminVars, walletVars
<1>2. ASSUME NEW k \in Jobs, Step(k) \/ Panic(k) PROVE OnItsWay(j)'
  <2>1. k = j
    BY <1>2, OtherStarts
  <2>2. OnItsWay(j)
    BY <1>2, <2>1, StaysAlone DEF FundInv
  <2>. QED BY <1>2, <2>1, <2>2, SendBuyFunds, SendSaleFunds, BuildSaleFunds, LoopEndsFunds,
           CloseWalletFunds, PlaceFunds DEF Step
<1>3. ASSUME NEW t \in late, LandLate(t) \/ Expire(t) PROVE OnItsWay(j)'
  <2>1. Alone(j)
    BY <1>3 DEF LandLate, Expire, Alone
  <2>. QED BY <1>3, <2>1, LateFunds DEF FundInv
<1>. QED BY <1>1, <1>2, <1>3 DEF Next

LEMMA InitFundInv == Init => FundInv
  BY DEF Init, FundInv, OnItsWay, Past

\* However purchases and sales are lost, repeated or land late: no token that
\* was bought is lost between the launches, and one that runs on its own has
\* given every wallet its amount when its sales are through.
THEOREM NoTokenLostAlways == Spec => []NoTokenLost
<1>1. Spec => [](Accounted /\ FundInv)
  <2>1. Init => Accounted /\ FundInv
    BY InitAccounted, InitFundInv
  <2>2. WInv /\ Accounted /\ FundInv /\ [Next]_vars => (Accounted /\ FundInv)'
    BY NextAccounted, NextFundInv
  <2>. QED BY <2>1, <2>2, AlwaysWInv, PTL DEF Spec
<1>2. Accounted /\ FundInv => NoTokenLost
  BY DEF NoTokenLost, FundInv, OnItsWay, Past, Funded
<1>. QED BY <1>1, <1>2, PTL
=============================================================================
