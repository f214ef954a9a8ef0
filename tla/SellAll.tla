------------------------------- MODULE SellAll -------------------------------
(***************************************************************************)
(* One request to /sell-all, sell_all_leftover_tokens (src/handlers.rs)    *)
(* with sell_all_txs (src/solana/helpers.rs): add the token balances up,   *)
(* read each again and build a sale and a tax for it, pack these           *)
(* (SellPacking), submit the bundles one after the other (Submission       *)
(* without a client), and for the admin collect the SOL (recursive_pay, of *)
(* which only the outcome is kept: see Collect).  The chain executes a     *)
(* bundle in order, entirely or not at all; other requests sell from the   *)
(* same wallets.                                                           *)
(***************************************************************************)
EXTENDS Integers, Sequences, SequencesExt, FiniteSets

CONSTANTS Keys,       \* the wallets of the mint, in directory order
          Amounts,    \* token balances
          MinSell,    \* 1000 base units: a smaller balance is not sold
          MinTotal,   \* 1000 tokens: nothing is submitted unless there are more
          Sizes,      \* what a mint's sales and taxes may weigh: [sell, tax]
          Cap, FeeSize, TipSize, PerBundle     \* as in SellPacking

ASSUME SellAllAssumption ==
    /\ Amounts \subseteq Nat /\ MinSell \in Nat \ {0} /\ MinTotal \in Nat
    /\ Keys \in Seq(Range(Keys)) /\ IsInjective(Keys)
    /\ {Cap, FeeSize, TipSize} \subseteq Nat \ {0}
    /\ Sizes \subseteq [sell : Nat, tax : Nat]
    /\ PerBundle \in Nat /\ PerBundle > 1
    /\ \A s \in Sizes : FeeSize + s.sell + s.tax < Cap
    /\ FeeSize + TipSize < Cap

Wallets == Range(Keys)
MaxIxs == 2 * Len(Keys)
Weights == UNION {{s.sell, s.tax} : s \in Sizes}

VARIABLES admin,      \* with_admin_transfer
          weight,     \* size of the mint's sales and of their taxes
          pc,
          k,          \* key the loop is at
          total,      \* total_token_balance
          ixs,        \* the instructions: [wallet, kind, amount]
          looping, next, cur, txs, tips,   \* the packing, see SellPacking
          fates, verdicts,   \* of the bundles submitted so far
          swept,      \* wallets the collection read, while it is under way
          answer,
          tokens,     \* chain: token balance of each wallet
          rich,       \* chain: wallets that hold SOL to pay a tax or collect
          sold, taxed,   \* chain: wallets of which this call's sale / tax executed
          shared      \* chain: wallets another request sold from

readVars == <<admin, weight, total, ixs>>
packVars == <<looping, next, cur, txs, tips>>
engineVars == <<fates, verdicts>>
chainVars == <<tokens, rich, sold, taxed, shared>>
vars == <<pc, k, readVars, packVars, engineVars, swept, answer, chainVars>>

Packing == INSTANCE SellPacking WITH pc <- looping

Init ==
    /\ admin \in BOOLEAN
    /\ weight \in Sizes
    /\ pc = "survey" /\ k = 1 /\ total = 0 /\ ixs = <<>>
    /\ Packing!Init
    /\ fates = <<>> /\ verdicts = <<>>
    /\ swept = {} /\ answer = "none"
    /\ tokens \in [Wallets -> Amounts]
    /\ rich \in SUBSET Wallets
    /\ sold = {} /\ taxed = {} /\ shared = {}

-----------------------------------------------------------------------------
(* The handler. *)

Return(a) == answer' = a /\ pc' = "done"

\* The loop over the keys that adds up; a balance that cannot be read is no
\* balance.
Survey ==
    /\ pc = "survey" /\ k <= Len(Keys)
    /\ total' \in {total, total + tokens[Keys[k]]}
    /\ k' = k + 1
    /\ UNCHANGED <<pc, admin, weight, ixs, packVars, engineVars, swept, answer, chainVars>>

\* Too little for a user, or no table for the mint: false.
SurveyEnds ==
    /\ pc = "survey" /\ k > Len(Keys)
    /\ \/ total < MinTotal /\ ~admin /\ Return("false") /\ UNCHANGED k
       \/ (total >= MinTotal \/ admin) /\ Return("false") /\ UNCHANGED k
       \/ (total >= MinTotal \/ admin) /\ pc' = "build" /\ k' = 1 /\ UNCHANGED answer
    /\ UNCHANGED <<readVars, packVars, engineVars, swept, chainVars>>

Ix(w, kind, amount) == [wallet |-> w, kind |-> kind, amount |-> amount]

\* sell_all_ix of a wallet.  OnlyTax is what PumpSwap::sell_ixs returns for a
\* wallet that already has an account for wrapped SOL.
OnlyTax(w, amount) == <<Ix(w, "tax", 0)>>
SellIxs(w, amount) == <<Ix(w, "sell", amount), Ix(w, "tax", 0)>>

\* A wallet whose balance cannot be read, or is too small, is passed over.
Build ==
    /\ pc = "build" /\ k <= Len(Keys)
    /\ LET w == Keys[k] IN
       \/ UNCHANGED ixs
       \/ tokens[w] >= MinSell /\ ixs' = ixs \o SellIxs(w, tokens[w])
    /\ k' = k + 1
    /\ UNCHANGED <<pc, admin, weight, total, packVars, engineVars, swept, answer, chainVars>>

\* The packing of sell_all_txs; afterwards the bundles are submitted, if the
\* sum of the first loop was more than MinTotal.
PackIxs ==
    /\ pc = "build" /\ k > Len(Keys)
    /\ IF next <= Len(ixs)
       THEN LET ix == Packing!Ix(next, weight[ixs[next].kind])
            IN  /\ Packing!Pack(ix) \/ Packing!Push(ix)
                /\ next' = next + 1
                /\ UNCHANGED <<pc, looping>>
       ELSE /\ Packing!Finish
            /\ pc' = IF total > MinTotal THEN "submit" ELSE "collect"
    /\ UNCHANGED <<k, readVars, engineVars, swept, answer, chainVars>>

\* txs.chunks(5), and the instructions of a chunk
NumBundles == (Len(txs) + PerBundle - 1) \div PerBundle
Chunk(b) ==
    SubSeq(txs, (b - 1) * PerBundle + 1, IF b = NumBundles THEN Len(txs) ELSE b * PerBundle)
Bundle(b) == FlattenSeq(Chunk(b))

\* OneMore goes on behind the last bundle.
OneMore == Len(fates) <= NumBundles
MoreBundles == Len(fates) < NumBundles

Submit ==
    /\ pc = "submit" /\ MoreBundles
    /\ \E fate \in {"inflight", "dropped"} : fates' = Append(fates, fate)
    /\ verdicts' = Append(verdicts, "none")
    /\ pc' = "await"
    /\ UNCHANGED <<k, readVars, packVars, swept, answer, chainVars>>

\* submit_bundle returns; its verdict is dropped.  NotAwaited goes on with
\* the next bundle at once.
Engine(b) == INSTANCE Submission
    WITH caller <- "plain", curve <- "live", fate <- fates[b], verdict <- verdicts[b]

NotAwaited(verdict) == pc' = "submit" /\ UNCHANGED verdicts
Awaited(verdict) ==
    verdicts' = [verdicts EXCEPT ![Len(verdicts)] = verdict] /\ pc' = "submit"

Await ==
    /\ pc = "await"
    /\ \/ Engine(Len(fates))!OkEarned /\ Awaited("ok")
       \/ Awaited("err")
    /\ UNCHANGED <<k, readVars, packVars, fates, swept, answer, chainVars>>

SubmitEnds ==
    /\ pc = "submit" /\ ~MoreBundles
    /\ pc' = "collect"
    /\ UNCHANGED <<k, readVars, packVars, engineVars, swept, answer, chainVars>>

\* Without the admin's flag the answer is true.  With it the SOL of the
\* wallets whose balance could be read goes into one bundle, or the
\* collection ends before it sends one.
Collect ==
    /\ pc = "collect"
    /\ \/ ~admin /\ Return("true") /\ UNCHANGED swept
       \/ admin /\ Return("false") /\ UNCHANGED swept
       \/ /\ admin /\ pc' = "pay"
          /\ \E unread \in SUBSET Wallets : swept' = rich \ unread
          /\ UNCHANGED answer
    /\ UNCHANGED <<k, readVars, packVars, engineVars, chainVars>>

\* The collection answers true only after its bundle landed (Payment), and
\* that can be late.
CollectLands ==
    /\ \/ pc = "pay" /\ (Return("true") \/ Return("false"))
       \/ pc = "done" /\ swept # {} /\ UNCHANGED <<pc, answer>>
    /\ rich' = rich \ swept
    /\ swept' = {}
    /\ UNCHANGED <<k, readVars, packVars, engineVars, tokens, sold, taxed, shared>>
CollectFails ==
    /\ pc = "pay"
    /\ Return("false")
    /\ \E late \in BOOLEAN : swept' = IF late THEN swept ELSE {}
    /\ UNCHANGED <<k, readVars, packVars, engineVars, chainVars>>

\* An unwrap: of the table's account, the curve (also when it is complete),
\* the token's creator, a blockhash, the developer's key, the claim of the
\* fees; or a stop of the server.
Stop ==
    /\ pc # "done"
    /\ Return("gone")
    /\ UNCHANGED <<k, readVars, packVars, engineVars, swept, chainVars>>

-----------------------------------------------------------------------------
(* The chain and the engine. *)

\* The effect of one instruction.  A sale takes any price, a tax needs SOL;
\* position 0 is a tip.
Execute(state, packed) ==
    LET ix == ixs[packed.at] w == ix.wallet IN
    IF packed.at = 0 \/ ~state.ok THEN state
    ELSE IF ix.kind = "sell"
    THEN [state EXCEPT !.ok = state.tokens[w] >= ix.amount,
                       !.tokens[w] = @ - ix.amount,
                       !.rich = @ \cup {w}, !.sold = @ \cup {w}]
    ELSE [state EXCEPT !.ok = w \in state.rich, !.taxed = @ \cup {w}]

Now == [ok |-> TRUE, tokens |-> tokens, rich |-> rich, sold |-> sold, taxed |-> taxed]

After(b) ==
    LET ran[n \in 0..Len(Bundle(b))] ==
            IF n = 0 THEN Now ELSE Execute(ran[n - 1], Bundle(b)[n])
    IN  ran[Len(Bundle(b))]

\* The chain has executed a transaction of b before, in another bundle.
Replayed(b) == \E c \in DOMAIN fates : fates[c] = "landed" /\ Range(Chunk(b)) \cap Range(Chunk(c)) # {}

\* A bundle without a tip never lands, nor one with a signature the chain has
\* taken before.
LandBundle(b) ==
    /\ fates[b] = "inflight" /\ Packing!HasTip(Bundle(b)) /\ ~Replayed(b) /\ After(b).ok
    /\ fates' = [fates EXCEPT ![b] = "landed"]
    /\ tokens' = After(b).tokens /\ rich' = After(b).rich
    /\ sold' = After(b).sold /\ taxed' = After(b).taxed
    /\ UNCHANGED <<pc, k, readVars, packVars, verdicts, swept, answer, shared>>

DropBundle(b) ==
    /\ fates[b] = "inflight"
    /\ fates' = [fates EXCEPT ![b] = "dropped"]
    /\ UNCHANGED <<pc, k, readVars, packVars, verdicts, swept, answer, chainVars>>

\* /sell, or another /sell-all, sells what a wallet holds.
OtherSale(w) ==
    /\ tokens[w] > 0
    /\ tokens' = [tokens EXCEPT ![w] = 0]
    /\ rich' = rich \cup {w}
    /\ shared' = shared \cup {w}
    /\ UNCHANGED <<pc, k, readVars, packVars, engineVars, swept, answer, sold, taxed>>

-----------------------------------------------------------------------------

Code == Survey \/ SurveyEnds \/ Build \/ PackIxs \/ Submit \/ Await \/ SubmitEnds
            \/ Collect \/ CollectFails
Chain == CollectLands \/ (\E b \in DOMAIN fates : LandBundle(b) \/ DropBundle(b))
            \/ \E w \in Wallets : OtherSale(w)

Next == Code \/ Stop \/ Chain

Spec == Init /\ [][Next]_vars

-----------------------------------------------------------------------------
(* Properties. *)

\* Every variable keeps to its set; there are never more bundles than the
\* transactions make, and at most the last one has no verdict.
TypeOK ==
    /\ pc \in {"survey", "build", "submit", "await", "collect", "pay", "done"}
    /\ k \in 1..Len(Keys)+1 /\ total \in Nat
    /\ ixs \in Seq([wallet : Wallets, kind : {"sell", "tax"}, amount : Nat])
    /\ Packing!TypeOK
    /\ fates \in Seq({"inflight", "landed", "dropped"})
    /\ verdicts \in Seq({"none", "ok", "err"})
    /\ Len(fates) = Len(verdicts) /\ Len(fates) <= NumBundles
    /\ \A b \in DOMAIN verdicts :
           verdicts[b] = "none" => b = Len(verdicts) /\ pc \in {"await", "done"}
    /\ answer \in {"none", "true", "false", "gone"} /\ (pc = "done" <=> answer # "none")
    /\ tokens \in [Wallets -> Nat]
    /\ swept \cup rich \cup sold \cup taxed \cup shared \subseteq Wallets

\* The bundles that hold an instruction of w of this kind.
BundlesOf(w, kind) ==
    {b \in DOMAIN fates : \E i \in DOMAIN Bundle(b) :
        LET at == Bundle(b)[i].at IN at # 0 /\ ixs[at].wallet = w /\ ixs[at].kind = kind}

\* A wallet pays the tax if and only if it sells, unless the cut into bundles
\* went between its two instructions: the sale and the tax may have bundles
\* of their own, and then either can land alone.
SaleAndTaxTogether ==
    \A w \in Wallets :
        (w \in sold) # (w \in taxed) =>
            BundlesOf(w, "sell") # {} /\ BundlesOf(w, "sell") # BundlesOf(w, "tax")

\* When every bundle was answered with Ok, each wallet that instructions were
\* built for has sold and paid its tax, once the sale is answered with true.
AllOkMeansSold ==
    answer = "true" /\ fates # <<>> /\ (\A b \in DOMAIN verdicts : verdicts[b] = "ok")
        => \A i \in DOMAIN ixs : ixs[i].wallet \in sold \cap taxed

\* The collection reads the balances only when no bundle of the sale can land
\* any more, but for those that were given up, and finds the proceeds of every
\* bundle that was answered with Ok.
NothingStranded ==
    pc = "collect" =>
        /\ \A b \in DOMAIN fates : fates[b] = "inflight" => verdicts[b] = "err"
        /\ \A w \in Wallets :
               (\E b \in BundlesOf(w, "sell") : verdicts[b] = "ok") => w \in sold \cap rich

\* Three things about the packing can keep a bundle from being taken, each
\* named in SellPacking: it pays no tip (its last transaction came to exactly
\* the limit), a transaction of it is too large (the tip is heavier than what
\* it replaced), or it shares the cloned tip with its neighbour, so that only
\* one of the two can land.  No instruction is in two places or in none, and
\* no other transaction is in two (helpers.rs:137-222).
BundlesTaken ==
    /\ Packing!NothingLost
    /\ Packing!EveryBundleTipped
    /\ Packing!Fit
    /\ Packing!TwiceOnlyTip
==============================================================================
