# TLA+ models of pundle_bundler

pundle_bundler is a web service that launches a token on Pump.fun and buys it
with generated wallets in one atomic bundle of the Jito block engine. These
modules model its control flow: which transactions it builds, in which order
its concurrent tasks send them, what it believes when calls fail, and what
becomes of the money meanwhile. Source paths below are relative to `src/src/`.

## Inventory

| Part | State it keeps | Operations | What is hard | What makes it correct |
|---|---|---|---|---|
| Bundle packing, `jito/help.rs` | the transactions being built | `collect_first_bundle_txs`, `collect_rest_txs`, `has_delayed_bundle` | overlapping index tests around 5, 19 and the last buyer | nobody lost, nobody twice, transactions fit, a tip at the end of each bundle |
| Purchases, `jito/help.rs`, `pumpfun/pump.rs`, `pumpfun/bonding_curve.rs` | a simulated curve | `buy_ixs`, `get_buy_price` | quotes made long before they execute, subtractions that wrap | a launch does not outbid itself, the reserve stays |
| Bundle submission, `jito/jito.rs`, `jito/utils.rs` | attempt counters, `is_pending` | `submit_bundle`, `validate_bundle`, `check_final_bundle_status` | every remote call may fail or answer late; two nested loops, several exits | it ends, and an Ok can be relied on |
| Launch, `jito/bundle.rs` | the position of two tasks; everything else is on the chain | `process_bundle`, the delayed task it spawns, the callback | two tasks that see each other only through a balance, a two-minute clock, retries without memory | announced means bought, late bundles come late, both tasks end |
| Lookup table creation, `solana/lut.rs` | the table on the chain | `create_lut`, `extend_lut` | an error does not mean that nothing happened | a complete table in the right order, or an error |
| Registry, `main.rs`, `handlers.rs` | map mint to table, behind a `RwLock`; key files | `/post-bundle`, `/lut`, `/sell-all` | long readers, queued writers, dropped requests, restarts | tables are kept, sales and launches get the lock |
| Warm-up, `warmup/token_manager.rs`, `pumpfun/swap.rs` | wrapped SOL and tokens of the admin, shared by all launches | `init_alloc_ixs`, `shadow_bundle` | transactions that land behind an error, concurrent launches | every wallet is funded, nothing bought is lost |
| Sale of all tokens, `handlers.rs`, `solana/helpers.rs` | none; the balances are the chain's | `sell_all_leftover_tokens`, `sell_all_txs` | an instruction moved to make room for a tip, bundles cut by number, verdicts dropped, a collection behind them | nothing lost, packed or signed twice, every bundle tipped, a tax for each sale |
| Collection, `solana/recursive_pay.rs` | none; the balances are the chain's | `recursive_pay` for `/free-pay`, `/sell-all`, `/withdraw` | balances change between reading and landing, partial amounts, one bundle whatever its length | exactly what was asked or nothing, worth its tip |
| Splits, `pumpfun/utils.rs` | none | `get_splits` | a random deviation times an index, integer division | the parts add up to the amount, and enough is left for each wallet to come |
| Refund, `solana/refund.rs` | none | `refund_keypairs` at the start | a transfer per key file, no retry | not modelled, see below |
| Other instructions, `pumpfun/pump.rs`, `global.rs`; Jupiter, `jupiter/swap.rs` | none | account lists, quotes | a search for a route without an end | modelled where others wait for it |
| Bump, `solana/bump.rs` | a wallet | `bump` | not reachable in this commit | — |

How they interact: `/post-bundle` writes key files and spawns a task that runs
`process_bundle`. That calls the warm-up, creates the lookup table, packs the
buyers with the purchases they make, spawns the delayed task and submits the
first bundle until the developer owns tokens; it spawns the callback to the
orchestrator and returns the table, which the task of the handler inserts into
the map. `/sell-all` reads the map under a lock it keeps, packs the sales,
submits them and may call `recursive_pay`, as `/free-pay` and `/withdraw` do.
`/lut` fills the map after a restart. `get_splits` answers how many wallets a
later launch should have.

## Modules

```
BundlePacking <--- Launch ---> Submission <--- JitoSubmit     LutCreate
                                 ^     ^                      LutRegistry <--- MCLutRegistry
MCSellAll ---> SellAll ----------+     |                      Warmup
                  |                    |
                  v                    |                      CurveMath <--- Buys
              SellPacking              |                          ^
                                       |                          +--- Splits
Payment <------------------------- Collect ---> PayTx <--- PayPacking
                                       ^                       ^
                                       +--- CollectBundle -----+
```

An arrow says EXTENDS or INSTANCE. The proofs EXTEND what they are about:

| Proofs | of |
|---|---|
| Launch_proofs | Launch, and with it BundlePacking |
| JitoSubmit_proofs | JitoSubmit, against Submission |
| Curve_proofs | Buys and Splits |
| Lut_proofs | LutRegistry and LutCreate |
| Warmup_proofs | Warmup |
| SellAll_proofs | SellAll with SellPacking |
| Collect_proofs | CollectBundle with Collect and PayPacking, against Payment |
| SumTheorems | the sums of the community modules; used by the others |

LutRegistry and LutCreate, like Buys and Splits, have one module of proofs, so their
definitions carry different names (`CreateSpec` and `CreateTypeOK`, `SplitSpec` and
`SplitTypeOK`).

**BundlePacking** (`help.rs:107-281`). One action per loop turn: `CreateTx`,
`FirstBuyer`, `RestBuyer`, `RestEnd`. A buyer is its position in
`keypairs_to_treat`, a transaction the set of buyers it buys for, whether it
creates the token and whether it ends in a tip. `Skip`, `ClosesFirst`, `FullTx`,
`LastRest` and `TipsFullChunk` are the five tests of the source, the last with
the precedence the source gives it. The push at `help.rs:206` is dead code
(the loop always ends in the branch at line 190), so no action stands for it.

**CurveMath** is `get_buy_price` on a pair of reserves. **Buys** quotes every
purchase on the simulated curve, in the order of the list and with the
subtractions modulo `Word` (`Quote`), and then lets the chain execute them in any
order, leave some out, and execute those of others in between. The wallet in both
bundles (see the findings) is quoted twice here as well. **Splits** is a turn of
`get_splits` per step, with any deviation the random number can give.

**Submission** is the contract of `submit_bundle` for its callers: the fate of
a bundle, the curve of its token, one answer. It is an abstract module without
a run of its own; **JitoSubmit** details it call by call and is shown to
implement it, and **Launch** calls `submit_bundle` through its `AnswerOk`,
`AnswerErr` and `Panic`. A launch, a late bundle and a call without a client
are the three callers the code has. The engine may report any status at any
time except that `Landed` is reliable.

**Launch** (`bundle.rs:131-250`, `handlers.rs:147-178`) EXTENDS BundlePacking: `Pack`
runs both loops, `Spawn` starts the delayed task, `MainSubmit`, `MainCallEnds`
and `MainCheck` are a turn of the launch loop, `LateTop` to `LateNext` of the
delayed task. The chain (`Land`, `Lose`, `Complete`) executes a bundle as a
whole or not at all, only with a tip, and no wallet can buy twice, since a buy
spends what it has but for the reserve. A copy of a bundle with another blockhash
may be in flight after the first landed. The developer does not sell during the launch.

**LutCreate** (`lut.rs:50-163`). The table on the chain is the sequence of
chunks appended to it. A transaction is signed over one blockhash, so it
executes at most once; a confirming call may fail whatever became of it.

**LutRegistry** (`main.rs`, `handlers.rs`, `utils.rs`). The lock of tokio is a
queue in the order of the requests, with any number of readers or one writer;
`Grant` is the only action that lets anyone in. `LaunchReturns` stands for the
end of all of Launch. A client that goes away (`Gone`) drops its handler where
it stands; `Restart` clears all that is not on disk. A client may post the empty list
of addresses, which is why `Idle` is a value that is no list. A request that goes away
leaves the queue at its first place (`RemoveFirst`), which is its only one.

**Warmup** (`token_manager.rs:54-277`, `swap.rs:53-250`). Amounts are counted in
what one wallet is worth, so that `wsol = 1` pays for one buy. `NotConfirmed` is
an error with the transaction executed, lost, or still able to land (`late`).
`sell_ixs` reads the whole balance of the admin, and leaves the sale out when
the recipient has an account: both are in `BuildSale`.

**SellPacking** (`helpers.rs:101-222`) packs instructions that have weights;
comparisons are those of the source, with `<` when packing and `>` at the tip.
`NothingLost` counts the places an instruction is in, over all transactions and the
open one, rather than its copies. The tip of `helpers.rs:197` is signed once
(`TipTx`), so where its clone is pushed too (`TipApart`, lines 212 and 215) the list
holds one transaction twice.
**SellAll** is a whole `/sell-all` (`handlers.rs:296-432`, `helpers.rs:24-222`):
it reads each balance twice, as the code does, builds a sale and a tax, runs
SellPacking over them, submits bundle after bundle and waits for each verdict,
then collects. Other requests sell from the same wallets at any time, and a
bundle that was given up may still land. What a bundle does is a recursive function
over its instructions (`After`): one that fails undoes all. A signature is taken once, so a
bundle with a transaction that another one has landed never lands (`Replayed`).

**Payment** is what the handlers rely on in `recursive_pay`: all or nothing, at
most once, true only after the money moved. **Collect** (`recursive_pay.rs:21-254`)
reads the wallets one by one in any order (`ReadWallet`, `SkipWallet`), makes the
two checks (`EndRead`), sends and polls, while `OtherUse` changes the balances
behind it. **PayTx** says how large a transaction of transfers is, byte by byte of
the legacy message; **PayPacking** is the loop over the instructions, and
**CollectBundle** puts it between the checks and the sending: it is what the
run `collect` checks, and its steps are shown to be steps of Collect or of the
packing.

In all modules `\* ...` comments above an operator that no action uses name it
as a plausible slip; it is there to show that a property notices it.

## Runs

| Run | Bounds | What it shows |
|---|---|---|
| packing | 19 / 5 / 5 as in the source, lists of 1 to 70 buyers, both delays | `NoBuyerLost`, `OncePerGroup`, `SizesAndTips`, `DelayedIffRest`. 70 buyers make three late bundles with and without a delay, and pass each residue modulo 5 many times |
| packing_treated_once | same | violated: buyer 19 is in both bundles (`help.rs:190` against 228-232) |
| packing_late_tips | same | violated: only the very last late transaction has a tip (`help.rs:253`) |
| submit | 15 and 10 attempts as in the source | `OkMeans` and `ImplementsSubmission`, which includes that every call returns |
| launch | MaxFirst 1, two buyers per transaction, two transactions per bundle, up to 6 buyers | `LateAfterLaunch`, `AnnouncedMeansBought`, `TasksComplete`. Six buyers make two late bundles, which is what the loop over chunks needs; the boundary buyer is in both bundles as with the real constants |
| buys | the developer and three wallets, two of them early, balances 4, 60 and 400 against a reserve of 10, `Word` 4096, a curve of 900 and 310, others who buy 1 or 60 tokens | `OwnBuysExecute`, `ReserveKept`. A balance below its reserve wraps, one is small and one moves the curve; with two early wallets one of the three is quoted twice |
| splits | a curve of 300 and 107, developer buys of 0 and 30, amounts 0 to 400, shares of 4, 9 and 70, deviation of 5 % | `SumExact`, `LeavesEnough`, `AverageWithinShare`. One to sixteen wallets; with sixteen the deviation reaches its multiples by the index and `max_this_split` cuts it off |
| lut_create | 240 / 25 / 10 as in the source, lists of 25, 26, 60 and 300 addresses | `TableIsPrefix`, `OkMeansFull`, `EndsUnlessCreationAges`; one chunk, a second of one address, three, and more than are taken |
| lut_registry | one launch, two sales, one client of /lut, two mints, one restart | `TableStillCurrent`, `OnlyRestartForgets`, `NobodyStarves`; two sales so that one holds the lock while another queues behind a writer; deadlock is checked |
| warmup | two launches of two wallets, a token for one of them, one late transaction | `NoTokenLost`, `EndsOrSpins`; two launches are needed to steal tokens and wrapped SOL, the second wallet is one beyond the list of tokens |
| sell_all | three wallets with 0, 1 or 4 tokens, six pairs of sizes, two transactions per bundle | `SaleAndTaxTogether`, `AllOkMeansSold`, `NothingStranded`, `BundlesTaken`. The sizes put a tip or a tax at a different place each, separate a sale from its tax, leave a bundle without a tip, make a transaction too large and put the cloned tip into both bundles |
| collect | three wallets with 0, 1 or 5 lamports, amounts 0, 2, 4 and 7, a limit of one transfer per transaction, behind which the tip fits for the admin and not for the user, two transactions per bundle | `PaidExactly`, `WorthTheTip`, `ImplementsPayment`, `BundleRight`. Three wallets make one transaction more than is taken; 7 needs two wallets, one of them in part |

Each cfg that sets CHECK_DEADLOCK FALSE is of a program that ends. Type invariants
also hold what a type should say of this code: attempts within their limits in
JitoSubmit and LutCreate, the lock's holders and waiters in LutRegistry,
balances that never go below zero in Warmup, an amount that is split without loss
in Collect, subtractions that do not wrap in Splits, curves that keep a token in
Buys although subtractions wrap.

What the violations say of the launch, next to the findings: with buyer 19 in both
bundles the first late bundle of a launch without delay can never execute (in
Launch, `Executes` is false for it for ever), and `submit_bundle` answers Ok all
the same because the curve exists; with 45 buyers or more the first late bundle
has no tip either. This is why `SizesAndTips` promises no more of the late
transactions than one tip between them, in the last.

What passing runs show that a reader may not expect:

- `EndsUnlessCreationAges` has two disjuncts because the second happens: once the
  blockhash of `lut.rs:60` has expired, the loop at line 75 never ends.
- `EndsOrSpins` likewise: a launch can be left buying with no wrapped SOL or
  searching a route for tokens another launch has sold.
- `TasksComplete` holds because the delayed task looks at the clock, but the clock
  starts when the task is spawned, so a launch that takes two minutes leaves its
  late bundles unsent. The part about every late bundle therefore speaks of a
  task that has started to send.
- `BundlesTaken` carries three exceptions. Two come from the size test at
  `helpers.rs:147`, which looks at the transaction without the tip: at exactly the
  limit a bundle goes untipped, and a tip heavier than the instruction it replaces
  makes the transaction too large. The third is the cloned tip (`helpers.rs:212`,
  215): when the last transaction begins a bundle and has no room for a tip, the
  last two bundles hold the same signed transaction. The one that lands first keeps
  the other out for ever, with the sales in it; sent in order it is the last one
  that is lost.
- `SaleAndTaxTogether` has one too: where the cut into bundles goes between a sale
  and its tax, either can land alone.
- `OwnBuysExecute` and `ReserveKept` leave out the wallet that is quoted twice. It
  cannot buy twice out of what it was quoted for, and if it does it buys the second
  time out of its reserve. Both also start from exact quotes: a launch in which one
  quote wrapped is left out altogether, the healthy wallets behind the wrapped one
  included, whose quotes are made on a curve that will never be.
- `LeavesEnough` holds although deviations only go up: a negative one is cast to 0
  (`pumpfun/utils.rs:59`) and a positive one multiplied by the index, all at the
  expense of the wallets to come, of which the last gets at most an equal part
  (`LastGetsLeastCorrect`). `AverageWithinShare` is an average: the first wallets buy
  at the lowest price and receive more than the share.
- `WorthTheTip` speaks of withdrawals that could read a wallet. When no key file
  can be read the guard compares 0 with 0 (`recursive_pay.rs:154`) and a bundle
  with nothing but the tip is sent.

Observations of the code that no run states as a violation, because no text of the
repository says otherwise:

- `jito/utils.rs:67` takes an error object without the member `Ok` for no error.
  JitoSubmit models the reading (`OkField`); if the engine landed a bundle with a
  failed transaction (`MayLandFailed = TRUE`), TLC refutes `ImplementsSubmission`
  at once.
- A purchase of the warm-up that landed behind an error is made again
  (`token_manager.rs:81-86`), so that more than the given amount is bought.
- `/sell-all` drops the verdicts of its bundles (`handlers.rs:386`): without the
  admin's flag it answers success whatever became of them.
- `get_buy_price` takes the minimum with the virtual reserves where its comment
  speaks of the real ones (`bonding_curve.rs:114-120`); it never matters.
- `help.rs:120`, 173 and 236 subtract the reserve without a check. In a release
  build (`README.md` of the repository, `cargo build --release`) a poorer wallet
  is quoted for nearly 2^64 lamports; in a debug build the task panics.
- A `split_percent` of 0 asks for 2^64 - 1 wallets (`pumpfun/utils.rs:31`).

Comments that no longer say what the code does:

- `pumpfun/utils.rs:58`, "Add random deviation between -5% to +5%": the deviation is
  never negative, and from the third wallet on it can be more than 5 %.
- `pumpfun/utils.rs:68`, "Verify the tokens this split would receive doesn't exceed max
  per wallet": they are computed and compared with nothing, and a wallet can
  receive more than the share.
- `bundle.rs:183`, "Only send first chunk for testing": the loop sends every chunk of
  late transactions, each round, and so does Launch.
- `handlers.rs:100`, "break if more than 12", has no code behind it.

## Fairness

Weak fairness on a task's own steps: tokio runs a task that is ready and every
remote call returns or times out. Weak fairness on clocks (`Expire`, `Age`).
Strong fairness where the code retries for ever and an answer "every attempt
fails" says nothing of the code: in Launch the first bundle reaches the engine,
lands and its balance is read in some attempt; in Warmup a transaction that can
execute is confirmed in some attempt. Nothing is assumed of bundles the code
does not retry, of transactions landing in LutCreate, or of clients. Jupiter is
assumed to find a route for a bonded token in LutRegistry, and not in Warmup.
Collect and CollectBundle assume weak fairness of the call's own steps, and
Submission and Payment only of the answer, which is what `ImplementsSubmission`
and `ImplementsPayment` then include: a call returns. BundlePacking, Buys, Splits
and SellAll state no fairness, since nothing is claimed of them that needs it.

## Proofs

TLAPS checks these for all values of the constants; the assumptions are the named
ASSUMEs of the modules (bounds are positive, at least two buyers or transactions
fit) and what a theorem states itself. Every invariant and action property that a
passing run checks is the subject of a theorem.

- **SumTheorems**, lemmas for the others: laws of `SumFunction` and `SumFunctionOnSet` (`SumAdd`, `SumExcept`,
  `SumMonotone`, `SumAppend` and others). The library defines them by a recursive
  function under a CHOOSE: `SumExists` shows that the recursion has a solution. The
  inductions go over the size of a finite set, written as a smallest
  counterexample that the well-foundedness of `<` excludes (`NatSteps`), since the
  library's induction theorems take an operator.
- **Launch_proofs**, the packing: `PackTypeCorrect`, `NoBuyerLostCorrect`,
  `OncePerGroupCorrect`, `DelayedIffRestCorrect`, `SizesAndTipsCorrect`. The
  properties are not inductive: that nobody is lost at the end needs to know what
  each loop has packed at each index. `PackInv` adds `FirstInv` and `RestInv` (the
  buyers pushed and those of the open transaction together are an interval that
  ends at the index, and the two do not overlap) and `StageInv` (what is settled
  between the loops). `SizeInv` says how long the interval of the open transaction
  is (the index modulo five), how many transactions the first bundle has, and
  where the tips are, of the first bundle and of the late transactions. From it
  `SizesAndTips` follows if
  `MaxFirst < (ChunkTxs - 1) * PerTx`, 19 < 20 in the code: there is no
  room for one buyer more in the first bundle.
- **Launch_proofs**, the tasks: `LaunchPacks` (the steps of a launch are those of the
  packing or leave it alone), `LaunchTypeCorrect`, `LaunchInvariant`,
  `LateAfterLaunchCorrect`, `AnnouncedMeansBoughtCorrect`, whatever bundles are lost,
  expire or land twice. `Seen` says what each task knows of the chain: a curve exists
  only because the first bundle landed, and a task past its reading of the balance
  has seen the curve. That only buyers of the request buy (`TypeOK`) rests on the
  packing.
- **JitoSubmit_proofs**: `TypeCorrect` and `PlainOkCorrect` (an Ok without a client
  means that the bundle landed) hold whatever the engine lands; `OkMeansCorrect` and
  `RefinesSubmission` need an engine that lands no failed bundle
  (`MayLandFailed = FALSE`). `Stand` says what each place in the code knows: a bundle
  in the final check has landed, a lookup has a client. `RefinesSubmission` maps every
  step to a step of Submission or to a stutter.
- **Lut_proofs**, creation: `CreateTypeCorrect`, `TableIsPrefixCorrect`,
  `OkMeansFullCorrect`. `ChunksSent` ties the length of the table to the chunk being sent
  and the fate of its transaction.
- **Lut_proofs**, registry: `RegistryTypeCorrect`, `TableStillCurrentAlways`,
  `OnlyRestartForgetsAlways`, for any number of launches, sales and clients. The map
  cannot change under a sale because the lock excludes writers (`Excluded`) while
  every sale that has looked its table up still holds it (`GuardKept`): this is what
  the guard kept through every await is good for, and dropping it earlier breaks the
  invariant. The types need to know of the queue that each task waits at most once
  (`Waits`).
- **Warmup_proofs**: `WarmupTypeCorrect`, `NoTokenLostAlways`, for every number of
  launches, wallets, tokens and late transactions. `NoTokenLost` has two halves.
  `Accounted`, that the admin's tokens and those the wallets got make up what was
  bought, is a sum over the launches and inductive with the types. That a launch on its
  own funds all its wallets needs `FundInv`: a token for each wallet still to come
  while it sells, and no sale of nothing in flight.
- **SellAll_proofs**: `SaleInvariant`, and from it `SaleTypeCorrect`,
  `SaleBundlesTaken`, `SaleWithItsTax`, `SaleAllOkMeansSold`, `SaleStrandsNothing`: all
  that the run checks, for every number of wallets, all balances, sizes and limits.
  - The packing: `Loop(c)` says that the instructions come in order (`Placed`): the
    first c in the transactions pushed, each once, the others in the open one, whose
    last instruction is the one before the next except where a bundle begins. That
    exception is what makes the move of an instruction for a tip safe: the next
    push that takes one out comes a bundle later, when the order is restored.
    No transaction is in the list twice because each holds an instruction, in
    order, but for the tips that stand alone (`Lone`): none while the loop runs,
    since the transaction that gives an instruction up keeps another (a sale and
    its tax fit together, so one instruction and the next never fill it), and then
    one, or the two clones (`OnlyClone`).
    Here two or more transactions per bundle are needed (`PerBundle > 1`), and that a
    sale and its tax fit in one transaction (`SellAllAssumption`).
  - The bundles: the cut by number (`chunks(5)`) puts each transaction in one bundle,
    in order (`Cover`, `Ordered`), so the tax of a wallet never goes before its sale
    (`SaleFirst`): this is why the exception in `SaleAndTaxTogether` is the only one.
  - The execution: `Landing` says what a bundle that lands did to every wallet, by
    induction over its instructions (`RanTo`). With it `ChainInv` keeps the sets of
    wallets that sold and paid equal to those of the bundles that landed.
- **Collect_proofs**: of Collect `TypeCorrect`, `PaidExactlyAlways`, `WorthTheTipAlways`
  and `ImplementsPaymentSafety`; `CInv` ties the transfers to what was read, and
  `Passed` says what is known once the checks are behind. Of CollectBundle
  `BundleImplementsCollect`, with which the four carry over (`BundleTypeCorrect`,
  `BundlePaysExactly`, `BundleWorthTheTip`, `BundleImplementsPayment`), and
  `BundleFits`, `BundleTippedAndCounted` and `BundleRightAlways`: `Shape` says that all
  transactions but the open one are full and that `Len(txs) * PerTx` plus the open
  one's transfers are what has been taken off the list, from which the count that
  decides about the refusal follows with a lemma on quotients (`Divide`,
  `Counted`); `Sums` adds up the lamports and the transfers. `RealSizes` evaluates it
  at 1232 bytes: nine transfers per transaction, 45 wallets in a bundle for the
  admin, whose tip fits exactly, and 44 for a user.
- **Curve_proofs**, purchases: `TypeCorrect`, `OwnBuysExecuteAlways`,
  `ReserveKeptAlways`. The invariant compares the two curves: undisturbed, the real
  one is no dearer than any quote still to come was made on, because purchases that
  were lost only leave it cheaper.
- **Curve_proofs**, splits: `SplitTypeCorrect`, `SumExactCorrect`,
  `AverageWithinShareCorrect`, `LeavesEnoughCorrect`, `LastGetsLeastCorrect`. What is
  allocated and what is left make up the amount, what is left for a wallet only ever
  falls, and the parts of the list add up to what is allocated.

Only model-checked, because the prover has no rule for it: all liveness
(`TasksComplete`, `EndsUnlessCreationAges`, `NobodyStarves`, `EndsOrSpins`) and the
fairness part of the two refinements (`ImplementsSubmission`, `ImplementsPayment`: that
a call returns).

## Not modelled

- `refund_keypairs` (`main.rs:49`): one transfer per key file before the server
  listens, each independent of the others, without state; in Collect it is a use
  of the wallets by others. A key file it cannot read keeps the server from starting.
- `global.rs`, `get_sol_for_tokens`, `get_market_cap`, `get_sell_price`: without a caller,
  or only to fill a price into an answer. Prices and slippage outside Buys.
- The branch of `sell_all_txs` for bonded tokens: `get_pool_information` unwraps the
  sell price, which is an error on a complete curve (`pump.rs:551`), so it panics
  before the branch is reached.
- `bump.rs`: its handler is not routed, and drops the future of `bump()`.
- Instruction bytes and account lists; the handlers that only read (`/`,
  `/earning`, `/pool-info`, `/confirm`, `/price`) or send one transaction (`/sell`,
  `/collect-fees`), which are steps of others in SellAll.
- The curve of the chain is assumed to start on the default that is simulated
  (Buys). Splits takes the f64 quotient of the number of wallets to be exact.
- Helpers without a caller (`verify_lut_ready`, `close_lut`, `validate_delayed_txs`,
  parts of `jupiter/swap.rs`), and starvation of tokio's worker threads by
  `thread::sleep`.
- The age of the blockhash that all late transactions of a round share: Launch lets
  any late bundle be lost, for whatever reason.

## Plan

1. Done: every component that keeps state or decides about money, except the
   refund at the start, and the proofs above.
2. LutRegistry's launch refined by Launch, and Launch's warm-up and table by Warmup
   and LutCreate: today each stands for the other by its outcome.
3. Several calls of `recursive_pay` over the same wallets at once, as one module;
   today the others are steps of the environment.
4. Done: a theorem for every safety property that a run checks. Left for the proofs:
   the compositions of 2 and 3, once they are modules, and the sufficient condition
   under which `BundlesTaken` has no exception (a tip no heavier than any
   instruction, no transaction of exactly the limit, and a last transaction that
   takes the tip or does not begin a bundle).
