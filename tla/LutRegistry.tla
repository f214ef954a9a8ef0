----------------------------- MODULE LutRegistry -----------------------------
(***************************************************************************)
(* The map from mints to lookup tables shared by the handlers of the       *)
(* server (pubkey_to_lut, src/main.rs): filled by handle_post_bundle when  *)
(* a launch has returned and by setup_lut_record (/lut), read by           *)
(* sell_all_leftover_tokens (/sell-all), src/handlers.rs.  It lives in     *)
(* memory, behind the read-write lock of tokio; Launch details what is the *)
(* single action LaunchReturns here.                                       *)
(***************************************************************************)
EXTENDS Integers, Sequences, FiniteSets, SequencesExt

CONSTANTS Mints, Tables, None,
          Jobs,        \* launches asked for with /post-bundle
          Sellers,     \* clients of /sell-all
          Setups,      \* clients of /lut
          MintOf,      \* [Jobs -> Mints]: the vanity key of the request
          TableOf,     \* [Jobs -> Tables]: the table create_lut makes
          Lists,       \* lists of records posted to /lut
          MaxRestarts  \* bound: how often the server is started again

Records == [mint : Mints, lut : Tables, parses : BOOLEAN]

ASSUME RegistryAssumption ==
    /\ None \notin Tables /\ None \notin Lists
    /\ MintOf \in [Jobs -> Mints] /\ TableOf \in [Jobs -> Tables]
    /\ Lists \subseteq Seq(Records)
    /\ Jobs \cap Sellers = {} /\ Setups \cap Sellers = {} /\ Jobs \cap Setups = {}
    /\ MaxRestarts \in Nat

VARIABLES map,       \* the map: [Mints -> Tables \cup {None}]
          keys,      \* mints with key files below accounts/
          job,       \* where each launch stands
          sell,      \* the request each seller has made
          setup,     \* the request each client of /lut has made
          holders,   \* who holds the lock
          queue,     \* who waits for it, in order
          restarts

vars == <<map, keys, job, sell, setup, holders, queue, restarts>>
lockVars == <<holders, queue>>

NoSell == [at |-> "idle"]
Idle == None

Init ==
    /\ map = [m \in Mints |-> None]
    /\ keys = {}
    /\ job = [j \in Jobs |-> "none"]
    /\ sell = [s \in Sellers |-> NoSell]
    /\ setup = [u \in Setups |-> Idle]
    /\ holders = {} /\ queue = <<>>
    /\ restarts = 0

-----------------------------------------------------------------------------
(* tokio::sync::RwLock: one writer or any number of readers, in the order  *)
(* of their requests.  A waiting writer holds up the readers behind it.    *)

Enqueue(r) == queue' = Append(queue, r)

Compatible(r) == holders = {} \/ (r \in Sellers /\ holders \subseteq Sellers)

\* Whom the lock may admit.  ReadersFirst lets sales overtake.
ReadersFirst == {k \in DOMAIN queue : k = 1 \/ queue[k] \in Sellers}
Admitted == {1} \cap DOMAIN queue

Grant ==
    /\ \E k \in Admitted :
          /\ Compatible(queue[k])
          /\ holders' = holders \cup {queue[k]}
          /\ queue' = RemoveAt(queue, k)
    /\ UNCHANGED <<map, keys, job, sell, setup, restarts>>

-----------------------------------------------------------------------------
(* handle_post_bundle. *)

\* Key files are written one by one, each write unwrapped; then the launch
\* becomes a task of its own and the client has its answer.
Post(j) ==
    /\ job[j] = "none"
    /\ keys' = keys \cup {MintOf[j]}
    /\ job' = [job EXCEPT ![j] = "running"]
    /\ UNCHANGED <<map, sell, setup, lockVars, restarts>>

PostPanics(j) ==
    /\ job[j] = "none"
    /\ keys' \in {keys, keys \cup {MintOf[j]}}
    /\ UNCHANGED <<map, job, sell, setup, lockVars, restarts>>

\* process_bundle returns its table and the task asks for the lock, or it
\* fails, or goes on for ever.
LaunchReturns(j) ==
    /\ job[j] = "running"
    /\ job' = [job EXCEPT ![j] = "launched"]
    /\ Enqueue(j)
    /\ UNCHANGED <<map, keys, sell, setup, holders, restarts>>

LaunchFails(j) ==
    /\ job[j] = "running"
    /\ job' = [job EXCEPT ![j] = "failed"]
    /\ UNCHANGED <<map, keys, sell, setup, lockVars, restarts>>

Insert(j) ==
    /\ j \in holders
    /\ map' = [map EXCEPT ![MintOf[j]] = TableOf[j]]
    /\ job' = [job EXCEPT ![j] = "registered"]
    /\ holders' = holders \ {j}
    /\ UNCHANGED <<keys, sell, setup, queue, restarts>>

-----------------------------------------------------------------------------
(* setup_lut_record. *)

SetupArrives(u) ==
    /\ setup[u] = Idle
    /\ \E list \in Lists : setup' = [setup EXCEPT ![u] = list]
    /\ Enqueue(u)
    /\ UNCHANGED <<map, keys, job, sell, holders, restarts>>

\* The records before the first that does not parse.
Accepted(list) ==
    {k \in DOMAIN list : \A i \in 1..k : list[i].parses}

\* The map with those records inserted in order, so that the last one of a
\* mint counts.  Replaced starts from an empty map.
LastOf(list, m) == {k \in Accepted(list) : list[k].mint = m}
Replaced(list) ==
    [m \in Mints |-> IF LastOf(list, m) = {} THEN None
                     ELSE list[CHOOSE k \in LastOf(list, m) : \A i \in LastOf(list, m) : i <= k].lut]
Inserted(list) ==
    [m \in Mints |-> IF LastOf(list, m) = {} THEN map[m]
                     ELSE list[CHOOSE k \in LastOf(list, m) : \A i \in LastOf(list, m) : i <= k].lut]

SetupRuns(u) ==
    /\ u \in holders
    /\ map' = Inserted(setup[u])
    /\ setup' = [setup EXCEPT ![u] = Idle]
    /\ holders' = holders \ {u}
    /\ UNCHANGED <<keys, job, sell, queue, restarts>>

-----------------------------------------------------------------------------
(* sell_all_leftover_tokens.  Its read guard lives until the handler ends. *)

SellArrives(s) ==
    /\ sell[s] = NoSell
    /\ \E m \in Mints : sell' = [sell EXCEPT ![s] = [at |-> "wait", mint |-> m]]
    /\ Enqueue(s)
    /\ UNCHANGED <<map, keys, job, setup, holders, restarts>>

\* An answer, or a panic, ends the handler.
Answered(s) ==
    /\ sell' = [sell EXCEPT ![s] = NoSell]
    /\ holders' = holders \ {s}

\* The guard while the handler goes on.  LetsGo drops it after the lookup.
LetsGo(s) == holders' = holders \ {s}
KeepsGuard(s) == UNCHANGED holders

\* What is left to do, given the wallets' tokens and whether the request is
\* the admin's: sell_all_txs, the bundles, the collection of what was earned.
Plan(total, admin) ==
    <<"build">> \o (IF total = "high" THEN <<"bundles">> ELSE <<>>)
                \o (IF admin THEN <<"pay">> ELSE <<>>)

\* The lookup, the sum of the wallets' balances (1000 tokens exactly is
\* neither low nor high), and the two early returns.  A key file that cannot
\* be read panics.
Lookup(s) ==
    /\ sell[s].at = "wait" /\ s \in holders
    /\ LET m == sell[s].mint
       IN  \/ m \in keys /\ Answered(s)
           \/ \E total \in {"low"} \cup (IF m \in keys THEN {"exact", "high"} ELSE {}),
                 admin \in BOOLEAN :
                IF (total = "low" /\ ~admin) \/ map[m] = None
                THEN Answered(s)
                ELSE /\ sell' = [sell EXCEPT ![s] = [at |-> "in", mint |-> m, lut |-> map[m],
                                                     todo |-> Plan(total, admin)]]
                     /\ KeepsGuard(s)
    /\ UNCHANGED <<map, keys, job, setup, queue, restarts>>

\* The next step of the plan.  sell_all_txs and recursive_pay may panic, the
\* verdicts of the bundles are ignored.
Proceed(s) ==
    /\ sell[s].at = "in"
    /\ \/ Len(sell[s].todo) > 1 /\ sell' = [sell EXCEPT ![s].todo = Tail(@)] /\ UNCHANGED holders
       \/ Len(sell[s].todo) = 1 /\ Answered(s)
       \/ Head(sell[s].todo) # "bundles" /\ Answered(s)
    /\ UNCHANGED <<map, keys, job, setup, queue, restarts>>

\* The server drops a handler whose client has gone.
Gone(r) ==
    /\ \/ r \in Sellers /\ sell[r] # NoSell
       \/ r \in Setups /\ setup[r] # Idle
    /\ sell' = [s \in Sellers |-> IF s = r THEN NoSell ELSE sell[s]]
    /\ setup' = [u \in Setups |-> IF u = r THEN Idle ELSE setup[u]]
    /\ holders' = holders \ {r}
    /\ queue' = RemoveFirst(queue, r)
    /\ UNCHANGED <<map, keys, job, restarts>>

\* The process ends and is started again: only the key files remain.
Restart ==
    /\ restarts < MaxRestarts
    /\ restarts' = restarts + 1
    /\ map' = [m \in Mints |-> None]
    /\ job' = [j \in Jobs |-> IF job[j] = "none" THEN "none" ELSE "gone"]
    /\ sell' = [s \in Sellers |-> NoSell]
    /\ setup' = [u \in Setups |-> Idle]
    /\ holders' = {} /\ queue' = <<>>
    /\ UNCHANGED keys

-----------------------------------------------------------------------------

Handler ==
    \/ Grant
    \/ \E j \in Jobs : Insert(j)
    \/ \E u \in Setups : SetupRuns(u)

SellStep(s) == Lookup(s) \/ Proceed(s)

Clients ==
    \/ \E j \in Jobs : Post(j) \/ PostPanics(j)
    \/ \E u \in Setups : SetupArrives(u) \/ Gone(u)
    \/ \E s \in Sellers : SellArrives(s) \/ Gone(s)

Next ==
    \/ Handler \/ Clients \/ Restart
    \/ \E s \in Sellers : SellStep(s)
    \/ \E j \in Jobs : LaunchReturns(j) \/ LaunchFails(j)

\* The runtime runs every task, and a sale ends: its calls of submit_bundle
\* do (JitoSubmit), and Jupiter finds a route for a bonded token in the end
\* (the loop of pumpswap_pool_id has no other exit).
Spec ==
    /\ Init /\ [][Next]_vars
    /\ WF_vars(Handler)
    /\ \A s \in Sellers : WF_vars(SellStep(s))

-----------------------------------------------------------------------------
(* Properties. *)

\* Every variable keeps to its set of values; whoever holds the lock or waits
\* for it is a request that is being handled, and waits once.
TypeOK ==
    /\ map \in [Mints -> Tables \cup {None}]
    /\ keys \subseteq Mints
    /\ job \in [Jobs -> {"none", "running", "launched", "registered", "failed", "gone"}]
    /\ \A s \in Sellers : sell[s] # NoSell => sell[s].at \in {"wait", "in"} /\ sell[s].mint \in Mints
    /\ setup \in [Setups -> {Idle} \cup Lists]
    /\ holders \cap {queue[k] : k \in DOMAIN queue} = {}
    /\ IsInjective(queue)
    /\ holders \cup {queue[k] : k \in DOMAIN queue} =
          {j \in Jobs : job[j] = "launched"} \cup {u \in Setups : setup[u] # Idle}
            \cup {s \in Sellers : sell[s] # NoSell}
    /\ restarts \in 0..MaxRestarts

\* A sale goes through the table the map holds for its mint as long as it
\* lasts: /lut and a second launch cannot replace the table under it.
TableStillCurrent ==
    \A s \in Sellers : sell[s].at = "in" => sell[s].lut = map[sell[s].mint]

\* Only a restart forgets a table.
OnlyRestartForgets ==
    [][\A m \in Mints : map[m] # None /\ map'[m] = None => restarts' # restarts]_vars

\* A launch that has returned is registered, however many sales hold the lock
\* for however long, unless the server stops first.
LaunchRegistered ==
    \A j \in Jobs : job[j] = "launched" ~> job[j] \in {"registered", "gone"}

\* Every sale gets its answer, whatever writers wait.
SaleAnswered == \A s \in Sellers : sell[s].at # "idle" ~> sell[s].at = "idle"

\* The lock of the map starves nobody: neither a writer behind sales that take
\* minutes, nor a sale behind writers (handlers.rs:161, 307, 540).
NobodyStarves == LaunchRegistered /\ SaleAnswered
==============================================================================
