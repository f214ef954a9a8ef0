----------------------------- MODULE Lut_proofs -----------------------------
(***************************************************************************)
(* Proofs about lookup tables.  The map of them (LutRegistry), for any     *)
(* number of launches, sales, clients of /lut, mints, tables and restarts, *)
(* whoever goes away and whatever lists are posted: the lock excludes      *)
(* writers while a sale holds it, so a sale keeps its table, and only a    *)
(* restart forgets one.  And the making of one (LutCreate), for every list *)
(* of addresses, chunk size and number of tries: what a run of create_lut  *)
(* leaves on the chain.                                                    *)
(***************************************************************************)
EXTENDS LutRegistry, LutCreate, WellFoundedInduction, TLAPS

\* The requests a seller may have made.
Steps == {"build", "bundles", "pay"}

Waiting == [at : {"wait"}, mint : Mints]
Selling == [at : {"in"}, mint : Mints, lut : Tables \cup {None}, todo : Seq(Steps)]
Requests == {NoSell} \cup Waiting \cup Selling

DataOK ==
    /\ map \in [Mints -> Tables \cup {None}]
    /\ sell \in [Sellers -> Requests]
    /\ setup \in [Setups -> {Idle} \cup Lists]

\* One writer, or readers only.
Excluded == \A q, r \in holders : q = r \/ (q \in Sellers /\ r \in Sellers)

\* A sale that has looked its table up still holds the lock.
GuardKept == \A s \in Sellers : sell[s].at = "in" => s \in holders

LockInv == DataOK /\ Excluded /\ GuardKept /\ TableStillCurrent

\* A finite set of positions has a last one.
LEMMA LastExists ==
    ASSUME NEW size \in Nat, NEW S \in SUBSET (1..size), S # {}
    PROVE  \E k \in S : \A i \in S : i <= k
<1>. DEFINE T == {size - k : k \in S}
            R == OpToRel(<, Nat)
<1>1. IsWellFoundedOn(R, Nat)
  BY NatLessThanWellFounded
<1>2. \A x, y \in Nat : <<y, x>> \in R <=> y < x
  BY DEF OpToRel
<1>3. T \subseteq Nat /\ T # {}
  <2>1. \A k \in S : size - k \in Nat
    OBVIOUS
  <2>2. PICK k \in S : TRUE
    OBVIOUS
  <2>3. size - k \in T
    BY <2>2
  <2>. QED BY <2>1, <2>3
<1>. HIDE DEF R
<1>4. \E x \in T : \A y \in T : ~ (<<y, x>> \in R)
  BY <1>1, <1>3, WFMin
<1>5. PICK x \in T : \A y \in T : ~ (y < x)
  BY <1>2, <1>3, <1>4
<1>6. PICK k \in S : x = size - k
  OBVIOUS
<1>7. \A i \in S : i <= k
  <2>. TAKE i \in S
  <2>1. size - i \in T
    OBVIOUS
  <2>2. ~(size - i < size - k)
    BY <1>5, <1>6, <2>1
  <2>3. i \in Int /\ k \in Int
    OBVIOUS
  <2>. QED BY <2>2, <2>3
<1>. QED BY <1>7

\* What a list of records leaves in the map: a table where there was one.
LEMMA InsertedOK ==
    ASSUME map \in [Mints -> Tables \cup {None}], NEW list \in Lists
    PROVE  /\ Inserted(list) \in [Mints -> Tables \cup {None}]
           /\ \A m \in Mints : map[m] # None => Inserted(list)[m] # None
<1>1. list \in Seq(Records)
  BY RegistryAssumption
<1>2. ASSUME NEW m \in Mints, LastOf(list, m) # {}
      PROVE  list[CHOOSE k \in LastOf(list, m) : \A i \in LastOf(list, m) : i <= k].lut \in Tables
  <2>1. LastOf(list, m) \subseteq 1..Len(list) /\ Len(list) \in Nat
    BY <1>1 DEF LastOf, Accepted
  <2>2. \E k \in LastOf(list, m) : \A i \in LastOf(list, m) : i <= k
    BY <1>2, <2>1, LastExists
  <2>3. (CHOOSE k \in LastOf(list, m) : \A i \in LastOf(list, m) : i <= k) \in 1..Len(list)
    BY <2>1, <2>2
  <2>. DEFINE last == CHOOSE k \in LastOf(list, m) : \A i \in LastOf(list, m) : i <= k
  <2>. HIDE DEF last
  <2>4. list[last] \in Records
    BY <1>1, <2>3 DEF last
  <2>5. list[last].lut \in Tables
    BY <2>4 DEF Records
  <2>. QED BY <2>5 DEF last
<1>. QED BY <1>2, RegistryAssumption DEF Inserted

-----------------------------------------------------------------------------
(* Who holds the lock and who waits for it. *)

\* Those who wait, and those whose request is being handled and needs the lock.
Queued == {queue[k] : k \in DOMAIN queue}

Pending ==
    {j \in Jobs : job[j] = "launched"} \cup {u \in Setups : setup[u] # Idle}
      \cup {s \in Sellers : sell[s] # NoSell}

Waits ==
    /\ keys \subseteq Mints
    /\ job \in [Jobs -> {"none", "running", "launched", "registered", "failed", "gone"}]
    /\ queue \in Seq(Jobs \cup Setups \cup Sellers)
    /\ holders \cap Queued = {}
    /\ IsInjective(queue)
    /\ holders \cup Queued = Pending
    /\ restarts \in 0..MaxRestarts

\* One more waits.
LEMMA Enqueued ==
    ASSUME NEW S, NEW q \in Seq(S), IsInjective(q), NEW r \in S,
           r \notin {q[k] : k \in DOMAIN q}
    PROVE  LET p == Append(q, r)
           IN  /\ p \in Seq(S) /\ IsInjective(p)
               /\ {p[k] : k \in DOMAIN p} = {q[k] : k \in DOMAIN q} \cup {r}
<1>. DEFINE p == Append(q, r)
            size == Len(q)
<1>1. /\ size \in Nat /\ p \in Seq(S) /\ DOMAIN q = 1..size /\ DOMAIN p = 1..size+1
      /\ p[size + 1] = r /\ \A k \in 1..size : p[k] = q[k]
  OBVIOUS
<1>. HIDE DEF p, size
<1>2. \A k \in 1..size+1 : k = size + 1 \/ k \in 1..size
  BY <1>1
<1>3. size + 1 \in 1..size+1 /\ \A k \in 1..size : k \in 1..size+1
  BY <1>1
<1>4. IsInjective(p)
  BY <1>1, <1>2 DEF IsInjective
<1>5. {p[k] : k \in DOMAIN p} = {q[k] : k \in DOMAIN q} \cup {r}
  BY <1>1, <1>2, <1>3
<1>. QED BY <1>1, <1>4, <1>5 DEF p

\* One of those who wait no longer does.
LEMMA Dequeued ==
    ASSUME NEW S, NEW q \in Seq(S), IsInjective(q), NEW k \in DOMAIN q
    PROVE  LET p == RemoveAt(q, k)
           IN  /\ p \in Seq(S) /\ IsInjective(p)
               /\ {p[m] : m \in DOMAIN p} = {q[m] : m \in DOMAIN q} \ {q[k]}
<1>. DEFINE p == RemoveAt(q, k)
            size == Len(q)
            At(m) == IF m < k THEN m ELSE m + 1
<1>1. size \in Nat /\ DOMAIN q = 1..size /\ k \in 1..size
  OBVIOUS
<1>2. p \in Seq(S) /\ Len(p) = size - 1 /\ \A m \in 1..size-1 : p[m] = q[At(m)]
  <2>. DEFINE a == SubSeq(q, 1, k - 1)
              b == SubSeq(q, k + 1, size)
  <2>1. a \in Seq(S) /\ Len(a) = k - 1 /\ \A m \in 1..k-1 : a[m] = q[m]
    BY <1>1
  <2>2. b \in Seq(S) /\ Len(b) = size - k /\ \A m \in 1..size-k : b[m] = q[k + m]
    BY <1>1
  <2>3. p = a \o b
    BY DEF RemoveAt
  <2>. HIDE DEF a, b, p
  <2>4. p \in Seq(S) /\ Len(p) = size - 1
    <3>0. a \in Seq(S) /\ b \in Seq(S)
      BY <2>1, <2>2
    <3>1. a \o b \in Seq(S) /\ Len(a \o b) = Len(a) + Len(b)
      BY <3>0
    <3>2. p \in Seq(S) /\ Len(p) = Len(a) + Len(b)
      BY <2>3, <3>1
    <3>. QED BY <1>1, <2>1, <2>2, <3>2
  <2>5. ASSUME NEW m \in 1..size-1 PROVE p[m] = q[At(m)]
    <3>1. CASE m < k
      BY <1>1, <2>1, <2>2, <2>3, <3>1
    <3>2. CASE ~(m < k)
      <4>1. p[m] = b[m - (k - 1)] /\ m - (k - 1) \in 1..size-k
        BY <1>1, <2>1, <2>2, <2>3, <3>2
      <4>2. k + (m - (k - 1)) = m + 1
        BY <1>1
      <4>. QED BY <2>2, <3>2, <4>1, <4>2
    <3>. QED BY <3>1, <3>2
  <2>. QED BY <2>4, <2>5
<1>3. DOMAIN p = 1..size-1
  BY <1>1, <1>2
<1>. HIDE DEF p, size
<1>4. \A m \in 1..size-1 : At(m) \in 1..size /\ At(m) # k
  BY <1>1
<1>5. \A m \in 1..size : m # k => \E j \in 1..size-1 : At(j) = m
  <2>. TAKE m \in 1..size
  <2>1. CASE m < k
    <3>1. m \in 1..size-1 /\ At(m) = m
      BY <1>1, <2>1
    <3>. QED BY <3>1
  <2>2. CASE m > k
    <3>1. m - 1 \in 1..size-1 /\ At(m - 1) = m
      BY <1>1, <2>2
    <3>. QED BY <3>1
  <2>. QED BY <1>1, <2>1, <2>2
<1>6. \A i, j \in 1..size-1 : At(i) = At(j) => i = j
  BY <1>1
<1>. HIDE DEF At
<1>7. IsInjective(p)
  BY <1>1, <1>2, <1>3, <1>4, <1>6 DEF IsInjective
<1>8. {p[m] : m \in DOMAIN p} \subseteq {q[m] : m \in DOMAIN q} \ {q[k]}
  BY <1>1, <1>2, <1>3, <1>4 DEF IsInjective
<1>9. {q[m] : m \in DOMAIN q} \ {q[k]} \subseteq {p[m] : m \in DOMAIN p}
  BY <1>1, <1>2, <1>3, <1>5
<1>. QED BY <1>2, <1>7, <1>8, <1>9 DEF p

\* Whoever goes away waits no longer, if it did.
LEMMA Withdrawn ==
    ASSUME NEW S, NEW q \in Seq(S), IsInjective(q), NEW r, NEW p, p = RemoveFirst(q, r)
    PROVE  /\ p \in Seq(S) /\ IsInjective(p)
           /\ {p[m] : m \in DOMAIN p} = {q[m] : m \in DOMAIN q} \ {r}
<1>1. DOMAIN q = 1..Len(q)
  OBVIOUS
<1>2. CASE \E k \in 1..Len(q) : q[k] = r
  <2>1. PICK k \in 1..Len(q) : q[k] = r
    BY <1>2
  <2>. DEFINE I == {j \in 1..Len(q) : q[j] = r}
  <2>2. I = {k}
    BY <1>1, <2>1 DEF IsInjective
  <2>3. SelectInSeq(q, LAMBDA v : v = r) = Min(I)
    BY <2>2 DEF SelectInSeq
  <2>4. Min(I) = k
    BY <2>2 DEF Min
  <2>5. RemoveFirst(q, r) = RemoveAt(q, k)
    BY <1>2, <2>3, <2>4 DEF RemoveFirst
  <2>6. k \in DOMAIN q
    BY <1>1, <2>1
  <2>7. LET s == RemoveAt(q, k)
        IN  /\ s \in Seq(S) /\ IsInjective(s)
            /\ {s[m] : m \in DOMAIN s} = {q[m] : m \in DOMAIN q} \ {q[k]}
    BY <2>6, Dequeued
  <2>8. p = RemoveAt(q, k)
    BY <2>5
  <2>. QED BY <2>1, <2>7, <2>8, Zenon
<1>3. CASE ~\E k \in 1..Len(q) : q[k] = r
  BY <1>1, <1>3 DEF RemoveFirst
<1>. QED BY <1>2, <1>3

-----------------------------------------------------------------------------

\* An empty map, no request and a free lock.
LEMMA InitLock == Init => LockInv
  BY DEF Init, LockInv, DataOK, Excluded, GuardKept, TableStillCurrent, Requests, Waiting, Selling, NoSell

\* A step that leaves the data and lets nobody in keeps the invariant, if no
\* sale that has its table leaves the lock.
LEMMA MapUnchanged ==
    ASSUME LockInv, DataOK', map' = map, holders' \subseteq holders,
           \A s \in Sellers : sell'[s].at = "in" => s \in holders',
           \A s \in Sellers : sell'[s].at = "in" => sell'[s].lut = map[sell'[s].mint]
    PROVE  LockInv'
  BY DEF LockInv, Excluded, GuardKept, TableStillCurrent

\* The lock admits one more.
LEMMA GrantLock == ASSUME LockInv, Grant PROVE LockInv'
<1>1. PICK k \in Admitted : Compatible(queue[k]) /\ holders' = holders \cup {queue[k]}
  BY DEF Grant
<1>2. UNCHANGED <<map, sell, setup>>
  BY DEF Grant
<1>3. Excluded'
  BY <1>1 DEF LockInv, Excluded, Compatible
<1>. QED BY <1>1, <1>2, <1>3 DEF LockInv, DataOK, GuardKept, TableStillCurrent

\* Writers find no sale with its table in the lock.
LEMMA WriterAlone ==
    ASSUME LockInv, NEW r \in Jobs \cup Setups, r \in holders
    PROVE  \A s \in Sellers : sell[s].at # "in"
  BY RegistryAssumption DEF LockInv, Excluded, GuardKept

\* A launch registers its table.
LEMMA InsertLock == ASSUME LockInv, NEW j \in Jobs, Insert(j) PROVE LockInv'
<1>1. j \in holders /\ holders' = holders \ {j} /\ UNCHANGED <<sell, setup>>
      /\ map' = [map EXCEPT ![MintOf[j]] = TableOf[j]]
  BY DEF Insert
<1>2. map' \in [Mints -> Tables \cup {None}]
  BY <1>1, RegistryAssumption DEF LockInv, DataOK
<1>3. \A s \in Sellers : sell'[s].at # "in"
  BY <1>1, WriterAlone
<1>. QED BY <1>1, <1>2, <1>3 DEF LockInv, DataOK, Excluded, GuardKept, TableStillCurrent

\* A list posted to /lut is inserted.
LEMMA SetupLock == ASSUME LockInv, Waits, NEW u \in Setups, SetupRuns(u) PROVE LockInv'
<1>0. setup[u] \in Lists
  <2>1. u \in Pending
    BY DEF SetupRuns, Waits
  <2>. QED BY <2>1, RegistryAssumption DEF Pending, LockInv, DataOK
<1>1. u \in holders /\ holders' = holders \ {u} /\ sell' = sell
      /\ map' = Inserted(setup[u]) /\ setup' = [setup EXCEPT ![u] = Idle]
  BY DEF SetupRuns
<1>2. map' \in [Mints -> Tables \cup {None}]
  BY <1>0, <1>1, InsertedOK DEF LockInv, DataOK
<1>3. \A s \in Sellers : sell'[s].at # "in"
  BY <1>1, WriterAlone
<1>. QED BY <1>1, <1>2, <1>3 DEF LockInv, DataOK, Excluded, GuardKept, TableStillCurrent

\* What a plan is made of, and what a request is.
LEMMA PlanOK ==
    \A total \in {"low", "exact", "high"}, admin \in BOOLEAN :
        Plan(total, admin) \in Seq(Steps)
<1>1. <<"build">> \in Seq(Steps) /\ <<"bundles">> \in Seq(Steps) /\ <<"pay">> \in Seq(Steps)
      /\ <<>> \in Seq(Steps)
  BY DEF Steps
<1>2. \A p, q, r \in Seq(Steps) : p \o q \o r \in Seq(Steps)
  OBVIOUS
<1>. QED BY <1>1, <1>2, Zenon DEF Plan

\* A plan grows shorter without touching the rest of the request.
LEMMA Shorten ==
    ASSUME NEW r \in Selling, NEW rest \in Seq(Steps)
    PROVE  /\ [r EXCEPT !.todo = rest] \in Selling
           /\ [r EXCEPT !.todo = rest].lut = r.lut
           /\ [r EXCEPT !.todo = rest].mint = r.mint
  BY DEF Selling

\* A sale arrives, looks its table up, goes on or ends.
LEMMA SellLock ==
    ASSUME LockInv, NEW s \in Sellers, SellArrives(s) \/ Lookup(s) \/ Proceed(s)
    PROVE  LockInv'
<1>1. CASE SellArrives(s)
  <2>1. PICK m \in Mints : sell' = [sell EXCEPT ![s] = [at |-> "wait", mint |-> m]]
    BY <1>1 DEF SellArrives
  <2>2. UNCHANGED <<map, setup, holders>>
    BY <1>1 DEF SellArrives
  <2>3. DataOK'
    BY <2>1, <2>2 DEF LockInv, DataOK, Requests, Waiting
  <2>. QED BY <2>1, <2>2, <2>3, MapUnchanged DEF LockInv, DataOK, GuardKept, TableStillCurrent
<1>2. CASE Answered(s) /\ UNCHANGED <<map, setup>>
  <2>1. sell' = [sell EXCEPT ![s] = NoSell] /\ holders' = holders \ {s}
    BY <1>2 DEF Answered
  <2>2. DataOK'
    BY <1>2, <2>1 DEF LockInv, DataOK, Requests, Waiting
  <2>3. sell'[s].at # "in" /\ \A q \in Sellers \ {s} : sell'[q] = sell[q]
    BY <2>1 DEF LockInv, DataOK, NoSell
  <2>. QED BY <1>2, <2>1, <2>2, <2>3, MapUnchanged DEF LockInv, GuardKept, TableStillCurrent
<1>3. CASE Lookup(s) /\ ~Answered(s)
  <2>1. /\ UNCHANGED <<map, setup, holders>> /\ s \in holders /\ sell[s].at = "wait"
        /\ \E total \in {"low", "exact", "high"}, admin \in BOOLEAN :
              sell' = [sell EXCEPT ![s] = [at |-> "in", mint |-> sell[s].mint,
                                           lut |-> map[sell[s].mint],
                                           todo |-> Plan(total, admin)]]
    BY <1>3 DEF Lookup, KeepsGuard
  <2>2. PICK todo \in Seq(Steps) :
            sell' = [sell EXCEPT ![s] = [at |-> "in", mint |-> sell[s].mint,
                                         lut |-> map[sell[s].mint], todo |-> todo]]
    BY <2>1, PlanOK
  <2>3. sell[s].mint \in Mints /\ map[sell[s].mint] \in Tables \cup {None}
    BY <2>1 DEF LockInv, DataOK, Requests, Waiting, Selling, NoSell
  <2>4. DataOK'
    <3>. DEFINE req == [at |-> "in", mint |-> sell[s].mint,
                        lut |-> map[sell[s].mint], todo |-> todo]
    <3>1. req \in Requests
      <4>1. req \in Selling
        BY <2>3 DEF Selling
      <4>. QED BY <4>1 DEF Requests
    <3>. HIDE DEF req
    <3>2. sell' = [sell EXCEPT ![s] = req]
      BY <2>2 DEF req
    <3>. QED BY <2>1, <3>1, <3>2 DEF LockInv, DataOK
  <2>5. sell'[s].lut = map[sell'[s].mint] /\ \A q \in Sellers \ {s} : sell'[q] = sell[q]
    BY <2>2 DEF LockInv, DataOK
  <2>. QED BY <2>1, <2>4, <2>5, MapUnchanged DEF LockInv, GuardKept, TableStillCurrent
<1>4. CASE Proceed(s) /\ ~Answered(s)
  <2>1. /\ UNCHANGED <<map, setup, holders>> /\ sell[s].at = "in"
        /\ sell' = [sell EXCEPT ![s].todo = Tail(@)] /\ Len(sell[s].todo) > 1
    BY <1>4 DEF Proceed
  <2>2. sell[s] \in Selling
    BY <2>1 DEF LockInv, DataOK, Requests, Waiting, NoSell
  <2>3. Tail(sell[s].todo) \in Seq(Steps)
    BY <2>1, <2>2 DEF Selling
  <2>. DEFINE req == [sell[s] EXCEPT !.todo = Tail(sell[s].todo)]
  <2>4. req \in Selling /\ req.lut = sell[s].lut /\ req.mint = sell[s].mint
    BY <2>2, <2>3, Shorten
  <2>5. sell' = [sell EXCEPT ![s] = req]
    BY <2>1, Zenon
  <2>. HIDE DEF req
  <2>6. DataOK'
    BY <2>1, <2>4, <2>5 DEF LockInv, DataOK, Requests
  <2>7. /\ sell'[s].lut = sell[s].lut /\ sell'[s].mint = sell[s].mint
        /\ \A q \in Sellers \ {s} : sell'[q] = sell[q]
    BY <2>4, <2>5 DEF LockInv, DataOK
  <2>. QED BY <2>1, <2>6, <2>7, MapUnchanged DEF LockInv, GuardKept, TableStillCurrent
<1>. QED BY <1>1, <1>2, <1>3, <1>4 DEF Lookup, Proceed

\* A client goes away, wherever its handler stands.
LEMMA GoneLock == ASSUME LockInv, NEW r, Gone(r) PROVE LockInv'
<1>1. /\ sell' = [s \in Sellers |-> IF s = r THEN NoSell ELSE sell[s]]
      /\ setup' = [u \in Setups |-> IF u = r THEN Idle ELSE setup[u]]
      /\ holders' = holders \ {r} /\ map' = map
  BY DEF Gone
<1>2. DataOK'
  BY <1>1 DEF LockInv, DataOK, Requests, Waiting
<1>3. \A s \in Sellers : sell'[s].at = "in" => s # r /\ sell'[s] = sell[s]
  BY <1>1 DEF NoSell
<1>. QED BY <1>1, <1>2, <1>3, MapUnchanged DEF LockInv, GuardKept, TableStillCurrent

\* The other steps of launches and of /lut, and steps of nobody.
LEMMA OtherLock ==
    ASSUME LockInv,
           \/ UNCHANGED vars
           \/ \E j \in Jobs : Post(j) \/ PostPanics(j) \/ LaunchReturns(j) \/ LaunchFails(j)
           \/ \E u \in Setups : SetupArrives(u)
    PROVE  LockInv'
<1>1. UNCHANGED <<map, sell, holders>>
  BY DEF vars, lockVars, Post, PostPanics, LaunchReturns, LaunchFails, SetupArrives
<1>2. setup' \in [Setups -> {Idle} \cup Lists]
  BY DEF vars, Post, PostPanics, LaunchReturns, LaunchFails, SetupArrives, LockInv, DataOK
<1>. QED BY <1>1, <1>2 DEF LockInv, DataOK, Excluded, GuardKept, TableStillCurrent

\* A restart leaves no map, no request and a free lock.
LEMMA RestartLock == ASSUME Restart PROVE LockInv'
<1>1. /\ map' = [m \in Mints |-> None] /\ sell' = [s \in Sellers |-> NoSell]
      /\ setup' = [u \in Setups |-> Idle] /\ holders' = {}
  BY DEF Restart
<1>. QED BY <1>1 DEF LockInv, DataOK, Excluded, GuardKept, TableStillCurrent, Requests, Waiting, Selling, NoSell

\* The invariant of the lock is kept by every step.
LEMMA NextLock == ASSUME LockInv, Waits, [Next]_vars PROVE LockInv'
<1>1. CASE Handler
  BY <1>1, GrantLock, InsertLock, SetupLock DEF Handler
<1>2. CASE Clients
  BY <1>2, OtherLock, GoneLock, SellLock DEF Clients
<1>. QED BY <1>1, <1>2, RestartLock, SellLock, OtherLock DEF Next, SellStep

\* A request that is added to those handled waits; the rest of the lock is the
\* same.
LEMMA OneWaits ==
    ASSUME Waits, NEW r \in Jobs \cup Setups \cup Sellers, r \notin Pending,
           Enqueue(r), holders' = holders, Pending' = Pending \cup {r}
    PROVE  /\ queue' \in Seq(Jobs \cup Setups \cup Sellers) /\ IsInjective(queue')
           /\ holders' \cap Queued' = {} /\ holders' \cup Queued' = Pending'
<1>1. r \notin Queued /\ r \notin holders
  BY DEF Waits
<1>2. /\ queue' \in Seq(Jobs \cup Setups \cup Sellers) /\ IsInjective(queue')
      /\ Queued' = Queued \cup {r}
  BY <1>1, Enqueued DEF Waits, Enqueue, Queued
<1>. QED BY <1>1, <1>2 DEF Waits

\* A request that has been handled leaves the lock it held.
LEMMA OneLeaves ==
    ASSUME Waits, NEW r \in holders, queue' = queue, holders' = holders \ {r},
           Pending' = Pending \ {r}
    PROVE  /\ queue' \in Seq(Jobs \cup Setups \cup Sellers) /\ IsInjective(queue')
           /\ holders' \cap Queued' = {} /\ holders' \cup Queued' = Pending'
<1>1. Queued' = Queued /\ r \notin Queued
  BY DEF Queued, Waits
<1>. QED BY <1>1 DEF Waits

\* An empty lock and nobody who wants it.
LEMMA InitWaits == Init => Waits
<1>. SUFFICES ASSUME Init PROVE Waits
  OBVIOUS
<1>1. queue = <<>> /\ holders = {} /\ restarts = 0 /\ keys = {}
  BY DEF Init
<1>2. Queued = {} /\ IsInjective(queue) /\ queue \in Seq(Jobs \cup Setups \cup Sellers)
  BY <1>1 DEF Queued, IsInjective
<1>3. Pending = {}
  BY DEF Init, Pending
<1>4. job \in [Jobs -> {"none", "running", "launched", "registered", "failed", "gone"}]
  BY DEF Init
<1>. QED BY <1>1, <1>2, <1>3, <1>4, RegistryAssumption DEF Waits

\* The lock admits the first of the queue, or changes hands.
LEMMA GrantWaits == ASSUME Waits, Grant PROVE Waits'
<1>1. PICK k \in Admitted : holders' = holders \cup {queue[k]} /\ queue' = RemoveAt(queue, k)
  BY DEF Grant
<1>2. UNCHANGED <<keys, job, sell, setup, restarts>> /\ k \in DOMAIN queue
  BY <1>1 DEF Grant, Admitted
<1>3. /\ queue' \in Seq(Jobs \cup Setups \cup Sellers) /\ IsInjective(queue')
      /\ Queued' = Queued \ {queue[k]} /\ queue[k] \in Queued
  BY <1>1, <1>2, Dequeued DEF Waits, Queued
<1>4. Pending' = Pending
  BY <1>2 DEF Pending
<1>. QED BY <1>1, <1>2, <1>3, <1>4 DEF Waits

\* Launches ask for the lock when they return and leave it when they have
\* registered their table.
LEMMA JobWaits ==
    ASSUME Waits, NEW j \in Jobs,
           Post(j) \/ PostPanics(j) \/ LaunchReturns(j) \/ LaunchFails(j) \/ Insert(j)
    PROVE  Waits'
<1>0. UNCHANGED <<sell, setup, restarts>> /\ j \notin Setups /\ j \notin Sellers
  BY RegistryAssumption DEF Post, PostPanics, LaunchReturns, LaunchFails, Insert
<1>1. CASE Post(j) \/ PostPanics(j) \/ LaunchFails(j)
  <2>1. /\ UNCHANGED <<holders, queue>> /\ keys' \subseteq Mints
        /\ job' \in [Jobs -> {"none", "running", "launched", "registered", "failed", "gone"}]
        /\ \A k \in Jobs : job'[k] = "launched" <=> job[k] = "launched"
    BY <1>1, RegistryAssumption DEF Post, PostPanics, LaunchFails, lockVars, Waits
  <2>2. Pending' = Pending
    BY <1>0, <2>1 DEF Pending
  <2>3. Queued' = Queued
    BY <2>1 DEF Queued
  <2>. QED BY <1>0, <2>1, <2>2, <2>3 DEF Waits
<1>2. CASE LaunchReturns(j)
  <2>1. /\ job[j] = "running" /\ job' = [job EXCEPT ![j] = "launched"]
        /\ Enqueue(j) /\ UNCHANGED <<holders, keys>>
    BY <1>2 DEF LaunchReturns
  <2>2. j \notin Pending /\ Pending' = Pending \cup {j}
    BY <1>0, <2>1 DEF Pending, Waits
  <2>. QED BY <1>0, <2>1, <2>2, OneWaits DEF Waits
<1>3. CASE Insert(j)
  <2>1. /\ j \in holders /\ holders' = holders \ {j} /\ job' = [job EXCEPT ![j] = "registered"]
        /\ UNCHANGED <<queue, keys>>
    BY <1>3 DEF Insert
  <2>2. Pending' = Pending \ {j}
    BY <1>0, <2>1 DEF Pending, Waits
  <2>. QED BY <1>0, <2>1, <2>2, OneLeaves DEF Waits
<1>. QED BY <1>1, <1>2, <1>3

\* Clients of /lut.
LEMMA SetupWaits ==
    ASSUME Waits, LockInv, NEW u \in Setups, SetupArrives(u) \/ SetupRuns(u)
    PROVE  Waits'
<1>0. UNCHANGED <<sell, job, keys, restarts>> /\ u \notin Jobs /\ u \notin Sellers
  BY RegistryAssumption DEF SetupArrives, SetupRuns
<1>1. CASE SetupArrives(u)
  <2>1. PICK list \in Lists : setup' = [setup EXCEPT ![u] = list]
    BY <1>1 DEF SetupArrives
  <2>2. setup[u] = Idle /\ list # Idle /\ Enqueue(u) /\ UNCHANGED holders
    BY <1>1, RegistryAssumption DEF SetupArrives, Idle
  <2>3. u \notin Pending /\ Pending' = Pending \cup {u}
    BY <1>0, <2>1, <2>2 DEF Pending, LockInv, DataOK
  <2>. QED BY <1>0, <2>2, <2>3, OneWaits DEF Waits
<1>2. CASE SetupRuns(u)
  <2>1. /\ u \in holders /\ holders' = holders \ {u} /\ setup' = [setup EXCEPT ![u] = Idle]
        /\ UNCHANGED queue
    BY <1>2 DEF SetupRuns
  <2>2. Pending' = Pending \ {u}
    BY <1>0, <2>1 DEF Pending, LockInv, DataOK
  <2>. QED BY <1>0, <2>1, <2>2, OneLeaves DEF Waits
<1>. QED BY <1>1, <1>2

\* Sales.
LEMMA SellWaits ==
    ASSUME Waits, LockInv, NEW s \in Sellers, SellArrives(s) \/ Lookup(s) \/ Proceed(s)
    PROVE  Waits'
<1>0. UNCHANGED <<setup, job, keys, restarts>> /\ s \notin Jobs /\ s \notin Setups
  BY RegistryAssumption DEF SellArrives, Lookup, Proceed
<1>1. CASE SellArrives(s)
  <2>1. PICK m \in Mints : sell' = [sell EXCEPT ![s] = [at |-> "wait", mint |-> m]]
    BY <1>1 DEF SellArrives
  <2>2. sell[s] = NoSell /\ Enqueue(s) /\ UNCHANGED holders
    BY <1>1 DEF SellArrives
  <2>3. [at |-> "wait", mint |-> m] # NoSell
    BY DEF NoSell
  <2>4. s \notin Pending /\ Pending' = Pending \cup {s}
    BY <1>0, <2>1, <2>2, <2>3 DEF Pending, LockInv, DataOK
  <2>. QED BY <1>0, <2>2, <2>4, OneWaits DEF Waits
<1>2. CASE Answered(s) /\ ~SellArrives(s)
  <2>1. sell' = [sell EXCEPT ![s] = NoSell] /\ holders' = holders \ {s}
    BY <1>2 DEF Answered
  <2>2. s \in holders /\ UNCHANGED queue
    BY <1>2 DEF Lookup, Proceed, LockInv, GuardKept
  <2>3. Pending' = Pending \ {s}
    BY <1>0, <2>1 DEF Pending, LockInv, DataOK
  <2>. QED BY <1>0, <2>1, <2>2, <2>3, OneLeaves DEF Waits
<1>3. CASE ~Answered(s) /\ ~SellArrives(s)
  <2>1. UNCHANGED <<queue, holders>>
    BY <1>3 DEF Lookup, Proceed, KeepsGuard
  <2>2. sell[s] # NoSell /\ sell'[s] # NoSell /\ \A q \in Sellers \ {s} : sell'[q] = sell[q]
    <3>1. CASE Lookup(s)
      BY <1>3, <3>1 DEF Lookup, KeepsGuard, NoSell, LockInv, DataOK
    <3>2. CASE Proceed(s)
      <4>1. sell[s].at = "in" /\ sell' = [sell EXCEPT ![s].todo = Tail(@)]
        BY <1>3, <3>2 DEF Proceed
      <4>2. sell[s] \in Selling
        BY <4>1 DEF LockInv, DataOK, Requests, Waiting, NoSell
      <4>3. sell'[s] = [sell[s] EXCEPT !.todo = Tail(@)] /\ \A q \in Sellers \ {s} : sell'[q] = sell[q]
        BY <4>1 DEF LockInv, DataOK
      <4>4. sell'[s].at = "in"
        BY <4>2, <4>3 DEF Selling
      <4>. QED BY <4>1, <4>3, <4>4 DEF NoSell
    <3>. QED BY <1>3, <3>1, <3>2
  <2>3. Pending' = Pending
    BY <1>0, <2>2 DEF Pending
  <2>4. Queued' = Queued
    BY <2>1 DEF Queued
  <2>. QED BY <1>0, <2>1, <2>3, <2>4 DEF Waits
<1>. QED BY <1>1, <1>2, <1>3

\* A client that goes away neither holds the lock nor waits for it.
LEMMA GoneWaits == ASSUME Waits, NEW r \in Sellers \cup Setups, Gone(r) PROVE Waits'
<1>1. /\ sell' = [s \in Sellers |-> IF s = r THEN NoSell ELSE sell[s]]
      /\ setup' = [u \in Setups |-> IF u = r THEN Idle ELSE setup[u]]
      /\ holders' = holders \ {r} /\ queue' = RemoveFirst(queue, r)
      /\ UNCHANGED <<keys, job, restarts>>
  BY DEF Gone
<1>2. /\ queue' \in Seq(Jobs \cup Setups \cup Sellers) /\ IsInjective(queue')
      /\ Queued' = Queued \ {r}
  <2>1. queue \in Seq(Jobs \cup Setups \cup Sellers) /\ IsInjective(queue)
    BY DEF Waits
  <2>. QED BY <1>1, <2>1, Withdrawn DEF Queued
<1>3. Pending' = Pending \ {r}
  BY <1>1, RegistryAssumption DEF Pending
<1>. QED BY <1>1, <1>2, <1>3 DEF Waits

\* Nobody waits after a restart.
LEMMA RestartWaits == ASSUME Waits, Restart PROVE Waits'
<1>1. Queued' = {} /\ Pending' = {} /\ queue' = <<>> /\ holders' = {}
  BY DEF Restart, Queued, Pending
<1>2. /\ job' \in [Jobs -> {"none", "running", "launched", "registered", "failed", "gone"}]
      /\ restarts' \in 0..MaxRestarts /\ keys' = keys
  BY RegistryAssumption DEF Restart, Waits
<1>. QED BY <1>1, <1>2 DEF Waits, IsInjective

\* Every step keeps those who wait those whose request is being handled.
LEMMA NextWaits == ASSUME Waits, LockInv, [Next]_vars PROVE Waits'
<1>1. CASE UNCHANGED vars
  BY <1>1 DEF vars, Waits, Queued, Pending
<1>2. CASE Handler
  BY <1>2, GrantWaits, JobWaits, SetupWaits DEF Handler
<1>3. CASE Clients
  BY <1>3, JobWaits, SetupWaits, SellWaits, GoneWaits DEF Clients
<1>. QED BY <1>1, <1>2, <1>3, RestartWaits, SellWaits, JobWaits DEF Next, SellStep

\* Both invariants hold throughout.
LEMMA AlwaysLock == Spec => [](LockInv /\ Waits)
  BY InitLock, NextLock, InitWaits, NextWaits, PTL DEF Spec

-----------------------------------------------------------------------------

\* A sale keeps its table for as long as it lasts, however many others there
\* are and whatever they do.
THEOREM TableStillCurrentAlways == Spec => []TableStillCurrent
<1>1. LockInv => TableStillCurrent
  BY DEF LockInv
<1>. QED BY <1>1, AlwaysLock, PTL

\* Only a restart forgets a table.
THEOREM OnlyRestartForgetsAlways == Spec => OnlyRestartForgets
<1>. DEFINE Forgets == \E m \in Mints : map[m] # None /\ map'[m] = None
<1>1. ASSUME LockInv, Waits, [Next]_vars, restarts' = restarts PROVE ~Forgets
  <2>1. CASE \E j \in Jobs : Insert(j)
    BY <2>1, RegistryAssumption DEF Insert, LockInv, DataOK
  <2>2. CASE \E u \in Setups : SetupRuns(u)
    <3>1. PICK u \in Setups : u \in holders /\ map' = Inserted(setup[u])
      BY <2>2 DEF SetupRuns
    <3>2. setup[u] \in Lists /\ map \in [Mints -> Tables \cup {None}]
      <4>1. u \in Pending
        BY <1>1, <3>1 DEF Waits
      <4>. QED BY <1>1, <4>1, RegistryAssumption DEF Pending, LockInv, DataOK
    <3>. QED BY <3>1, <3>2, InsertedOK
  <2>3. CASE Restart
    BY <1>1, <2>3, RegistryAssumption DEF Restart
  <2>4. CASE map' = map
    BY <2>4
  <2>. QED
    BY <1>1, <2>1, <2>2, <2>3, <2>4 DEF Next, Handler, Clients, SellStep, Grant, Post, PostPanics,
       SetupArrives, Gone, SellArrives, Lookup, Proceed, LaunchReturns, LaunchFails, vars
<1>2. LockInv /\ Waits /\ [Next]_vars => [\A m \in Mints : map[m] # None /\ map'[m] = None => restarts' # restarts]_vars
  BY <1>1
<1>. QED BY <1>2, AlwaysLock, PTL DEF Spec, OnlyRestartForgets

\* Every variable keeps to its set of values, and the lock is held or waited
\* for, once, by exactly the requests being handled that need it.
THEOREM RegistryTypeCorrect == Spec => []TypeOK
<1>1. LockInv /\ Waits => TypeOK
  <2>. SUFFICES ASSUME LockInv, Waits PROVE TypeOK
    OBVIOUS
  <2>1. \A s \in Sellers : sell[s] # NoSell => sell[s].at \in {"wait", "in"} /\ sell[s].mint \in Mints
    BY DEF LockInv, DataOK, Requests, Waiting, Selling
  <2>. QED BY <2>1 DEF LockInv, DataOK, Waits, Queued, Pending, TypeOK
<1>. QED BY <1>1, AlwaysLock, PTL

-----------------------------------------------------------------------------
(* The creation of a table. *)

USE LutAssumption

\* The chunk being sent is in the table exactly when its transaction landed,
\* and the extend loop has a try left.
ChunksSent ==
    /\ pc \in {"create", "extend"} => tries < MaxTries
    /\ pc = "start" => tries = 0
    /\ Len(table) = IF fate = "landed" THEN chunk ELSE chunk - 1
    /\ \A k \in DOMAIN table : table[k] = k
    /\ pc = "ok" => fate = "landed" /\ chunk = NumChunks

CreateIInv == CreateTypeOK /\ ChunksSent

\* There is at least one chunk.
LEMMA ChunkBounds == ASSUME n \in Sizes PROVE NumChunks \in Nat \ {0}
<1>. DEFINE used == IF n < Take THEN n ELSE Take
<1>1. used \in Nat \ {0}
  OBVIOUS
<1>2. used + ChunkSize - 1 >= ChunkSize /\ used + ChunkSize - 1 \in Nat
  BY <1>1
<1>3. \A a, b \in Nat : b > 0 /\ a >= b => a \div b \in Nat \ {0}
  BY SMT
<1>. QED BY <1>2, <1>3 DEF NumChunks

\* The invariant holds when create_lut is called.
LEMMA CreateInitIInv == CreateInit => CreateIInv
<1>. SUFFICES ASSUME CreateInit PROVE CreateIInv
  OBVIOUS
<1>1. chunk \in 1..NumChunks
  BY ChunkBounds DEF CreateInit
<1>2. waiting \in BOOLEAN
  BY Zenon DEF CreateInit
<1>3. tries \in 0..MaxTries /\ table \in Seq(1..NumChunks)
  BY DEF CreateInit
<1>4. CreateTypeOK
  BY <1>1, <1>2, <1>3, Zenon DEF CreateInit, CreateTypeOK, Ended
<1>5. ChunksSent
  BY DEF CreateInit, ChunksSent
<1>. QED BY <1>4, <1>5 DEF CreateIInv

\* The chain keeps the invariant when it executes a transaction.
LEMMA CreateLandIInv == ASSUME CreateIInv, Land PROVE CreateIInv'
<1>1. NumChunks' = NumChunks /\ NumChunks \in Nat \ {0}
  BY ChunkBounds DEF Land, CreateIInv, CreateTypeOK, NumChunks
<1>. USE DEF CreateIInv, CreateTypeOK, ChunksSent, Ended
<1>2. CASE fate' = "landed" /\ table' = Append(table, chunk)
  <2>1. Len(table') = chunk /\ table' \in Seq(1..NumChunks)
    BY <1>1, <1>2 DEF Land
  <2>2. \A k \in DOMAIN table' : table'[k] = k
    BY <1>1, <1>2 DEF Land
  <2>. QED BY <1>1, <1>2, <2>1, <2>2 DEF Land
<1>3. CASE fate' = "failed" /\ UNCHANGED table
  BY <1>1, <1>3 DEF Land
<1>. QED BY <1>2, <1>3 DEF Land

\* So does every step of the code.
LEMMA CreateCodeIInv == ASSUME CreateIInv, Code PROVE CreateIInv'
<1>1. NumChunks' = NumChunks /\ NumChunks \in Nat \ {0}
  BY ChunkBounds DEF Code, Start, Send, Confirmed, NotConfirmed, CreateIInv, CreateTypeOK, NumChunks
<1>. USE <1>1 DEF CreateIInv, CreateTypeOK, ChunksSent, Ended, chainVars
<1>2. CASE Start
  BY <1>2 DEF Start
<1>3. CASE Send
  BY <1>3 DEF Send
<1>4. CASE Confirmed
  <2>1. waiting' \in BOOLEAN
    BY <1>4, Zenon DEF Confirmed
  <2>2. ChunksSent' /\ tries' \in 0..MaxTries /\ chunk' \in 1..NumChunks
    BY <1>4 DEF Confirmed, NoMoreChunks
  <2>. QED BY <1>4, <2>1, <2>2 DEF Confirmed
<1>5. CASE NotConfirmed
  <2>1. waiting' \in BOOLEAN
    BY <1>5, Zenon DEF NotConfirmed
  <2>2. ChunksSent' /\ tries' \in 0..MaxTries
    BY <1>5 DEF NotConfirmed, SameTx, TriesLeft, Counted
  <2>. QED BY <1>5, <2>1, <2>2 DEF NotConfirmed, SameTx
<1>. QED BY <1>2, <1>3, <1>4, <1>5 DEF Code

\* The invariant holds in every state of the call.
THEOREM CreateInvariant == CreateSpec => []CreateIInv
<1>1. CreateIInv /\ [CreateNext]_createVars => CreateIInv'
  <2>. SUFFICES ASSUME CreateIInv, [CreateNext]_createVars PROVE CreateIInv'
    OBVIOUS
  <2>1. CASE UNCHANGED createVars
    BY <2>1 DEF createVars, CreateIInv, CreateTypeOK, ChunksSent, NumChunks
  <2>2. CASE Age
    BY <2>2 DEF Age, CreateIInv, CreateTypeOK, ChunksSent, Ended, NumChunks
  <2>. QED BY <2>1, <2>2, CreateLandIInv, CreateCodeIInv DEF CreateNext
<1>. QED BY CreateInitIInv, <1>1, PTL DEF CreateSpec

\* Every variable keeps to its set of values.
THEOREM CreateTypeCorrect == CreateSpec => []CreateTypeOK
<1>1. CreateIInv => CreateTypeOK BY DEF CreateIInv
<1>. QED BY CreateInvariant, <1>1, PTL

\* No chunk is written twice, skipped or out of order, whatever the errors.
THEOREM TableIsPrefixCorrect == CreateSpec => []TableIsPrefix
<1>1. CreateIInv => TableIsPrefix BY DEF CreateIInv, CreateTypeOK, ChunksSent, TableIsPrefix
<1>. QED BY CreateInvariant, <1>1, PTL

\* create_lut answers only when the table is complete.
THEOREM OkMeansFullCorrect == CreateSpec => []OkMeansFull
<1>1. CreateIInv => OkMeansFull BY DEF CreateIInv, ChunksSent, OkMeansFull
<1>. QED BY CreateInvariant, <1>1, PTL
==============================================================================
