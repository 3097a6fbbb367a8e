---------------------------- MODULE CachingStore ----------------------------
(***************************************************************************)
(* The caching wrapper that src/store/caching_wrapper.c puts in front of a *)
(* persistent feature store, with its hash table (memory_cache.c) and the  *)
(* entry points of store.c.                                                *)
(*                                                                         *)
(* The wrapper holds cache->lock while it touches the cache and never while*)
(* it calls the backend, except for backend->initialized.  An operation is *)
(* therefore two or three actions: the lookup under the read lock, the     *)
(* backend call, and the fill under the write lock; other threads, another *)
(* process that shares the backend, and time may come between them.        *)
(*                                                                         *)
(* A cache key "kind:key" is a member of Keys and KindOf gives its kind.   *)
(* The code stamps an entry with the time of its creation and compares     *)
(* now - updatedOn with the timeout; the model keeps that difference, the  *)
(* age of the entry in ticks, saturated one above the timeout.             *)
(***************************************************************************)
EXTENDS Integers, FiniteSets

CONSTANTS
    Threads,     \* threads that call store.c
    Deployments, \* who uses the backend: see Deployment
    Kinds,       \* features, segments
    Keys,        \* cache keys of single items
    KindOf,      \* the kind of each key
    Versions,    \* versions the feed and other processes write
    TTL,         \* cacheMilliseconds, in ticks
    Latency,     \* bound: ticks between a backend call and the fill after it
    Slots,       \* bound: cells for entries with the cache key "all:kind"
    Faulty,      \* backend operations that may fail
    FeedOrdered, \* the feed never sends what the store already superseded
    Nil          \* no item, no entry, no argument

Operations == {"get", "all", "upsert", "init", "initialized"}

\* The operations that each thread calls (in daemon mode, useLDD, no thread
\* feeds the store), and whether other processes write to the backend too.
Deployment == [calls : [Threads -> SUBSET Operations], external : BOOLEAN]

ASSUME DeploymentAssumption == Deployments \subseteq Deployment
ASSUME KindAssumption == KindOf \in [Keys -> Kinds]
ASSUME VersionsAssumption == Versions \subseteq Nat \ {0}
ASSUME TimeAssumption == TTL \in Nat /\ Latency \in Nat
ASSUME SlotsAssumption == Slots # {}
ASSUME FlagsAssumption == FeedOrdered \in BOOLEAN

\* A feature or segment: what the store looks at is its version and whether
\* it is a tombstone.  Version 0 is only that of a placeholder.
Item == [version : Versions \cup {0}, deleted : BOOLEAN]

ASSUME NilAssumption ==
    /\ Nil \notin Item
    /\ Nil \notin [item : Item, age : 0..(TTL + 1)]
    /\ Nil \notin [data : [Keys -> Item \cup {Nil}], age : 0..(TTL + 1)]
    /\ Nil \notin 0..(TTL + 1)
    /\ Nil \notin Keys /\ Nil \notin Kinds

VARIABLES
    deployment,    \* one of Deployments
    backend,       \* external: what the persistent store holds
    backendInited, \* external: its initialized marker
    items,         \* cache entries of single items
    alls,          \* cache entries "all:kind"; the hash table may hold several
    initChecked,   \* age of the $initChecked sentinel, or Nil
    initialized,   \* cache->initialized
    pc,            \* where each thread is in its call
    arg,           \* the key or kind of that call
    got,           \* the item read, written or returned
    snap,          \* the collection read, written or returned
    lag,           \* ticks since the backend call whose result is not cached yet
    quiet,         \* history: ticks since the last write to the backend
    dirty,         \* history: keys whose last write has not completed
    calm,          \* history: threads whose call no write has disturbed
    ownInit        \* history: some storeInit has returned success

backendVars == <<deployment, backend, backendInited>>
cacheVars == <<items, alls, initChecked, initialized>>
callVars == <<pc, arg, got, snap, lag>>
historyVars == <<quiet, dirty, calm, ownInit>>
vars == <<backendVars, cacheVars, callVars, historyVars>>

-----------------------------------------------------------------------------
(* Values.                                                                  *)

Ages == 0..(TTL + 1)
Entry == [item : Item, age : Ages]
Data == [Keys -> Item \cup {Nil}]
AllEntry == [data : Data, age : Ages]
Empty == [k \in Keys |-> Nil]

\* What a feed can send: single items, and complete data sets.
Update == [version : Versions, deleted : BOOLEAN]
Puts == [Keys -> Update \cup {Nil}]

\* Longest time a value can be served after the backend stopped holding it.
Bound == TTL + Latency

Fills == {"getFill", "allFill", "upsertFill", "initFill"}
Answers == {"getDone", "allDone", "initYes", "initNo"}
Pcs == {"idle", "getMiss", "allMiss", "initQuery"} \cup Fills \cup Answers

\* What a caller gets for an item: a tombstone is no item.
Live(it) == IF it = Nil \/ it.deleted THEN Nil ELSE it

\* The live items of one kind, as storeAll returns them.
LiveOf(data, kind) ==
    [k \in Keys |-> IF KindOf[k] = kind THEN Live(data[k]) ELSE Nil]

PlaceholderBelowZero == [version |-> -1, deleted |-> TRUE]

\* The placeholder cached for a key that the backend does not hold.
LDi_makeDeletedData == [version |-> 0, deleted |-> TRUE]

ExpiredIgnoringAge(age) == TTL = 0

\* getExpirationState.
Expired(age) == TTL = 0 \/ age > TTL

CallType ==
    /\ pc \in [Threads -> Pcs]
    /\ arg \in [Threads -> Keys \cup Kinds \cup {Nil}]
    /\ \A t \in Threads :
         /\ pc[t] \in {"getMiss", "getFill", "getDone", "upsertFill"}
              => arg[t] \in Keys
         /\ pc[t] \in {"allMiss", "allFill", "allDone"} => arg[t] \in Kinds
         /\ pc[t] = "upsertFill" => got[t] \in Item
    /\ got \in [Threads -> Item \cup {Nil}]
    /\ snap \in [Threads -> Data]
    /\ lag \in [Threads -> 0..Latency]

BackendType ==
    deployment \in Deployments /\ backend \in Data /\ backendInited \in BOOLEAN

CacheType ==
    /\ items \in [Keys -> Entry \cup {Nil}]
    /\ alls \in [Kinds -> [Slots -> AllEntry \cup {Nil}]]
    /\ initChecked \in Ages \cup {Nil}
    /\ initialized \in BOOLEAN

HistoryType ==
    /\ quiet \in 0..(Bound + 1)
    /\ dirty \subseteq Keys
    /\ calm \subseteq Threads
    /\ ownInit \in BOOLEAN

TypeOK == BackendType /\ CacheType /\ CallType /\ HistoryType

\* A backend outlives the process, so a run may start on what an earlier one
\* left there.
Init ==
    /\ deployment \in Deployments
    /\ backend \in Puts
    /\ backendInited \in BOOLEAN
    /\ ~backendInited => backend = Empty
    /\ items = [k \in Keys |-> Nil]
    /\ alls = [kind \in Kinds |-> [s \in Slots |-> Nil]]
    /\ initChecked = Nil
    /\ initialized = FALSE
    /\ pc = [t \in Threads |-> "idle"]
    /\ arg = [t \in Threads |-> Nil]
    /\ got = [t \in Threads |-> Nil]
    /\ snap = [t \in Threads |-> Empty]
    /\ lag = [t \in Threads |-> 0]
    /\ quiet = 0
    /\ dirty = {}
    /\ calm = {}
    /\ ownInit = FALSE

-----------------------------------------------------------------------------
(* The start and the end of a call.                                         *)

\* The keys an argument stands for.
Scope(a) == {k \in Keys : k = a \/ KindOf[k] = a}

\* Thread t may call the operation op.
Idle(t, op) == pc[t] = "idle" /\ op \in deployment.calls[t]

\* Thread t leaves the wrapper without an answer or after a write.
Leave(t) ==
    /\ pc' = [pc EXCEPT ![t] = "idle"]
    /\ arg' = [arg EXCEPT ![t] = Nil]
    /\ got' = [got EXCEPT ![t] = Nil]
    /\ snap' = [snap EXCEPT ![t] = Empty]
    /\ lag' = [lag EXCEPT ![t] = 0]

\* Thread t goes to step p of a call for argument a, with item it or
\* collection d in hand.
Goto(t, p, a, it, d) ==
    /\ pc' = [pc EXCEPT ![t] = p]
    /\ arg' = [arg EXCEPT ![t] = a]
    /\ got' = [got EXCEPT ![t] = it]
    /\ snap' = [snap EXCEPT ![t] = d]
    /\ lag' = [lag EXCEPT ![t] = 0]

\* History of a read that starts: it is calm unless a write is under way.
ReadStarts(t, a) ==
    /\ calm' = IF Scope(a) \cap dirty = {} THEN calm \cup {t} ELSE calm \ {t}
    /\ UNCHANGED <<quiet, dirty, ownInit>>

\* History of a backend write to the keys ks.
WriteStarts(ks) ==
    /\ quiet' = 0
    /\ dirty' = dirty \cup ks
    /\ calm' = {}
    /\ UNCHANGED ownInit

\* The caller takes the answer.
Return(t) ==
    /\ pc[t] \in Answers
    /\ Leave(t)
    /\ UNCHANGED <<backendVars, cacheVars, historyVars>>

-----------------------------------------------------------------------------
(* The backend, through LDStoreInterface (include/launchdarkly/store.h).    *)

\* upsert: the stored item is replaced only by a newer version.
BackendAccepts(k, it) == backend[k] = Nil \/ backend[k].version < it.version

BackendUpsert(k, it) ==
    /\ backend' = IF BackendAccepts(k, it) THEN [backend EXCEPT ![k] = it]
                                           ELSE backend
    /\ UNCHANGED backendInited

BackendInit(put) ==
    /\ backend' = put
    /\ backendInited' = TRUE

\* A version names one content of an item.  An ordered feed never sends less
\* than the store has: no older version, and no put that leaves a key out.
Unordered(it, old) == it # Nil => it.version # old.version
Ordered(it, old) == it # Nil /\ it.version > old.version

FeedMaySend(k, it) ==
    \/ backend[k] = Nil
    \/ it = backend[k]
    \/ /\ backend[k] # Nil
       /\ IF FeedOrdered THEN Ordered(it, backend[k]) ELSE Unordered(it, backend[k])

-----------------------------------------------------------------------------
(* upsertMemory, run under the write lock.                                  *)

Current(e) == e # Nil /\ ~Expired(e.age)

\* HASH_FIND on "all:kind" meets one of the entries with that key: insertion
\* puts the newest first and a growing table reverses the order, so the
\* model lets it be any of them.
Found(kind) == {s \in Slots : alls[kind][s] # Nil}

\* LDi_deleteAndRemoveCacheItem on the entry that the lookup found.
RemoveAll(kind) ==
    IF Found(kind) = {}
    THEN UNCHANGED alls
    ELSE \E s \in Found(kind) : alls' = [alls EXCEPT ![kind][s] = Nil]

upsertMemoryIgnoringVersion(k, it) ==
    /\ items' = [items EXCEPT ![k] = [item |-> it, age |-> 0]]
    /\ RemoveAll(KindOf[k])

upsertMemory(k, it) ==
    IF Current(items[k]) /\ items[k].item.version >= it.version
    THEN UNCHANGED <<items, alls>>
    ELSE /\ items' = [items EXCEPT ![k] = [item |-> it, age |-> 0]]
         /\ RemoveAll(KindOf[k])

-----------------------------------------------------------------------------
(* storeGet and getSingleItemFromBackend.                                   *)

\* Found in the cache and current: answered under the read lock.
GetHit(t, k) ==
    /\ Idle(t, "get")
    /\ Current(items[k])
    /\ Goto(t, "getDone", k, Live(items[k].item), Empty)
    /\ ReadStarts(t, k)
    /\ UNCHANGED <<backendVars, cacheVars>>

\* Not found, or expired: the lock is released before the backend is asked.
GetMiss(t, k) ==
    /\ Idle(t, "get")
    /\ ~Current(items[k])
    /\ Goto(t, "getMiss", k, Nil, Empty)
    /\ ReadStarts(t, k)
    /\ UNCHANGED <<backendVars, cacheVars>>

BackendGet(t) ==
    /\ pc[t] = "getMiss"
    /\ Goto(t, "getFill", arg[t], backend[arg[t]], Empty)
    /\ UNCHANGED <<backendVars, cacheVars, historyVars>>

\* The backend reports an error, or what it holds does not deserialize or
\* validate: nothing is cached.
BackendGetFails(t) ==
    /\ pc[t] = "getMiss"
    /\ "get" \in Faulty
    /\ Leave(t)
    /\ UNCHANGED <<backendVars, cacheVars, historyVars>>

\* What was read is cached, a placeholder when there was nothing, and what
\* was read is returned, whether or not the cache took it.
GetFill(t) ==
    /\ pc[t] = "getFill"
    /\ upsertMemory(arg[t], IF got[t] = Nil THEN LDi_makeDeletedData ELSE got[t])
    /\ Goto(t, "getDone", arg[t], Live(got[t]), Empty)
    /\ UNCHANGED <<backendVars, initChecked, initialized, historyVars>>

storeGet(t) ==
    \/ \E k \in Keys : GetHit(t, k) \/ GetMiss(t, k)
    \/ BackendGet(t)
    \/ BackendGetFails(t)
    \/ GetFill(t)

-----------------------------------------------------------------------------
(* storeAll and getAllItemsFromBackend.                                     *)

AllHit(t, kind) ==
    /\ Idle(t, "all")
    /\ \E s \in Found(kind) :
         /\ ~Expired(alls[kind][s].age)
         /\ Goto(t, "allDone", kind, Nil, alls[kind][s].data)
    /\ ReadStarts(t, kind)
    /\ UNCHANGED <<backendVars, cacheVars>>

\* Bound: a fill must still have a free cell.
Filling(kind) ==
    {t \in Threads : pc[t] \in {"allMiss", "allFill"} /\ arg[t] = kind}

RoomForAll(kind) ==
    Cardinality(Found(kind)) + Cardinality(Filling(kind)) < Cardinality(Slots)

AllMiss(t, kind) ==
    /\ Idle(t, "all")
    /\ \/ Found(kind) = {}
       \/ \E s \in Found(kind) : Expired(alls[kind][s].age)
    /\ RoomForAll(kind)
    /\ Goto(t, "allMiss", kind, Nil, Empty)
    /\ ReadStarts(t, kind)
    /\ UNCHANGED <<backendVars, cacheVars>>

BackendAll(t) ==
    /\ pc[t] = "allMiss"
    /\ Goto(t, "allFill", arg[t], Nil, LiveOf(backend, arg[t]))
    /\ UNCHANGED <<backendVars, cacheVars, historyVars>>

BackendAllFails(t) ==
    /\ pc[t] = "allMiss"
    /\ "all" \in Faulty
    /\ Leave(t)
    /\ UNCHANGED <<backendVars, cacheVars, historyVars>>

\* LDi_addToCache adds the collection next to any entry that is there.
AllFill(t) ==
    /\ pc[t] = "allFill"
    /\ \E s \in Slots :
         /\ alls[arg[t]][s] = Nil
         /\ alls' = [alls EXCEPT ![arg[t]][s] = [data |-> snap[t], age |-> 0]]
    /\ Goto(t, "allDone", arg[t], Nil, snap[t])
    /\ UNCHANGED <<backendVars, items, initChecked, initialized, historyVars>>

storeAll(t) ==
    \/ \E kind \in Kinds : AllHit(t, kind) \/ AllMiss(t, kind)
    \/ BackendAll(t)
    \/ BackendAllFails(t)
    \/ AllFill(t)

-----------------------------------------------------------------------------
(* storeUpsert; LDStoreRemove is the upsert of a tombstone.                 *)

\* Whether or not the backend took the item, it reports success.
Upsert(t, k, it) ==
    /\ Idle(t, "upsert")
    /\ FeedMaySend(k, it)
    /\ BackendUpsert(k, it)
    /\ Goto(t, "upsertFill", k, it, Empty)
    /\ WriteStarts({k})
    /\ UNCHANGED <<deployment, cacheVars>>

\* The backend reports an error, which it may do after the write took effect.
UpsertFails(t, k, it) ==
    /\ Idle(t, "upsert")
    /\ "upsert" \in Faulty
    /\ FeedMaySend(k, it)
    /\ BackendUpsert(k, it) \/ UNCHANGED <<backend, backendInited>>
    /\ WriteStarts({k})
    /\ UNCHANGED <<deployment, cacheVars, callVars>>

UpsertFill(t) ==
    /\ pc[t] = "upsertFill"
    /\ upsertMemory(arg[t], got[t])
    /\ Leave(t)
    /\ dirty' = dirty \ {arg[t]}
    /\ UNCHANGED <<backendVars, initChecked, initialized, quiet, calm, ownInit>>

storeUpsert(t) ==
    \/ \E k \in Keys, it \in Update : Upsert(t, k, it) \/ UpsertFails(t, k, it)
    \/ UpsertFill(t)

-----------------------------------------------------------------------------
(* storeInit and memoryInit.                                                *)

FirstSlot == CHOOSE s \in Slots : TRUE

OfKind(data, kind) == [k \in Keys |-> IF KindOf[k] = kind THEN data[k] ELSE Nil]

\* The cache as memoryInit leaves it: the items of the put, and a copy of
\* each collection, tombstones included.
CachePut(put) ==
    /\ items' = [k \in Keys |-> IF put[k] = Nil
                                THEN Nil
                                ELSE [item |-> put[k], age |-> 0]]
    /\ alls' = [kind \in Kinds |->
                  [s \in Slots |-> IF s = FirstSlot
                                   THEN [data |-> OfKind(put, kind), age |-> 0]
                                   ELSE Nil]]
    /\ UNCHANGED initialized

memoryInitKeepingSentinel(put) == CachePut(put) /\ UNCHANGED initChecked

\* LDi_memoryCacheFlush empties the whole table, the sentinel included.
memoryInit(put) == CachePut(put) /\ initChecked' = Nil

StoreInit(t, put) ==
    /\ Idle(t, "init")
    /\ \A k \in Keys : FeedMaySend(k, put[k])
    /\ BackendInit(put)
    /\ Goto(t, "initFill", Nil, Nil, put)
    /\ WriteStarts(Keys)
    /\ UNCHANGED <<deployment, cacheVars>>

StoreInitFails(t, put) ==
    /\ Idle(t, "init")
    /\ "init" \in Faulty
    /\ \A k \in Keys : FeedMaySend(k, put[k])
    /\ BackendInit(put) \/ UNCHANGED <<backend, backendInited>>
    /\ WriteStarts(Keys)
    /\ UNCHANGED <<deployment, cacheVars, callVars>>

InitFill(t) ==
    /\ pc[t] = "initFill"
    /\ memoryInit(snap[t])
    /\ Leave(t)
    /\ dirty' = {}
    /\ ownInit' = TRUE
    /\ UNCHANGED <<backendVars, quiet, calm>>

storeInit(t) ==
    \/ \E put \in Puts : StoreInit(t, put) \/ StoreInitFails(t, put)
    \/ InitFill(t)

-----------------------------------------------------------------------------
(* storeInitialized.                                                        *)

SentinelCurrent == initChecked # Nil /\ ~Expired(initChecked)

Answer(t, yes) == Goto(t, IF yes THEN "initYes" ELSE "initNo", Nil, Nil, Empty)

\* quickCheckInitialization, under the read lock.
quickCheckInitialization(t) ==
    /\ Idle(t, "initialized")
    /\ initialized \/ SentinelCurrent
    /\ Answer(t, initialized)
    /\ UNCHANGED <<backendVars, cacheVars, historyVars>>

quickCheckFails(t) ==
    /\ Idle(t, "initialized")
    /\ ~initialized /\ ~SentinelCurrent
    /\ Goto(t, "initQuery", Nil, Nil, Empty)
    /\ UNCHANGED <<backendVars, cacheVars, historyVars>>

\* The backend's answer; an error is indistinguishable from "no".
BackendInitialized ==
    IF "initialized" \in Faulty THEN {backendInited, FALSE} ELSE {backendInited}

\* queryAndUpdateInitialization: one step, because the write lock is held
\* from the removal of the old sentinel to the insertion of the new one.
queryAndUpdateInitialization(t) ==
    /\ pc[t] = "initQuery"
    /\ \E yes \in BackendInitialized :
         /\ initialized' = (initialized \/ yes)
         /\ initChecked' = IF yes THEN Nil ELSE 0
         /\ Answer(t, yes)
    /\ UNCHANGED <<backendVars, items, alls, historyVars>>

storeInitialized(t) ==
    \/ quickCheckInitialization(t)
    \/ quickCheckFails(t)
    \/ queryAndUpdateInitialization(t)

-----------------------------------------------------------------------------
(* The environment.                                                         *)

ExternalUpsert(k, it) ==
    /\ deployment.external
    /\ BackendUpsert(k, it)
    /\ WriteStarts({k})
    /\ UNCHANGED <<deployment, cacheVars, callVars>>

ExternalInit(put) ==
    /\ deployment.external
    /\ BackendInit(put)
    /\ WriteStarts(Keys)
    /\ UNCHANGED <<deployment, cacheVars, callVars>>

Older(age, top) == IF age < top THEN age + 1 ELSE age

\* Time passes.  An answer reaches its caller at once, and a call that has
\* its data from the backend caches it within Latency ticks.
Tick ==
    /\ \A t \in Threads :
         /\ pc[t] \notin Answers
         /\ pc[t] \in Fills => lag[t] < Latency
    /\ items' = [k \in Keys |->
                   IF items[k] = Nil THEN Nil
                   ELSE [items[k] EXCEPT !.age = Older(@, TTL + 1)]]
    /\ alls' = [kind \in Kinds |-> [s \in Slots |->
                   IF alls[kind][s] = Nil THEN Nil
                   ELSE [alls[kind][s] EXCEPT !.age = Older(@, TTL + 1)]]]
    /\ initChecked' = IF initChecked = Nil THEN Nil
                                           ELSE Older(initChecked, TTL + 1)
    /\ lag' = [t \in Threads |-> IF pc[t] \in Fills THEN lag[t] + 1 ELSE lag[t]]
    /\ quiet' = Older(quiet, Bound + 1)
    /\ UNCHANGED <<backendVars, initialized, pc, arg, got, snap,
                   dirty, calm, ownInit>>

Next ==
    \/ \E t \in Threads :
         \/ storeGet(t)
         \/ storeAll(t)
         \/ storeUpsert(t)
         \/ storeInit(t)
         \/ storeInitialized(t)
         \/ Return(t)
    \/ \E k \in Keys, it \in Update : ExternalUpsert(k, it)
    \/ \E put \in Puts : ExternalInit(put)
    \/ Tick

Spec == Init /\ [][Next]_vars

\* A call that started goes on: what it does next, unless the backend fails.
Continue(t) ==
    \/ BackendGet(t) \/ GetFill(t)
    \/ BackendAll(t) \/ AllFill(t)
    \/ UpsertFill(t) \/ InitFill(t)
    \/ queryAndUpdateInitialization(t)
    \/ Return(t)

\* Time goes on, a call that started ends, and the application goes on
\* evaluating flags: every evaluation asks LDStoreInitialized first
\* (variations.c) and so does the wait loop of LDClientInit (client.c).
Fairness ==
    /\ SF_vars(Tick)
    /\ SF_vars(\E t \in Threads : quickCheckFails(t))
    /\ \A t \in Threads : WF_vars(Continue(t))

FairSpec == Spec /\ Fairness

-----------------------------------------------------------------------------
(* Properties.                                                              *)

\* The contract of the cache timeout, for storeGet: once nobody has written
\* to the backend for longer than the timeout and the latency of a call
\* together, storeGet answers what the backend holds, whatever the order in
\* which lookups, backend calls and fills of all threads came before.
GetConverges ==
    \A t \in Threads :
        pc[t] = "getDone" /\ quiet > Bound => got[t] = Live(backend[arg[t]])

\* The same for storeAll, in spite of the duplicate entries its fills leave
\* under the key "all:kind".
AllConverges ==
    \A t \in Threads :
        pc[t] = "allDone" /\ quiet > Bound
            => \A k \in Keys : KindOf[k] = arg[t]
                 => Live(snap[t][k]) = Live(backend[k])

\* Once storeInit has returned success, storeInitialized never answers no:
\* no sentinel of a query that came before the init survives it.
InitVisible ==
    [][\A t \in Threads : pc[t] # "initNo" /\ pc'[t] = "initNo" => ~ownInit]_vars

\* In daemon mode another process fills the backend; a client that asks notices,
\* although it caches the answer "not initialized".
Asked == \E t \in Threads : "initialized" \in deployment.calls[t]
InitNoticed == backendInited /\ Asked ~> initialized

\* Where no other process writes, a storeGet that no write disturbs answers what
\* the last write left in the store (UpsertNewer and UpsertDelete of
\* tests/test-stores.cpp, with other threads in the wrapper and entries
\* expiring), if the feed sends nothing that the store has superseded
\* (FeedOrdered): the other feeds are the subject of UpsertOlder.
ReadYourWrites ==
    \A t \in Threads :
        pc[t] = "getDone" /\ t \in calm /\ ~deployment.external
            => got[t] = Live(backend[arg[t]])

\* internal_store.h, of upsert: "If an existing item is of a more recent version,
\* then the store will not be changed" (UpsertOlder of tests/test-stores.cpp).
\* Where no other process writes, a storeGet that no write disturbs does not
\* answer an older version than the one the backend has kept.
UpsertOlder ==
    \A t \in Threads :
        (/\ pc[t] = "getDone" /\ t \in calm /\ ~deployment.external
         /\ got[t] # Nil /\ backend[arg[t]] # Nil)
            => got[t].version >= backend[arg[t]].version
=============================================================================
