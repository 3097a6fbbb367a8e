------------------------- MODULE CachingStoreProofs -------------------------
(***************************************************************************)
(* Proofs about CachingStore for every set of threads, keys, kinds and     *)
(* versions, every timeout and every latency bound.                        *)
(***************************************************************************)
EXTENDS CachingStore, TLAPS

USE DeploymentAssumption, KindAssumption, VersionsAssumption, TimeAssumption,
    SlotsAssumption, NilAssumption

-----------------------------------------------------------------------------
(* Operators.                                                               *)

LEMMA BoundNat == Bound \in Nat /\ Bound + 1 \in Nat /\ TTL + 1 \in Nat
  BY DEF Bound

LEMMA PlaceholderType == LDi_makeDeletedData \in Item
  BY DEF LDi_makeDeletedData, Item

LEMMA UpdateType ==
  /\ Update \subseteq Item
  /\ Puts \subseteq Data
  /\ Empty \in Data
  BY DEF Update, Item, Puts, Data, Empty

\* Live keeps an item's type and turns a tombstone into Nil.
LEMMA LiveType ==
  ASSUME NEW it \in Item \cup {Nil}
  PROVE  Live(it) \in Item \cup {Nil}
  BY DEF Live

LEMMA LiveOfType ==
  ASSUME NEW d \in Data, NEW kind
  PROVE  LiveOf(d, kind) \in Data
  BY LiveType DEF LiveOf, Data

LEMMA OfKindType ==
  ASSUME NEW d \in Data, NEW kind
  PROVE  OfKind(d, kind) \in Data
  BY DEF OfKind, Data

\* Counting a tick stays within the range it is saturated at.
LEMMA OlderType ==
  ASSUME NEW top \in Nat, NEW age \in 0..top
  PROVE  /\ Older(age, top) \in 0..top
         /\ age < top => Older(age, top) = age + 1
         /\ age = top => Older(age, top) = top
         /\ Older(age, top) <= age + 1
  BY DEF Older

-----------------------------------------------------------------------------
(* Type correctness.                                                        *)

LEMMA UnchangedTypes ==
  /\ BackendType /\ UNCHANGED backendVars => BackendType'
  /\ CacheType /\ UNCHANGED cacheVars => CacheType'
  /\ CallType /\ UNCHANGED callVars => CallType'
  /\ HistoryType /\ UNCHANGED historyVars => HistoryType'
  BY DEF BackendType, CacheType, CallType, HistoryType,
         backendVars, cacheVars, callVars, historyVars

\* A step of a call that carries well-typed values keeps the calls well typed.
LEMMA GotoType ==
  ASSUME CallType, NEW t \in Threads, NEW p \in Pcs,
         NEW a \in Keys \cup Kinds \cup {Nil},
         NEW it \in Item \cup {Nil}, NEW d \in Data,
         p \in {"getMiss", "getFill", "getDone", "upsertFill"} => a \in Keys,
         p \in {"allMiss", "allFill", "allDone"} => a \in Kinds,
         p = "upsertFill" => it \in Item,
         Goto(t, p, a, it, d)
  PROVE  CallType'
  <1>1. /\ pc' \in [Threads -> Pcs]
        /\ arg' \in [Threads -> Keys \cup Kinds \cup {Nil}]
        /\ got' \in [Threads -> Item \cup {Nil}]
        /\ snap' \in [Threads -> Data]
        /\ lag' \in [Threads -> 0..Latency]
    BY DEF CallType, Goto
  <1>2. ASSUME NEW u \in Threads
        PROVE /\ pc'[u] \in {"getMiss", "getFill", "getDone", "upsertFill"}
                   => arg'[u] \in Keys
              /\ pc'[u] \in {"allMiss", "allFill", "allDone"} => arg'[u] \in Kinds
              /\ pc'[u] = "upsertFill" => got'[u] \in Item
    <2>1. CASE u = t BY <2>1 DEF CallType, Goto
    <2>2. CASE u # t BY <2>2 DEF CallType, Goto
    <2> QED BY <2>1, <2>2
  <1> QED BY <1>1, <1>2 DEF CallType

LEMMA LeaveType ==
  ASSUME CallType, NEW t \in Threads, Leave(t)
  PROVE  CallType'
  <1>1. Goto(t, "idle", Nil, Nil, Empty)
    BY DEF Leave, Goto
  <1> QED BY <1>1, GotoType, UpdateType DEF Pcs

\* upsertMemory puts a fresh entry into a well-typed cache.
LEMMA UpsertMemoryType ==
  ASSUME CacheType, NEW k \in Keys, NEW it \in Item, upsertMemory(k, it)
  PROVE  /\ items' \in [Keys -> Entry \cup {Nil}]
         /\ alls' \in [Kinds -> [Slots -> AllEntry \cup {Nil}]]
  <1>1. CASE UNCHANGED <<items, alls>>
    BY <1>1 DEF CacheType
  <1>2. CASE /\ items' = [items EXCEPT ![k] = [item |-> it, age |-> 0]]
             /\ RemoveAll(KindOf[k])
    <2>1. [item |-> it, age |-> 0] \in Entry
      BY DEF Entry, Ages
    <2>2. items' \in [Keys -> Entry \cup {Nil}]
      BY <1>2, <2>1 DEF CacheType
    <2>3. alls' \in [Kinds -> [Slots -> AllEntry \cup {Nil}]]
      BY <1>2 DEF RemoveAll, Found, CacheType
    <2> QED BY <2>2, <2>3
  <1> QED BY <1>1, <1>2 DEF upsertMemory

\* The backend's answer and the history variables keep their types.
LEMMA WriteTypes ==
  ASSUME TypeOK
  PROVE  /\ \A k \in Keys, it \in Update : BackendUpsert(k, it) /\ UNCHANGED deployment => BackendType'
         /\ \A put \in Puts : BackendInit(put) /\ UNCHANGED deployment => BackendType'
         /\ \A ks \in SUBSET Keys : WriteStarts(ks) => HistoryType'
         /\ \A t \in Threads : \A a : ReadStarts(t, a) => HistoryType'
  <1>1. \A k \in Keys, it \in Update : BackendUpsert(k, it) /\ UNCHANGED deployment => BackendType'
    BY UpdateType DEF TypeOK, BackendType, BackendUpsert, Data
  <1>2. \A put \in Puts : BackendInit(put) /\ UNCHANGED deployment => BackendType'
    BY UpdateType DEF TypeOK, BackendType, BackendInit
  <1>3. \A ks \in SUBSET Keys : WriteStarts(ks) => HistoryType'
    BY BoundNat DEF TypeOK, HistoryType, WriteStarts
  <1>4. \A t \in Threads : \A a : ReadStarts(t, a) => HistoryType'
    BY DEF TypeOK, HistoryType, ReadStarts
  <1> QED BY <1>1, <1>2, <1>3, <1>4

LEMMA GetTypes ==
  ASSUME TypeOK, NEW t \in Threads, storeGet(t)
  PROVE  TypeOK'
  <1> USE DEF TypeOK
  <1>1. ASSUME NEW k \in Keys, GetHit(t, k) PROVE TypeOK'
    <2>1. Live(items[k].item) \in Item \cup {Nil}
      BY <1>1, LiveType DEF GetHit, Current, CacheType, Entry
    <2>2. CallType'
      BY <1>1, <2>1, GotoType, UpdateType DEF GetHit, Pcs, Answers
    <2> QED BY <1>1, <2>2, WriteTypes, UnchangedTypes DEF GetHit
  <1>2. ASSUME NEW k \in Keys, GetMiss(t, k) PROVE TypeOK'
    <2>1. CallType'
      BY <1>2, GotoType, UpdateType DEF GetMiss, Pcs
    <2> QED BY <1>2, <2>1, WriteTypes, UnchangedTypes DEF GetMiss
  <1>3. CASE BackendGet(t)
    <2>1. arg[t] \in Keys /\ backend[arg[t]] \in Item \cup {Nil}
      BY <1>3 DEF BackendGet, CallType, BackendType, Data
    <2>2. CallType'
      BY <1>3, <2>1, GotoType, UpdateType DEF BackendGet, Pcs, Fills
    <2> QED BY <1>3, <2>2, UnchangedTypes DEF BackendGet
  <1>4. CASE BackendGetFails(t)
    BY <1>4, LeaveType, UnchangedTypes DEF BackendGetFails
  <1>5. CASE GetFill(t)
    <2>1. arg[t] \in Keys /\ got[t] \in Item \cup {Nil}
      BY <1>5 DEF GetFill, CallType
    <2>2. CallType'
      BY <1>5, <2>1, GotoType, UpdateType, LiveType DEF GetFill, Pcs, Answers
    <2>3. CacheType'
      <3> DEFINE it == IF got[t] = Nil THEN LDi_makeDeletedData ELSE got[t]
      <3>1. it \in Item
        BY <2>1, PlaceholderType
      <3>2. upsertMemory(arg[t], it)
        BY <1>5 DEF GetFill
      <3> HIDE DEF it
      <3>3. /\ items' \in [Keys -> Entry \cup {Nil}]
            /\ alls' \in [Kinds -> [Slots -> AllEntry \cup {Nil}]]
        BY <2>1, <3>1, <3>2, UpsertMemoryType
      <3> QED BY <1>5, <3>3 DEF GetFill, CacheType
    <2> QED BY <1>5, <2>2, <2>3, UnchangedTypes DEF GetFill
  <1> QED BY <1>1, <1>2, <1>3, <1>4, <1>5 DEF storeGet

LEMMA AllTypes ==
  ASSUME TypeOK, NEW t \in Threads, storeAll(t)
  PROVE  TypeOK'
  <1> USE DEF TypeOK
  <1>1. ASSUME NEW kind \in Kinds, AllHit(t, kind) PROVE TypeOK'
    <2>1. PICK d \in Data : Goto(t, "allDone", kind, Nil, d)
      BY <1>1 DEF AllHit, Found, CacheType, AllEntry
    <2>2. CallType
      OBVIOUS
    <2>3. CallType'
      BY <2>1, <2>2, GotoType DEF Pcs, Answers
    <2> QED BY <1>1, <2>3, WriteTypes, UnchangedTypes DEF AllHit
  <1>2. ASSUME NEW kind \in Kinds, AllMiss(t, kind) PROVE TypeOK'
    <2>1. CallType'
      BY <1>2, GotoType, UpdateType DEF AllMiss, Pcs
    <2> QED BY <1>2, <2>1, WriteTypes, UnchangedTypes DEF AllMiss
  <1>3. CASE BackendAll(t)
    <2>1. arg[t] \in Kinds /\ LiveOf(backend, arg[t]) \in Data
      BY <1>3, LiveOfType DEF BackendAll, CallType, BackendType
    <2>2. CallType'
      BY <1>3, <2>1, GotoType DEF BackendAll, Pcs, Fills
    <2> QED BY <1>3, <2>2, UnchangedTypes DEF BackendAll
  <1>4. CASE BackendAllFails(t)
    BY <1>4, LeaveType, UnchangedTypes DEF BackendAllFails
  <1>5. CASE AllFill(t)
    <2>1. arg[t] \in Kinds /\ snap[t] \in Data
      BY <1>5 DEF AllFill, CallType
    <2>2. CallType'
      BY <1>5, <2>1, GotoType DEF AllFill, Pcs, Answers
    <2>3. CacheType'
      <3>1. [data |-> snap[t], age |-> 0] \in AllEntry
        BY <2>1 DEF AllEntry, Ages
      <3> QED BY <1>5, <2>1, <3>1 DEF AllFill, CacheType
    <2> QED BY <1>5, <2>2, <2>3, UnchangedTypes DEF AllFill
  <1> QED BY <1>1, <1>2, <1>3, <1>4, <1>5 DEF storeAll

LEMMA UpsertTypes ==
  ASSUME TypeOK, NEW t \in Threads, storeUpsert(t)
  PROVE  TypeOK'
  <1> USE DEF TypeOK
  <1>1. ASSUME NEW k \in Keys, NEW it \in Update, Upsert(t, k, it) PROVE TypeOK'
    <2>1. CallType'
      BY <1>1, GotoType, UpdateType DEF Upsert, Pcs, Fills
    <2> QED BY <1>1, <2>1, WriteTypes, UnchangedTypes DEF Upsert
  <1>2. ASSUME NEW k \in Keys, NEW it \in Update, UpsertFails(t, k, it)
        PROVE  TypeOK'
    BY <1>2, WriteTypes, UnchangedTypes DEF UpsertFails, backendVars
  <1>3. CASE UpsertFill(t)
    <2>1. arg[t] \in Keys /\ got[t] \in Item
      BY <1>3 DEF UpsertFill, CallType
    <2>2. CallType'
      BY <1>3, LeaveType DEF UpsertFill
    <2>3. CacheType'
      BY <1>3, <2>1, UpsertMemoryType DEF UpsertFill, CacheType
    <2>4. HistoryType'
      BY <1>3 DEF UpsertFill, HistoryType
    <2> QED BY <1>3, <2>2, <2>3, <2>4, UnchangedTypes DEF UpsertFill
  <1> QED BY <1>1, <1>2, <1>3 DEF storeUpsert

LEMMA InitTypes ==
  ASSUME TypeOK, NEW t \in Threads, storeInit(t)
  PROVE  TypeOK'
  <1> USE DEF TypeOK
  <1>1. ASSUME NEW put \in Puts, StoreInit(t, put) PROVE TypeOK'
    <2>1. CallType'
      BY <1>1, GotoType, UpdateType DEF StoreInit, Pcs, Fills
    <2> QED BY <1>1, <2>1, WriteTypes, UnchangedTypes DEF StoreInit
  <1>2. ASSUME NEW put \in Puts, StoreInitFails(t, put) PROVE TypeOK'
    BY <1>2, WriteTypes, UnchangedTypes DEF StoreInitFails, backendVars
  <1>3. CASE InitFill(t)
    <2>1. snap[t] \in Data
      BY DEF CallType
    <2>2. items' \in [Keys -> Entry \cup {Nil}]
      BY <1>3, <2>1 DEF InitFill, memoryInit, CachePut, Data, Entry, Ages
    <2>3. ASSUME NEW kind \in Kinds
          PROVE  [data |-> OfKind(snap[t], kind), age |-> 0] \in AllEntry
      BY <2>1, OfKindType DEF AllEntry, Ages
    <2>4. alls' \in [Kinds -> [Slots -> AllEntry \cup {Nil}]]
      BY <1>3, <2>3 DEF InitFill, memoryInit, CachePut
    <2>5. CacheType'
      BY <1>3, <2>2, <2>4 DEF InitFill, memoryInit, CachePut, CacheType
    <2>6. HistoryType'
      BY <1>3 DEF InitFill, HistoryType
    <2> QED BY <1>3, <2>5, <2>6, LeaveType, UnchangedTypes DEF InitFill
  <1> QED BY <1>1, <1>2, <1>3 DEF storeInit

LEMMA InitializedTypes ==
  ASSUME TypeOK, NEW t \in Threads, storeInitialized(t)
  PROVE  TypeOK'
  <1> USE DEF TypeOK
  <1>1. ASSUME NEW yes, Answer(t, yes) PROVE CallType'
    <2>1. (IF yes THEN "initYes" ELSE "initNo") \in {"initYes", "initNo"}
      OBVIOUS
    <2> QED BY <1>1, <2>1, GotoType, UpdateType DEF Answer, Pcs, Answers
  <1>2. CASE quickCheckInitialization(t)
    BY <1>1, <1>2, UnchangedTypes DEF quickCheckInitialization
  <1>3. CASE quickCheckFails(t)
    BY <1>3, GotoType, UpdateType, UnchangedTypes DEF quickCheckFails, Pcs
  <1>4. CASE queryAndUpdateInitialization(t)
    <2>1. CallType'
      BY <1>1, <1>4 DEF queryAndUpdateInitialization
    <2>2. CacheType'
      BY <1>4 DEF queryAndUpdateInitialization, BackendInitialized,
                  CacheType, BackendType, Ages
    <2> QED BY <1>4, <2>1, <2>2, UnchangedTypes DEF queryAndUpdateInitialization
  <1> QED BY <1>2, <1>3, <1>4 DEF storeInitialized

\* A tick only makes ages, lags and the quiet period grow.
LEMMA TickTypes ==
  ASSUME TypeOK, Tick
  PROVE  TypeOK'
  <1> USE DEF TypeOK
  <1>1. items' \in [Keys -> Entry \cup {Nil}]
    <2>1. ASSUME NEW k \in Keys, items[k] # Nil
          PROVE  [items[k] EXCEPT !.age = Older(@, TTL + 1)] \in Entry
      <3>1. items[k] \in Entry
        BY <2>1 DEF CacheType
      <3>2. Older(items[k].age, TTL + 1) \in Ages
        BY <3>1, OlderType DEF Entry, Ages
      <3> QED BY <3>1, <3>2 DEF Entry
    <2> QED BY <2>1 DEF Tick
  <1>2. alls' \in [Kinds -> [Slots -> AllEntry \cup {Nil}]]
    <2>1. ASSUME NEW kind \in Kinds, NEW s \in Slots, alls[kind][s] # Nil
          PROVE  [alls[kind][s] EXCEPT !.age = Older(@, TTL + 1)] \in AllEntry
      <3>1. alls[kind][s] \in AllEntry
        BY <2>1 DEF CacheType
      <3>2. alls[kind][s].age \in 0..(TTL + 1)
        BY <3>1 DEF AllEntry, Ages
      <3>3. Older(alls[kind][s].age, TTL + 1) \in Ages
        BY <3>2, OlderType, BoundNat DEF Ages
      <3> QED BY <3>1, <3>3 DEF AllEntry
    <2> QED BY <2>1 DEF Tick
  <1>3. initChecked' \in Ages \cup {Nil}
    <2>1. CASE initChecked = Nil
      BY <2>1 DEF Tick
    <2>2. CASE initChecked # Nil
      <3>1. initChecked \in 0..(TTL + 1)
        BY <2>2 DEF CacheType, Ages
      <3>2. Older(initChecked, TTL + 1) \in 0..(TTL + 1)
        BY <3>1, OlderType, BoundNat
      <3> QED BY <2>2, <3>2 DEF Tick, Ages
    <2> QED BY <2>1, <2>2
  <1>4. CallType'
    BY DEF Tick, CallType
  <1>5. HistoryType'
    <2>1. quiet' \in 0..(Bound + 1)
      BY OlderType, BoundNat DEF Tick, HistoryType
    <2> QED BY <2>1 DEF Tick, HistoryType
  <1>6. BackendType' /\ initialized' \in BOOLEAN
    BY DEF Tick, BackendType, backendVars, CacheType
  <1> QED BY <1>1, <1>2, <1>3, <1>4, <1>5, <1>6 DEF CacheType

\* The variables keep their types in every behaviour: entries have ages within
\* the timeout, and a call in progress has the argument its next step needs.
THEOREM TypeCorrect == Spec => []TypeOK
  <1>1. Init => TypeOK
    <2> SUFFICES ASSUME Init PROVE TypeOK
      OBVIOUS
    <2>1. BackendType /\ CacheType
      BY UpdateType DEF Init, BackendType, CacheType
    <2>2. CallType
      BY UpdateType DEF Init, CallType, Pcs
    <2>3. 0 \in 0..(Bound + 1)
      BY BoundNat
    <2>4. HistoryType
      BY <2>3 DEF Init, HistoryType
    <2> QED BY <2>1, <2>2, <2>4 DEF TypeOK
  <1>2. TypeOK /\ [Next]_vars => TypeOK'
    <2> SUFFICES ASSUME TypeOK, [Next]_vars PROVE TypeOK'
      OBVIOUS
    <2>1. ASSUME NEW t \in Threads, Return(t) PROVE TypeOK'
      BY <2>1, LeaveType, UnchangedTypes DEF Return, TypeOK
    <2>2. ASSUME NEW k \in Keys, NEW it \in Update, ExternalUpsert(k, it)
          PROVE  TypeOK'
      BY <2>2, WriteTypes, UnchangedTypes DEF ExternalUpsert, TypeOK
    <2>3. ASSUME NEW put \in Puts, ExternalInit(put) PROVE TypeOK'
      BY <2>3, WriteTypes, UnchangedTypes DEF ExternalInit, TypeOK
    <2>4. CASE UNCHANGED vars
      BY <2>4, UnchangedTypes DEF vars, TypeOK
    <2> QED BY <2>1, <2>2, <2>3, <2>4, GetTypes, AllTypes, UpsertTypes, InitTypes,
               InitializedTypes, TickTypes DEF Next
  <1> QED BY <1>1, <1>2, PTL DEF Spec

-----------------------------------------------------------------------------
(* Convergence.  A cached value is not older than its age plus Latency, and *)
(* a value in hand is not older than the lag of its call.  When the backend *)
(* has been quiet for longer than that, the value is what the backend holds.*)

\* What a cache entry for a single item knows about the backend.
ItemFresh ==
    \A k \in Keys :
        items[k] # Nil /\ items[k].age <= TTL /\ quiet > items[k].age + Latency
            => Live(items[k].item) = Live(backend[k])

\* What a cached collection knows about the backend.
SameLive(d, kind) == \A k \in Keys : KindOf[k] = kind => Live(d[k]) = Live(backend[k])

AllFresh ==
    \A kind \in Kinds, s \in Slots :
        LET e == alls[kind][s]
        IN  e # Nil /\ e.age <= TTL /\ quiet > e.age + Latency
                => SameLive(e.data, kind)

\* What a call that is about to fill the cache knows about the backend.
FillFresh ==
    \A t \in Threads :
        /\ pc[t] = "getFill" /\ quiet > lag[t] => got[t] = backend[arg[t]]
        /\ pc[t] = "allFill" /\ quiet > lag[t] => SameLive(snap[t], arg[t])
        /\ pc[t] \in {"upsertFill", "initFill"} => quiet <= lag[t]

Fresh == ItemFresh /\ AllFresh /\ FillFresh /\ GetConverges /\ AllConverges

IInv == TypeOK /\ Fresh

\* Right after a write nothing is claimed of any value.
LEMMA WriteFresh ==
  ASSUME TypeOK', quiet' = 0
  PROVE  Fresh'
  <1>1. ItemFresh'
    BY DEF ItemFresh, TypeOK, CacheType, Entry, Ages
  <1>2. AllFresh'
    BY DEF AllFresh, TypeOK, CacheType, AllEntry, Ages
  <1>3. FillFresh'
    BY DEF FillFresh, TypeOK, CallType
  <1>4. GetConverges' /\ AllConverges'
    BY BoundNat DEF GetConverges, AllConverges
  <1> QED BY <1>1, <1>2, <1>3, <1>4 DEF Fresh

\* Entries that stay keep what they know while no write comes.
LEMMA EntriesFrame ==
  ASSUME UNCHANGED <<quiet, backend>>
  PROVE  /\ ItemFresh /\ UNCHANGED items => ItemFresh'
         /\ AllFresh /\ UNCHANGED alls => AllFresh'
  <1>1. ItemFresh /\ UNCHANGED items => ItemFresh'
    BY DEF ItemFresh
  <1>2. AllFresh /\ UNCHANGED alls => AllFresh'
    BY DEF AllFresh, SameLive
  <1> QED BY <1>1, <1>2

CallFresh == FillFresh /\ GetConverges /\ AllConverges

\* A step of one call keeps what every call knows, if its own value is right.
LEMMA GotoFresh ==
  ASSUME TypeOK, CallFresh, UNCHANGED <<quiet, backend>>,
         NEW t \in Threads, NEW p, NEW a, NEW it, NEW d, Goto(t, p, a, it, d),
         p \notin {"upsertFill", "initFill"},
         p = "getFill" => it = backend[a],
         p = "allFill" => SameLive(d, a),
         p = "getDone" /\ quiet > Bound => it = Live(backend[a]),
         p = "allDone" /\ quiet > Bound => SameLive(d, a)
  PROVE  CallFresh'
  <1>1. ASSUME NEW u \in Threads, u # t
        PROVE  /\ pc'[u] = pc[u] /\ arg'[u] = arg[u] /\ got'[u] = got[u]
               /\ snap'[u] = snap[u] /\ lag'[u] = lag[u]
    BY <1>1 DEF Goto, TypeOK, CallType
  <1>2. /\ pc'[t] = p /\ arg'[t] = a /\ got'[t] = it
        /\ snap'[t] = d /\ lag'[t] = 0
    BY DEF Goto, TypeOK, CallType
  <1>3. FillFresh'
    BY <1>1, <1>2 DEF CallFresh, FillFresh, SameLive
  <1>4. GetConverges'
    BY <1>1, <1>2 DEF CallFresh, GetConverges, Bound
  <1>5. AllConverges'
    BY <1>1, <1>2 DEF CallFresh, AllConverges, SameLive, Bound
  <1> QED BY <1>3, <1>4, <1>5 DEF CallFresh

LEMMA LeaveFresh ==
  ASSUME TypeOK, CallFresh, UNCHANGED <<quiet, backend>>,
         NEW t \in Threads, Leave(t)
  PROVE  CallFresh'
  <1>1. Goto(t, "idle", Nil, Nil, Empty)
    BY DEF Leave, Goto
  <1> QED BY <1>1, GotoFresh

\* upsertMemory keeps what the entries know, if the item it puts there is
\* right whenever it could matter.
LEMMA UpsertMemoryFresh ==
  ASSUME TypeOK, ItemFresh, AllFresh, UNCHANGED <<quiet, backend>>,
         NEW k \in Keys, NEW it \in Item, upsertMemory(k, it),
         quiet > Latency => Live(it) = Live(backend[k])
  PROVE  ItemFresh' /\ AllFresh'
  <1>1. CASE UNCHANGED <<items, alls>>
    BY <1>1, EntriesFrame
  <1>2. CASE /\ items' = [items EXCEPT ![k] = [item |-> it, age |-> 0]]
             /\ RemoveAll(KindOf[k])
    <2>1. ItemFresh'
      <3>1. items'[k] = [item |-> it, age |-> 0]
        BY <1>2 DEF TypeOK, CacheType
      <3>2. \A j \in Keys : j # k => items'[j] = items[j]
        BY <1>2 DEF TypeOK, CacheType
      <3> QED BY <3>1, <3>2 DEF ItemFresh
    <2>2. ASSUME NEW kind \in Kinds, NEW s \in Slots
          PROVE  alls'[kind][s] \in {alls[kind][s], Nil}
      BY <1>2 DEF RemoveAll, Found, TypeOK, CacheType
    <2>3. AllFresh'
      BY <2>2 DEF AllFresh, SameLive
    <2> QED BY <2>1, <2>3
  <1> QED BY <1>1, <1>2 DEF upsertMemory

LEMMA GetFresh ==
  ASSUME IInv, NEW t \in Threads, storeGet(t)
  PROVE  Fresh'
  <1> USE DEF IInv, Fresh
  <1>1. ASSUME NEW k \in Keys, GetHit(t, k) PROVE Fresh'
    <2>1. quiet > Bound => Live(items[k].item) = Live(backend[k])
      BY <1>1 DEF GetHit, Current, Expired, ItemFresh, Bound, TypeOK, CacheType,
                  HistoryType, Entry, Ages
    <2>2. UNCHANGED <<quiet, backend, items, alls>>
      BY <1>1 DEF GetHit, ReadStarts, backendVars, cacheVars
    <2>3. CallFresh'
      BY <1>1, <2>1, <2>2, GotoFresh DEF GetHit, CallFresh
    <2> QED BY <2>2, <2>3, EntriesFrame DEF CallFresh
  <1>2. ASSUME NEW k \in Keys, GetMiss(t, k) PROVE Fresh'
    <2>1. UNCHANGED <<quiet, backend, items, alls>>
      BY <1>2 DEF GetMiss, ReadStarts, backendVars, cacheVars
    <2>2. CallFresh'
      BY <1>2, <2>1, GotoFresh DEF GetMiss, CallFresh
    <2> QED BY <2>1, <2>2, EntriesFrame DEF CallFresh
  <1>3. CASE BackendGet(t)
    <2>1. UNCHANGED <<quiet, backend, items, alls>>
      BY <1>3 DEF BackendGet, backendVars, cacheVars, historyVars
    <2>2. CallFresh'
      BY <1>3, <2>1, GotoFresh DEF BackendGet, CallFresh
    <2> QED BY <2>1, <2>2, EntriesFrame DEF CallFresh
  <1>4. CASE BackendGetFails(t)
    <2>1. UNCHANGED <<quiet, backend, items, alls>>
      BY <1>4 DEF BackendGetFails, backendVars, cacheVars, historyVars
    <2> QED BY <1>4, <2>1, LeaveFresh, EntriesFrame DEF BackendGetFails, CallFresh
  <1>5. CASE GetFill(t)
    <2> DEFINE it == IF got[t] = Nil THEN LDi_makeDeletedData ELSE got[t]
    <2>1. arg[t] \in Keys /\ got[t] \in Item \cup {Nil} /\ it \in Item
      BY <1>5, PlaceholderType DEF GetFill, TypeOK, CallType
    <2>2. UNCHANGED <<quiet, backend>>
      BY <1>5 DEF GetFill, backendVars, historyVars
    <2>3. quiet > Latency => got[t] = backend[arg[t]]
      BY <1>5 DEF GetFill, FillFresh, TypeOK, CallType, HistoryType, Bound
    <2>4. Live(it) = Live(got[t])
      BY DEF Live, LDi_makeDeletedData
    <2>5. upsertMemory(arg[t], it)
      BY <1>5 DEF GetFill
    <2> HIDE DEF it
    <2>6. ItemFresh' /\ AllFresh'
      BY <2>1, <2>2, <2>3, <2>4, <2>5, UpsertMemoryFresh
    <2>7. quiet > Bound => Live(got[t]) = Live(backend[arg[t]])
      BY <2>3 DEF Bound, TypeOK, HistoryType
    <2>8. CallFresh'
      BY <1>5, <2>2, <2>7, GotoFresh DEF GetFill, CallFresh
    <2> QED BY <2>6, <2>8 DEF CallFresh
  <1> QED BY <1>1, <1>2, <1>3, <1>4, <1>5 DEF storeGet

LEMMA AllFreshStep ==
  ASSUME IInv, NEW t \in Threads, storeAll(t)
  PROVE  Fresh'
  <1> USE DEF IInv, Fresh
  <1>1. ASSUME NEW kind \in Kinds, AllHit(t, kind) PROVE Fresh'
    <2>1. PICK s \in Found(kind) :
            /\ ~Expired(alls[kind][s].age)
            /\ Goto(t, "allDone", kind, Nil, alls[kind][s].data)
      BY <1>1 DEF AllHit
    <2>2. alls[kind][s] \in AllEntry /\ alls[kind][s] # Nil /\ s \in Slots
      BY DEF Found, TypeOK, CacheType
    <2>3. quiet > Bound => SameLive(alls[kind][s].data, kind)
      BY <2>1, <2>2 DEF Expired, AllFresh, Bound, TypeOK, HistoryType, AllEntry, Ages
    <2>4. UNCHANGED <<quiet, backend, items, alls>>
      BY <1>1 DEF AllHit, ReadStarts, backendVars, cacheVars
    <2>5. CallFresh'
      BY <2>1, <2>3, <2>4, GotoFresh DEF CallFresh
    <2> QED BY <2>4, <2>5, EntriesFrame DEF CallFresh
  <1>2. ASSUME NEW kind \in Kinds, AllMiss(t, kind) PROVE Fresh'
    <2>1. UNCHANGED <<quiet, backend, items, alls>>
      BY <1>2 DEF AllMiss, ReadStarts, backendVars, cacheVars
    <2>2. CallFresh'
      BY <1>2, <2>1, GotoFresh DEF AllMiss, CallFresh
    <2> QED BY <2>1, <2>2, EntriesFrame DEF CallFresh
  <1>3. CASE BackendAll(t)
    <2>1. UNCHANGED <<quiet, backend, items, alls>>
      BY <1>3 DEF BackendAll, backendVars, cacheVars, historyVars
    <2>2. SameLive(LiveOf(backend, arg[t]), arg[t])
      BY DEF SameLive, LiveOf, Live
    <2>3. CallFresh'
      BY <1>3, <2>1, <2>2, GotoFresh DEF BackendAll, CallFresh
    <2> QED BY <2>1, <2>3, EntriesFrame DEF CallFresh
  <1>4. CASE BackendAllFails(t)
    <2>1. UNCHANGED <<quiet, backend, items, alls>>
      BY <1>4 DEF BackendAllFails, backendVars, cacheVars, historyVars
    <2> QED BY <1>4, <2>1, LeaveFresh, EntriesFrame DEF BackendAllFails, CallFresh
  <1>5. CASE AllFill(t)
    <2>1. arg[t] \in Kinds /\ lag[t] \in 0..Latency
      BY <1>5 DEF AllFill, TypeOK, CallType
    <2>2. UNCHANGED <<quiet, backend, items>>
      BY <1>5 DEF AllFill, backendVars, historyVars
    <2>3. quiet > Latency => SameLive(snap[t], arg[t])
      BY <1>5, <2>1 DEF AllFill, FillFresh, TypeOK, HistoryType, Bound
    <2>4. ASSUME NEW kind \in Kinds, NEW s \in Slots,
                 alls'[kind][s] # alls[kind][s]
          PROVE  kind = arg[t] /\ alls'[kind][s] = [data |-> snap[t], age |-> 0]
      BY <1>5, <2>1, <2>4 DEF AllFill, TypeOK, CacheType
    <2>5. AllFresh'
      BY <2>2, <2>3, <2>4 DEF AllFresh, SameLive
    <2>6. quiet > Bound => SameLive(snap[t], arg[t])
      BY <2>3 DEF Bound, TypeOK, HistoryType
    <2>7. CallFresh'
      BY <1>5, <2>2, <2>6, GotoFresh DEF AllFill, CallFresh
    <2> QED BY <2>2, <2>5, <2>7, EntriesFrame DEF CallFresh
  <1> QED BY <1>1, <1>2, <1>3, <1>4, <1>5 DEF storeAll

\* A write caches what is right at once or was overtaken by a later write.
LEMMA UpsertFresh ==
  ASSUME IInv, NEW t \in Threads, storeUpsert(t)
  PROVE  Fresh'
  <1> USE DEF IInv, Fresh
  <1>1. TypeOK'
    BY UpsertTypes
  <1>2. ASSUME NEW k \in Keys, NEW it \in Update,
               Upsert(t, k, it) \/ UpsertFails(t, k, it)
        PROVE  Fresh'
    BY <1>1, <1>2, WriteFresh DEF Upsert, UpsertFails, WriteStarts
  <1>3. CASE UpsertFill(t)
    <2>1. arg[t] \in Keys /\ got[t] \in Item /\ lag[t] \in 0..Latency
      BY <1>3 DEF UpsertFill, TypeOK, CallType
    <2>2. UNCHANGED <<quiet, backend>>
      BY <1>3 DEF UpsertFill, backendVars
    <2>3. ~(quiet > Latency)
      BY <1>3, <2>1 DEF UpsertFill, FillFresh, TypeOK, HistoryType, Bound
    <2>4. ItemFresh' /\ AllFresh'
      BY <1>3, <2>1, <2>2, <2>3, UpsertMemoryFresh DEF UpsertFill
    <2>5. CallFresh'
      BY <1>3, <2>2, LeaveFresh DEF UpsertFill, CallFresh
    <2> QED BY <2>4, <2>5 DEF CallFresh
  <1> QED BY <1>2, <1>3 DEF storeUpsert

LEMMA InitFresh ==
  ASSUME IInv, NEW t \in Threads, storeInit(t)
  PROVE  Fresh'
  <1> USE DEF IInv, Fresh
  <1>1. TypeOK'
    BY InitTypes
  <1>2. ASSUME NEW put \in Puts, StoreInit(t, put) \/ StoreInitFails(t, put)
        PROVE  Fresh'
    BY <1>1, <1>2, WriteFresh DEF StoreInit, StoreInitFails, WriteStarts
  <1>3. CASE InitFill(t)
    <2>1. lag[t] \in 0..Latency
      BY DEF TypeOK, CallType
    <2>2. UNCHANGED <<quiet, backend>>
      BY <1>3 DEF InitFill, backendVars
    <2>3. ~(quiet > Latency)
      BY <1>3, <2>1 DEF InitFill, FillFresh, TypeOK, HistoryType, Bound
    <2>4. ItemFresh'
      <3>1. ASSUME NEW k \in Keys, items'[k] # Nil
            PROVE  items'[k].age = 0
        BY <1>3, <3>1 DEF InitFill, memoryInit, CachePut
      <3> QED BY <2>2, <2>3, <3>1 DEF ItemFresh, TypeOK, HistoryType
    <2>5. AllFresh'
      <3>1. ASSUME NEW kind \in Kinds, NEW s \in Slots, alls'[kind][s] # Nil
            PROVE  alls'[kind][s].age = 0
        BY <1>3, <3>1 DEF InitFill, memoryInit, CachePut
      <3> QED BY <2>2, <2>3, <3>1 DEF AllFresh, TypeOK, HistoryType
    <2>6. CallFresh'
      BY <1>3, <2>2, LeaveFresh DEF InitFill, CallFresh
    <2> QED BY <2>4, <2>5, <2>6 DEF CallFresh
  <1> QED BY <1>2, <1>3 DEF storeInit

LEMMA InitializedFresh ==
  ASSUME IInv, NEW t \in Threads, storeInitialized(t)
  PROVE  Fresh'
  <1> USE DEF IInv, Fresh
  <1>1. UNCHANGED <<quiet, backend, items, alls>>
    BY DEF storeInitialized, quickCheckInitialization, quickCheckFails,
           queryAndUpdateInitialization, backendVars, cacheVars, historyVars
  <1>2. PICK p \in {"initYes", "initNo", "initQuery"} : Goto(t, p, Nil, Nil, Empty)
    BY DEF storeInitialized, quickCheckInitialization, quickCheckFails,
           queryAndUpdateInitialization, Answer
  <1>3. CallFresh'
    BY <1>1, <1>2, GotoFresh DEF CallFresh
  <1> QED BY <1>1, <1>3, EntriesFrame DEF CallFresh

\* A tick lets the quiet period grow no faster than the ages and the lags.
LEMMA TickFresh ==
  ASSUME IInv, Tick
  PROVE  Fresh'
  <1> USE DEF IInv, Fresh
  <1>1. quiet \in Nat /\ quiet' \in Nat /\ quiet' <= quiet + 1 /\ backend' = backend
    BY OlderType, BoundNat DEF Tick, TypeOK, HistoryType, backendVars
  <1>2. ItemFresh'
    <2> SUFFICES ASSUME NEW k \in Keys, items'[k] # Nil, items'[k].age <= TTL,
                        quiet' > items'[k].age + Latency
                 PROVE  Live(items'[k].item) = Live(backend[k])
      BY <1>1 DEF ItemFresh
    <2>1. items[k] \in Entry /\ items[k] # Nil
      BY DEF Tick, TypeOK, CacheType
    <2>2. PICK n \in Ages : n = items[k].age
      BY <2>1 DEF Entry
    <2>3. items'[k].item = items[k].item /\ items'[k].age = Older(n, TTL + 1)
      BY <2>1, <2>2 DEF Tick, Entry
    <2>4. n <= TTL /\ quiet > n + Latency
      BY <1>1, <2>2, <2>3 DEF Older, Ages
    <2> QED BY <2>1, <2>2, <2>3, <2>4 DEF ItemFresh
  <1>3. AllFresh'
    <2> SUFFICES ASSUME NEW kind \in Kinds, NEW s \in Slots,
                        alls'[kind][s] # Nil, alls'[kind][s].age <= TTL,
                        quiet' > alls'[kind][s].age + Latency
                 PROVE  SameLive(alls'[kind][s].data, kind)
      BY <1>1 DEF AllFresh, SameLive
    <2>1. alls[kind][s] \in AllEntry /\ alls[kind][s] # Nil
      BY DEF Tick, TypeOK, CacheType
    <2>2. PICK n \in Ages : n = alls[kind][s].age
      BY <2>1 DEF AllEntry
    <2>3. /\ alls'[kind][s].data = alls[kind][s].data
          /\ alls'[kind][s].age = Older(n, TTL + 1)
      BY <2>1, <2>2 DEF Tick, AllEntry
    <2>4. n <= TTL /\ quiet > n + Latency
      BY <1>1, <2>2, <2>3 DEF Older, Ages
    <2> QED BY <2>1, <2>2, <2>3, <2>4 DEF AllFresh
  <1>4. FillFresh'
    <2> SUFFICES ASSUME NEW t \in Threads
                 PROVE  /\ pc[t] = "getFill" /\ quiet' > lag'[t]
                              => got[t] = backend[arg[t]]
                        /\ pc[t] = "allFill" /\ quiet' > lag'[t]
                              => SameLive(snap[t], arg[t])
                        /\ pc[t] \in {"upsertFill", "initFill"} => quiet' <= lag'[t]
      BY <1>1 DEF FillFresh, SameLive, Tick
    <2>1. pc[t] \in Fills => lag'[t] = lag[t] + 1 /\ lag[t] \in Nat
      BY DEF Tick, TypeOK, CallType
    <2> QED BY <1>1, <2>1 DEF FillFresh, Fills
  <1>5. GetConverges' /\ AllConverges'
    BY DEF Tick, GetConverges, AllConverges, Answers
  <1> QED BY <1>2, <1>3, <1>4, <1>5

\* For every number of threads, whatever the interleaving of lookups, backend
\* calls and fills, and whatever the backend and other processes do: once the
\* backend has been quiet for longer than the cache timeout and the latency of
\* a call together, storeGet and storeAll answer what it holds.
THEOREM Converges == Spec => [](GetConverges /\ AllConverges)
  <1>1. Init => Fresh
    BY BoundNat DEF Init, Fresh, ItemFresh, AllFresh, FillFresh, GetConverges, AllConverges
  <1>2. IInv /\ [Next]_vars => Fresh'
    <2> SUFFICES ASSUME IInv, [Next]_vars PROVE Fresh'
      OBVIOUS
    <2>1. ASSUME NEW t \in Threads, Return(t) PROVE Fresh'
      <3>1. UNCHANGED <<quiet, backend, items, alls>>
        BY <2>1 DEF Return, backendVars, cacheVars, historyVars
      <3>2. CallFresh'
        BY <2>1, <3>1, LeaveFresh DEF Return, IInv, Fresh, CallFresh
      <3> QED BY <3>1, <3>2, EntriesFrame DEF IInv, Fresh, CallFresh
    <2>2. ASSUME NEW k \in Keys, NEW it \in Update, ExternalUpsert(k, it)
          PROVE  Fresh'
      <3>1. TypeOK'
        BY <2>2, WriteTypes, UnchangedTypes DEF ExternalUpsert, TypeOK, IInv
      <3>2. quiet' = 0
        BY <2>2 DEF ExternalUpsert, WriteStarts
      <3> QED BY <3>1, <3>2, WriteFresh
    <2>3. ASSUME NEW put \in Puts, ExternalInit(put) PROVE Fresh'
      <3>1. TypeOK' /\ quiet' = 0
        BY <2>3, WriteTypes, UnchangedTypes DEF ExternalInit, TypeOK, IInv, WriteStarts
      <3> QED BY <3>1, WriteFresh
    <2>4. CASE UNCHANGED vars
      BY <2>4 DEF vars, backendVars, cacheVars, callVars, historyVars, IInv, Fresh,
                  ItemFresh, AllFresh, FillFresh, SameLive, GetConverges, AllConverges
    <2> QED BY <2>1, <2>2, <2>3, <2>4, GetFresh, AllFreshStep, UpsertFresh, InitFresh,
               InitializedFresh, TickFresh DEF Next
  <1>3. Spec => []TypeOK
    BY TypeCorrect
  <1>4. Fresh => GetConverges /\ AllConverges
    BY DEF Fresh
  <1> QED BY <1>1, <1>2, <1>3, <1>4, PTL DEF Spec, IInv

\* The part of Converges that is about storeAll, in spite of the duplicate
\* entries that its fills leave under the key "all:kind".
THEOREM AllAnswersConverge == Spec => []AllConverges
  BY Converges, PTL

-----------------------------------------------------------------------------
(* Initialization.                                                          *)

\* A successful init of this process is in the backend and has cleared the
\* sentinel, and no sentinel can come back as long as the backend answers.
InitKnown ==
    /\ ownInit => backendInited /\ (initChecked = Nil)
    /\ \A t \in Threads : pc[t] = "initFill" => backendInited

\* A step that neither starts nor ends a storeInit keeps it.
LEMMA InitKnownFrame ==
  ASSUME TypeOK, InitKnown, NEW t \in Threads, NEW p, p # "initFill",
         pc' = [pc EXCEPT ![t] = p],
         backendInited => backendInited', ownInit' = ownInit,
         ownInit => initChecked' = Nil
  PROVE  InitKnown'
  BY DEF InitKnown, TypeOK, CallType

LEMMA InitKnownStep ==
  ASSUME "initialized" \notin Faulty, TypeOK, InitKnown, [Next]_vars
  PROVE  InitKnown'
  <1> USE DEF InitKnown, backendVars, cacheVars, callVars, historyVars
  <1>1. ASSUME NEW t \in Threads, storeGet(t) PROVE InitKnown'
    <2>1. PICK p \in {"getDone", "getMiss", "getFill", "idle"} :
            pc' = [pc EXCEPT ![t] = p]
      BY <1>1 DEF storeGet, GetHit, GetMiss, BackendGet, BackendGetFails, GetFill,
                  Goto, Leave
    <2>2. UNCHANGED <<backendInited, ownInit, initChecked>>
      BY <1>1 DEF storeGet, GetHit, GetMiss, BackendGet, BackendGetFails, GetFill,
                  ReadStarts
    <2> QED BY <2>1, <2>2, InitKnownFrame
  <1>2. ASSUME NEW t \in Threads, storeAll(t) PROVE InitKnown'
    <2>1. PICK p \in {"allDone", "allMiss", "allFill", "idle"} :
            pc' = [pc EXCEPT ![t] = p]
      BY <1>2 DEF storeAll, AllHit, AllMiss, BackendAll, BackendAllFails, AllFill,
                  Goto, Leave
    <2>2. UNCHANGED <<backendInited, ownInit, initChecked>>
      BY <1>2 DEF storeAll, AllHit, AllMiss, BackendAll, BackendAllFails, AllFill,
                  ReadStarts
    <2> QED BY <2>1, <2>2, InitKnownFrame
  <1>3. ASSUME NEW t \in Threads, storeUpsert(t) PROVE InitKnown'
    <2>1. UNCHANGED <<backendInited, ownInit, initChecked>>
      BY <1>3 DEF storeUpsert, Upsert, UpsertFails, UpsertFill, WriteStarts, BackendUpsert
    <2>2. UNCHANGED pc \/ \E p \in {"upsertFill", "idle"} : pc' = [pc EXCEPT ![t] = p]
      BY <1>3 DEF storeUpsert, Upsert, UpsertFails, UpsertFill, Goto, Leave
    <2> QED BY <2>1, <2>2, InitKnownFrame
  <1>4. ASSUME NEW t \in Threads, NEW put \in Puts, StoreInit(t, put)
        PROVE  InitKnown'
    BY <1>4 DEF StoreInit, BackendInit, WriteStarts, Goto
  <1>5. ASSUME NEW t \in Threads, NEW put \in Puts, StoreInitFails(t, put)
        PROVE  InitKnown'
    BY <1>5 DEF StoreInitFails, BackendInit, WriteStarts
  <1>6. ASSUME NEW t \in Threads, InitFill(t) PROVE InitKnown'
    BY <1>6 DEF InitFill, memoryInit, Leave, TypeOK, CallType
  <1>7. ASSUME NEW t \in Threads, storeInitialized(t) PROVE InitKnown'
    <2>1. PICK p \in {"initYes", "initNo", "initQuery"} : pc' = [pc EXCEPT ![t] = p]
      BY <1>7 DEF storeInitialized, quickCheckInitialization, quickCheckFails,
                  queryAndUpdateInitialization, Answer, Goto
    <2>2. UNCHANGED <<backendInited, ownInit>>
      BY <1>7 DEF storeInitialized, quickCheckInitialization, quickCheckFails,
                  queryAndUpdateInitialization
    <2>3. ownInit => initChecked' = Nil
      BY <1>7 DEF storeInitialized, quickCheckInitialization, quickCheckFails,
                  queryAndUpdateInitialization, BackendInitialized
    <2> QED BY <2>1, <2>2, <2>3, InitKnownFrame
  <1>8. ASSUME NEW t \in Threads, Return(t) PROVE InitKnown'
    BY <1>8, InitKnownFrame DEF Return, Leave
  <1>9. ASSUME NEW k \in Keys, NEW it \in Update, ExternalUpsert(k, it)
        PROVE  InitKnown'
    BY <1>9 DEF ExternalUpsert, BackendUpsert, WriteStarts
  <1>10. ASSUME NEW put \in Puts, ExternalInit(put) PROVE InitKnown'
    BY <1>10 DEF ExternalInit, BackendInit, WriteStarts
  <1>11. CASE Tick
    BY <1>11 DEF Tick
  <1>12. CASE UNCHANGED vars
    BY <1>12 DEF vars
  <1> QED BY <1>1, <1>2, <1>3, <1>4, <1>5, <1>6, <1>7, <1>8, <1>9, <1>10, <1>11,
             <1>12 DEF Next, storeInit

\* Only storeInitialized answers no, and only before the first successful init.
LEMMA NoMeansNoInit ==
  ASSUME "initialized" \notin Faulty, TypeOK, InitKnown, Next,
         NEW u \in Threads, pc[u] # "initNo", pc'[u] = "initNo"
  PROVE  ~ownInit
  <1> USE DEF TypeOK, CallType, backendVars, cacheVars, callVars, historyVars
  <1>1. ASSUME NEW t \in Threads, storeInitialized(t) PROVE ~ownInit
    <2>1. CASE quickCheckInitialization(t)
      BY <2>1 DEF quickCheckInitialization, SentinelCurrent, InitKnown, Answer, Goto
    <2>2. CASE quickCheckFails(t)
      BY <2>2 DEF quickCheckFails, Goto
    <2>3. CASE queryAndUpdateInitialization(t)
      BY <2>3 DEF queryAndUpdateInitialization, BackendInitialized, InitKnown,
                  Answer, Goto
    <2> QED BY <1>1, <2>1, <2>2, <2>3 DEF storeInitialized
  <1>2. ASSUME NEW t \in Threads,
               storeGet(t) \/ storeAll(t) \/ storeUpsert(t) \/ storeInit(t) \/ Return(t)
        PROVE  FALSE
    <2>1. ASSUME storeGet(t) PROVE FALSE
      BY <2>1 DEF storeGet, GetHit, GetMiss, BackendGet, BackendGetFails, GetFill,
                  Goto, Leave
    <2>2. ASSUME storeAll(t) PROVE FALSE
      BY <2>2 DEF storeAll, AllHit, AllMiss, BackendAll, BackendAllFails, AllFill,
                  Goto, Leave
    <2>3. ASSUME storeUpsert(t) PROVE FALSE
      BY <2>3 DEF storeUpsert, Upsert, UpsertFails, UpsertFill, Goto, Leave
    <2>4. ASSUME storeInit(t) PROVE FALSE
      BY <2>4 DEF storeInit, StoreInit, StoreInitFails, InitFill, Goto, Leave
    <2>5. ASSUME Return(t) PROVE FALSE
      BY <2>5 DEF Return, Leave
    <2> QED BY <1>2, <2>1, <2>2, <2>3, <2>4, <2>5
  <1>3. ASSUME NEW k \in Keys, NEW it \in Update, ExternalUpsert(k, it) PROVE FALSE
    BY <1>3 DEF ExternalUpsert
  <1>4. ASSUME NEW put \in Puts, ExternalInit(put) PROVE FALSE
    BY <1>4 DEF ExternalInit
  <1>5. ASSUME Tick PROVE FALSE
    BY <1>5 DEF Tick
  <1> QED BY <1>1, <1>2, <1>3, <1>4, <1>5 DEF Next

\* Once storeInit has returned success, storeInitialized never answers no, in
\* every interleaving of any number of threads, if backend->initialized does
\* not report a failure as "no".
THEOREM InitIsVisible ==
  ASSUME "initialized" \notin Faulty
  PROVE  Spec => InitVisible
  <1>1. Init => InitKnown
    BY DEF Init, InitKnown
  <1>2. TypeOK /\ InitKnown /\ [Next]_vars => InitKnown'
    BY InitKnownStep
  <1>3. TypeOK /\ InitKnown /\ [Next]_vars
          => [\A t \in Threads :
                pc[t] # "initNo" /\ pc'[t] = "initNo" => ~ownInit]_vars
    BY NoMeansNoInit
  <1>4. Spec => []TypeOK
    BY TypeCorrect
  <1> QED BY <1>1, <1>2, <1>3, <1>4, PTL DEF Spec, InitVisible

-----------------------------------------------------------------------------
(* Reads after writes.                                                      *)

\* The threads that write where no other process does: the network thread of a
\* client.
Writers ==
    {t \in Threads : \E d \in Deployments :
        ~d.external /\ d.calls[t] \cap {"upsert", "init"} # {}}

\* What a client does with a backend of its own: one thread writes what an
\* ordered feed sends, and a call is cached before the entry it would replace
\* can have expired.
OwnBackend ==
    /\ FeedOrdered
    /\ \A t, u \in Writers : t = u
    /\ Latency <= TTL

\* What the cache holds for a key when it is up to date.
Stored(k) == IF backend[k] = Nil THEN LDi_makeDeletedData ELSE backend[k]

Superseded(it, k) == backend[k] # Nil /\ it.version < backend[k].version

\* An entry is up to date or older than what the backend holds.
EntriesPast ==
    \A k \in Keys :
        items[k] # Nil => items[k].item = Stored(k) \/ Superseded(items[k].item, k)

\* A writer that has written caches what the backend holds.
WritesCurrent ==
    \A t \in Threads :
        /\ pc[t] \in {"upsertFill", "initFill"} => t \in Writers
        /\ pc[t] = "upsertFill" => got[t] = backend[arg[t]]
        /\ pc[t] = "initFill" => snap[t] = backend

\* A read that was overtaken by a write cannot do harm: either the write is not
\* complete, or its entry is there and younger than the read.
Overtaken(t) == pc[t] = "getFill" /\ got[t] # backend[arg[t]]

ReadsPast ==
    \A t \in Threads : Overtaken(t) =>
        /\ backend[arg[t]] # Nil
        /\ got[t] # Nil => Superseded(got[t], arg[t])
        /\ items[arg[t]] # Nil /\ items[arg[t]].item = backend[arg[t]]
              => items[arg[t]].age <= lag[t]
        /\ TTL # 0 /\ arg[t] \notin dirty
              => items[arg[t]] # Nil /\ items[arg[t]].item = backend[arg[t]]

\* Without a write under way, what the cache answers is what the backend holds.
CleanCurrent ==
    \A k \in Keys \ dirty :
        Current(items[k]) => Live(items[k].item) = Live(backend[k])

\* An undisturbed read has what the backend holds.
CalmReads ==
    \A t \in calm :
        /\ pc[t] = "getFill" => got[t] = backend[arg[t]]
        /\ pc[t] = "getDone" => got[t] = Live(backend[arg[t]])

Orderly ==
    /\ backend \in Puts
    /\ EntriesPast
    /\ WritesCurrent
    /\ ReadsPast
    /\ CleanCurrent
    /\ CalmReads

OrderlyInv == OwnBackend /\ TypeOK /\ ~deployment.external /\ Orderly

\* Versions of what was written are above that of the placeholder.
LEMMA StoredType ==
  ASSUME backend \in Puts, NEW k \in Keys
  PROVE  /\ Stored(k) \in Item
         /\ Live(Stored(k)) = Live(backend[k])
         /\ backend[k] # Nil => /\ backend[k] \in Update /\ backend[k] \in Item
                                /\ backend[k].version \in Nat \ {0}
  <1>1. backend[k] \in Update \cup {Nil}
    BY DEF Puts
  <1>2. Stored(k) \in Item
    BY <1>1, PlaceholderType, UpdateType DEF Stored
  <1>3. Live(Stored(k)) = Live(backend[k])
    BY NilAssumption, PlaceholderType DEF Stored, Live, LDi_makeDeletedData
  <1> QED BY <1>1, <1>2, <1>3, UpdateType DEF Update

LEMMA VersionType ==
  ASSUME NEW it \in Item
  PROVE  it.version \in Nat
  <1>1. it.version \in Versions \cup {0}
    BY DEF Item
  <1>2. Versions \cup {0} \subseteq Nat
    BY VersionsAssumption
  <1> QED BY <1>1, <1>2

\* Caching what the backend holds leaves it in the cache; an entry that is kept
\* for its version is the same.
LEMMA FillStored ==
  ASSUME TypeOK, backend \in Puts, EntriesPast, NEW k \in Keys,
         upsertMemory(k, Stored(k))
  PROVE  /\ items'[k] # Nil /\ items'[k].item = Stored(k)
         /\ items'[k].age = 0 \/ items'[k] = items[k]
         /\ \A j \in Keys : j # k => items'[j] = items[j]
  <1>1. items \in [Keys -> Entry \cup {Nil}]
    BY DEF TypeOK, CacheType
  <1>2. CASE Current(items[k]) /\ items[k].item.version >= Stored(k).version
    <2>1. items' = items /\ items[k] # Nil
      BY <1>2 DEF upsertMemory, Current
    <2>2. items[k].item \in Item
      BY <1>1, <2>1 DEF Entry
    <2>3. ~Superseded(items[k].item, k)
      BY <1>2, <2>2, StoredType, VersionType DEF Superseded, Stored
    <2> QED BY <2>1, <2>3 DEF EntriesPast
  <1>3. CASE ~(Current(items[k]) /\ items[k].item.version >= Stored(k).version)
    <2>1. items' = [items EXCEPT ![k] = [item |-> Stored(k), age |-> 0]]
      BY <1>3 DEF upsertMemory
    <2>2. items'[k] = [item |-> Stored(k), age |-> 0]
      BY <1>1, <2>1
    <2>3. [item |-> Stored(k), age |-> 0] \in Entry
      BY StoredType DEF Entry, Ages
    <2>4. items'[k] # Nil
      BY <2>2, <2>3, NilAssumption DEF Entry, Ages
    <2> QED BY <1>1, <2>1, <2>2, <2>4
  <1> QED BY <1>2, <1>3

\* Caching what was superseded changes nothing while the newer entry is there
\* and has not expired.
LEMMA FillSuperseded ==
  ASSUME TypeOK, backend \in Puts, NEW k \in Keys, NEW it \in Item,
         Superseded(it, k), upsertMemory(k, it)
  PROVE  /\ \A j \in Keys : j # k => items'[j] = items[j]
         /\ \/ items' = items
            \/ /\ items'[k] # Nil /\ items'[k].item = it
               /\ ~(Current(items[k]) /\ items[k].item = backend[k])
  <1>1. items \in [Keys -> Entry \cup {Nil}]
    BY DEF TypeOK, CacheType
  <1>2. CASE Current(items[k]) /\ items[k].item.version >= it.version
    BY <1>2 DEF upsertMemory
  <1>3. CASE ~(Current(items[k]) /\ items[k].item.version >= it.version)
    <2>1. items' = [items EXCEPT ![k] = [item |-> it, age |-> 0]]
      BY <1>3 DEF upsertMemory
    <2>2. items'[k] = [item |-> it, age |-> 0]
      BY <1>1, <2>1
    <2>3. [item |-> it, age |-> 0] \in Entry
      BY DEF Entry, Ages
    <2>4. items'[k] # Nil
      BY <2>2, <2>3, NilAssumption DEF Entry, Ages
    <2>5. ~(Current(items[k]) /\ items[k].item = backend[k])
      <3>1. backend[k].version \in Nat /\ it.version \in Nat
        BY StoredType, VersionType DEF Superseded
      <3> QED BY <1>3, <3>1 DEF Superseded
    <2> QED BY <1>1, <2>1, <2>2, <2>4, <2>5
  <1> QED BY <1>2, <1>3

\* A step that changes neither the backend nor the cache, and moves one thread.
LEMMA CallOrderly ==
  ASSUME OrderlyInv, NEW t \in Threads, NEW p, NEW a, NEW it, NEW d,
         Goto(t, p, a, it, d),
         p \notin {"upsertFill", "initFill"},
         p = "getFill" => it = backend[a],
         UNCHANGED <<backend, items, dirty>>,
         calm' \subseteq calm \cup {t}, calm' \subseteq Threads,
         p = "getDone" /\ t \in calm' => it = Live(backend[a])
  PROVE  Orderly'
  <1> USE DEF OrderlyInv, Orderly
  <1>1. ASSUME NEW u \in Threads
        PROVE  /\ u # t => /\ pc'[u] = pc[u] /\ arg'[u] = arg[u] /\ got'[u] = got[u]
                           /\ snap'[u] = snap[u] /\ lag'[u] = lag[u]
               /\ u = t => pc'[u] = p /\ arg'[u] = a /\ got'[u] = it
    BY DEF Goto, TypeOK, CallType
  <1>2. backend' \in Puts /\ EntriesPast' /\ CleanCurrent'
    BY DEF EntriesPast, Stored, Superseded, CleanCurrent
  <1>3. WritesCurrent'
    BY <1>1 DEF WritesCurrent
  <1>4. ReadsPast'
    <2> SUFFICES ASSUME NEW u \in Threads, Overtaken(u)'
                 PROVE  /\ backend'[arg'[u]] # Nil
                        /\ got'[u] # Nil => Superseded(got[u], arg[u])'
                        /\ items'[arg'[u]] # Nil /\ items'[arg'[u]].item = backend'[arg'[u]]
                              => items'[arg'[u]].age <= lag'[u]
                        /\ TTL # 0 /\ arg'[u] \notin dirty'
                              => /\ items'[arg'[u]] # Nil
                                 /\ items'[arg'[u]].item = backend'[arg'[u]]
      BY DEF ReadsPast
    <2>1. u # t
      BY <1>1 DEF Overtaken
    <2>2. Overtaken(u)
      BY <1>1, <2>1 DEF Overtaken
    <2> QED BY <1>1, <2>1, <2>2 DEF ReadsPast, Superseded
  <1>5. CalmReads'
    BY <1>1 DEF CalmReads
  <1> QED BY <1>2, <1>3, <1>4, <1>5

LEMMA LeaveOrderly ==
  ASSUME OrderlyInv, NEW t \in Threads, Leave(t),
         UNCHANGED <<backend, items, dirty, calm>>
  PROVE  Orderly'
  <1>1. Goto(t, "idle", Nil, Nil, Empty)
    BY DEF Leave, Goto
  <1> QED BY <1>1, CallOrderly DEF OrderlyInv, TypeOK, HistoryType

\* The end of a storeGet: it caches what the backend holds, or what has been
\* superseded and then finds the newer entry in its place.
LEMMA GetFillOrderly ==
  ASSUME OrderlyInv, NEW t \in Threads, GetFill(t)
  PROVE  Orderly'
  <1> USE DEF OrderlyInv, Orderly
  <1> DEFINE it == IF got[t] = Nil THEN LDi_makeDeletedData ELSE got[t]
  <1>0. PICK k \in Keys : k = arg[t]
    BY DEF GetFill, TypeOK, CallType
  <1>1. /\ pc[t] = "getFill" /\ got[t] \in Item \cup {Nil}
        /\ lag[t] \in 0..Latency /\ it \in Item
        /\ upsertMemory(k, it)
        /\ Goto(t, "getDone", k, Live(got[t]), Empty)
        /\ UNCHANGED <<backend, dirty, calm>>
    BY <1>0, PlaceholderType DEF GetFill, TypeOK, CallType, backendVars, historyVars
  <1>2. items \in [Keys -> Entry \cup {Nil}]
    BY DEF TypeOK, CacheType
  <1> HIDE DEF it
  \* What the fill does to the cache.
  <1>3. /\ \A j \in Keys : j # k => items'[j] = items[j]
        /\ EntriesPast'
        /\ k \notin dirty => (Current(items'[k]) => Live(items'[k].item) = Live(backend[k]))
        /\ items'[k] # Nil /\ items'[k].item = backend[k]
              => items'[k].age = 0 \/ items'[k] = items[k]
        /\ TTL # 0 /\ k \notin dirty /\ items[k] # Nil /\ items[k].item = backend[k]
             /\ backend[k] # Nil
              => items'[k] # Nil /\ items'[k].item = backend[k]
    <2>1. CASE ~Overtaken(t)
      <3>1. it = Stored(k)
        BY <1>0, <1>1, <2>1 DEF Overtaken, Stored, it
      <3>2. /\ items'[k] # Nil /\ items'[k].item = Stored(k)
            /\ items'[k].age = 0 \/ items'[k] = items[k]
            /\ \A j \in Keys : j # k => items'[j] = items[j]
        BY <1>1, <3>1, FillStored
      <3>3. EntriesPast'
        BY <1>1, <3>2 DEF EntriesPast, Stored, Superseded
      <3>4. Live(items'[k].item) = Live(backend[k])
        BY <1>1, <3>2, StoredType
      <3> QED BY <1>1, <3>2, <3>3, <3>4 DEF Stored
    <2>2. CASE Overtaken(t)
      <3>1. Superseded(it, k)
        <4>1. CASE got[t] = Nil
          <5>1. backend[k] # Nil /\ backend[k].version \in Nat \ {0}
            BY <1>0, <1>1, <2>2, StoredType DEF ReadsPast
          <5> QED BY <4>1, <5>1 DEF Superseded, it, LDi_makeDeletedData
        <4>2. CASE got[t] # Nil
          BY <1>0, <2>2, <4>2 DEF ReadsPast, it
        <4> QED BY <4>1, <4>2
      <3>2. /\ \A j \in Keys : j # k => items'[j] = items[j]
            /\ \/ items' = items
               \/ /\ items'[k] # Nil /\ items'[k].item = it
                  /\ ~(Current(items[k]) /\ items[k].item = backend[k])
        BY <1>1, <3>1, FillSuperseded
      <3>3. TTL # 0 /\ k \notin dirty => items' = items
        <4> SUFFICES ASSUME TTL # 0, k \notin dirty
                     PROVE  Current(items[k]) /\ items[k].item = backend[k]
          BY <3>2
        <4>1. items[k] # Nil /\ items[k].item = backend[k] /\ items[k].age <= lag[t]
          BY <1>0, <2>2 DEF ReadsPast
        <4>2. items[k].age \in Nat
          BY <1>1, <1>2, <4>1 DEF Entry, Ages
        <4> QED BY <1>1, <4>1, <4>2 DEF Current, Expired, OwnBackend
      <3>4. EntriesPast'
        <4> SUFFICES ASSUME NEW j \in Keys, items'[j] # Nil
                     PROVE  items'[j].item = Stored(j) \/ Superseded(items'[j].item, j)
          BY <1>1 DEF EntriesPast, Stored, Superseded
        <4>1. CASE items'[j] = items[j]
          BY <4>1 DEF EntriesPast
        <4>2. CASE items'[j] # items[j]
          BY <3>1, <3>2, <4>2
        <4> QED BY <4>1, <4>2
      <3>5. TTL = 0 => ~Current(items'[k])
        BY DEF Current, Expired
      <3>6. items'[k].item # backend[k] \/ items'[k] = items[k]
        <4>1. it.version \in Nat /\ backend[k].version \in Nat
          BY <1>1, <3>1, VersionType, StoredType DEF Superseded
        <4>2. it # backend[k]
          BY <3>1, <4>1 DEF Superseded
        <4> QED BY <3>2, <4>2
      <3>7. k \notin dirty => (Current(items'[k]) => Live(items'[k].item) = Live(backend[k]))
        <4>1. CASE TTL = 0
          BY <1>1, <3>5, <4>1 DEF Current, Expired
        <4>2. CASE TTL # 0
          BY <1>1, <3>3, <4>2 DEF CleanCurrent
        <4> QED BY <4>1, <4>2
      <3> QED BY <3>2, <3>3, <3>4, <3>6, <3>7
    <2> QED BY <2>1, <2>2
  <1>4. ASSUME NEW u \in Threads
        PROVE  /\ u # t => /\ pc'[u] = pc[u] /\ arg'[u] = arg[u] /\ got'[u] = got[u]
                           /\ snap'[u] = snap[u] /\ lag'[u] = lag[u]
               /\ u = t => pc'[u] = "getDone" /\ arg'[u] = k /\ got'[u] = Live(got[t])
    BY <1>1 DEF Goto, TypeOK, CallType
  <1>5. CleanCurrent'
    BY <1>1, <1>3 DEF CleanCurrent
  <1>6. WritesCurrent'
    BY <1>1, <1>4 DEF WritesCurrent
  <1>7. CalmReads'
    BY <1>0, <1>1, <1>4 DEF CalmReads, TypeOK, HistoryType
  <1>8. ReadsPast'
    <2> SUFFICES ASSUME NEW u \in Threads, Overtaken(u)'
                 PROVE  /\ backend'[arg'[u]] # Nil
                        /\ got'[u] # Nil => Superseded(got[u], arg[u])'
                        /\ items'[arg'[u]] # Nil /\ items'[arg'[u]].item = backend'[arg'[u]]
                              => items'[arg'[u]].age <= lag'[u]
                        /\ TTL # 0 /\ arg'[u] \notin dirty'
                              => /\ items'[arg'[u]] # Nil
                                 /\ items'[arg'[u]].item = backend'[arg'[u]]
      BY DEF ReadsPast
    <2>1. u # t
      BY <1>4 DEF Overtaken
    <2>2. Overtaken(u) /\ arg[u] \in Keys /\ lag[u] \in Nat
      BY <1>1, <1>4, <2>1 DEF Overtaken, TypeOK, CallType
    <2>3. backend'[arg'[u]] # Nil /\ (got'[u] # Nil => Superseded(got[u], arg[u])')
      BY <1>1, <1>4, <2>1, <2>2 DEF ReadsPast, Superseded
    <2>4. items'[arg[u]] # Nil /\ items'[arg[u]].item = backend[arg[u]]
            => items'[arg[u]].age <= lag[u]
      <3>1. CASE arg[u] = k
        BY <1>3, <2>2, <3>1 DEF ReadsPast
      <3>2. CASE arg[u] # k
        BY <1>3, <2>2, <3>2 DEF ReadsPast
      <3> QED BY <3>1, <3>2
    <2>5. TTL # 0 /\ arg[u] \notin dirty
            => items'[arg[u]] # Nil /\ items'[arg[u]].item = backend[arg[u]]
      <3>1. CASE arg[u] = k
        BY <1>3, <2>2, <3>1 DEF ReadsPast
      <3>2. CASE arg[u] # k
        BY <1>3, <2>2, <3>2 DEF ReadsPast
      <3> QED BY <3>1, <3>2
    <2> QED BY <1>1, <1>4, <2>1, <2>3, <2>4, <2>5
  <1> QED BY <1>1, <1>3, <1>5, <1>6, <1>7, <1>8

LEMMA GetOrderly ==
  ASSUME OrderlyInv, NEW t \in Threads, storeGet(t)
  PROVE  Orderly'
  <1> USE DEF OrderlyInv, Orderly
  <1>1. ASSUME NEW k \in Keys, GetHit(t, k) PROVE Orderly'
    <2>1. UNCHANGED <<backend, items, dirty>>
      BY <1>1 DEF GetHit, ReadStarts, backendVars, cacheVars
    <2>2. calm' \subseteq calm \cup {t} /\ calm' \subseteq Threads
      BY <1>1 DEF GetHit, ReadStarts, TypeOK, HistoryType
    <2>3. t \in calm' => k \notin dirty
      BY <1>1 DEF GetHit, ReadStarts, Scope
    <2>4. t \in calm' => Live(items[k].item) = Live(backend[k])
      BY <1>1, <2>3 DEF GetHit, CleanCurrent
    <2> QED BY <1>1, <2>1, <2>2, <2>4, CallOrderly DEF GetHit
  <1>2. ASSUME NEW k \in Keys, GetMiss(t, k) PROVE Orderly'
    <2>1. UNCHANGED <<backend, items, dirty>>
      BY <1>2 DEF GetMiss, ReadStarts, backendVars, cacheVars
    <2>2. calm' \subseteq calm \cup {t} /\ calm' \subseteq Threads
      BY <1>2 DEF GetMiss, ReadStarts, TypeOK, HistoryType
    <2> QED BY <1>2, <2>1, <2>2, CallOrderly DEF GetMiss
  <1>3. CASE BackendGet(t)
    <2>1. UNCHANGED <<backend, items, dirty, calm>>
      BY <1>3 DEF BackendGet, backendVars, cacheVars, historyVars
    <2> QED BY <1>3, <2>1, CallOrderly DEF BackendGet, TypeOK, HistoryType
  <1>4. CASE BackendGetFails(t)
    BY <1>4, LeaveOrderly DEF BackendGetFails, backendVars, cacheVars, historyVars
  <1> QED BY <1>1, <1>2, <1>3, <1>4, GetFillOrderly DEF storeGet

LEMMA AllOrderly ==
  ASSUME OrderlyInv, NEW t \in Threads, storeAll(t)
  PROVE  Orderly'
  <1>1. UNCHANGED <<backend, items, dirty>>
    BY DEF storeAll, AllHit, AllMiss, BackendAll, BackendAllFails, AllFill, ReadStarts,
           backendVars, cacheVars, historyVars
  <1>2. calm' \subseteq calm \cup {t} /\ calm' \subseteq Threads
    BY DEF storeAll, AllHit, AllMiss, BackendAll, BackendAllFails, AllFill, ReadStarts,
           historyVars, OrderlyInv, TypeOK, HistoryType
  <1>3. CASE BackendAllFails(t)
    BY <1>3, LeaveOrderly DEF BackendAllFails, backendVars, cacheVars, historyVars
  <1>4. CASE ~BackendAllFails(t)
    <2>1. \E p \in {"allDone", "allMiss", "allFill"} : \E a, d : Goto(t, p, a, Nil, d)
      BY <1>4 DEF storeAll, AllHit, AllMiss, BackendAll, AllFill
    <2> QED BY <1>1, <1>2, <2>1, CallOrderly
  <1> QED BY <1>3, <1>4

LEMMA InitializedOrderly ==
  ASSUME OrderlyInv, NEW t \in Threads, storeInitialized(t)
  PROVE  Orderly'
  <1>1. UNCHANGED <<backend, items, dirty, calm>>
    BY DEF storeInitialized, quickCheckInitialization, quickCheckFails,
           queryAndUpdateInitialization, backendVars, cacheVars, historyVars
  <1>2. PICK p \in {"initYes", "initNo", "initQuery"} : Goto(t, p, Nil, Nil, Empty)
    BY DEF storeInitialized, quickCheckInitialization, quickCheckFails,
           queryAndUpdateInitialization, Answer
  <1> QED BY <1>1, <1>2, CallOrderly DEF OrderlyInv, TypeOK, HistoryType

\* A write by the one writer, from the backend call to its return: the backend
\* moves on, and every read that it overtakes finds its key dirty.
LEMMA WriteOrderly ==
  ASSUME OrderlyInv, NEW t \in Writers, pc[t] = "idle",
         NEW ks \in SUBSET Keys, WriteStarts(ks), UNCHANGED items,
         backend' \in Puts,
         \A k \in Keys : \/ backend'[k] = backend[k]
                         \/ /\ k \in ks /\ backend'[k] # Nil
                            /\ backend[k] # Nil => backend[k].version < backend'[k].version,
         \A u \in Threads : u # t => /\ pc'[u] = pc[u] /\ arg'[u] = arg[u]
                                     /\ got'[u] = got[u] /\ snap'[u] = snap[u]
                                     /\ lag'[u] = lag[u],
         pc'[t] \in {"idle", "upsertFill", "initFill"},
         pc'[t] = "upsertFill" => got'[t] = backend'[arg'[t]],
         pc'[t] = "initFill" => snap'[t] = backend'
  PROVE  Orderly'
  <1> USE DEF OrderlyInv, Orderly
  <1>1. t \in Threads /\ dirty' = dirty \cup ks /\ calm' = {}
    BY DEF Writers, WriteStarts
  <1>2. ASSUME NEW k \in Keys, backend'[k] # backend[k]
        PROVE  /\ backend'[k] # Nil /\ backend'[k].version \in Nat \ {0}
               /\ backend[k] # Nil => /\ backend[k].version \in Nat
                                      /\ backend[k].version < backend'[k].version
    <2>1. backend'[k] # Nil /\ backend'[k] \in Update
      BY <1>2 DEF Puts
    <2>2. backend'[k].version \in Nat \ {0}
      BY <2>1 DEF Update
    <2> QED BY <1>2, <2>1, <2>2, StoredType
  \* What was up to date or superseded is superseded by the write.
  <1>3. ASSUME NEW k \in Keys, NEW it \in Item, backend'[k] # backend[k],
               it = Stored(k) \/ Superseded(it, k)
        PROVE  it.version < backend'[k].version
    <2>1. it.version \in Nat
      BY VersionType
    <2>2. CASE it = LDi_makeDeletedData
      BY <1>2, <1>3, <2>2 DEF LDi_makeDeletedData
    <2>3. CASE it # LDi_makeDeletedData
      BY <1>2, <1>3, <2>1, <2>3 DEF Stored, Superseded
    <2> QED BY <2>2, <2>3
  <1>4. EntriesPast'
    <2> SUFFICES ASSUME NEW k \in Keys, items[k] # Nil
                 PROVE  items[k].item = Stored(k)' \/ Superseded(items[k].item, k)'
      BY DEF EntriesPast, Stored, Superseded
    <2>1. CASE backend'[k] = backend[k]
      BY <2>1 DEF EntriesPast, Stored, Superseded
    <2>2. CASE backend'[k] # backend[k]
      <3>1. items[k].item \in Item
        BY DEF TypeOK, CacheType, Entry
      <3> QED BY <1>2, <1>3, <2>2, <3>1 DEF EntriesPast, Superseded
    <2> QED BY <2>1, <2>2
  <1>5. WritesCurrent'
    <2> SUFFICES ASSUME NEW u \in Threads, pc'[u] \in {"upsertFill", "initFill"}
                 PROVE  u = t
      BY <1>1 DEF WritesCurrent
    <2> QED BY DEF WritesCurrent, OwnBackend
  <1>6. CleanCurrent'
    BY <1>1 DEF CleanCurrent
  <1>7. CalmReads'
    BY <1>1 DEF CalmReads
  <1>8. ReadsPast'
    <2> SUFFICES ASSUME NEW u \in Threads, Overtaken(u)'
                 PROVE  /\ backend'[arg'[u]] # Nil
                        /\ got'[u] # Nil => Superseded(got[u], arg[u])'
                        /\ items'[arg'[u]] # Nil /\ items'[arg'[u]].item = backend'[arg'[u]]
                              => items'[arg'[u]].age <= lag'[u]
                        /\ TTL # 0 /\ arg'[u] \notin dirty'
                              => /\ items'[arg'[u]] # Nil
                                 /\ items'[arg'[u]].item = backend'[arg'[u]]
      BY DEF ReadsPast
    <2>1. /\ u # t /\ pc[u] = "getFill" /\ arg'[u] = arg[u] /\ got'[u] = got[u]
          /\ lag'[u] = lag[u]
      BY DEF Overtaken
    <2>2. PICK k \in Keys : k = arg[u]
      BY <2>1 DEF TypeOK, CallType
    <2>3. CASE backend'[k] = backend[k]
      <3>1. Overtaken(u)
        BY <2>1, <2>2, <2>3 DEF Overtaken
      <3> QED BY <1>1, <2>1, <2>2, <2>3, <3>1 DEF ReadsPast, Superseded
    <2>4. CASE backend'[k] # backend[k]
      <3>1. got[u] # Nil => got[u] \in Item /\ (got[u] = Stored(k) \/ Superseded(got[u], k))
        <4>1. CASE Overtaken(u)
          BY <2>2, <4>1 DEF ReadsPast, TypeOK, CallType
        <4>2. CASE ~Overtaken(u)
          BY <2>1, <2>2, <4>2 DEF Overtaken, Stored, TypeOK, CallType
        <4> QED BY <4>1, <4>2
      <3>2. got[u] # Nil => got[u].version < backend'[k].version
        BY <1>3, <2>4, <3>1
      <3>3. items[k] # Nil => items[k].item # backend'[k]
        <4>1. items[k] # Nil => items[k].item \in Item
          BY DEF TypeOK, CacheType, Entry
        <4>2. items[k] # Nil => items[k].item.version < backend'[k].version
          BY <1>3, <2>4, <4>1 DEF EntriesPast
        <4> QED BY <1>2, <2>4, <4>2
      <3>4. k \in dirty'
        BY <1>1, <2>4
      <3> QED BY <1>2, <2>1, <2>2, <2>4, <3>2, <3>3, <3>4 DEF Superseded
    <2> QED BY <2>3, <2>4
  <1> QED BY <1>4, <1>5, <1>6, <1>7, <1>8

\* Whether it reports success or not, an upsert of an ordered feed moves the
\* backend on or leaves it as it is.
LEMMA UpsertMoves ==
  ASSUME OrderlyInv, NEW k \in Keys, NEW it \in Update, FeedMaySend(k, it),
         BackendUpsert(k, it)
  PROVE  /\ backend' \in Puts /\ backend'[k] = it
         /\ \A j \in Keys :
              \/ backend'[j] = backend[j]
              \/ /\ j = k /\ backend'[j] # Nil
                 /\ backend[j] # Nil => backend[j].version < backend'[j].version
  <1> USE DEF OrderlyInv, Orderly
  <1>1. backend \in Puts /\ it # Nil
    BY UpdateType, NilAssumption DEF Item
  <1>2. backend' = [backend EXCEPT ![k] = it]
    <2>1. CASE BackendAccepts(k, it)
      BY <2>1 DEF BackendUpsert
    <2>2. CASE ~BackendAccepts(k, it)
      <3>1. backend' = backend /\ backend[k] # Nil
        BY <2>2 DEF BackendUpsert, BackendAccepts
      <3>2. it.version \in Nat /\ backend[k].version \in Nat
        BY <3>1, StoredType, UpdateType, VersionType
      <3>3. backend[k] = it
        BY <2>2, <3>1, <3>2 DEF BackendAccepts, FeedMaySend, Ordered, OwnBackend
      <3> QED BY <1>1, <3>1, <3>3 DEF Puts
    <2> QED BY <2>1, <2>2
  <1>3. backend' \in Puts /\ backend'[k] = it /\ \A j \in Keys : j # k => backend'[j] = backend[j]
    BY <1>1, <1>2 DEF Puts
  <1>4. CASE backend[k] = Nil \/ it = backend[k]
    BY <1>1, <1>3, <1>4
  <1>5. CASE ~(backend[k] = Nil \/ it = backend[k])
    <2>1. it.version > backend[k].version
      BY <1>5 DEF FeedMaySend, Ordered, OwnBackend
    <2>2. it.version \in Nat /\ backend[k].version \in Nat
      BY <1>5, StoredType, UpdateType, VersionType
    <2> QED BY <1>1, <1>3, <2>1, <2>2
  <1> QED BY <1>4, <1>5

\* A put of an ordered feed leaves out no key that the backend has.
LEMMA PutMoves ==
  ASSUME OrderlyInv, NEW put \in Puts, \A k \in Keys : FeedMaySend(k, put[k]),
         BackendInit(put)
  PROVE  /\ backend' = put
         /\ \A j \in Keys :
              \/ backend'[j] = backend[j]
              \/ /\ backend'[j] # Nil
                 /\ backend[j] # Nil => backend[j].version < backend'[j].version
  <1> USE DEF OrderlyInv, Orderly
  <1>1. backend' = put
    BY DEF BackendInit
  <1>2. ASSUME NEW j \in Keys, put[j] # backend[j]
        PROVE  put[j] # Nil /\ (backend[j] # Nil => backend[j].version < put[j].version)
    <2>1. CASE backend[j] = Nil
      BY <1>2, <2>1
    <2>2. CASE backend[j] # Nil
      <3>1. put[j] # Nil /\ put[j].version > backend[j].version
        BY <1>2, <2>2 DEF FeedMaySend, Ordered, OwnBackend
      <3>2. put[j] \in Item
        BY <3>1, UpdateType DEF Puts
      <3>3. put[j].version \in Nat /\ backend[j].version \in Nat
        BY <2>2, <3>2, StoredType, VersionType
      <3> QED BY <3>1, <3>3
    <2> QED BY <2>1, <2>2
  <1> QED BY <1>1, <1>2

\* A thread that goes on from a write, or from a failed one, leaves the others.
LEMMA OthersStay ==
  ASSUME TypeOK, NEW t \in Threads, NEW p, NEW a, NEW it, NEW d,
         Goto(t, p, a, it, d) \/ Leave(t)
  PROVE  /\ \A u \in Threads : u # t => /\ pc'[u] = pc[u] /\ arg'[u] = arg[u]
                                        /\ got'[u] = got[u] /\ snap'[u] = snap[u]
                                        /\ lag'[u] = lag[u]
         /\ Goto(t, p, a, it, d) => /\ pc'[t] = p /\ arg'[t] = a /\ got'[t] = it
                                    /\ snap'[t] = d
         /\ Leave(t) => pc'[t] = "idle"
  BY DEF Goto, Leave, TypeOK, CallType

\* The end of a write: the entries of the keys that become clean are those of
\* the backend, and those of the others are as they were.
LEMMA WriteFillOrderly ==
  ASSUME OrderlyInv, NEW t \in Threads, Leave(t), UNCHANGED <<backend, calm>>,
         NEW ks \in SUBSET Keys, dirty' = dirty \ ks,
         \A k \in ks : IF backend[k] = Nil
                       THEN items'[k] # Nil => items'[k].item = Stored(k)
                       ELSE /\ items'[k] # Nil /\ items'[k].item = backend[k]
                            /\ items'[k].age = 0 \/ items'[k] = items[k],
         \A k \in Keys \ ks : items'[k] = items[k]
  PROVE  Orderly'
  <1> USE DEF OrderlyInv, Orderly
  <1>1. /\ \A u \in Threads : u # t => /\ pc'[u] = pc[u] /\ arg'[u] = arg[u]
                                       /\ got'[u] = got[u] /\ snap'[u] = snap[u]
                                       /\ lag'[u] = lag[u]
        /\ pc'[t] = "idle"
    BY OthersStay
  <1>2. ASSUME NEW k \in ks, items'[k] # Nil
        PROVE  items'[k].item = Stored(k) /\ Live(items'[k].item) = Live(backend[k])
    <2>1. items'[k].item = Stored(k)
      BY <1>2 DEF Stored
    <2> QED BY <2>1, StoredType
  <1>3. EntriesPast'
    <2> SUFFICES ASSUME NEW k \in Keys, items'[k] # Nil
                 PROVE  items'[k].item = Stored(k) \/ Superseded(items'[k].item, k)
      BY DEF EntriesPast, Stored, Superseded
    <2> QED BY <1>2 DEF EntriesPast
  <1>4. CleanCurrent'
    BY <1>2 DEF CleanCurrent, Current
  <1>5. WritesCurrent'
    BY <1>1 DEF WritesCurrent
  <1>6. CalmReads'
    BY <1>1 DEF CalmReads, TypeOK, HistoryType
  <1>7. ReadsPast'
    <2> SUFFICES ASSUME NEW u \in Threads, Overtaken(u)'
                 PROVE  /\ backend'[arg'[u]] # Nil
                        /\ got'[u] # Nil => Superseded(got[u], arg[u])'
                        /\ items'[arg'[u]] # Nil /\ items'[arg'[u]].item = backend'[arg'[u]]
                              => items'[arg'[u]].age <= lag'[u]
                        /\ TTL # 0 /\ arg'[u] \notin dirty'
                              => /\ items'[arg'[u]] # Nil
                                 /\ items'[arg'[u]].item = backend'[arg'[u]]
      BY DEF ReadsPast
    <2>1. u # t
      BY <1>1 DEF Overtaken
    <2>2. /\ Overtaken(u) /\ arg'[u] = arg[u] /\ got'[u] = got[u] /\ lag'[u] = lag[u]
          /\ lag[u] \in Nat
      BY <1>1, <2>1 DEF Overtaken, TypeOK, CallType
    <2>3. PICK k \in Keys : k = arg[u]
      BY <2>2 DEF Overtaken, TypeOK, CallType
    <2>4. backend[k] # Nil /\ (got[u] # Nil => Superseded(got[u], k))
      BY <2>2, <2>3 DEF ReadsPast
    <2>5. CASE k \in ks
      BY <2>2, <2>3, <2>4, <2>5 DEF ReadsPast, Superseded
    <2>6. CASE k \notin ks
      BY <2>2, <2>3, <2>4, <2>6 DEF ReadsPast, Superseded
    <2> QED BY <2>5, <2>6
  <1> QED BY <1>3, <1>4, <1>5, <1>6, <1>7

LEMMA UpsertOrderly ==
  ASSUME OrderlyInv, NEW t \in Threads, storeUpsert(t)
  PROVE  Orderly'
  <1> USE DEF OrderlyInv, Orderly
  <1>1. ASSUME NEW k \in Keys, NEW it \in Update, Upsert(t, k, it) PROVE Orderly'
    <2>1. /\ t \in Writers /\ pc[t] = "idle" /\ FeedMaySend(k, it) /\ BackendUpsert(k, it)
          /\ Goto(t, "upsertFill", k, it, Empty) /\ WriteStarts({k}) /\ items' = items
      BY <1>1 DEF Upsert, Idle, Writers, cacheVars, TypeOK, BackendType
    <2>2. /\ backend' \in Puts /\ backend'[k] = it
          /\ \A j \in Keys :
               \/ backend'[j] = backend[j]
               \/ /\ j \in {k} /\ backend'[j] # Nil
                  /\ backend[j] # Nil => backend[j].version < backend'[j].version
      BY <2>1, UpsertMoves
    <2>3. /\ \A u \in Threads : u # t => /\ pc'[u] = pc[u] /\ arg'[u] = arg[u]
                                         /\ got'[u] = got[u] /\ snap'[u] = snap[u]
                                         /\ lag'[u] = lag[u]
          /\ pc'[t] = "upsertFill" /\ arg'[t] = k /\ got'[t] = it
      BY <2>1, OthersStay
    <2> QED BY <2>1, <2>2, <2>3, WriteOrderly
  <1>2. ASSUME NEW k \in Keys, NEW it \in Update, UpsertFails(t, k, it) PROVE Orderly'
    <2>1. /\ t \in Writers /\ pc[t] = "idle" /\ FeedMaySend(k, it)
          /\ BackendUpsert(k, it) \/ backend' = backend
          /\ WriteStarts({k}) /\ items' = items
          /\ UNCHANGED <<pc, arg, got, snap, lag>>
      BY <1>2 DEF UpsertFails, Idle, Writers, cacheVars, callVars, backendVars, TypeOK, BackendType
    <2>2. /\ backend' \in Puts
          /\ \A j \in Keys :
               \/ backend'[j] = backend[j]
               \/ /\ j \in {k} /\ backend'[j] # Nil
                  /\ backend[j] # Nil => backend[j].version < backend'[j].version
      BY <2>1, UpsertMoves
    <2> QED BY <2>1, <2>2, WriteOrderly
  <1>3. CASE UpsertFill(t)
    <2>1. /\ pc[t] = "upsertFill" /\ upsertMemory(arg[t], got[t]) /\ Leave(t)
          /\ dirty' = dirty \ {arg[t]} /\ UNCHANGED <<backend, calm>>
          /\ arg[t] \in Keys /\ got[t] \in Item
      BY <1>3 DEF UpsertFill, TypeOK, CallType, backendVars
    <2>2. got[t] = backend[arg[t]] /\ backend[arg[t]] # Nil
      BY <2>1, NilAssumption DEF WritesCurrent, Item
    <2>3. got[t] = Stored(arg[t])
      BY <2>2 DEF Stored
    <2>4. /\ items'[arg[t]] # Nil /\ items'[arg[t]].item = Stored(arg[t])
          /\ items'[arg[t]].age = 0 \/ items'[arg[t]] = items[arg[t]]
          /\ \A j \in Keys : j # arg[t] => items'[j] = items[j]
      BY <2>1, <2>3, FillStored
    <2>5. PICK ks \in SUBSET Keys : ks = {arg[t]}
      BY <2>1
    <2>6. \A k \in ks : /\ backend[k] # Nil
                        /\ items'[k] # Nil /\ items'[k].item = backend[k]
                        /\ items'[k].age = 0 \/ items'[k] = items[k]
      BY <2>2, <2>3, <2>4, <2>5
    <2>7. \A k \in Keys \ ks : items'[k] = items[k]
      BY <2>4, <2>5
    <2>8. dirty' = dirty \ ks
      BY <2>1, <2>5
    <2> QED BY <2>1, <2>6, <2>7, <2>8, WriteFillOrderly
  <1> QED BY <1>1, <1>2, <1>3 DEF storeUpsert

LEMMA InitOrderly ==
  ASSUME OrderlyInv, NEW t \in Threads, storeInit(t)
  PROVE  Orderly'
  <1> USE DEF OrderlyInv, Orderly
  <1>1. ASSUME NEW put \in Puts, StoreInit(t, put) PROVE Orderly'
    <2>1. /\ t \in Writers /\ pc[t] = "idle" /\ BackendInit(put)
          /\ \A k \in Keys : FeedMaySend(k, put[k])
          /\ Goto(t, "initFill", Nil, Nil, put) /\ WriteStarts(Keys) /\ items' = items
      BY <1>1 DEF StoreInit, Idle, Writers, cacheVars, TypeOK, BackendType
    <2>2. /\ backend' = put
          /\ \A j \in Keys :
               \/ backend'[j] = backend[j]
               \/ /\ backend'[j] # Nil
                  /\ backend[j] # Nil => backend[j].version < backend'[j].version
      BY <2>1, PutMoves
    <2>3. /\ \A u \in Threads : u # t => /\ pc'[u] = pc[u] /\ arg'[u] = arg[u]
                                         /\ got'[u] = got[u] /\ snap'[u] = snap[u]
                                         /\ lag'[u] = lag[u]
          /\ pc'[t] = "initFill" /\ snap'[t] = put
      BY <2>1, OthersStay
    <2> QED BY <2>1, <2>2, <2>3, WriteOrderly
  <1>2. ASSUME NEW put \in Puts, StoreInitFails(t, put) PROVE Orderly'
    <2>1. /\ t \in Writers /\ pc[t] = "idle"
          /\ \A k \in Keys : FeedMaySend(k, put[k])
          /\ BackendInit(put) \/ backend' = backend
          /\ WriteStarts(Keys) /\ items' = items
          /\ UNCHANGED <<pc, arg, got, snap, lag>>
      BY <1>2 DEF StoreInitFails, Idle, Writers, cacheVars, callVars, backendVars, TypeOK, BackendType
    <2>2. /\ backend' \in Puts
          /\ \A j \in Keys :
               \/ backend'[j] = backend[j]
               \/ /\ backend'[j] # Nil
                  /\ backend[j] # Nil => backend[j].version < backend'[j].version
      BY <2>1, PutMoves
    <2> QED BY <2>1, <2>2, WriteOrderly
  <1>3. CASE InitFill(t)
    <2>1. /\ Leave(t) /\ dirty' = {} /\ UNCHANGED <<backend, calm>>
          /\ items' = [k \in Keys |-> IF snap[t][k] = Nil
                                      THEN Nil
                                      ELSE [item |-> snap[t][k], age |-> 0]]
          /\ snap[t] = backend
      BY <1>3 DEF InitFill, memoryInit, CachePut, backendVars, WritesCurrent
    <2>2. dirty' = dirty \ Keys
      BY <2>1 DEF TypeOK, HistoryType
    <2>3. ASSUME NEW k \in Keys, backend[k] # Nil
          PROVE  items'[k] # Nil /\ items'[k].item = backend[k] /\ items'[k].age = 0
      <3>1. [item |-> backend[k], age |-> 0] \in Entry
        BY <2>3, StoredType DEF Entry, Ages
      <3>2. [item |-> backend[k], age |-> 0] # Nil
        BY <3>1, NilAssumption DEF Entry, Ages
      <3> QED BY <2>1, <2>3, <3>2
    <2>4. ASSUME NEW k \in Keys, backend[k] = Nil
          PROVE  items'[k] = Nil
      BY <2>1, <2>4
    <2> QED BY <2>1, <2>2, <2>3, <2>4, WriteFillOrderly
  <1> QED BY <1>1, <1>2, <1>3 DEF storeInit

\* Time makes entries and reads older alike.
LEMMA TickOrderly ==
  ASSUME OrderlyInv, Tick
  PROVE  Orderly'
  <1> USE DEF OrderlyInv, Orderly
  <1>1. UNCHANGED <<backend, pc, arg, got, snap, dirty, calm>>
    BY DEF Tick, backendVars
  <1>2. ASSUME NEW k \in Keys, items'[k] # Nil
        PROVE  /\ items[k] # Nil /\ items'[k].item = items[k].item
               /\ items[k].age \in Nat /\ items'[k].age \in Nat
               /\ items[k].age <= items'[k].age /\ items'[k].age <= items[k].age + 1
    <2>1. items[k] \in Entry /\ items[k] # Nil
      BY <1>2 DEF Tick, TypeOK, CacheType
    <2>2. PICK n \in Ages : n = items[k].age
      BY <2>1 DEF Entry
    <2>3. items'[k].item = items[k].item /\ items'[k].age = Older(n, TTL + 1)
      BY <2>1, <2>2 DEF Tick, Entry
    <2>4. n \in Nat /\ Older(n, TTL + 1) \in Nat /\ n <= Older(n, TTL + 1)
          /\ Older(n, TTL + 1) <= n + 1
      BY DEF Older, Ages
    <2> QED BY <2>1, <2>2, <2>3, <2>4
  <1>3. ASSUME NEW k \in Keys, items'[k] = Nil PROVE items[k] = Nil
    <2> SUFFICES ASSUME items[k] # Nil PROVE FALSE
      OBVIOUS
    <2>1. TypeOK'
      BY TickTypes
    <2>2. items[k] \in Entry /\ items'[k] = [items[k] EXCEPT !.age = Older(@, TTL + 1)]
      BY DEF Tick, TypeOK, CacheType
    <2>3. items'[k] \in Entry
      <3>1. Older(items[k].age, TTL + 1) \in Ages
        BY <2>2, OlderType, BoundNat DEF Entry, Ages
      <3> QED BY <2>2, <3>1 DEF Entry
    <2> QED BY <1>3, <2>3, NilAssumption DEF Entry, Ages
  <1>4. EntriesPast'
    BY <1>1, <1>2 DEF EntriesPast, Stored, Superseded
  <1>5. CleanCurrent'
    <2>1. ASSUME NEW k \in Keys, Current(items'[k]) PROVE Current(items[k])
      BY <1>2, <2>1 DEF Current, Expired
    <2>2. ASSUME NEW k \in Keys, Current(items'[k]) PROVE items'[k].item = items[k].item
      BY <1>2, <2>2 DEF Current
    <2> QED BY <1>1, <2>1, <2>2 DEF CleanCurrent
  <1>6. WritesCurrent' /\ CalmReads'
    BY <1>1 DEF WritesCurrent, CalmReads
  <1>7. ReadsPast'
    <2> SUFFICES ASSUME NEW u \in Threads, Overtaken(u)
                 PROVE  /\ backend[arg[u]] # Nil
                        /\ got[u] # Nil => Superseded(got[u], arg[u])
                        /\ items'[arg[u]] # Nil /\ items'[arg[u]].item = backend[arg[u]]
                              => items'[arg[u]].age <= lag'[u]
                        /\ TTL # 0 /\ arg[u] \notin dirty
                              => items'[arg[u]] # Nil /\ items'[arg[u]].item = backend[arg[u]]
      BY <1>1 DEF ReadsPast, Overtaken, Superseded
    <2>1. PICK k \in Keys : k = arg[u]
      BY DEF Overtaken, TypeOK, CallType
    <2>2. lag'[u] = lag[u] + 1 /\ lag[u] \in Nat
      BY DEF Tick, Overtaken, Fills, TypeOK, CallType
    <2>3. items'[k] # Nil /\ items'[k].item = backend[k] => items'[k].age <= lag'[u]
      BY <1>2, <2>1, <2>2 DEF ReadsPast
    <2>4. TTL # 0 /\ k \notin dirty => items'[k] # Nil /\ items'[k].item = backend[k]
      BY <1>2, <1>3, <2>1 DEF ReadsPast
    <2> QED BY <2>1, <2>3, <2>4 DEF ReadsPast
  <1> QED BY <1>1, <1>4, <1>5, <1>6, <1>7

\* Who uses the backend does not change.
LEMMA DeploymentStays ==
  ASSUME [Next]_vars
  PROVE  UNCHANGED deployment
  <1> USE DEF backendVars
  <1>1. ASSUME NEW t \in Threads, storeGet(t) \/ storeAll(t) PROVE UNCHANGED deployment
    BY <1>1 DEF storeGet, GetHit, GetMiss, BackendGet, BackendGetFails, GetFill,
           storeAll, AllHit, AllMiss, BackendAll, BackendAllFails, AllFill
  <1>2. ASSUME NEW t \in Threads, storeUpsert(t) \/ storeInit(t) PROVE UNCHANGED deployment
    BY <1>2 DEF storeUpsert, Upsert, UpsertFails, UpsertFill,
           storeInit, StoreInit, StoreInitFails, InitFill
  <1>3. ASSUME NEW t \in Threads, storeInitialized(t) \/ Return(t)
        PROVE  UNCHANGED deployment
    BY <1>3 DEF storeInitialized, quickCheckInitialization, quickCheckFails,
           queryAndUpdateInitialization, Return
  <1>4. (\E k \in Keys, it \in Update : ExternalUpsert(k, it))
          \/ (\E put \in Puts : ExternalInit(put)) \/ Tick \/ UNCHANGED vars
        => UNCHANGED deployment
    BY DEF ExternalUpsert, ExternalInit, Tick, vars
  <1> QED BY <1>1, <1>2, <1>3, <1>4 DEF Next

\* Where no other process writes to the backend, a storeGet that no write disturbs
\* answers what the backend holds (ReadYourWrites), for any number of reading
\* threads and keys, although the lock is not held between the backend call and
\* the fill: if one thread writes what an ordered feed sends and no call takes
\* longer than cacheMilliseconds.
THEOREM ReadsOwnWrites ==
  ASSUME OwnBackend
  PROVE  Spec => []ReadYourWrites
  <1> DEFINE Inv == deployment.external \/ Orderly
  <1>1. Init => Inv
    BY DEF Init, Orderly, EntriesPast, WritesCurrent, ReadsPast, Overtaken, CleanCurrent,
           CalmReads, Current
  <1>2. TypeOK /\ Inv /\ [Next]_vars => Inv'
    <2> SUFFICES ASSUME OrderlyInv, [Next]_vars PROVE Orderly'
      BY DeploymentStays DEF OrderlyInv
    <2>1. ASSUME NEW t \in Threads, Return(t) PROVE Orderly'
      BY <2>1, LeaveOrderly DEF Return, backendVars, cacheVars, historyVars
    <2>2. ~\E k \in Keys, it \in Update : ExternalUpsert(k, it)
      BY DEF ExternalUpsert, OrderlyInv
    <2>3. ~\E put \in Puts : ExternalInit(put)
      BY DEF ExternalInit, OrderlyInv
    <2>4. CASE UNCHANGED vars
      BY <2>4 DEF vars, backendVars, cacheVars, callVars, historyVars, OrderlyInv,
           Orderly, EntriesPast, Stored, Superseded, WritesCurrent, ReadsPast, Overtaken,
           CleanCurrent, CalmReads
    <2> QED BY <2>1, <2>2, <2>3, <2>4, GetOrderly, AllOrderly, UpsertOrderly,
               InitOrderly, InitializedOrderly, TickOrderly DEF Next
  <1>3. Spec => []TypeOK
    BY TypeCorrect
  <1>4. Inv => ReadYourWrites
    BY DEF Orderly, CalmReads, ReadYourWrites
  <1> QED BY <1>1, <1>2, <1>3, <1>4, PTL DEF Spec
=============================================================================
