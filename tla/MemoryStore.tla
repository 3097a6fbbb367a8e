---------------------------- MODULE MemoryStore ----------------------------
(***************************************************************************)
(* The in-memory feature store of src/store/memory_store.c and the         *)
(* reference-counted items of src/store/ldjsonrc.c that it shares with its *)
(* readers.                                                                *)
(*                                                                         *)
(* An item is a cell of the heap with a reference count.  The table holds  *)
(* one reference to each item it contains, a caller of storeGet one to the *)
(* item it got, and the collection that storeAll returns one to each of    *)
(* its items, its associated items.  A cell whose count drops to 0 is free *)
(* and may be allocated again at once.                                     *)
(*                                                                         *)
(* Operations that hold the write lock are one action.  storeAll gives the *)
(* read lock back before it retains the items it collected.                *)
(***************************************************************************)
EXTENDS Naturals, FiniteSets

CONSTANTS
    Threads,  \* threads that call store.c
    Calls,    \* the operations each of them calls
    Kinds,    \* features, segments
    Keys,     \* keys of items, each of one kind
    KindOf,   \* the kind of each key
    Versions, \* versions of items
    Cells,    \* bound: memory for items
    Gap,      \* a write may come between storeAll's unlock and its retains
    Nil       \* nothing

Operations == {"get", "all", "upsert", "init"}

ASSUME CallsAssumption == Calls \in [Threads -> SUBSET Operations]
ASSUME KindAssumption == KindOf \in [Keys -> Kinds]
ASSUME VersionsAssumption == Versions \subseteq Nat
ASSUME GapAssumption == Gap \in BOOLEAN
ASSUME FiniteAssumption == IsFiniteSet(Keys) /\ IsFiniteSet(Threads)

Item == [version : Versions, deleted : BOOLEAN]
Block == [key : Keys, item : Item, count : Nat \ {0}]
Puts == [Keys -> Item \cup {Nil}]

ASSUME NilAssumption ==
    Nil \notin Item /\ Nil \notin Cells /\ Nil \notin Block /\ Nil \notin Puts

VARIABLES
    heap,        \* what each cell holds, Nil when it is free
    table,       \* the cell of each key in context->features and ->segments
    initialized, \* context->initialized
    pc,          \* where each thread is in its call
    todo,        \* associatedRcItems that storeAll has not retained yet
    held         \* cells the caller has a reference to

vars == <<heap, table, initialized, pc, todo, held>>

TypeOK ==
    /\ heap \in [Cells -> Block \cup {Nil}]
    /\ table \in [Keys -> Cells \cup {Nil}]
    /\ initialized \in BOOLEAN
    /\ pc \in [Threads -> {"idle", "associating", "using", "releasing"}]
    /\ todo \in [Threads -> SUBSET Cells]
    /\ held \in [Threads -> SUBSET Cells]

Init ==
    /\ heap = [c \in Cells |-> Nil]
    /\ table = [k \in Keys |-> Nil]
    /\ initialized = FALSE
    /\ pc = [t \in Threads |-> "idle"]
    /\ todo = [t \in Threads |-> {}]
    /\ held = [t \in Threads |-> {}]

-----------------------------------------------------------------------------
(* ldjsonrc.c.  A retain or a release of a cell that has been freed writes  *)
(* to memory nobody reads: it leaves the heap as it is.                     *)

LDJSONRCRetain(h, c) ==
    IF h[c] = Nil THEN h ELSE [h EXCEPT ![c].count = @ + 1]

releaseTooLate(block) ==
    IF block = Nil \/ block.count = 0 THEN Nil ELSE [block EXCEPT !.count = @ - 1]

\* The last reference frees the cell.
LDJSONRCRelease(block) ==
    IF block = Nil \/ block.count = 1 THEN Nil ELSE [block EXCEPT !.count = @ - 1]

ReleaseItems(h, cs) == [c \in Cells |-> IF c \in cs THEN LDJSONRCRelease(h[c]) ELSE h[c]]

LDJSONRCNew(k, it) == [key |-> k, item |-> it, count |-> 1]

Free(h) == {c \in Cells : h[c] = Nil}

-----------------------------------------------------------------------------
(* Writers, each under the write lock from end to end.                      *)

Stored == {k \in Keys : table[k] # Nil}

ItemAt(c) == heap[c].item

Idle(t, op) == pc[t] = "idle" /\ op \in Calls[t]

\* Nothing in the code keeps writers out of the gap in storeAll.
MayWrite == Gap \/ \A t \in Threads : pc[t] # "associating"

\* clearStore, then one new item for each item of the put.
storeInit(t, put) ==
    /\ Idle(t, "init")
    /\ MayWrite
    /\ LET cleared == ReleaseItems(heap, {table[k] : k \in Stored})
           keys == {k \in Keys : put[k] # Nil}
       IN  \E new \in [keys -> Free(cleared)] :
             /\ \A j, k \in keys : j # k => new[j] # new[k]
             /\ table' = [k \in Keys |-> IF k \in keys THEN new[k] ELSE Nil]
             /\ heap' = [c \in Cells |->
                           IF \E k \in keys : new[k] = c
                           THEN LET k == CHOOSE k \in keys : new[k] = c
                                IN  LDJSONRCNew(k, put[k])
                           ELSE cleared[c]]
    /\ initialized' = TRUE
    /\ UNCHANGED <<pc, todo, held>>

UpToDateIgnoringVersion(k, it) == FALSE

\* The store contains the same or a newer version.
UpToDate(k, it) == table[k] # Nil /\ ItemAt(table[k]).version >= it.version

\* LDStoreRemove is the upsert of a tombstone.
storeUpsert(t, k, it) ==
    /\ Idle(t, "upsert")
    /\ MayWrite
    /\ ~UpToDate(k, it)
    /\ LET without == ReleaseItems(heap, {table[k]})
       IN  \E c \in Free(without) :
             /\ table' = [table EXCEPT ![k] = c]
             /\ heap' = [without EXCEPT ![c] = LDJSONRCNew(k, it)]
    /\ UNCHANGED <<initialized, pc, todo, held>>

-----------------------------------------------------------------------------
(* Readers.                                                                 *)

LiveKeys(ks) == {k \in ks \cap Stored : ~ItemAt(table[k]).deleted}

storeGetWithoutRetain(t, k) ==
    /\ Idle(t, "get")
    /\ held' = [held EXCEPT ![t] = {table[j] : j \in LiveKeys({k})}]
    /\ pc' = [pc EXCEPT ![t] = "using"]
    /\ UNCHANGED <<heap, table, initialized, todo>>

\* The item is retained under the read lock.
storeGet(t, k) ==
    /\ Idle(t, "get")
    /\ held' = [held EXCEPT ![t] = {table[j] : j \in LiveKeys({k})}]
    /\ heap' = IF LiveKeys({k}) = {} THEN heap ELSE LDJSONRCRetain(heap, table[k])
    /\ pc' = [pc EXCEPT ![t] = "using"]
    /\ UNCHANGED <<table, initialized, todo>>

\* The part of storeAll under the read lock collects pointers.
storeAll(t, kind) ==
    /\ Idle(t, "all")
    /\ todo' = [todo EXCEPT ![t] =
                  {table[k] : k \in LiveKeys({k \in Keys : KindOf[k] = kind})}]
    /\ pc' = [pc EXCEPT ![t] = "associating"]
    /\ UNCHANGED <<heap, table, initialized, held>>

\* The part after it: LDJSONRCAssociate retains the items one after another.
LDJSONRCAssociate(t, c) ==
    /\ c \in todo[t]
    /\ heap' = LDJSONRCRetain(heap, c)
    /\ todo' = [todo EXCEPT ![t] = @ \ {c}]
    /\ held' = [held EXCEPT ![t] = @ \cup {c}]
    /\ UNCHANGED <<table, initialized, pc>>

Associated(t) ==
    /\ pc[t] = "associating" /\ todo[t] = {}
    /\ pc' = [pc EXCEPT ![t] = "using"]
    /\ UNCHANGED <<heap, table, initialized, todo, held>>

\* The caller is done and releases the item or the collection.
Done(t) ==
    /\ pc[t] = "using"
    /\ pc' = [pc EXCEPT ![t] = IF held[t] = {} THEN "idle" ELSE "releasing"]
    /\ UNCHANGED <<heap, table, initialized, todo, held>>

LDJSONRCReleaseAssociated(t, c) ==
    /\ pc[t] = "releasing"
    /\ c \in held[t]
    /\ heap' = ReleaseItems(heap, {c})
    /\ held' = [held EXCEPT ![t] = @ \ {c}]
    /\ pc' = [pc EXCEPT ![t] = IF held[t] = {c} THEN "idle" ELSE @]
    /\ UNCHANGED <<table, initialized, todo>>

Next ==
    \E t \in Threads :
        \/ \E put \in Puts : storeInit(t, put)
        \/ \E k \in Keys, it \in Item : storeUpsert(t, k, it)
        \/ \E k \in Keys : storeGet(t, k)
        \/ \E kind \in Kinds : storeAll(t, kind)
        \/ \E c \in Cells : LDJSONRCAssociate(t, c)
        \/ Associated(t)
        \/ Done(t)
        \/ \E c \in Cells : LDJSONRCReleaseAssociated(t, c)

Spec == Init /\ [][Next]_vars

-----------------------------------------------------------------------------
(* Properties.                                                              *)

\* References to a cell.
References(c) ==
    Cardinality({k \in Keys : table[k] = c})
      + Cardinality({t \in Threads : c \in held[t]})

\* A cell is allocated exactly as long as somebody refers to it, and counts
\* its references: no item is freed under a reader and none is leaked, in
\* any order of puts, upserts, reads and releases.
CountsReferences ==
    \A c \in Cells : References(c) = IF heap[c] = Nil THEN 0 ELSE heap[c].count

\* The comment of LDJSONRCAssociate: "For the duration of the association, all
\* the items have an additional reference".  What storeAll returned stays
\* allocated as long as its caller uses it.
AssociatedAlive ==
    \A t \in Threads : pc[t] = "using" => \A c \in held[t] : heap[c] # Nil

\* The store and its answers, as the callers of store.c see them.
Answers(t) ==
    IF pc[t] \notin {"associating", "using"}
    THEN Nil
    ELSE [k \in Keys |->
            LET mine == {c \in todo[t] \cup held[t] : heap[c] # Nil /\ heap[c].key = k}
            IN  IF mine = {} THEN Nil ELSE ItemAt(CHOOSE c \in mine : TRUE)]

Abstract ==
    INSTANCE VersionedStore WITH
        data <- [k \in Keys |-> IF table[k] = Nil THEN Nil ELSE ItemAt(table[k])],
        answer <- [t \in Threads |-> Answers(t)]

\* Whatever writers do while a reader uses an item or a collection, the store
\* behaves like a map of versioned items, and an answer is the state of the
\* map at one instant and never changes.
Refinement == Abstract!StoreSpec
=============================================================================
