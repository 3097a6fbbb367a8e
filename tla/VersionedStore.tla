--------------------------- MODULE VersionedStore ---------------------------
(***************************************************************************)
(* What a store of src/store/internal_store.h promises its callers: a map  *)
(* from keys to versioned items that a put replaces as a whole and an      *)
(* upsert changes only towards a newer version, and answers that are the   *)
(* map of one instant and stay that as long as the caller holds them.      *)
(***************************************************************************)
EXTENDS Naturals

CONSTANTS
    Threads,  \* threads that call store.c
    Kinds,    \* features, segments
    Keys,     \* keys of items, each of one kind
    KindOf,   \* the kind of each key
    Versions, \* versions of items
    Nil       \* no item, no answer

Item == [version : Versions, deleted : BOOLEAN]
Data == [Keys -> Item \cup {Nil}]

VARIABLES data, initialized, answer

storeVars == <<data, initialized, answer>>

\* What a caller gets to see: a tombstone is no item.
Live(it) == IF it = Nil \/ it.deleted THEN Nil ELSE it

\* The live items among the keys ks.
Answer(ks) == [k \in Keys |-> IF k \in ks THEN Live(data[k]) ELSE Nil]

StoreInit ==
    /\ data = [k \in Keys |-> Nil]
    /\ initialized = FALSE
    /\ answer = [t \in Threads |-> Nil]

\* A put replaces everything, whatever the versions.
Put(d) ==
    /\ data' = d
    /\ initialized' = TRUE
    /\ UNCHANGED answer

\* An upsert, or the upsert of a tombstone, wins only with a newer version.
Upsert(k, it) ==
    /\ data[k] # Nil => data[k].version < it.version
    /\ data' = [data EXCEPT ![k] = it]
    /\ UNCHANGED <<initialized, answer>>

\* A get reads one key, an all the keys of one kind.
Read(t, ks) ==
    /\ answer[t] = Nil
    /\ answer' = [answer EXCEPT ![t] = Answer(ks)]
    /\ UNCHANGED <<data, initialized>>

Done(t) ==
    /\ answer[t] # Nil
    /\ answer' = [answer EXCEPT ![t] = Nil]
    /\ UNCHANGED <<data, initialized>>

StoreNext ==
    \/ \E d \in Data : Put(d)
    \/ \E k \in Keys, it \in Item : Upsert(k, it)
    \/ \E t \in Threads :
         \/ \E k \in Keys : Read(t, {k})
         \/ \E kind \in Kinds : Read(t, {k \in Keys : KindOf[k] = kind})
         \/ Done(t)

StoreSpec == StoreInit /\ [][StoreNext]_storeVars
=============================================================================
