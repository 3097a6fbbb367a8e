------------------------- MODULE MemoryStoreProofs -------------------------
(***************************************************************************)
(* Proofs about MemoryStore for every set of threads, keys, versions and   *)
(* cells: the counts of the cells are the references to them, and the      *)
(* store with its reference-counted answers implements VersionedStore.     *)
(*                                                                         *)
(* Both need Gap to be FALSE: with a write between storeAll's unlock and   *)
(* its retains neither holds (run MemoryGap).                              *)
(***************************************************************************)
EXTENDS MemoryStore, FiniteSetTheorems, TLAPS

USE NilAssumption

-----------------------------------------------------------------------------
(* The inductive invariant.                                                 *)

InTable(c) == \E k \in Keys : table[k] = c

Holders(c) == {t \in Threads : c \in held[t]}

\* The table holds allocated cells, each under its own key.
Placed ==
    \A k \in Keys : table[k] # Nil => heap[table[k]] # Nil /\ heap[table[k]].key = k

\* What CountsReferences says, with the references of the table told apart
\* from those of the callers.
Counted ==
    \A c \in Cells :
        /\ heap[c] # Nil =>
             heap[c].count = (IF InTable(c) THEN 1 ELSE 0) + Cardinality(Holders(c))
        /\ heap[c] = Nil => Holders(c) = {}

\* What a thread has collected and not yet retained is still in the table: no
\* writer comes between.
Collected ==
    \A t \in Threads :
        /\ pc[t] # "associating" => todo[t] = {}
        /\ pc[t] = "idle" => held[t] = {}
        /\ todo[t] \cap held[t] = {}
        /\ \A c \in todo[t] : InTable(c)

IInv == ~Gap /\ TypeOK /\ Placed /\ Counted /\ Collected

-----------------------------------------------------------------------------
(* Reference counts.                                                        *)

LEMMA ReleaseType ==
  ASSUME NEW b \in Block \cup {Nil}
  PROVE  LDJSONRCRelease(b) \in Block \cup {Nil}
  BY DEF LDJSONRCRelease, Block

LEMMA ReleaseItemsType ==
  ASSUME NEW h \in [Cells -> Block \cup {Nil}], NEW cs
  PROVE  ReleaseItems(h, cs) \in [Cells -> Block \cup {Nil}]
  BY ReleaseType DEF ReleaseItems

LEMMA RetainType ==
  ASSUME NEW h \in [Cells -> Block \cup {Nil}], NEW c \in Cells
  PROVE  LDJSONRCRetain(h, c) \in [Cells -> Block \cup {Nil}]
  BY DEF LDJSONRCRetain, Block

LEMMA NewType ==
  ASSUME NEW k \in Keys, NEW it \in Item
  PROVE  LDJSONRCNew(k, it) \in Block
  BY DEF LDJSONRCNew, Block

\* What a release leaves of a block: everything but one reference.
LEMMA Released ==
  ASSUME NEW b \in Block
  PROVE  /\ b.count = 1 => LDJSONRCRelease(b) = Nil
         /\ b.count # 1 => /\ LDJSONRCRelease(b) # Nil
                           /\ LDJSONRCRelease(b).key = b.key
                           /\ LDJSONRCRelease(b).item = b.item
                           /\ LDJSONRCRelease(b).count = b.count - 1
  BY DEF LDJSONRCRelease, Block

\* A retain changes the count of one block.
LEMMA Retained ==
  ASSUME NEW h \in [Cells -> Block \cup {Nil}], NEW c \in Cells, h[c] # Nil
  PROVE  LET r == LDJSONRCRetain(h, c) IN
         /\ \A d \in Cells : d # c => r[d] = h[d]
         /\ r[c] # Nil
         /\ r[c].key = h[c].key
         /\ r[c].item = h[c].item
         /\ r[c].count = h[c].count + 1
  BY DEF LDJSONRCRetain, Block

-----------------------------------------------------------------------------
(* The steps of the writers, cell by cell.                                  *)

Cleared == ReleaseItems(heap, {table[k] : k \in Stored})

Given(put) == {k \in Keys : put[k] # Nil}

\* storeInit puts each item in a cell that is free once the table is cleared.
LEMMA InitStep ==
  ASSUME TypeOK, NEW t \in Threads, NEW put \in Puts, storeInit(t, put)
  PROVE  \E new \in [Given(put) -> Free(Cleared)] :
           /\ \A j, k \in Given(put) : j # k => new[j] # new[k]
           /\ table' = [k \in Keys |-> IF k \in Given(put) THEN new[k] ELSE Nil]
           /\ heap' \in [Cells -> Block \cup {Nil}]
           /\ \A k \in Given(put) : heap'[new[k]] = LDJSONRCNew(k, put[k])
           /\ \A c \in Cells :
                (\A k \in Given(put) : new[k] # c) => heap'[c] = Cleared[c]
  <1>1. PICK new \in [Given(put) -> Free(Cleared)] :
          /\ \A j, k \in Given(put) : j # k => new[j] # new[k]
          /\ table' = [k \in Keys |-> IF k \in Given(put) THEN new[k] ELSE Nil]
          /\ heap' = [c \in Cells |->
                        IF \E k \in Given(put) : new[k] = c
                        THEN LET k == CHOOSE k \in Given(put) : new[k] = c
                             IN  LDJSONRCNew(k, put[k])
                        ELSE Cleared[c]]
    BY DEF storeInit, Given, Cleared
  <1>2. \A k \in Given(put) : put[k] \in Item /\ k \in Keys
    BY DEF Given, Puts
  <1>3. \A k \in Given(put) : new[k] \in Cells
    BY DEF Free
  <1>4. ASSUME NEW c \in Cells, NEW k \in Given(put), new[k] = c
        PROVE  heap'[c] = LDJSONRCNew(k, put[k])
    <2>1. (CHOOSE j \in Given(put) : new[j] = c) = k
      BY <1>1, <1>4
    <2> QED BY <1>1, <1>4, <2>1
  <1>5. \A c \in Cells :
          (\A k \in Given(put) : new[k] # c) => heap'[c] = Cleared[c]
    BY <1>1
  <1>6. Cleared \in [Cells -> Block \cup {Nil}]
    BY ReleaseItemsType DEF TypeOK, Cleared
  <1>7. heap' \in [Cells -> Block \cup {Nil}]
    <2>1. ASSUME NEW c \in Cells
          PROVE  heap'[c] \in Block \cup {Nil}
      BY <1>2, <1>4, <1>5, <1>6, <2>1, NewType
    <2>2. heap' = [c \in Cells |-> heap'[c]]
      BY <1>1
    <2> QED BY <2>1, <2>2
  <1> QED BY <1>1, <1>3, <1>4, <1>5, <1>7

\* storeUpsert puts the item in a cell that is free once the old one is
\* released.
LEMMA UpsertStep ==
  ASSUME TypeOK, NEW t \in Threads, NEW k \in Keys, NEW it \in Item,
         storeUpsert(t, k, it)
  PROVE  \E c \in Cells :
           /\ ReleaseItems(heap, {table[k]})[c] = Nil
           /\ table' = [table EXCEPT ![k] = c]
           /\ heap' \in [Cells -> Block \cup {Nil}]
           /\ heap'[c] = LDJSONRCNew(k, it)
           /\ \A d \in Cells : d # c => heap'[d] = ReleaseItems(heap, {table[k]})[d]
  <1>1. ReleaseItems(heap, {table[k]}) \in [Cells -> Block \cup {Nil}]
    BY ReleaseItemsType DEF TypeOK
  <1>2. PICK c \in Free(ReleaseItems(heap, {table[k]})) :
          /\ table' = [table EXCEPT ![k] = c]
          /\ heap' = [ReleaseItems(heap, {table[k]}) EXCEPT ![c] = LDJSONRCNew(k, it)]
    BY DEF storeUpsert
  <1>3. c \in Cells /\ ReleaseItems(heap, {table[k]})[c] = Nil
    BY <1>2 DEF Free
  <1>4. LDJSONRCNew(k, it) \in Block
    BY NewType
  <1> QED BY <1>1, <1>2, <1>3, <1>4

-----------------------------------------------------------------------------
(* Types.                                                                   *)

LEMMA TypeStep == TypeOK /\ [Next]_vars => TypeOK'
  <1> SUFFICES ASSUME TypeOK, [Next]_vars
               PROVE  TypeOK'
    OBVIOUS
  <1>1. ASSUME NEW t \in Threads, NEW put \in Puts, storeInit(t, put)
        PROVE  TypeOK'
    <2>1. PICK new \in [Given(put) -> Free(Cleared)] :
            /\ table' = [k \in Keys |-> IF k \in Given(put) THEN new[k] ELSE Nil]
            /\ heap' \in [Cells -> Block \cup {Nil}]
      BY <1>1, InitStep
    <2>2. table' \in [Keys -> Cells \cup {Nil}]
      BY <2>1 DEF Free
    <2> QED BY <1>1, <2>1, <2>2 DEF TypeOK, storeInit
  <1>2. ASSUME NEW t \in Threads, NEW k \in Keys, NEW it \in Item, storeUpsert(t, k, it)
        PROVE  TypeOK'
    <2>1. PICK c \in Cells : /\ table' = [table EXCEPT ![k] = c]
                             /\ heap' \in [Cells -> Block \cup {Nil}]
      BY <1>2, UpsertStep
    <2> QED BY <1>2, <2>1 DEF TypeOK, storeUpsert
  <1>3. ASSUME NEW t \in Threads, NEW k \in Keys, storeGet(t, k)
        PROVE  TypeOK'
    <2>1. heap' \in [Cells -> Block \cup {Nil}]
      BY <1>3, RetainType DEF TypeOK, storeGet, LiveKeys, Stored
    <2> QED BY <1>3, <2>1 DEF TypeOK, storeGet, LiveKeys, Stored
  <1>4. ASSUME NEW t \in Threads, NEW kind \in Kinds, storeAll(t, kind)
        PROVE  TypeOK'
    BY <1>4 DEF TypeOK, storeAll, LiveKeys, Stored
  <1>5. ASSUME NEW t \in Threads, NEW c \in Cells, LDJSONRCAssociate(t, c)
        PROVE  TypeOK'
    BY <1>5, RetainType DEF TypeOK, LDJSONRCAssociate
  <1>6. ASSUME NEW t \in Threads, Associated(t)
        PROVE  TypeOK'
    BY <1>6 DEF TypeOK, Associated
  <1>7. ASSUME NEW t \in Threads, Done(t)
        PROVE  TypeOK'
    BY <1>7 DEF TypeOK, Done
  <1>8. ASSUME NEW t \in Threads, NEW c \in Cells, LDJSONRCReleaseAssociated(t, c)
        PROVE  TypeOK'
    BY <1>8, ReleaseItemsType DEF TypeOK, LDJSONRCReleaseAssociated
  <1>9. CASE UNCHANGED vars
    BY <1>9 DEF TypeOK, vars
  <1> QED BY <1>1, <1>2, <1>3, <1>4, <1>5, <1>6, <1>7, <1>8, <1>9 DEF Next

\* Cells, counts and phases keep their types, whether or not writers come into
\* the gap of storeAll: a count is never 0 and never negative.
THEOREM TypeCorrect == Spec => []TypeOK
  <1>1. Init => TypeOK
    BY DEF Init, TypeOK
  <1> QED BY <1>1, TypeStep, PTL DEF Spec

-----------------------------------------------------------------------------
(* Holders of a cell.                                                       *)

LEMMA HoldersFinite ==
  ASSUME NEW c
  PROVE  /\ IsFiniteSet(Holders(c))
         /\ Cardinality(Holders(c)) \in Nat
         /\ Cardinality(Holders(c)) = 0 <=> Holders(c) = {}
  <1>1. Holders(c) \subseteq Threads
    BY DEF Holders
  <1>2. IsFiniteSet(Holders(c))
    BY <1>1, FiniteAssumption, FS_Subset
  <1> QED BY <1>2, FS_CardinalityType, FS_EmptySet

\* A caller more, a caller less.
LEMMA HoldersAdd ==
  ASSUME TypeOK, NEW t \in Threads, NEW c \in Cells, c \notin held[t],
         held' = [held EXCEPT ![t] = @ \cup {c}]
  PROVE  /\ Cardinality(Holders(c)') = Cardinality(Holders(c)) + 1
         /\ \A d \in Cells : d # c => Holders(d)' = Holders(d)
  <1>1. Holders(c)' = Holders(c) \cup {t} /\ t \notin Holders(c)
    BY DEF Holders, TypeOK
  <1>2. \A d \in Cells : d # c => Holders(d)' = Holders(d)
    BY DEF Holders, TypeOK
  <1>3. IsFiniteSet(Holders(c))
    BY HoldersFinite
  <1> QED BY <1>1, <1>2, <1>3, FS_AddElement

LEMMA HoldersRemove ==
  ASSUME TypeOK, NEW t \in Threads, NEW c \in held[t],
         held' = [held EXCEPT ![t] = @ \ {c}]
  PROVE  /\ Holders(c)' = Holders(c) \ {t}
         /\ Cardinality(Holders(c)') = Cardinality(Holders(c)) - 1
         /\ Cardinality(Holders(c)) \in Nat \ {0}
         /\ \A d \in Cells : d # c => Holders(d)' = Holders(d)
  <1>1. Holders(c)' = Holders(c) \ {t} /\ t \in Holders(c)
    BY DEF Holders, TypeOK
  <1>2. \A d \in Cells : d # c => Holders(d)' = Holders(d)
    BY DEF Holders, TypeOK
  <1>3. IsFiniteSet(Holders(c)) /\ Cardinality(Holders(c)) \in Nat \ {0}
    BY <1>1, HoldersFinite
  <1> QED BY <1>1, <1>2, <1>3, FS_RemoveElement

\* The counts of the invariant are those of CountsReferences.
LEMMA CountedReferences ==
  ASSUME TypeOK, Placed, Counted
  PROVE  CountsReferences
  <1> SUFFICES ASSUME NEW c \in Cells
               PROVE  References(c) = IF heap[c] = Nil THEN 0 ELSE heap[c].count
    BY DEF CountsReferences
  <1>1. References(c) = Cardinality({k \in Keys : table[k] = c}) + Cardinality(Holders(c))
    BY DEF References, Holders
  <1>2. CASE InTable(c)
    <2>1. PICK k \in Keys : table[k] = c
      BY <1>2 DEF InTable
    <2>2. {j \in Keys : table[j] = c} = {k}
      BY <2>1 DEF Placed
    <2>3. Cardinality({j \in Keys : table[j] = c}) = 1
      BY <2>2, FS_Singleton
    <2>4. heap[c] # Nil
      BY <2>1 DEF Placed
    <2> QED BY <1>1, <1>2, <2>3, <2>4 DEF Counted
  <1>3. CASE ~InTable(c)
    <2>1. {j \in Keys : table[j] = c} = {}
      BY <1>3 DEF InTable
    <2>2. Cardinality({j \in Keys : table[j] = c}) = 0
      BY <2>1, FS_EmptySet
    <2> QED BY <1>1, <1>3, <2>2, HoldersFinite DEF Counted
  <1> QED BY <1>2, <1>3

-----------------------------------------------------------------------------
(* What one step does to the cells.                                         *)

\* The cell keeps its item.
Same(c) ==
    /\ heap[c] # Nil /\ heap'[c] # Nil
    /\ heap'[c].key = heap[c].key /\ heap'[c].item = heap[c].item

\* Items keep their place as long as a caller refers to them.
Kept == \A u \in Threads : \A c \in (todo[u] \cup held[u])' : Same(c)

\* The release of a cell by the table leaves it to its holders.
LEMMA ReleasedByTable ==
  ASSUME IInv, NEW cs, \A c \in cs : c # Nil => InTable(c), NEW c \in Cells
  PROVE  LET r == ReleaseItems(heap, cs)[c] IN
         /\ c \notin cs => r = heap[c]
         /\ c \in cs \/ heap[c] = Nil => (r = Nil <=> Holders(c) = {})
         /\ c \in cs /\ r # Nil => r.count = Cardinality(Holders(c))
         /\ r # Nil => heap[c] # Nil /\ r.key = heap[c].key /\ r.item = heap[c].item
  <1> DEFINE r == ReleaseItems(heap, cs)[c]
  <1>1. CASE c \notin cs
    BY <1>1 DEF ReleaseItems, IInv, Counted
  <1>2. CASE c \in cs
    <2>1. InTable(c)
      BY <1>2
    <2>2. heap[c] # Nil
      BY <2>1 DEF InTable, IInv, Placed
    <2>3. heap[c] \in Block
      BY <2>2 DEF IInv, TypeOK
    <2>4. heap[c].count = 1 + Cardinality(Holders(c)) /\ heap[c].count \in Nat \ {0}
      BY <2>1, <2>2, <2>3 DEF IInv, Counted, Block
    <2>5. r = LDJSONRCRelease(heap[c])
      BY <1>2 DEF ReleaseItems
    <2>6. Cardinality(Holders(c)) \in Nat /\ (Cardinality(Holders(c)) = 0 <=> Holders(c) = {})
      BY HoldersFinite
    <2> HIDE DEF r
    <2>7. /\ r = Nil <=> heap[c].count = 1
          /\ r # Nil => r.count = heap[c].count - 1 /\ r.key = heap[c].key /\ r.item = heap[c].item
      BY <2>3, <2>5, Released
    <2>8. /\ r = Nil <=> Holders(c) = {}
          /\ r # Nil => r.count = Cardinality(Holders(c))
      BY <2>4, <2>6, <2>7
    <2> QED BY <1>2, <2>2, <2>7, <2>8 DEF r
  <1> QED BY <1>1, <1>2

\* A caller retains a cell of the table.
LEMMA RetainStep ==
  ASSUME IInv, NEW t \in Threads, NEW c \in Cells, InTable(c), c \notin held[t],
         heap' = LDJSONRCRetain(heap, c),
         held' = [held EXCEPT ![t] = @ \cup {c}], table' = table
  PROVE  /\ Placed' /\ Counted'
         /\ \A d \in Cells : heap[d] # Nil => Same(d)
  <1>1. heap[c] # Nil
    BY DEF InTable, IInv, Placed
  <1>2. /\ \A d \in Cells : d # c => heap'[d] = heap[d]
        /\ heap'[c] # Nil /\ heap'[c].key = heap[c].key /\ heap'[c].item = heap[c].item
        /\ heap'[c].count = heap[c].count + 1
    BY <1>1, Retained DEF IInv, TypeOK
  <1>3. \A d \in Cells : heap[d] # Nil => Same(d)
    BY <1>1, <1>2 DEF Same
  <1>4. Placed'
    BY <1>3 DEF Placed, IInv, TypeOK, Same
  <1>5. /\ Cardinality(Holders(c)') = Cardinality(Holders(c)) + 1
        /\ \A d \in Cells : d # c => Holders(d)' = Holders(d)
    BY HoldersAdd DEF IInv
  <1>6. \A d \in Cells : InTable(d)' <=> InTable(d)
    BY DEF InTable
  <1>7. Cardinality(Holders(c)) \in Nat
    BY HoldersFinite
  <1>8. Counted'
    <2> SUFFICES ASSUME NEW d \in Cells
                 PROVE  /\ heap'[d] # Nil =>
                             heap'[d].count = (IF InTable(d)' THEN 1 ELSE 0) + Cardinality(Holders(d)')
                        /\ heap'[d] = Nil => Holders(d)' = {}
      BY DEF Counted
    <2>1. CASE d = c
      BY <1>1, <1>2, <1>5, <1>6, <1>7, <2>1 DEF IInv, Counted
    <2>2. CASE d # c
      BY <1>2, <1>5, <1>6, <2>2 DEF IInv, Counted
    <2> QED BY <2>1, <2>2
  <1> QED BY <1>3, <1>4, <1>8

-----------------------------------------------------------------------------
(* Every action keeps the invariant, and the items its callers refer to.    *)

\* Nobody is between the two parts of storeAll when a writer comes.
LEMMA NothingPending ==
  ASSUME IInv, MayWrite
  PROVE  \A u \in Threads : todo[u] = {}
  BY DEF MayWrite, IInv, Collected

\* The parts of the invariant about the callers, when the callers do not move.
LEMMA CallersStay ==
  ASSUME IInv, \A u \in Threads : todo[u] = {}, UNCHANGED <<pc, todo, held>>,
         \A u \in Threads : \A c \in held[u] : Same(c)
  PROVE  Collected' /\ Kept
  <1>1. Collected'
    BY DEF IInv, Collected
  <1>2. Kept
    BY DEF Kept
  <1> QED BY <1>1, <1>2

LEMMA StoreInitKeeps ==
  ASSUME IInv, NEW t \in Threads, NEW put \in Puts, storeInit(t, put)
  PROVE  Placed' /\ Counted' /\ Collected' /\ Kept
  <1>1. PICK new \in [Given(put) -> Free(Cleared)] :
          /\ \A j, k \in Given(put) : j # k => new[j] # new[k]
          /\ table' = [k \in Keys |-> IF k \in Given(put) THEN new[k] ELSE Nil]
          /\ heap' \in [Cells -> Block \cup {Nil}]
          /\ \A k \in Given(put) : heap'[new[k]] = LDJSONRCNew(k, put[k])
          /\ \A c \in Cells :
               (\A k \in Given(put) : new[k] # c) => heap'[c] = Cleared[c]
    BY InitStep DEF IInv
  <1>2. \A k \in Given(put) : k \in Keys /\ new[k] \in Cells /\ Cleared[new[k]] = Nil
    BY DEF Given, Free
  <1>3. UNCHANGED <<pc, todo, held>> /\ \A u \in Threads : todo[u] = {}
    BY NothingPending DEF storeInit
  <1> DEFINE cs == {table[k] : k \in Stored}
  <1>4. \A c \in Cells : c \in cs <=> InTable(c)
    BY DEF Stored, InTable
  <1>5. \A c \in cs : c # Nil => InTable(c)
    BY DEF Stored, InTable
  <1>6. ASSUME NEW c \in Cells
        PROVE  /\ ~InTable(c) => Cleared[c] = heap[c]
               /\ Cleared[c] = Nil <=> Holders(c) = {} /\ (heap[c] = Nil \/ InTable(c))
               /\ Cleared[c] # Nil =>
                    /\ heap[c] # Nil
                    /\ Cleared[c].key = heap[c].key /\ Cleared[c].item = heap[c].item
                    /\ Cleared[c].count = Cardinality(Holders(c))
    <2>1. LET r == Cleared[c] IN
         /\ c \notin cs => r = heap[c]
         /\ c \in cs \/ heap[c] = Nil => (r = Nil <=> Holders(c) = {})
         /\ c \in cs /\ r # Nil => r.count = Cardinality(Holders(c))
         /\ r # Nil => heap[c] # Nil /\ r.key = heap[c].key /\ r.item = heap[c].item
      BY <1>5, <1>6, ReleasedByTable DEF Cleared
    <2>2. heap[c] # Nil /\ ~InTable(c) => heap[c].count = 0 + Cardinality(Holders(c))
      BY <1>6 DEF IInv, Counted
    <2>3. Cardinality(Holders(c)) \in Nat
      BY HoldersFinite
    <2> QED BY <1>4, <1>6, <2>1, <2>2, <2>3
  <1> HIDE DEF cs
  <1>7. \A c \in Cells : Holders(c)' = Holders(c)
    BY <1>3 DEF Holders
  <1>8. ASSUME NEW u \in Threads, NEW c \in held[u]
        PROVE  Same(c)
    <2>1. c \in Cells /\ Holders(c) # {}
      BY <1>8 DEF IInv, TypeOK, Holders
    <2>2. Cleared[c] # Nil
      BY <1>6, <2>1
    <2>3. heap'[c] = Cleared[c]
      BY <1>1, <1>2, <2>1, <2>2
    <2> QED BY <1>6, <2>1, <2>2, <2>3 DEF Same
  <1>9. Placed'
    <2>1. ASSUME NEW k \in Given(put)
          PROVE  LDJSONRCNew(k, put[k]) # Nil /\ LDJSONRCNew(k, put[k]).key = k
      <3>1. k \in Keys /\ put[k] \in Item
        BY <2>1 DEF Given, Puts
      <3> QED BY <3>1, NewType DEF LDJSONRCNew
    <2> QED BY <1>1, <2>1 DEF Placed
  <1>10. Counted'
    <2> SUFFICES ASSUME NEW c \in Cells
                 PROVE  /\ heap'[c] # Nil =>
                             heap'[c].count = (IF InTable(c)' THEN 1 ELSE 0) + Cardinality(Holders(c))
                        /\ heap'[c] = Nil => Holders(c) = {}
      BY <1>7 DEF Counted
    <2>1. ASSUME NEW k \in Given(put), new[k] = c
          PROVE  heap'[c].count = 1 /\ heap'[c] # Nil /\ InTable(c)' /\ Holders(c) = {}
      <3>1. heap'[c] = [key |-> k, item |-> put[k], count |-> 1]
        BY <1>1, <2>1 DEF LDJSONRCNew
      <3>2. put[k] \in Item
        BY <2>1 DEF Given, Puts
      <3>3. heap'[c] \in Block
        BY <1>2, <2>1, <3>1, <3>2 DEF Block
      <3> QED BY <1>1, <1>2, <1>6, <2>1, <3>1, <3>3 DEF InTable
    <2>2. CASE \A k \in Given(put) : new[k] # c
      <3>1. heap'[c] = Cleared[c] /\ ~InTable(c)'
        BY <1>1, <1>2, <2>2 DEF InTable
      <3>2. Cardinality(Holders(c)) \in Nat
        BY HoldersFinite
      <3> QED BY <1>6, <3>1, <3>2
    <2> QED BY <2>1, <2>2, FS_EmptySet
  <1> QED BY <1>3, <1>8, <1>9, <1>10, CallersStay

LEMMA StoreUpsertKeeps ==
  ASSUME IInv, NEW t \in Threads, NEW k \in Keys, NEW it \in Item, storeUpsert(t, k, it)
  PROVE  Placed' /\ Counted' /\ Collected' /\ Kept
  <1> DEFINE without == ReleaseItems(heap, {table[k]})
  <1>1. PICK c \in Cells :
          /\ without[c] = Nil
          /\ table' = [table EXCEPT ![k] = c]
          /\ heap' \in [Cells -> Block \cup {Nil}]
          /\ heap'[c] = LDJSONRCNew(k, it)
          /\ \A d \in Cells : d # c => heap'[d] = without[d]
    BY UpsertStep DEF IInv
  <1>2. UNCHANGED <<pc, todo, held>> /\ \A u \in Threads : todo[u] = {}
    BY NothingPending DEF storeUpsert
  <1>3. table \in [Keys -> Cells \cup {Nil}] /\ Placed /\ Counted
    BY DEF IInv, TypeOK
  <1>4. \A d \in {table[k]} : d # Nil => InTable(d)
    BY DEF InTable
  <1>5. ASSUME NEW d \in Cells
        PROVE  /\ d # table[k] => without[d] = heap[d]
               /\ d = table[k] \/ heap[d] = Nil => (without[d] = Nil <=> Holders(d) = {})
               /\ d = table[k] /\ without[d] # Nil => without[d].count = Cardinality(Holders(d))
               /\ without[d] # Nil => /\ heap[d] # Nil
                                      /\ without[d].key = heap[d].key
                                      /\ without[d].item = heap[d].item
    <2> DEFINE cs == {table[k]}
    <2>1. \A e \in cs : e # Nil => InTable(e)
      BY <1>4
    <2>2. d \in cs <=> d = table[k]
      OBVIOUS
    <2>3. without = ReleaseItems(heap, cs)
      OBVIOUS
    <2> HIDE DEF cs, without
    <2> QED BY <1>5, <2>1, <2>2, <2>3, ReleasedByTable
  <1> HIDE DEF without
  <1>6. \A d \in Cells : Holders(d)' = Holders(d)
    BY <1>2 DEF Holders
  <1>7. Holders(c) = {} /\ (heap[c] # Nil => c = table[k])
    BY <1>1, <1>5
  <1>8. \A j \in Keys : j # k /\ table[j] # Nil => table[j] # table[k] /\ table[j] # c
    BY <1>3, <1>7 DEF Placed
  <1>9. LDJSONRCNew(k, it) = [key |-> k, item |-> it, count |-> 1] /\ LDJSONRCNew(k, it) # Nil
    BY NewType DEF LDJSONRCNew
  <1>10. ASSUME NEW u \in Threads, NEW d \in held[u]
         PROVE  Same(d)
    <2>1. d \in Cells /\ Holders(d) # {}
      BY <1>10 DEF IInv, TypeOK, Holders
    <2>2. without[d] # Nil
      BY <1>3, <1>5, <2>1 DEF Counted
    <2>3. heap'[d] = without[d]
      BY <1>1, <2>1, <2>2
    <2> QED BY <1>5, <2>1, <2>2, <2>3 DEF Same
  <1>11. Placed'
    <2> SUFFICES ASSUME NEW j \in Keys, table'[j] # Nil
                 PROVE  heap'[table'[j]] # Nil /\ heap'[table'[j]].key = j
      BY DEF Placed
    <2>1. CASE j = k
      BY <1>1, <1>3, <1>9, <2>1
    <2>2. CASE j # k
      <3>1. table'[j] = table[j] /\ table[j] \in Cells
        BY <1>1, <1>3, <2>2
      <3>2. heap'[table[j]] = heap[table[j]]
        BY <1>1, <1>5, <1>8, <2>2, <3>1
      <3> QED BY <1>3, <3>1, <3>2 DEF Placed
    <2> QED BY <2>1, <2>2
  <1>12. Counted'
    <2> SUFFICES ASSUME NEW d \in Cells
                 PROVE  /\ heap'[d] # Nil =>
                             heap'[d].count = (IF InTable(d)' THEN 1 ELSE 0) + Cardinality(Holders(d))
                        /\ heap'[d] = Nil => Holders(d) = {}
      BY <1>6 DEF Counted
    <2>1. Cardinality(Holders(d)) \in Nat /\ (Cardinality(Holders(d)) = 0 <=> Holders(d) = {})
      BY HoldersFinite
    <2>2. CASE d = c
      <3>1. InTable(d)'
        BY <1>1, <1>3, <2>2 DEF InTable
      <3> QED BY <1>1, <1>7, <1>9, <2>1, <2>2, <3>1
    <2>3. CASE d # c /\ d = table[k]
      <3>1. ~InTable(d)'
        BY <1>1, <1>3, <1>8, <2>3 DEF InTable
      <3> QED BY <1>1, <1>5, <2>1, <2>3, <3>1
    <2>4. CASE d # c /\ d # table[k]
      <3>1. InTable(d)' <=> InTable(d)
        BY <1>1, <1>3, <2>4 DEF InTable
      <3> QED BY <1>1, <1>3, <1>5, <2>4, <3>1 DEF Counted
    <2> QED BY <2>2, <2>3, <2>4
  <1> QED BY <1>2, <1>10, <1>11, <1>12, CallersStay

\* Callers refer to allocated cells.
LEMMA ReferredAllocated ==
  ASSUME IInv
  PROVE  \A u \in Threads : \A c \in todo[u] \cup held[u] : c \in Cells /\ heap[c] # Nil
  <1> SUFFICES ASSUME NEW u \in Threads, NEW c \in todo[u] \cup held[u]
               PROVE  c \in Cells /\ heap[c] # Nil
    OBVIOUS
  <1>1. c \in Cells
    BY DEF IInv, TypeOK
  <1>2. CASE c \in todo[u]
    BY <1>1, <1>2 DEF IInv, Collected, InTable, Placed
  <1>3. CASE c \in held[u]
    BY <1>1, <1>3 DEF IInv, Counted, Holders
  <1> QED BY <1>1, <1>2, <1>3

LEMMA StoreGetKeeps ==
  ASSUME IInv, NEW t \in Threads, NEW k \in Keys, storeGet(t, k)
  PROVE  Placed' /\ Counted' /\ Collected' /\ Kept
  <1>1. /\ pc[t] = "idle" /\ held[t] = {} /\ todo[t] = {}
        /\ held \in [Threads -> SUBSET Cells] /\ pc = [u \in Threads |-> pc[u]]
    BY DEF storeGet, Idle, IInv, Collected, TypeOK
  <1>2. pc' = [pc EXCEPT ![t] = "using"] /\ UNCHANGED <<table, initialized, todo>>
    BY DEF storeGet
  <1>3. \A c \in Cells : InTable(c)' <=> InTable(c)
    BY <1>2 DEF InTable
  <1>4. CASE LiveKeys({k}) = {}
    <2>1. heap' = heap /\ held' = held
      BY <1>1, <1>4 DEF storeGet
    <2>2. \A c \in Cells : Holders(c)' = Holders(c)
      BY <2>1 DEF Holders
    <2>3. Placed' /\ Counted'
      BY <1>2, <1>3, <2>1, <2>2 DEF IInv, Placed, Counted
    <2>4. Collected'
      BY <1>1, <1>2, <1>3, <2>1 DEF IInv, Collected, TypeOK
    <2>5. \A u \in Threads : \A c \in todo[u] \cup held[u] : c \in Cells /\ heap[c] # Nil
      BY ReferredAllocated
    <2>6. Kept
      BY <1>2, <2>1, <2>5 DEF Kept, Same
    <2> QED BY <2>3, <2>4, <2>6
  <1>5. CASE LiveKeys({k}) # {}
    <2> DEFINE c == table[k]
    <2>1. LiveKeys({k}) = {k} /\ c \in Cells /\ InTable(c)
      BY <1>5 DEF LiveKeys, Stored, IInv, TypeOK, InTable
    <2>2. heap' = LDJSONRCRetain(heap, c)
      BY <1>5 DEF storeGet
    <2>3. held' = [held EXCEPT ![t] = {c}]
      BY <2>1 DEF storeGet
    <2> HIDE DEF c
    <2>4. held' = [held EXCEPT ![t] = @ \cup {c}] /\ c \notin held[t]
      BY <1>1, <2>3
    <2>5. Placed' /\ Counted' /\ \A d \in Cells : heap[d] # Nil => Same(d)
      BY <1>2, <2>1, <2>2, <2>4, RetainStep
    <2>6. \A u \in Threads : \A d \in todo[u] \cup held[u] : d \in Cells /\ heap[d] # Nil
      BY ReferredAllocated
    <2>7. heap[c] # Nil
      BY <2>1 DEF IInv, InTable, Placed
    <2>8. Kept
      BY <1>1, <1>2, <2>1, <2>3, <2>5, <2>6, <2>7 DEF Kept
    <2>9. Collected'
      BY <1>1, <1>2, <1>3, <2>3 DEF IInv, Collected, TypeOK
    <2> QED BY <2>5, <2>8, <2>9
  <1> QED BY <1>4, <1>5

LEMMA StoreAllKeeps ==
  ASSUME IInv, NEW t \in Threads, NEW kind \in Kinds, storeAll(t, kind)
  PROVE  Placed' /\ Counted' /\ Collected' /\ Kept
  <1> DEFINE ks == LiveKeys({k \in Keys : KindOf[k] = kind})
             cs == {table[k] : k \in ks}
  <1>1. /\ pc[t] = "idle" /\ held[t] = {} /\ todo \in [Threads -> SUBSET Cells]
        /\ pc' = [pc EXCEPT ![t] = "associating"] /\ todo' = [todo EXCEPT ![t] = cs]
        /\ UNCHANGED <<heap, table, initialized, held>>
    BY DEF storeAll, Idle, IInv, Collected, TypeOK
  <1>2. \A c \in cs : c \in Cells /\ InTable(c) /\ heap[c] # Nil
    BY DEF LiveKeys, Stored, InTable, IInv, Placed, TypeOK
  <1> HIDE DEF cs
  <1>3. Placed' /\ Counted'
    BY <1>1 DEF IInv, Placed, Counted, InTable, Holders
  <1>4. Collected'
    BY <1>1, <1>2 DEF IInv, Collected, InTable, TypeOK
  <1>5. Kept
    BY <1>1, <1>2, ReferredAllocated DEF Kept, Same
  <1> QED BY <1>3, <1>4, <1>5

LEMMA AssociateKeeps ==
  ASSUME IInv, NEW t \in Threads, NEW c \in Cells, LDJSONRCAssociate(t, c)
  PROVE  Placed' /\ Counted' /\ Collected' /\ Kept
  <1>1. /\ c \in todo[t] /\ pc[t] = "associating" /\ InTable(c) /\ c \notin held[t]
        /\ todo \in [Threads -> SUBSET Cells] /\ held \in [Threads -> SUBSET Cells]
    BY DEF LDJSONRCAssociate, IInv, Collected, TypeOK
  <1>2. /\ heap' = LDJSONRCRetain(heap, c)
        /\ todo' = [todo EXCEPT ![t] = @ \ {c}]
        /\ held' = [held EXCEPT ![t] = @ \cup {c}]
        /\ UNCHANGED <<table, initialized, pc>>
    BY DEF LDJSONRCAssociate
  <1>3. Placed' /\ Counted' /\ \A d \in Cells : heap[d] # Nil => Same(d)
    BY <1>1, <1>2, RetainStep
  <1>4. \A u \in Threads : (todo[u] \cup held[u])' = todo[u] \cup held[u]
    BY <1>1, <1>2
  <1>5. Kept
    BY <1>3, <1>4, ReferredAllocated DEF Kept
  <1>6. Collected'
    BY <1>1, <1>2 DEF IInv, Collected, InTable
  <1> QED BY <1>3, <1>5, <1>6

LEMMA MovingKeeps ==
  ASSUME IInv, NEW t \in Threads, Associated(t) \/ Done(t)
  PROVE  Placed' /\ Counted' /\ Collected' /\ Kept
  <1>1. /\ UNCHANGED <<heap, table, initialized, todo, held>>
        /\ \A u \in Threads : pc'[u] # pc[u] =>
             /\ todo[u] = {}
             /\ pc'[u] = "idle" => held[u] = {}
    BY DEF Associated, Done, IInv, Collected, TypeOK
  <1>2. \A c \in Cells : (InTable(c)' <=> InTable(c)) /\ Holders(c)' = Holders(c)
    BY <1>1 DEF InTable, Holders
  <1>3. Placed' /\ Counted'
    BY <1>1, <1>2 DEF IInv, Placed, Counted
  <1>4. Collected'
    <2> SUFFICES ASSUME NEW u \in Threads
                 PROVE  /\ pc'[u] # "associating" => todo[u] = {}
                        /\ pc'[u] = "idle" => held[u] = {}
                        /\ todo[u] \cap held[u] = {}
                        /\ \A c \in todo[u] : InTable(c)'
      BY <1>1 DEF Collected
    <2>1. todo[u] \subseteq Cells
      BY DEF IInv, TypeOK
    <2>2. /\ pc[u] # "associating" => todo[u] = {}
          /\ pc[u] = "idle" => held[u] = {}
          /\ todo[u] \cap held[u] = {}
          /\ \A c \in todo[u] : InTable(c)
      BY DEF IInv, Collected
    <2>3. \A c \in todo[u] : InTable(c)'
      BY <1>2, <2>1, <2>2
    <2>4. CASE pc'[u] = pc[u]
      BY <2>2, <2>3, <2>4
    <2>5. CASE pc'[u] # pc[u]
      BY <1>1, <2>2, <2>3, <2>5
    <2> QED BY <2>4, <2>5
  <1>5. Kept
    BY <1>1, ReferredAllocated DEF Kept, Same
  <1> QED BY <1>3, <1>4, <1>5

LEMMA ReleaseKeeps ==
  ASSUME IInv, NEW t \in Threads, NEW c \in Cells, LDJSONRCReleaseAssociated(t, c)
  PROVE  Placed' /\ Counted' /\ Collected' /\ Kept
  <1>1. /\ c \in held[t] /\ pc[t] = "releasing" /\ todo[t] = {}
        /\ heap \in [Cells -> Block \cup {Nil}]
        /\ held \in [Threads -> SUBSET Cells] /\ pc = [u \in Threads |-> pc[u]]
    BY DEF LDJSONRCReleaseAssociated, IInv, Collected, TypeOK
  <1>2. /\ held' = [held EXCEPT ![t] = @ \ {c}]
        /\ pc' = [pc EXCEPT ![t] = IF held[t] = {c} THEN "idle" ELSE @]
        /\ UNCHANGED <<table, initialized, todo>>
    BY DEF LDJSONRCReleaseAssociated
  <1>3. /\ heap'[c] = LDJSONRCRelease(heap[c])
        /\ \A d \in Cells : d # c => heap'[d] = heap[d]
    BY <1>1 DEF LDJSONRCReleaseAssociated, ReleaseItems
  <1>4. heap[c] # Nil /\ heap[c] \in Block
    BY <1>1, ReferredAllocated
  <1>5. /\ Holders(c)' = Holders(c) \ {t}
        /\ Cardinality(Holders(c)') = Cardinality(Holders(c)) - 1
        /\ Cardinality(Holders(c)) \in Nat \ {0}
        /\ \A d \in Cells : d # c => Holders(d)' = Holders(d)
    BY <1>1, <1>2, HoldersRemove DEF IInv
  <1>6. \A d \in Cells : InTable(d)' <=> InTable(d)
    BY <1>2 DEF InTable
  <1>7. heap[c].count = (IF InTable(c) THEN 1 ELSE 0) + Cardinality(Holders(c))
    BY <1>4 DEF IInv, Counted
  <1>8. /\ heap'[c] = Nil <=> heap[c].count = 1
        /\ heap'[c] # Nil => Same(c) /\ heap'[c].count = heap[c].count - 1
    BY <1>3, <1>4, Released DEF Same
  <1>9. heap'[c] = Nil => ~InTable(c) /\ Holders(c)' = {}
    <2>1. heap'[c] = Nil => ~InTable(c) /\ Cardinality(Holders(c)') = 0
      BY <1>5, <1>7, <1>8
    <2>2. IsFiniteSet(Holders(c)')
      BY <1>5, HoldersFinite, FS_RemoveElement
    <2> QED BY <2>1, <2>2, FS_EmptySet
  <1>10. Placed'
    BY <1>2, <1>3, <1>8, <1>9 DEF IInv, TypeOK, Placed, InTable, Same
  <1>11. Counted'
    <2> SUFFICES ASSUME NEW d \in Cells
                 PROVE  /\ heap'[d] # Nil =>
                             heap'[d].count = (IF InTable(d)' THEN 1 ELSE 0) + Cardinality(Holders(d)')
                        /\ heap'[d] = Nil => Holders(d)' = {}
      BY DEF Counted
    <2>1. CASE d = c
      <3>1. heap[c].count \in Nat
        BY <1>4 DEF Block
      <3>2. heap'[c] # Nil =>
              heap'[c].count = (IF InTable(c) THEN 1 ELSE 0) + Cardinality(Holders(c)')
        BY <1>5, <1>7, <1>8, <3>1
      <3>3. InTable(c)' <=> InTable(c)
        BY <1>6
      <3> QED BY <1>9, <2>1, <3>2, <3>3
    <2>2. CASE d # c
      BY <1>3, <1>5, <1>6, <2>2 DEF IInv, Counted
    <2> QED BY <2>1, <2>2
  <1>12. Collected'
    BY <1>1, <1>2, <1>6 DEF IInv, Collected, TypeOK
  <1>13. Kept
    <2> SUFFICES ASSUME NEW u \in Threads, NEW d \in (todo[u] \cup held[u])'
                 PROVE  Same(d)
      BY DEF Kept
    <2>1. d \in todo[u] \cup held[u] /\ d \in Cells /\ heap[d] # Nil
      BY <1>1, <1>2, ReferredAllocated
    <2>2. CASE d # c
      BY <1>3, <2>1, <2>2 DEF Same
    <2>3. CASE d = c
      <3>1. InTable(c) \/ u \in Holders(c)'
        BY <1>2, <2>1, <2>3 DEF IInv, Collected, Holders
      <3> QED BY <1>8, <1>9, <2>3, <3>1
    <2> QED BY <2>2, <2>3
  <1> QED BY <1>10, <1>11, <1>12, <1>13

LEMMA Step ==
  ASSUME IInv, [Next]_vars
  PROVE  IInv' /\ Kept
  <1> SUFFICES Placed' /\ Counted' /\ Collected' /\ Kept
    BY TypeStep DEF IInv
  <1>1. CASE UNCHANGED vars
    <2>1. \A c : (InTable(c)' <=> InTable(c)) /\ Holders(c)' = Holders(c)
      BY <1>1 DEF vars, InTable, Holders
    <2>2. Placed' /\ Counted' /\ Collected'
      BY <1>1, <2>1 DEF vars, IInv, Placed, Counted, Collected
    <2>3. Kept
      BY <1>1, ReferredAllocated DEF vars, Kept, Same
    <2> QED BY <2>2, <2>3
  <1>2. CASE Next
    BY <1>2, StoreInitKeeps, StoreUpsertKeeps, StoreGetKeeps, StoreAllKeeps, AssociateKeeps,
       MovingKeeps, ReleaseKeeps DEF Next
  <1> QED BY <1>1, <1>2

LEMMA IInvHolds == ~Gap /\ Spec => []IInv
  <1>1. ~Gap /\ Init => IInv
    <2> SUFFICES ASSUME ~Gap, Init
                 PROVE  IInv
      OBVIOUS
    <2>1. TypeOK
      BY DEF Init, TypeOK
    <2>2. Placed /\ Counted /\ Collected
      BY DEF Init, Placed, Counted, Collected, Holders
    <2> QED BY <2>1, <2>2 DEF IInv
  <1>2. IInv /\ [Next]_vars => IInv'
    BY Step
  <1> QED BY <1>1, <1>2, PTL DEF Spec

\* Every item is counted once for each of its references, so none is freed
\* under a reader and none is leaked, when no writer comes between the two
\* parts of storeAll.
THEOREM ReferencesCounted == ~Gap /\ Spec => []CountsReferences
  <1>1. IInv => CountsReferences
    BY CountedReferences DEF IInv
  <1> QED BY <1>1, IInvHolds, PTL

\* What storeAll returned stays allocated while its caller uses it, when no
\* writer comes between its two parts: the gap is the only way to lose it.
THEOREM AssociatedStaysAlive == ~Gap /\ Spec => []AssociatedAlive
  <1>1. IInv => AssociatedAlive
    BY ReferredAllocated DEF AssociatedAlive
  <1> QED BY <1>1, IInvHolds, PTL

-----------------------------------------------------------------------------
(* The refinement: what the callers see of the heap is a VersionedStore.    *)

AbstractData == [k \in Keys |-> IF table[k] = Nil THEN Nil ELSE ItemAt(table[k])]

AbstractAnswer == [t \in Threads |-> Answers(t)]

Reading(t) == pc[t] \in {"associating", "using"}

\* The cells of the thread's answer that hold the key.
Mine(t, k) == {c \in todo[t] \cup held[t] : heap[c] # Nil /\ heap[c].key = k}

LEMMA AnswersOfMine ==
  ASSUME NEW t \in Threads, Reading(t)
  PROVE  Answers(t) = [k \in Keys |->
                         IF Mine(t, k) = {} THEN Nil ELSE heap[CHOOSE c \in Mine(t, k) : TRUE].item]
  BY DEF Answers, Reading, Mine, ItemAt

\* An answer is never mistaken for the absence of one.
LEMMA AnswerType ==
  ASSUME TypeOK, NEW t \in Threads, Reading(t)
  PROVE  Answers(t) \in Puts
  <1>1. ASSUME NEW k \in Keys, Mine(t, k) # {}
        PROVE  heap[CHOOSE c \in Mine(t, k) : TRUE].item \in Item
    <2>1. (CHOOSE c \in Mine(t, k) : TRUE) \in Mine(t, k)
      BY <1>1
    <2>2. \A c \in Mine(t, k) : heap[c] \in Block
      BY DEF Mine, TypeOK
    <2> QED BY <2>1, <2>2 DEF Block
  <1> QED BY <1>1, AnswersOfMine DEF Puts

\* An answer stays what it is as long as the thread keeps its cells and the
\* cells keep their items.
LEMMA AnswerStays ==
  ASSUME NEW t \in Threads, Reading(t)' <=> Reading(t),
         Reading(t) => /\ (todo[t] \cup held[t])' = todo[t] \cup held[t]
                       /\ \A c \in todo[t] \cup held[t] : Same(c)
  PROVE  Answers(t)' = Answers(t)
  <1>1. CASE ~Reading(t)
    BY <1>1 DEF Answers, Reading
  <1>2. CASE Reading(t)
    <2>1. \A k \in Keys : Mine(t, k)' = Mine(t, k)
      BY <1>2 DEF Mine, Same
    <2>2. ASSUME NEW k \in Keys, Mine(t, k) # {}
          PROVE  heap'[CHOOSE c \in Mine(t, k) : TRUE].item = heap[CHOOSE c \in Mine(t, k) : TRUE].item
      <3>1. (CHOOSE c \in Mine(t, k) : TRUE) \in Mine(t, k)
        BY <2>2
      <3>2. \A c \in Mine(t, k) : Same(c)
        BY <1>2 DEF Mine
      <3> QED BY <3>1, <3>2 DEF Same
    <2>3. Answers(t)' = [k \in Keys |->
                           IF Mine(t, k)' = {} THEN Nil
                           ELSE heap'[CHOOSE c \in Mine(t, k)' : TRUE].item]
      BY <1>2 DEF Answers, Reading, Mine, ItemAt
    <2>4. Answers(t) = [k \in Keys |->
                           IF Mine(t, k) = {} THEN Nil
                           ELSE heap[CHOOSE c \in Mine(t, k) : TRUE].item]
      BY <1>2, AnswersOfMine
    <2> QED BY <2>1, <2>2, <2>3, <2>4
  <1> QED BY <1>1, <1>2

\* A thread that collects the live items of some keys answers with them.
LEMMA AnswerStarts ==
  ASSUME IInv, NEW t \in Threads, NEW ks \in SUBSET Keys, Reading(t)', table' = table,
         (todo[t] \cup held[t])' = {table[k] : k \in LiveKeys(ks)},
         \A c \in Cells : heap[c] # Nil => Same(c)
  PROVE  Answers(t)' = [k \in Keys |->
                          IF k \in LiveKeys(ks) THEN ItemAt(table[k]) ELSE Nil]
  <1>1. \A k \in LiveKeys(ks) :
          /\ k \in Keys /\ table[k] \in Cells /\ heap[table[k]] # Nil /\ heap[table[k]].key = k
          /\ Same(table[k])
    BY DEF LiveKeys, Stored, IInv, TypeOK, Placed
  <1>2. \A k \in LiveKeys(ks) : Mine(t, k)' = {table[k]}
    BY <1>1 DEF Mine, Same
  <1>3. \A k \in Keys \ LiveKeys(ks) : Mine(t, k)' = {}
    BY <1>1 DEF Mine, Same
  <1>4. \A k \in LiveKeys(ks) : heap'[CHOOSE c \in Mine(t, k)' : TRUE].item = ItemAt(table[k])
    <2>1. ASSUME NEW k \in LiveKeys(ks)
          PROVE  (CHOOSE c \in Mine(t, k)' : TRUE) = table[k]
      BY <1>2
    <2> QED BY <1>1, <2>1 DEF Same, ItemAt
  <1>5. Answers(t)' = [k \in Keys |->
                         IF Mine(t, k)' = {} THEN Nil
                         ELSE heap'[CHOOSE c \in Mine(t, k)' : TRUE].item]
    BY DEF Answers, Reading, Mine, ItemAt
  <1> QED BY <1>1, <1>2, <1>3, <1>4, <1>5

\* The tombstones that LiveKeys leaves out are those that Live hides.
LEMMA AnswerIsAbstract ==
  ASSUME IInv, NEW ks \in SUBSET Keys
  PROVE  Abstract!Answer(ks) =
           [k \in Keys |-> IF k \in LiveKeys(ks) THEN ItemAt(table[k]) ELSE Nil]
  <1>1. ASSUME NEW k \in Keys
        PROVE  (IF k \in ks THEN Abstract!Live(AbstractData[k]) ELSE Nil) =
                 (IF k \in LiveKeys(ks) THEN ItemAt(table[k]) ELSE Nil)
    <2>1. CASE table[k] = Nil
      BY <2>1 DEF AbstractData, Abstract!Live, LiveKeys, Stored
    <2>2. CASE table[k] # Nil
      <3>1. heap[table[k]] \in Block
        BY <2>2 DEF IInv, TypeOK, Placed
      <3>2. ItemAt(table[k]) \in Item
        BY <3>1 DEF ItemAt, Block
      <3> QED BY <2>2, <3>2 DEF AbstractData, Abstract!Live, LiveKeys, Stored
    <2> QED BY <2>1, <2>2
  <1> QED BY <1>1 DEF Abstract!Answer, AbstractData

\* The map stays what it is as long as the table stays and its cells keep
\* their items.
LEMMA DataStays ==
  ASSUME IInv, table' = table, \A k \in Keys : table[k] # Nil => Same(table[k])
  PROVE  AbstractData' = AbstractData
  BY DEF AbstractData, ItemAt, Same

\* Steps that move neither the map nor an answer.
LEMMA Stutters ==
  ASSUME AbstractData' = AbstractData, initialized' = initialized,
         \A u \in Threads : Answers(u)' = Answers(u)
  PROVE  UNCHANGED Abstract!storeVars
  BY DEF Abstract!storeVars, AbstractData, ItemAt

\* Writers: no caller's answer changes.
LEMMA WriterAnswers ==
  ASSUME IInv, Kept, UNCHANGED <<pc, todo, held>>
  PROVE  \A u \in Threads : Answers(u)' = Answers(u)
  <1>1. \A u \in Threads : /\ Reading(u)' <=> Reading(u)
                           /\ (todo[u] \cup held[u])' = todo[u] \cup held[u]
                           /\ \A c \in todo[u] \cup held[u] : Same(c)
    BY DEF Kept, Reading
  <1> QED BY <1>1, AnswerStays

LEMMA InitRefines ==
  ASSUME IInv, NEW t \in Threads, NEW put \in Puts, storeInit(t, put), Kept
  PROVE  Abstract!StoreNext
  <1>1. \A u \in Threads : Answers(u)' = Answers(u)
    BY WriterAnswers DEF storeInit
  <1>2. AbstractData' = put
    <2>1. PICK new \in [Given(put) -> Free(Cleared)] :
            /\ table' = [k \in Keys |-> IF k \in Given(put) THEN new[k] ELSE Nil]
            /\ \A k \in Given(put) : heap'[new[k]] = LDJSONRCNew(k, put[k])
      BY InitStep DEF IInv
    <2>2. \A k \in Given(put) : new[k] # Nil /\ heap'[new[k]].item = put[k]
      <3>1. \A k \in Given(put) : new[k] \in Cells
        BY DEF Free
      <3>2. \A k \in Given(put) : LDJSONRCNew(k, put[k]).item = put[k]
        BY DEF LDJSONRCNew
      <3> QED BY <2>1, <3>1, <3>2
    <2>3. \A k \in Keys : AbstractData'[k] = put[k]
      BY <2>1, <2>2 DEF AbstractData, ItemAt, Given
    <2>4. put = [k \in Keys |-> put[k]] /\ AbstractData' = [k \in Keys |-> AbstractData'[k]]
      BY DEF Puts, AbstractData
    <2> QED BY <2>3, <2>4
  <1>3. initialized' = TRUE
    BY DEF storeInit
  <1>4. put \in Abstract!Data
    BY DEF Abstract!Data, Puts, Abstract!Item, Item
  <1>5. Abstract!Put(put)
    BY <1>1, <1>2, <1>3 DEF Abstract!Put, AbstractData, ItemAt
  <1> QED BY <1>4, <1>5 DEF Abstract!StoreNext

LEMMA UpsertRefines ==
  ASSUME IInv, NEW t \in Threads, NEW k \in Keys, NEW it \in Item, storeUpsert(t, k, it),
         Kept
  PROVE  Abstract!StoreNext
  <1>1. \A u \in Threads : Answers(u)' = Answers(u)
    BY WriterAnswers DEF storeUpsert
  <1>2. PICK c \in Cells :
          /\ ReleaseItems(heap, {table[k]})[c] = Nil
          /\ table' = [table EXCEPT ![k] = c]
          /\ heap'[c] = LDJSONRCNew(k, it)
          /\ \A d \in Cells : d # c => heap'[d] = ReleaseItems(heap, {table[k]})[d]
    BY UpsertStep DEF IInv
  <1>3. table \in [Keys -> Cells \cup {Nil}] /\ Placed
    BY DEF IInv, TypeOK
  <1>4. AbstractData'[k] = it
    BY <1>2, <1>3 DEF AbstractData, ItemAt, LDJSONRCNew
  <1>5. ASSUME NEW j \in Keys, j # k
        PROVE  AbstractData'[j] = AbstractData[j]
    <2>1. table'[j] = table[j]
      BY <1>2, <1>3, <1>5
    <2>2. CASE table[j] = Nil
      BY <2>1, <2>2 DEF AbstractData
    <2>3. CASE table[j] # Nil
      <3>1. table[j] \in Cells /\ heap[table[j]] # Nil /\ table[j] # table[k]
        BY <1>3, <1>5, <2>3 DEF Placed
      <3>2. ReleaseItems(heap, {table[k]})[table[j]] = heap[table[j]]
        BY <3>1 DEF ReleaseItems
      <3>3. heap'[table[j]] = heap[table[j]]
        BY <1>2, <3>1, <3>2
      <3> QED BY <2>1, <3>3 DEF AbstractData, ItemAt
    <2> QED BY <2>2, <2>3
  <1>6. AbstractData' = [AbstractData EXCEPT ![k] = it]
    BY <1>4, <1>5 DEF AbstractData
  <1>7. AbstractData[k] # Nil => AbstractData[k].version < it.version
    <2> SUFFICES ASSUME table[k] # Nil
                 PROVE  ItemAt(table[k]).version < it.version
      BY DEF AbstractData
    <2>1. heap[table[k]] \in Block
      BY DEF IInv, TypeOK, Placed
    <2>2. ItemAt(table[k]).version \in Nat /\ it.version \in Nat
      BY <2>1, VersionsAssumption DEF ItemAt, Block, Item
    <2> QED BY <2>2 DEF storeUpsert, UpToDate
  <1>8. initialized' = initialized
    BY DEF storeUpsert
  <1>9. Abstract!Upsert(k, it)
    BY <1>1, <1>6, <1>7, <1>8 DEF Abstract!Upsert, AbstractData, ItemAt
  <1>10. it \in Abstract!Item
    BY DEF Abstract!Item, Item
  <1> QED BY <1>9, <1>10 DEF Abstract!StoreNext

\* A read step: one thread gets the live items of some keys.
LEMMA ReadRefines ==
  ASSUME IInv, Kept, NEW t \in Threads, NEW ks \in SUBSET Keys,
         ~Reading(t), Reading(t)', UNCHANGED <<table, initialized>>,
         \A u \in Threads \ {t} : UNCHANGED <<pc[u], todo[u], held[u]>>,
         (todo[t] \cup held[t])' = {table[k] : k \in LiveKeys(ks)},
         \A c \in Cells : heap[c] # Nil => Same(c)
  PROVE  Abstract!Read(t, ks)
  <1>1. \A k \in Keys : table[k] # Nil => Same(table[k])
    BY DEF IInv, TypeOK, Placed
  <1>2. AbstractData' = AbstractData
    BY <1>1, DataStays
  <1>3. ASSUME NEW u \in Threads \ {t}
        PROVE  Answers(u)' = Answers(u)
    <2>1. /\ Reading(u)' <=> Reading(u)
          /\ (todo[u] \cup held[u])' = todo[u] \cup held[u]
          /\ \A c \in todo[u] \cup held[u] : Same(c)
      BY <1>3 DEF Kept, Reading
    <2> QED BY <2>1, AnswerStays
  <1>4. Answers(t)' = Abstract!Answer(ks)
    BY AnswerStarts, AnswerIsAbstract
  <1>5. Answers(t) = Nil
    BY DEF Answers, Reading
  <1>6. AbstractAnswer[t] = Nil /\ AbstractAnswer' = [AbstractAnswer EXCEPT ![t] = Abstract!Answer(ks)]
    BY <1>3, <1>4, <1>5 DEF AbstractAnswer
  <1> QED BY <1>2, <1>6 DEF Abstract!Read, AbstractAnswer, AbstractData, ItemAt

LEMMA GetRefines ==
  ASSUME IInv, Kept, NEW t \in Threads, NEW k \in Keys, storeGet(t, k)
  PROVE  Abstract!StoreNext
  <1>1. /\ pc[t] = "idle" /\ held[t] = {} /\ todo[t] = {}
        /\ pc' = [pc EXCEPT ![t] = "using"]
        /\ held' = [held EXCEPT ![t] = {table[j] : j \in LiveKeys({k})}]
        /\ UNCHANGED <<table, initialized, todo>>
    BY DEF storeGet, Idle, IInv, Collected
  <1>2. pc = [u \in Threads |-> pc[u]] /\ held = [u \in Threads |-> held[u]]
    BY DEF IInv, TypeOK
  <1>3. ~Reading(t) /\ Reading(t)'
    BY <1>1, <1>2 DEF Reading
  <1>4. \A u \in Threads \ {t} : UNCHANGED <<pc[u], todo[u], held[u]>>
    BY <1>1, <1>2
  <1>5. (todo[t] \cup held[t])' = {table[j] : j \in LiveKeys({k})}
    BY <1>1, <1>2
  <1>6. \A c \in Cells : heap[c] # Nil => Same(c)
    <2>1. CASE LiveKeys({k}) = {}
      BY <2>1 DEF storeGet, Same
    <2>2. CASE LiveKeys({k}) # {}
      <3>1. table[k] \in Cells /\ heap[table[k]] # Nil
        BY <2>2 DEF LiveKeys, Stored, IInv, TypeOK, Placed
      <3>2. heap' = LDJSONRCRetain(heap, table[k])
        BY <2>2 DEF storeGet
      <3> QED BY <3>1, <3>2, Retained DEF Same, IInv, TypeOK
    <2> QED BY <2>1, <2>2
  <1>7. Abstract!Read(t, {k})
    BY <1>1, <1>3, <1>4, <1>5, <1>6, ReadRefines
  <1> QED BY <1>7 DEF Abstract!StoreNext

LEMMA AllRefines ==
  ASSUME IInv, Kept, NEW t \in Threads, NEW kind \in Kinds, storeAll(t, kind)
  PROVE  Abstract!StoreNext
  <1> DEFINE ks == {k \in Keys : KindOf[k] = kind}
  <1>1. /\ pc[t] = "idle" /\ held[t] = {} /\ todo[t] = {}
        /\ pc' = [pc EXCEPT ![t] = "associating"]
        /\ todo' = [todo EXCEPT ![t] = {table[j] : j \in LiveKeys(ks)}]
        /\ UNCHANGED <<heap, table, initialized, held>>
    BY DEF storeAll, Idle, IInv, Collected
  <1>2. pc = [u \in Threads |-> pc[u]] /\ todo = [u \in Threads |-> todo[u]]
    BY DEF IInv, TypeOK
  <1>3. ~Reading(t) /\ Reading(t)'
    BY <1>1, <1>2 DEF Reading
  <1>4. \A u \in Threads \ {t} : UNCHANGED <<pc[u], todo[u], held[u]>>
    BY <1>1, <1>2
  <1>5. (todo[t] \cup held[t])' = {table[j] : j \in LiveKeys(ks)}
    BY <1>1, <1>2
  <1>6. \A c \in Cells : heap[c] # Nil => Same(c)
    BY <1>1 DEF Same
  <1>7. ks \in SUBSET Keys
    OBVIOUS
  <1>8. Abstract!Read(t, ks)
    <2> HIDE DEF ks
    <2> QED BY <1>1, <1>3, <1>4, <1>5, <1>6, <1>7, ReadRefines
  <1> QED BY <1>8 DEF Abstract!StoreNext

LEMMA DoneRefines ==
  ASSUME IInv, Kept, NEW t \in Threads, Done(t)
  PROVE  Abstract!StoreNext
  <1>1. /\ Reading(t) /\ ~Reading(t)'
        /\ \A u \in Threads \ {t} : Reading(u)' <=> Reading(u)
        /\ UNCHANGED <<heap, table, initialized, todo, held>>
    BY DEF Done, Reading, IInv, TypeOK
  <1>2. AbstractData' = AbstractData
    BY <1>1 DEF AbstractData, ItemAt
  <1>3. ASSUME NEW u \in Threads \ {t}
        PROVE  Answers(u)' = Answers(u)
    BY <1>1, <1>3, AnswerStays DEF Kept
  <1>4. Answers(t)' = Nil /\ Answers(t) # Nil
    <2>1. Answers(t) \in Puts
      BY <1>1, AnswerType DEF IInv
    <2>2. Answers(t)' = Nil
      BY <1>1 DEF Answers, Reading
    <2> QED BY <2>1, <2>2
  <1>5. AbstractAnswer[t] # Nil /\ AbstractAnswer' = [AbstractAnswer EXCEPT ![t] = Nil]
    <2>1. AbstractAnswer[t] # Nil
      BY <1>4 DEF AbstractAnswer
    <2>2. AbstractAnswer' = [AbstractAnswer EXCEPT ![t] = Nil]
      <3>1. AbstractAnswer' = [u \in Threads |-> Answers(u)']
        BY DEF AbstractAnswer
      <3>2. \A u \in Threads : Answers(u)' = IF u = t THEN Nil ELSE AbstractAnswer[u]
        BY <1>3, <1>4 DEF AbstractAnswer
      <3>3. AbstractAnswer = [u \in Threads |-> AbstractAnswer[u]]
        BY DEF AbstractAnswer
      <3> QED BY <3>1, <3>2, <3>3
    <2> QED BY <2>1, <2>2
  <1>6. Abstract!Done(t)
    BY <1>1, <1>2, <1>5 DEF Abstract!Done, AbstractAnswer, AbstractData, ItemAt
  <1> QED BY <1>6 DEF Abstract!StoreNext

\* Retaining and releasing are invisible.
LEMMA CountingStutters ==
  ASSUME IInv, Kept, IInv', NEW t \in Threads,
         Associated(t) \/ \E c \in Cells : LDJSONRCAssociate(t, c) \/ LDJSONRCReleaseAssociated(t, c)
  PROVE  UNCHANGED Abstract!storeVars
  <1>1. UNCHANGED <<table, initialized>>
    BY DEF Associated, LDJSONRCAssociate, LDJSONRCReleaseAssociated
  <1>2. ASSUME NEW u \in Threads
        PROVE  /\ Reading(u)' <=> Reading(u)
               /\ Reading(u) => (todo[u] \cup held[u])' = todo[u] \cup held[u]
    <2>1. CASE Associated(t)
      BY <2>1 DEF Associated, Reading, IInv, TypeOK
    <2>2. CASE \E c \in Cells : LDJSONRCAssociate(t, c)
      BY <2>2 DEF LDJSONRCAssociate, Reading, IInv, TypeOK
    <2>3. CASE \E c \in Cells : LDJSONRCReleaseAssociated(t, c)
      BY <2>3 DEF LDJSONRCReleaseAssociated, Reading, IInv, TypeOK
    <2> QED BY <2>1, <2>2, <2>3
  <1>3. \A u \in Threads : Answers(u)' = Answers(u)
    BY <1>2, AnswerStays DEF Kept
  <1>4. ASSUME NEW k \in Keys, table[k] # Nil
        PROVE  Same(table[k])
    <2>1. table[k] \in Cells /\ heap[table[k]] \in Block
      BY <1>4 DEF IInv, TypeOK, Placed
    <2>2. heap'[table[k]] # Nil
      BY <1>1, <1>4 DEF IInv, Placed
    <2>3. CASE Associated(t)
      BY <2>1, <2>2, <2>3 DEF Associated, Same
    <2>4. ASSUME NEW c \in Cells, LDJSONRCAssociate(t, c)
          PROVE  Same(table[k])
      BY <2>1, <2>2, <2>4 DEF LDJSONRCAssociate, LDJSONRCRetain, Same, IInv, TypeOK, Block
    <2>5. ASSUME NEW c \in Cells, LDJSONRCReleaseAssociated(t, c)
          PROVE  Same(table[k])
      BY <2>1, <2>2, <2>5, Released DEF LDJSONRCReleaseAssociated, ReleaseItems, Same
    <2> QED BY <2>3, <2>4, <2>5
  <1>5. AbstractData' = AbstractData
    BY <1>1, <1>4, DataStays
  <1> QED BY <1>1, <1>3, <1>5, Stutters

LEMMA StepRefines ==
  ASSUME IInv, [Next]_vars
  PROVE  [Abstract!StoreNext]_(Abstract!storeVars)
  <1>1. IInv' /\ Kept
    BY Step
  <1>2. CASE UNCHANGED vars
    BY <1>2 DEF vars, Abstract!storeVars, Answers, ItemAt
  <1>3. CASE Next
    BY <1>1, <1>3, InitRefines, UpsertRefines, GetRefines, AllRefines, DoneRefines,
       CountingStutters DEF Next
  <1> QED BY <1>2, <1>3

\* Whatever is retained, released, freed and allocated again below them, the
\* operations of the store are those of a map of versioned items, and what a
\* get or an all returned is the map of one instant until the caller is done.
THEOREM StoreRefines == ~Gap /\ Spec => Refinement
  <1>1. Init => Abstract!StoreInit
    BY DEF Init, Abstract!StoreInit, Answers
  <1>2. IInv /\ [Next]_vars => [Abstract!StoreNext]_(Abstract!storeVars)
    BY StepRefines
  <1> QED BY <1>1, <1>2, IInvHolds, PTL DEF Spec, Refinement, Abstract!StoreSpec

=============================================================================
