-------------------------- MODULE RedisStoreProofs --------------------------
(***************************************************************************)
(* Proofs about RedisStore for every set of threads and connections, every *)
(* size of the pool, whatever fails and whatever other processes write:    *)
(* the pool counts its connections, and an upsert replaces what it read    *)
(* and nothing else.                                                       *)
(***************************************************************************)
EXTENDS RedisStore, FiniteSetTheorems, TLAPS

-----------------------------------------------------------------------------
(* The inductive invariant.                                                 *)

Borrowers == {t \in Threads : conn[t] # Nil}
Connecting == {t \in Threads : pc[t] = "connecting"}

\* No connection is in the pool twice.
PoolDistinct == \A i, j \in DOMAIN pool : i # j => pool[i] # pool[j]

\* A thread has a connection from borrowConnection to returnConnection.
Borrowed(t) == conn[t] # Nil <=> pc[t] \in Commands \cup {"return", "crashed"}

\* A thread sends the commands of its own request.
Requested(t) ==
    /\ pc[t] # "idle" => call[t] \in Request
    /\ pc[t] \in {"WATCH", "HGET"} => call[t] \in Write /\ call[t].op = "upsert"
    /\ pc[t] \in {"MULTI", "QUEUE", "EXEC"} => call[t] \in Write
    /\ pc[t] = "EXEC" => Mine(t).queue = call[t]

\* The item is the one the upsert has read, and one that it may replace.
AsRead(t) == data[call[t].key] = seen[t] /\ ~Outdated(call[t])

\* From its WATCH to its EXEC an upsert watches the hash, and once it has read
\* the item, that item is still there unless the server knows of a write.
Watched(t) ==
    call[t] \in Write /\ call[t].op = "upsert" =>
        /\ pc[t] \in {"HGET", "MULTI", "QUEUE", "EXEC"} => Mine(t).watching
        /\ pc[t] \in {"MULTI", "QUEUE", "EXEC"} => Mine(t).touched \/ AsRead(t)

ThreadInv(t) == Borrowed(t) /\ Requested(t) /\ Watched(t)

IInv ==
    /\ TypeOK
    /\ CountsConnections
    /\ PoolDistinct
    /\ \A t \in Threads : ThreadInv(t)

-----------------------------------------------------------------------------
(* Requests and the server.                                                 *)

LEMMA RequestOps ==
  ASSUME NEW w \in Request
  PROVE  /\ w.op \in {"get", "all", "initialized", "upsert", "init"}
         /\ w.op \in {"upsert", "init"} <=> w \in Write
         /\ w \in Write /\ w.op = "upsert" => w.key \in Keys /\ w.item \in Item
         /\ w \in Write /\ w.op = "init" => w.data \in Data
  BY DEF Request, Write

LEMMA FirstCommand ==
  ASSUME NEW w \in Request
  PROVE  /\ First(w) \in {"GET", "GETALL", "EXISTS", "WATCH", "MULTI"}
         /\ First(w) = "WATCH" => w \in Write /\ w.op = "upsert"
         /\ First(w) = "MULTI" => w \in Write /\ w.op = "init"
  BY RequestOps DEF First

Sessions == [watching : BOOLEAN, touched : BOOLEAN, multi : BOOLEAN, queue : Write \cup {Nil}]

ServerType == data \in Data /\ inited \in BOOLEAN /\ session \in [Conns -> Sessions]

LEMMA FreshType == Fresh \in Sessions
  BY DEF Fresh, Sessions

\* What a write makes of the hash, and what the watches of the others see.
LEMMA ApplyServer ==
  ASSUME ServerType, NEW c \in Conns, NEW w \in Write, Apply(c, w)
  PROVE  /\ ServerType'
         /\ session'[c] = Fresh
         /\ \A d \in Conns \ {c} : /\ session'[d].watching = session[d].watching
                                   /\ session'[d].touched = session[d].watching
                                   /\ session'[d].queue = session[d].queue
  <1>1. data' \in Data
    BY RequestOps DEF Apply, ServerType, Data, Request
  <1>2. inited' \in BOOLEAN
    BY DEF Apply, ServerType
  <1>3. session' = [d \in Conns |-> IF d = c THEN Fresh
                                    ELSE [session[d] EXCEPT !.touched = session[d].watching]]
    BY DEF Apply
  <1>4. \A d \in Conns : [session[d] EXCEPT !.touched = session[d].watching] \in Sessions
    BY DEF ServerType, Sessions
  <1>5. session' \in [Conns -> Sessions]
    BY <1>3, <1>4, FreshType
  <1>6. session'[c] = Fresh
    BY <1>3
  <1>7. \A d \in Conns \ {c} : /\ session'[d].watching = session[d].watching
                               /\ session'[d].touched = session[d].watching
                               /\ session'[d].queue = session[d].queue
    BY <1>3 DEF ServerType, Sessions
  <1> QED BY <1>1, <1>2, <1>5, <1>6, <1>7 DEF ServerType

LEMMA ForeignServer ==
  ASSUME ServerType, NEW w \in Foreign, ForeignWrite(w)
  PROVE  /\ ServerType'
         /\ \A d \in Conns : /\ session'[d].watching = session[d].watching
                             /\ session'[d].touched = session[d].watching
                             /\ session'[d].queue = session[d].queue
  <1>1. w \in Write /\ w \in Request
    BY ForeignAssumption DEF Request
  <1>2. data' \in Data
    BY <1>1, RequestOps DEF ForeignWrite, ServerType, Data
  <1>3. inited' \in BOOLEAN
    BY DEF ForeignWrite, ServerType
  <1>4. session' = [d \in Conns |-> [session[d] EXCEPT !.touched = session[d].watching]]
    BY DEF ForeignWrite
  <1>5. session' \in [Conns -> Sessions]
    BY <1>4 DEF ServerType, Sessions
  <1>6. \A d \in Conns : /\ session'[d].watching = session[d].watching
                         /\ session'[d].touched = session[d].watching
                         /\ session'[d].queue = session[d].queue
    BY <1>4 DEF ServerType, Sessions
  <1> QED BY <1>2, <1>3, <1>5, <1>6 DEF ServerType

-----------------------------------------------------------------------------
(* Connections.                                                             *)

LEMMA BorrowersFinite ==
  /\ IsFiniteSet(Borrowers) /\ Cardinality(Borrowers) \in Nat
  /\ IsFiniteSet(Connecting) /\ Cardinality(Connecting) \in Nat
  <1>1. Borrowers \subseteq Threads /\ Connecting \subseteq Threads
    BY DEF Borrowers, Connecting
  <1> QED BY <1>1, ThreadsAssumption, FS_Subset, FS_CardinalityType

LEMMA CountIs ==
  ASSUME CountsConnections
  PROVE  count = Len(pool) + Cardinality(Borrowers) + Cardinality(Connecting)
  BY DEF CountsConnections, Borrowers, Connecting

\* A function has no more values than arguments.
LEMMA ValuesFinite ==
  ASSUME NEW S, IsFiniteSet(S), NEW f
  PROVE  LET values == {f[x] : x \in S}
         IN  /\ IsFiniteSet(values)
             /\ Cardinality(values) \in Nat
             /\ Cardinality(values) <= Cardinality(S)
  <1> DEFINE values == {f[x] : x \in S}
  <1>1. [x \in S |-> f[x]] \in Surjection(S, values)
    BY DEF Surjection
  <1>2. IsFiniteSet(values) /\ Cardinality(values) <= Cardinality(S)
    BY <1>1, FS_Surjection
  <1> QED BY <1>2, FS_CardinalityType

\* A thread that connects finds a connection of its own: the count keeps the
\* open ones below the size of the pool.
LEMMA UnusedLeft ==
  ASSUME TypeOK, CountsConnections, NEW t \in Threads, pc[t] = "connecting"
  PROVE  Unused # {}
  <1> DEFINE lent == {conn[u] : u \in Borrowers}
             kept == {pool[i] : i \in 1..Len(pool)}
  <1>1. Cardinality(Connecting) \in Nat \ {0}
    <2>1. Connecting # {}
      BY DEF Connecting
    <2> QED BY <2>1, BorrowersFinite, FS_EmptySet
  <1>2. Len(pool) \in Nat /\ DOMAIN pool = 1..Len(pool)
    BY DEF TypeOK
  <1>3. IsFiniteSet(lent) /\ Cardinality(lent) <= Cardinality(Borrowers) /\ Cardinality(lent) \in Nat
    BY BorrowersFinite, ValuesFinite
  <1>4. IsFiniteSet(kept) /\ Cardinality(kept) <= Len(pool) /\ Cardinality(kept) \in Nat
    <2>1. IsFiniteSet(1..Len(pool)) /\ Cardinality(1..Len(pool)) = Len(pool)
      <3>1. Cardinality(1..Len(pool)) = IF 1 > Len(pool) THEN 0 ELSE Len(pool) - 1 + 1
        BY <1>2, FS_Interval
      <3> QED BY <1>2, <3>1, FS_Interval
    <2> QED BY <2>1, ValuesFinite
  <1>5. /\ IsFiniteSet(lent \cup kept)
        /\ Cardinality(lent \cup kept) \in Nat
        /\ Cardinality(lent \cup kept) <= Cardinality(lent) + Cardinality(kept)
    <2>1. /\ IsFiniteSet(lent \cup kept)
          /\ Cardinality(lent \cup kept) =
               Cardinality(lent) + Cardinality(kept) - Cardinality(lent \cap kept)
      BY <1>3, <1>4, FS_Union
    <2>2. IsFiniteSet(lent \cap kept) /\ Cardinality(lent \cap kept) \in Nat
      BY <1>3, FS_Intersection, FS_CardinalityType
    <2>3. Cardinality(lent \cup kept) \in Nat
      BY <2>1, FS_CardinalityType
    <2> HIDE DEF lent, kept
    <2> QED BY <1>3, <1>4, <2>1, <2>2, <2>3
  <1>6. Cardinality(lent \cup kept) < Cardinality(Conns)
    <2>1. count = Len(pool) + Cardinality(Borrowers) + Cardinality(Connecting)
      BY CountIs
    <2>2. count <= PoolSize /\ count \in Nat /\ PoolSize \in Nat /\ PoolSize <= Cardinality(Conns)
      BY PoolAssumption DEF TypeOK
    <2>3. Cardinality(Conns) \in Nat /\ Cardinality(Borrowers) \in Nat
      BY PoolAssumption, BorrowersFinite, FS_CardinalityType
    <2> HIDE DEF lent, kept
    <2> QED BY <1>1, <1>2, <1>3, <1>4, <1>5, <2>1, <2>2, <2>3
  <1>7. ~(Conns \subseteq lent \cup kept)
    <2>1. Conns \subseteq lent \cup kept => Cardinality(Conns) <= Cardinality(lent \cup kept)
      BY <1>5, FS_Subset
    <2>2. Cardinality(Conns) \in Nat
      BY PoolAssumption, FS_CardinalityType
    <2> HIDE DEF lent, kept
    <2> QED BY <1>5, <1>6, <2>1, <2>2
  <1> QED BY <1>2, <1>7, NilAssumption DEF Unused, Borrowers

-----------------------------------------------------------------------------
(* What a command does to the rest of the state.                            *)

\* Nobody has written to the hash, or the watch on connection d knows.
Undisturbed(d) ==
    \/ session'[d] = session[d] /\ data' = data
    \/ /\ session'[d].watching = session[d].watching
       /\ session'[d].touched = session[d].watching
       /\ session'[d].queue = session[d].queue

LEMMA ServerTyped ==
  ASSUME TypeOK
  PROVE  ServerType
  BY DEF TypeOK, ServerType, Sessions

\* A command on a connection changes the server's side of that connection.
LEMMA SessionStep ==
  ASSUME ServerType, NEW c \in Conns, NEW s \in Sessions,
         session' = [session EXCEPT ![c] = s], UNCHANGED <<data, inited>>
  PROVE  ServerType' /\ \A d \in Conns \ {c} : Undisturbed(d)
  BY DEF ServerType, Undisturbed

LEMMA SameServer ==
  ASSUME ServerType, UNCHANGED <<data, inited, session>>
  PROVE  ServerType' /\ \A d \in Conns : Undisturbed(d)
  BY DEF ServerType, Undisturbed

LEMMA CommandConn ==
  ASSUME IInv, NEW t \in Threads, pc[t] \in Commands
  PROVE  conn[t] \in Conns /\ call[t] \in Request /\ Mine(t) \in Sessions
  <1>1. conn[t] # Nil /\ conn[t] \in Conns \cup {Nil}
    BY DEF IInv, TypeOK, ThreadInv, Borrowed
  <1>2. call[t] \in Request
    BY DEF IInv, ThreadInv, Requested, Commands
  <1> QED BY <1>1, <1>2, ServerTyped DEF IInv, ServerType, Mine

LEMMA ExecWrite ==
  ASSUME IInv, NEW t \in Threads, pc[t] = "EXEC"
  PROVE  Mine(t).queue = call[t] /\ call[t] \in Write
  BY DEF IInv, ThreadInv, Requested

LEMMA CommandServer ==
  ASSUME IInv, NEW t \in Threads, Command(t)
  PROVE  /\ pc[t] \in Commands
         /\ ServerType'
         /\ \A d \in Conns \ {conn[t]} : Undisturbed(d)
  <1>1. pc[t] \in Commands
    BY DEF Command, Get, Exists, Watch, Hget, Multi, Queue, ExecDone, ExecNil, LinkLost,
           AllCrashes, ErrorReply, Commands
  <1>2. conn[t] \in Conns /\ call[t] \in Request /\ Mine(t) \in Sessions /\ ServerType
    BY <1>1, CommandConn, ServerTyped DEF IInv
  <1> SUFFICES ServerType' /\ \A d \in Conns \ {conn[t]} : Undisturbed(d)
    BY <1>1
  <1>3. CASE Get(t) \/ Exists(t) \/ Hget(t) \/ AllCrashes(t)
    BY <1>2, <1>3, SameServer DEF Get, Exists, Hget, AllCrashes, serverVars
  <1>4. CASE Watch(t)
    <2>1. CASE Mine(t).multi
      BY <1>2, <1>4, <2>1, SameServer DEF Watch
    <2>2. CASE ~Mine(t).multi
      <3>1. session' = [session EXCEPT ![conn[t]] = [Mine(t) EXCEPT !.watching = TRUE]]
        BY <1>4, <2>2 DEF Watch, Mine
      <3>2. [Mine(t) EXCEPT !.watching = TRUE] \in Sessions
        BY <1>2 DEF Sessions
      <3> QED BY <1>2, <1>4, <3>1, <3>2, SessionStep DEF Watch
    <2> QED BY <2>1, <2>2
  <1>5. CASE Multi(t)
    <2>1. CASE Mine(t).multi
      BY <1>2, <1>5, <2>1, SameServer DEF Multi
    <2>2. CASE ~Mine(t).multi
      <3>1. session' = [session EXCEPT ![conn[t]] = [Mine(t) EXCEPT !.multi = TRUE]]
        BY <1>5, <2>2 DEF Multi, Mine
      <3>2. [Mine(t) EXCEPT !.multi = TRUE] \in Sessions
        BY <1>2 DEF Sessions
      <3> QED BY <1>2, <1>5, <3>1, <3>2, SessionStep DEF Multi
    <2> QED BY <2>1, <2>2
  <1>6. CASE Queue(t)
    <2>1. session' = [session EXCEPT ![conn[t]] = [Mine(t) EXCEPT !.queue = call[t]]]
      BY <1>6 DEF Queue, Mine
    <2>2. call[t] \in Write
      BY <1>6 DEF Queue, IInv, ThreadInv, Requested
    <2>3. [Mine(t) EXCEPT !.queue = call[t]] \in Sessions
      BY <1>2, <2>2 DEF Sessions
    <2> QED BY <1>2, <1>6, <2>1, <2>3, SessionStep DEF Queue
  <1>7. ASSUME pc[t] = "EXEC", Apply(conn[t], Mine(t).queue)
        PROVE  ServerType' /\ \A d \in Conns \ {conn[t]} : Undisturbed(d)
    <2>1. call[t] \in Write /\ Apply(conn[t], call[t])
      BY <1>7, ExecWrite
    <2> QED BY <1>2, <2>1, ApplyServer DEF Undisturbed
  <1>8. CASE ExecDone(t)
    BY <1>7, <1>8 DEF ExecDone
  <1>9. ASSUME session' = [session EXCEPT ![conn[t]] = Fresh], UNCHANGED <<data, inited>>
        PROVE  ServerType' /\ \A d \in Conns \ {conn[t]} : Undisturbed(d)
    BY <1>2, <1>9, SessionStep, FreshType
  <1>10. CASE ExecNil(t)
    BY <1>9, <1>10 DEF ExecNil
  <1>11. CASE LinkLost(t)
    BY <1>7, <1>9, <1>11 DEF LinkLost
  <1>12. CASE ErrorReply(t)
    BY <1>2, <1>9, <1>12, SameServer DEF ErrorReply
  <1> QED BY <1>1, <1>3, <1>4, <1>5, <1>6, <1>8, <1>10, <1>11, <1>12 DEF Command

\* Commands leave the pool, the borrowed connections and the other threads
\* alone; a lost link marks the thread's own connection.
LEMMA CommandFrame ==
  ASSUME IInv, NEW t \in Threads, Command(t)
  PROVE  /\ \E p \in Commands \cup {"return", "crashed"} : pc' = [pc EXCEPT ![t] = p]
         /\ UNCHANGED <<pool, count, conn, call, calls, foreign>>
         /\ broken' \in {broken, broken \cup {conn[t]}}
         /\ success' \in [Threads -> BOOLEAN] /\ met' \in [Threads -> BOOLEAN]
         /\ \E it \in Item \cup {Nil} : seen' = [seen EXCEPT ![t] = it]
  <1>1. /\ success \in [Threads -> BOOLEAN] /\ met \in [Threads -> BOOLEAN] /\ inited \in BOOLEAN
        /\ seen \in [Threads -> Item \cup {Nil}]
    BY DEF IInv, TypeOK
  <1>0. UNCHANGED seen => \E it \in Item \cup {Nil} : seen' = [seen EXCEPT ![t] = it]
    BY <1>1
  <1>2. pc[t] \in Commands
    BY CommandServer
  <1>3. Mine(t).multi \in BOOLEAN
    BY <1>2, CommandConn DEF Sessions
  <1>4. CASE Get(t) \/ Exists(t)
    BY <1>0, <1>1, <1>3, <1>4 DEF Get, Exists, Cleanup, Step, poolVars, boundVars, Commands
  <1>9. CASE Hget(t)
    <2>1. call[t].key \in Keys
      BY <1>9, RequestOps DEF Hget, IInv, ThreadInv, Requested, Request
    <2>2. data[call[t].key] \in Item \cup {Nil}
      BY <2>1 DEF IInv, TypeOK, Data
    <2> QED BY <1>1, <1>9, <2>2 DEF Hget, Cleanup, Step, poolVars, boundVars, Commands
  <1>5. CASE Watch(t) \/ Multi(t) \/ Queue(t)
    BY <1>0, <1>1, <1>5 DEF Watch, Multi, Queue, Cleanup, Step, poolVars, boundVars, Commands
  <1>6. CASE ExecDone(t) \/ ExecNil(t)
    BY <1>0, <1>1, <1>6 DEF ExecDone, ExecNil, Cleanup, Step, poolVars, boundVars, Commands
  <1>7. CASE LinkLost(t) \/ ErrorReply(t)
    BY <1>0, <1>1, <1>7 DEF LinkLost, ErrorReply, Cleanup, FailedResult, poolVars, boundVars
  <1>8. CASE AllCrashes(t)
    BY <1>0, <1>1, <1>8 DEF AllCrashes, poolVars, boundVars
  <1> QED BY <1>4, <1>5, <1>6, <1>7, <1>8, <1>9 DEF Command

-----------------------------------------------------------------------------
(* Threads that do not move, and accounts that do not change.               *)

\* A thread keeps its place, or is woken from its wait.
Stays(u) ==
    /\ call'[u] = call[u] /\ conn'[u] = conn[u] /\ seen'[u] = seen[u]
    /\ pc'[u] = pc[u] \/ (pc[u] = "waiting" /\ pc'[u] = "borrow")

LEMMA OthersKeep ==
  ASSUME IInv, NEW u \in Threads, Stays(u),
         conn[u] # Nil => Undisturbed(conn[u])
  PROVE  ThreadInv(u)'
  <1>1. ThreadInv(u)
    BY DEF IInv
  <1>2. CASE pc'[u] # pc[u]
    BY <1>1, <1>2 DEF Stays, ThreadInv, Borrowed, Requested, Watched, Commands
  <1>3. CASE pc'[u] = pc[u] /\ conn[u] = Nil
    <2>1. pc[u] \notin Commands
      BY <1>1, <1>3 DEF ThreadInv, Borrowed
    <2> QED BY <1>1, <1>3, <2>1 DEF Stays, ThreadInv, Borrowed, Requested, Watched, Commands
  <1>4. CASE pc'[u] = pc[u] /\ conn[u] # Nil
    <2>1. CASE session'[conn[u]] = session[conn[u]] /\ data' = data
      BY <1>1, <1>4, <2>1 DEF Stays, ThreadInv, Borrowed, Requested, Watched, Mine, AsRead, Outdated
    <2>2. CASE /\ session'[conn[u]].watching = session[conn[u]].watching
               /\ session'[conn[u]].touched = session[conn[u]].watching
               /\ session'[conn[u]].queue = session[conn[u]].queue
      BY <1>1, <1>4, <2>2 DEF Stays, ThreadInv, Borrowed, Requested, Watched, Mine
    <2> QED BY <1>4, <2>1, <2>2 DEF Undisturbed
  <1> QED BY <1>2, <1>3, <1>4

\* Other threads have other connections.
LEMMA OthersConn ==
  ASSUME IInv, NEW t \in Threads, conn[t] \in Conns
  PROVE  \A u \in Threads \ {t} : conn[u] # Nil => conn[u] \in Conns \ {conn[t]}
  BY NilAssumption DEF IInv, TypeOK, CountsConnections

LEMMA AccountsStay ==
  ASSUME CountsConnections, PoolDistinct, UNCHANGED <<pool, count, conn>>,
         Connecting' = Connecting,
         \A c \in broken' \ broken : \E t \in Threads : c = conn[t]
  PROVE  CountsConnections' /\ PoolDistinct'
  <1>1. Borrowers' = Borrowers
    BY DEF Borrowers
  <1>2. count' = Len(pool') + Cardinality(Borrowers') + Cardinality(Connecting')
    BY <1>1, CountIs
  <1>3. \A t, u \in Threads : t # u /\ conn'[t] # Nil => conn'[t] # conn'[u]
    BY DEF CountsConnections
  <1>4. \A i \in DOMAIN pool : pool[i] \in Conns \ broken'
                               /\ \A t \in Threads : conn[t] # pool[i]
    BY DEF CountsConnections
  <1>5. PoolDistinct'
    BY DEF PoolDistinct
  <1> QED BY <1>2, <1>3, <1>4, <1>5 DEF CountsConnections, Borrowers, Connecting

-----------------------------------------------------------------------------
(* Commands.                                                                *)

\* Each command leaves its own thread ready for the next one.
LEMMA CommandThread ==
  ASSUME IInv, NEW t \in Threads, Command(t)
  PROVE  ThreadInv(t)'
  <1>1. pc[t] \in Commands
    BY CommandServer
  <1>2. /\ conn[t] \in Conns /\ call[t] \in Request /\ Mine(t) \in Sessions
        /\ conn[t] # Nil
    BY <1>1, CommandConn, NilAssumption
  <1>3. PICK p \in Commands \cup {"return", "crashed"} : pc' = [pc EXCEPT ![t] = p]
    BY CommandFrame
  <1>4. pc'[t] = p /\ call'[t] = call[t] /\ conn'[t] = conn[t]
    BY <1>3, CommandFrame DEF IInv, TypeOK
  <1>5. Borrowed(t)'
    BY <1>2, <1>3, <1>4 DEF Borrowed
  <1>6. pc'[t] # "idle" => call'[t] \in Request
    BY <1>2, <1>4
  <1>7. session \in [Conns -> Sessions] /\ ThreadInv(t)
    BY ServerTyped DEF IInv, ServerType
  <1>8. CASE p \in {"return", "crashed"}
    BY <1>4, <1>5, <1>6, <1>8 DEF ThreadInv, Requested, Watched
  <1>9. CASE p \in Commands
    <2>1. Watch(t) \/ Hget(t) \/ Multi(t) \/ Queue(t) \/ ExecNil(t)
      <3>1. p # "return" /\ p # "crashed"
        BY <1>9 DEF Commands
      <3> QED BY <1>4, <3>1 DEF Command, Get, Exists, ExecDone, LinkLost, AllCrashes, ErrorReply,
                 Cleanup, IInv, TypeOK
    <2>2. p # "return"
      BY <1>9 DEF Commands
    <2>3. CASE Watch(t)
      <3>1. pc[t] = "WATCH" /\ ~Mine(t).multi /\ p = "HGET"
        BY <1>3, <1>4, <2>2, <2>3 DEF Watch, Cleanup, Step, IInv, TypeOK
      <3>2. session'[conn[t]].watching
        BY <1>2, <1>7, <2>3, <3>1 DEF Watch, Sessions
      <3> QED BY <1>4, <1>5, <1>6, <1>7, <3>1, <3>2 DEF ThreadInv, Requested, Watched, Mine
    <2>4. CASE Hget(t)
      <3>1. pc[t] = "HGET" /\ ~Outdated(call[t]) /\ p = "MULTI"
        BY <1>3, <1>4, <2>2, <2>4 DEF Hget, Cleanup, Step, IInv, TypeOK
      <3>2. session' = session /\ data' = data
        BY <2>4 DEF Hget, serverVars
      <3>3. AsRead(t)'
        BY <1>4, <2>4, <3>1, <3>2 DEF AsRead, Outdated, Hget, IInv, TypeOK
      <3> QED BY <1>4, <1>5, <1>6, <1>7, <3>1, <3>2, <3>3 DEF ThreadInv, Requested, Watched, Mine
    <2>5. CASE Multi(t)
      <3>1. pc[t] = "MULTI" /\ ~Mine(t).multi /\ p = "QUEUE"
        BY <1>3, <1>4, <2>2, <2>5 DEF Multi, Cleanup, Step, IInv, TypeOK
      <3>2. /\ session'[conn[t]].watching = session[conn[t]].watching
            /\ session'[conn[t]].touched = session[conn[t]].touched
            /\ data' = data
        BY <1>2, <1>7, <2>5, <3>1 DEF Multi, Sessions
      <3>3. AsRead(t)' <=> AsRead(t)
        BY <1>4, <2>5, <3>2 DEF AsRead, Outdated, Multi
      <3> QED BY <1>4, <1>5, <1>6, <1>7, <3>1, <3>2, <3>3 DEF ThreadInv, Requested, Watched, Mine
    <2>6. CASE Queue(t)
      <3>1. pc[t] = "QUEUE" /\ p = "EXEC"
        BY <1>3, <1>4, <2>6 DEF Queue, Step, IInv, TypeOK
      <3>2. /\ session'[conn[t]].watching = session[conn[t]].watching
            /\ session'[conn[t]].touched = session[conn[t]].touched
            /\ session'[conn[t]].queue = call[t]
            /\ data' = data
        BY <1>2, <1>7, <2>6 DEF Queue, Sessions
      <3>3. AsRead(t)' <=> AsRead(t)
        BY <1>4, <2>6, <3>2 DEF AsRead, Outdated, Queue
      <3> QED BY <1>4, <1>5, <1>6, <1>7, <3>1, <3>2, <3>3 DEF ThreadInv, Requested, Watched, Mine
    <2>7. CASE ExecNil(t)
      <3>1. pc[t] = "EXEC" /\ call[t].op = "upsert" /\ p = "WATCH"
        BY <1>3, <1>4, <2>2, <2>7 DEF ExecNil, Cleanup, Step, IInv, TypeOK
      <3> QED BY <1>4, <1>5, <1>6, <1>7, <3>1 DEF ThreadInv, Requested, Watched
    <2> QED BY <2>1, <2>3, <2>4, <2>5, <2>6, <2>7
  <1> QED BY <1>8, <1>9

LEMMA CommandKeeps ==
  ASSUME IInv, NEW t \in Threads, Command(t)
  PROVE  IInv'
  <1>1. pc[t] \in Commands /\ ServerType' /\ \A d \in Conns \ {conn[t]} : Undisturbed(d)
    BY CommandServer
  <1>2. PICK p \in Commands \cup {"return", "crashed"} : pc' = [pc EXCEPT ![t] = p]
    BY CommandFrame
  <1>3. /\ UNCHANGED <<pool, count, conn, call, calls, foreign>>
        /\ broken' \in {broken, broken \cup {conn[t]}}
        /\ success' \in [Threads -> BOOLEAN] /\ met' \in [Threads -> BOOLEAN]
        /\ \E it \in Item \cup {Nil} : seen' = [seen EXCEPT ![t] = it]
    BY CommandFrame
  <1>4. conn[t] \in Conns
    BY <1>1, CommandConn
  <1>5. TypeOK'
    BY <1>1, <1>2, <1>3, <1>4 DEF IInv, TypeOK, ServerType, Sessions, Pcs
  <1>6. Connecting' = Connecting
    BY <1>1, <1>2 DEF Connecting, Commands, IInv, TypeOK
  <1>7. CountsConnections' /\ PoolDistinct'
    BY <1>3, <1>6, AccountsStay DEF IInv
  <1>8. ASSUME NEW u \in Threads \ {t}
        PROVE  ThreadInv(u)'
    <2>1. Stays(u)
      BY <1>2, <1>3 DEF Stays, IInv, TypeOK
    <2>2. conn[u] # Nil => Undisturbed(conn[u])
      BY <1>1, <1>4, OthersConn
    <2> QED BY <2>1, <2>2, OthersKeep
  <1>9. ThreadInv(t)'
    BY CommandThread
  <1> QED BY <1>5, <1>7, <1>8, <1>9 DEF IInv

-----------------------------------------------------------------------------
(* Calls, waits and other processes.                                        *)

\* A thread without a connection moves between the steps before the first
\* command.
LEMMA WaitingKeeps ==
  ASSUME IInv, NEW t \in Threads, NEW p \in {"borrow", "waiting"},
         pc[t] \in {"idle", "borrow", "waiting"}, pc' = [pc EXCEPT ![t] = p],
         NEW w \in Request, call' = [call EXCEPT ![t] = w],
         NEW n \in 0..MaxCalls, calls' = [calls EXCEPT ![t] = n],
         UNCHANGED <<serverVars, poolVars, conn, success, met, seen, foreign>>
  PROVE  IInv'
  <1>1. TypeOK'
    BY DEF IInv, TypeOK, serverVars, poolVars, Pcs
  <1>2. Connecting' = Connecting
    BY DEF Connecting, IInv, TypeOK
  <1>3. CountsConnections' /\ PoolDistinct'
    BY <1>2, AccountsStay DEF IInv, poolVars
  <1>4. ASSUME NEW u \in Threads \ {t}
        PROVE  ThreadInv(u)'
    <2>1. Stays(u)
      BY DEF Stays, IInv, TypeOK
    <2>2. Undisturbed(conn[u])
      BY DEF Undisturbed, serverVars
    <2> QED BY <2>1, <2>2, OthersKeep
  <1>5. ThreadInv(t)'
    <2>1. pc'[t] = p /\ call'[t] = w /\ conn'[t] = Nil
      BY DEF IInv, TypeOK, ThreadInv, Borrowed, Commands
    <2> QED BY <2>1 DEF ThreadInv, Borrowed, Requested, Watched, Commands
  <1> QED BY <1>1, <1>3, <1>4, <1>5 DEF IInv

LEMMA CallKeeps ==
  ASSUME IInv, NEW t \in Threads,
         (\E w \in Calls[t] : Begin(t, w)) \/ BorrowWaits(t) \/ WaitTimesOut(t)
  PROVE  IInv'
  <1>1. ASSUME NEW w \in Calls[t], Begin(t, w)
        PROVE  IInv'
    <2>1. w \in Request
      BY CallsAssumption
    <2>2. calls[t] + 1 \in 0..MaxCalls
      BY <1>1, BoundsAssumption DEF Begin, IInv, TypeOK
    <2>3. calls' = [calls EXCEPT ![t] = calls[t] + 1]
      BY <1>1 DEF Begin
    <2> QED BY <1>1, <2>1, <2>2, <2>3, WaitingKeeps DEF Begin
  <1>2. CASE BorrowWaits(t) \/ WaitTimesOut(t)
    <2>1. /\ pc[t] \in {"borrow", "waiting"}
          /\ UNCHANGED <<serverVars, poolVars, call, conn, success, met, seen, calls, foreign>>
          /\ \E p \in {"borrow", "waiting"} : pc' = [pc EXCEPT ![t] = p]
      BY <1>2 DEF BorrowWaits, WaitTimesOut, TimesOut, boundVars
    <2>2. call[t] \in Request /\ call' = [call EXCEPT ![t] = call[t]]
      BY <2>1 DEF IInv, TypeOK, ThreadInv, Requested
    <2>3. calls[t] \in 0..MaxCalls /\ calls' = [calls EXCEPT ![t] = calls[t]]
      BY <2>1 DEF IInv, TypeOK
    <2> QED BY <2>1, <2>2, <2>3, WaitingKeeps
  <1> QED BY <1>1, <1>2

LEMMA ForeignKeeps ==
  ASSUME IInv, NEW w \in Foreign, ForeignWrite(w)
  PROVE  IInv'
  <1>1. ServerType' /\ \A d \in Conns : Undisturbed(d)
    BY ForeignServer, ServerTyped DEF IInv, Undisturbed
  <1>2. UNCHANGED <<poolVars, threadVars, calls>> /\ foreign' \in 0..MaxForeign
    BY BoundsAssumption DEF ForeignWrite, IInv, TypeOK
  <1>3. TypeOK'
    BY <1>1, <1>2 DEF IInv, TypeOK, ServerType, Sessions, poolVars, threadVars
  <1>4. CountsConnections' /\ PoolDistinct'
    BY <1>2, AccountsStay DEF IInv, poolVars, threadVars, Connecting
  <1>5. ASSUME NEW u \in Threads
        PROVE  ThreadInv(u)'
    <2>1. Stays(u)
      BY <1>2 DEF Stays, threadVars
    <2>2. conn[u] # Nil => Undisturbed(conn[u])
      BY <1>1 DEF IInv, TypeOK
    <2> QED BY <2>1, <2>2, OthersKeep
  <1> QED BY <1>3, <1>4, <1>5 DEF IInv

-----------------------------------------------------------------------------
(* borrowConnection and returnConnection.                                   *)

\* Counting the threads of a set that one thread enters or leaves.
LEMMA OneMore ==
  ASSUME NEW S, IsFiniteSet(S), NEW t, t \notin S
  PROVE  Cardinality(S \cup {t}) = Cardinality(S) + 1 /\ Cardinality(S) \in Nat
  BY FS_AddElement, FS_CardinalityType

LEMMA OneLess ==
  ASSUME NEW S, IsFiniteSet(S), NEW t \in S
  PROVE  Cardinality(S \ {t}) = Cardinality(S) - 1 /\ Cardinality(S) \in Nat \ {0}
  BY FS_RemoveElement, FS_CardinalityType, FS_EmptySet

\* A thread that has just got connection c sends its first command on it.
LEMMA StartThread ==
  ASSUME IInv, NEW t \in Threads, pc[t] \in {"borrow", "connecting"}, NEW c \in Conns,
         pc' = [pc EXCEPT ![t] = First(call[t])], conn' = [conn EXCEPT ![t] = c],
         UNCHANGED call
  PROVE  /\ ThreadInv(t)'
         /\ pc' \in [Threads -> Pcs] /\ conn' \in [Threads -> Conns \cup {Nil}]
         /\ First(call[t]) \in Commands
  <1>1. call[t] \in Request
    BY DEF IInv, ThreadInv, Requested
  <1>2. /\ First(call[t]) \in {"GET", "GETALL", "EXISTS", "WATCH", "MULTI"}
        /\ First(call[t]) = "WATCH" => call[t] \in Write /\ call[t].op = "upsert"
        /\ First(call[t]) = "MULTI" => call[t] \in Write /\ call[t].op = "init"
    BY <1>1, FirstCommand
  <1>3. pc'[t] = First(call[t]) /\ conn'[t] = c /\ call'[t] = call[t]
    BY DEF IInv, TypeOK
  <1>4. ThreadInv(t)'
    BY <1>1, <1>2, <1>3, NilAssumption DEF ThreadInv, Borrowed, Requested, Watched, Commands
  <1>5. First(call[t]) \in Commands
    BY <1>2 DEF Commands
  <1> QED BY <1>4, <1>5 DEF IInv, TypeOK, Pcs

LEMMA BorrowPooledKeeps ==
  ASSUME IInv, NEW t \in Threads, BorrowPooled(t)
  PROVE  IInv'
  <1> DEFINE c == Head(pool)
  <1>1. /\ pc[t] = "borrow" /\ pool # <<>> /\ pool \in Seq(Conns)
        /\ conn' = [conn EXCEPT ![t] = c] /\ pool' = Tail(pool)
        /\ pc' = [pc EXCEPT ![t] = First(call[t])]
        /\ UNCHANGED <<serverVars, count, broken, call, success, met, seen, boundVars>>
    BY DEF BorrowPooled, IInv, TypeOK
  <1>2. /\ Len(pool) \in Nat \ {0} /\ DOMAIN pool = 1..Len(pool) /\ c = pool[1] /\ c \in Conns
        /\ pool' \in Seq(Conns) /\ Len(pool') = Len(pool) - 1
        /\ DOMAIN pool' = 1..(Len(pool) - 1)
        /\ \A i \in DOMAIN pool' : i + 1 \in DOMAIN pool /\ pool'[i] = pool[i + 1]
    BY <1>1
  <1> HIDE DEF c
  <1>3. /\ ThreadInv(t)' /\ First(call[t]) \in Commands
        /\ pc' \in [Threads -> Pcs] /\ conn' \in [Threads -> Conns \cup {Nil}]
    BY <1>1, <1>2, StartThread
  <1>4. TypeOK'
    BY <1>1, <1>2, <1>3 DEF IInv, TypeOK, serverVars, boundVars
  <1>5. conn[t] = Nil /\ conn'[t] = c /\ \A u \in Threads \ {t} : conn'[u] = conn[u]
    BY <1>1 DEF IInv, TypeOK, ThreadInv, Borrowed, Commands
  <1>6. Borrowers' = Borrowers \cup {t} /\ t \notin Borrowers
    BY <1>2, <1>5, NilAssumption DEF Borrowers
  <1>7. Connecting' = Connecting
    BY <1>1, <1>3 DEF Connecting, Commands, IInv, TypeOK
  <1>8. count' = Len(pool') + Cardinality(Borrowers') + Cardinality(Connecting')
    <2>1. Cardinality(Borrowers') = Cardinality(Borrowers) + 1
      BY <1>6, BorrowersFinite, OneMore
    <2>2. count = Len(pool) + Cardinality(Borrowers) + Cardinality(Connecting)
      BY CountIs DEF IInv
    <2> QED BY <1>1, <1>2, <1>7, <2>1, <2>2, BorrowersFinite
  <1>9. \A u \in Threads : conn[u] # c
    BY <1>2 DEF IInv, CountsConnections
  <1>10. \A u, v \in Threads : u # v /\ conn'[u] # Nil => conn'[u] # conn'[v]
    BY <1>2, <1>5, <1>9, NilAssumption DEF IInv, CountsConnections
  <1>11. PoolDistinct'
    BY <1>2 DEF IInv, PoolDistinct
  <1>12. \A i \in DOMAIN pool' : /\ pool'[i] \in Conns \ broken
                                 /\ \A u \in Threads : conn'[u] # pool'[i]
    <2> SUFFICES ASSUME NEW i \in DOMAIN pool'
                 PROVE  /\ pool'[i] \in Conns \ broken
                        /\ \A u \in Threads : conn'[u] # pool'[i]
      OBVIOUS
    <2>1. i + 1 \in DOMAIN pool /\ pool'[i] = pool[i + 1] /\ i + 1 # 1
      BY <1>2
    <2>2. pool[i + 1] # c
      BY <1>2, <2>1 DEF IInv, PoolDistinct
    <2> QED BY <1>5, <2>1, <2>2 DEF IInv, CountsConnections
  <1>13. CountsConnections'
    BY <1>1, <1>8, <1>10, <1>12 DEF CountsConnections, Borrowers, Connecting
  <1>14. ASSUME NEW u \in Threads \ {t}
         PROVE  ThreadInv(u)'
    <2>1. Stays(u) /\ Undisturbed(conn[u])
      BY <1>1, <1>5 DEF Stays, Undisturbed, serverVars, IInv, TypeOK
    <2> QED BY <2>1, OthersKeep
  <1> QED BY <1>3, <1>4, <1>11, <1>13, <1>14 DEF IInv

LEMMA BorrowNewKeeps ==
  ASSUME IInv, NEW t \in Threads, BorrowNew(t)
  PROVE  IInv'
  <1>1. /\ pc[t] = "borrow" /\ count < PoolSize /\ count' = count + 1
        /\ pc' = [pc EXCEPT ![t] = "connecting"]
        /\ UNCHANGED <<serverVars, pool, broken, call, conn, success, met, seen, boundVars>>
    BY DEF BorrowNew, HasRoom
  <1>2. count \in Nat /\ PoolSize \in Nat /\ Len(pool) \in Nat
    BY PoolAssumption DEF IInv, TypeOK
  <1>3. TypeOK'
    BY <1>1, <1>2 DEF IInv, TypeOK, serverVars, boundVars, Pcs
  <1>4. Connecting' = Connecting \cup {t} /\ t \notin Connecting
    BY <1>1 DEF Connecting, IInv, TypeOK
  <1>5. Borrowers' = Borrowers
    BY <1>1 DEF Borrowers
  <1>6. count' = Len(pool') + Cardinality(Borrowers') + Cardinality(Connecting')
    <2>1. Cardinality(Connecting') = Cardinality(Connecting) + 1
      BY <1>4, BorrowersFinite, OneMore
    <2>2. count = Len(pool) + Cardinality(Borrowers) + Cardinality(Connecting)
      BY CountIs DEF IInv
    <2> QED BY <1>1, <1>2, <1>5, <2>1, <2>2, BorrowersFinite
  <1>7. CountsConnections' /\ PoolDistinct'
    BY <1>1, <1>6 DEF IInv, CountsConnections, PoolDistinct, Borrowers, Connecting
  <1>8. ASSUME NEW u \in Threads \ {t}
        PROVE  ThreadInv(u)'
    <2>1. Stays(u) /\ Undisturbed(conn[u])
      BY <1>1 DEF Stays, Undisturbed, serverVars, IInv, TypeOK
    <2> QED BY <2>1, OthersKeep
  <1>9. ThreadInv(t)'
    <2>1. pc'[t] = "connecting" /\ call'[t] = call[t] /\ conn'[t] = Nil /\ call[t] \in Request
      BY <1>1 DEF IInv, TypeOK, ThreadInv, Borrowed, Requested, Commands
    <2> QED BY <2>1 DEF ThreadInv, Borrowed, Requested, Watched, Commands
  <1> QED BY <1>3, <1>7, <1>8, <1>9 DEF IInv

LEMMA ConnectKeeps ==
  ASSUME IInv, NEW t \in Threads, Connect(t)
  PROVE  IInv'
  <1> DEFINE c == CHOOSE c \in Unused : TRUE
  <1>1. /\ pc[t] = "connecting" /\ conn' = [conn EXCEPT ![t] = c]
        /\ session' = [session EXCEPT ![c] = Fresh]
        /\ pc' = [pc EXCEPT ![t] = First(call[t])]
        /\ UNCHANGED <<data, inited, poolVars, call, success, met, seen, boundVars>>
    BY DEF Connect
  <1>2. c \in Unused
    BY <1>1, UnusedLeft DEF IInv
  <1> HIDE DEF c
  <1>3. c \in Conns /\ (\A u \in Threads : conn[u] # c) /\ \A i \in DOMAIN pool : pool[i] # c
    BY <1>2 DEF Unused
  <1>4. /\ ThreadInv(t)' /\ First(call[t]) \in Commands
        /\ pc' \in [Threads -> Pcs] /\ conn' \in [Threads -> Conns \cup {Nil}]
    BY <1>1, <1>3, StartThread
  <1>5. ServerType' /\ \A d \in Conns \ {c} : Undisturbed(d)
    BY <1>1, <1>3, SessionStep, FreshType, ServerTyped DEF IInv
  <1>6. TypeOK'
    BY <1>1, <1>4, <1>5 DEF IInv, TypeOK, ServerType, Sessions, poolVars, boundVars
  <1>7. conn[t] = Nil /\ conn'[t] = c /\ \A u \in Threads \ {t} : conn'[u] = conn[u]
    BY <1>1 DEF IInv, TypeOK, ThreadInv, Borrowed, Commands
  <1>8. Borrowers' = Borrowers \cup {t} /\ t \notin Borrowers
    BY <1>3, <1>7, NilAssumption DEF Borrowers
  <1>9. Connecting' = Connecting \ {t} /\ t \in Connecting
    BY <1>1, <1>4 DEF Connecting, Commands, IInv, TypeOK
  <1>10. count' = Len(pool') + Cardinality(Borrowers') + Cardinality(Connecting')
    <2>1. Cardinality(Borrowers') = Cardinality(Borrowers) + 1
      BY <1>8, BorrowersFinite, OneMore
    <2>2. Cardinality(Connecting') = Cardinality(Connecting) - 1
      BY <1>9, BorrowersFinite, OneLess
    <2>3. count = Len(pool) + Cardinality(Borrowers) + Cardinality(Connecting)
      BY CountIs DEF IInv
    <2>4. Len(pool) \in Nat /\ pool' = pool /\ count' = count
      BY <1>1 DEF IInv, TypeOK, poolVars
    <2> QED BY <2>1, <2>2, <2>3, <2>4, BorrowersFinite
  <1>11. \A u, v \in Threads : u # v /\ conn'[u] # Nil => conn'[u] # conn'[v]
    BY <1>3, <1>7 DEF IInv, CountsConnections
  <1>12. PoolDistinct'
    BY <1>1 DEF IInv, PoolDistinct, poolVars
  <1>13. \A i \in DOMAIN pool : /\ pool[i] \in Conns \ broken
                                /\ \A u \in Threads : conn'[u] # pool[i]
    BY <1>3, <1>7 DEF IInv, CountsConnections
  <1>14. CountsConnections'
    BY <1>1, <1>10, <1>11, <1>13 DEF CountsConnections, Borrowers, Connecting, poolVars
  <1>15. ASSUME NEW u \in Threads \ {t}
         PROVE  ThreadInv(u)'
    <2>1. Stays(u)
      BY <1>1, <1>7 DEF Stays, IInv, TypeOK
    <2>2. conn[u] # Nil => Undisturbed(conn[u])
      BY <1>3, <1>5 DEF IInv, TypeOK
    <2> QED BY <2>1, <2>2, OthersKeep
  <1> QED BY <1>4, <1>6, <1>12, <1>14, <1>15 DEF IInv

\* The operation is over: the thread has no connection and no request.
LEMMA LeaveThread ==
  ASSUME IInv, NEW t \in Threads, Leave(t), pc'[t] = "idle", conn'[t] = Nil
  PROVE  /\ ThreadInv(t)'
         /\ call' \in [Threads -> Request \cup {NoRequest}]
         /\ success' \in [Threads -> BOOLEAN] /\ met' \in [Threads -> BOOLEAN]
         /\ seen' \in [Threads -> Item \cup {Nil}]
  <1>1. NoRequest.op = "none"
    BY DEF NoRequest
  <1>2. \A w \in Write : w.op \in {"upsert", "init"}
    BY DEF Write
  <1>3. call'[t] = NoRequest
    BY DEF Leave, IInv, TypeOK
  <1>4. ThreadInv(t)'
    BY <1>1, <1>2, <1>3 DEF ThreadInv, Borrowed, Requested, Watched, Commands
  <1> QED BY <1>4 DEF Leave, IInv, TypeOK

LEMMA ConnectFailsKeeps ==
  ASSUME IInv, NEW t \in Threads, ConnectFails(t)
  PROVE  IInv'
  <1>1. /\ pc[t] = "connecting" /\ count' = count - 1 /\ pc' = [pc EXCEPT ![t] = "idle"]
        /\ Leave(t) /\ UNCHANGED <<serverVars, pool, broken, conn, boundVars>>
    BY DEF ConnectFails
  <1>2. count \in Nat /\ PoolSize \in Nat /\ Len(pool) \in Nat /\ count <= PoolSize
    BY PoolAssumption DEF IInv, TypeOK
  <1>3. Connecting' = Connecting \ {t} /\ t \in Connecting
    BY <1>1 DEF Connecting, IInv, TypeOK
  <1>4. Borrowers' = Borrowers
    BY <1>1 DEF Borrowers
  <1>5. /\ count' = Len(pool') + Cardinality(Borrowers') + Cardinality(Connecting')
        /\ count' \in 0..PoolSize
    <2>1. /\ Cardinality(Connecting') = Cardinality(Connecting) - 1
          /\ Cardinality(Connecting) \in Nat \ {0}
      BY <1>3, BorrowersFinite, OneLess
    <2>2. count = Len(pool) + Cardinality(Borrowers) + Cardinality(Connecting)
      BY CountIs DEF IInv
    <2> QED BY <1>1, <1>2, <1>4, <2>1, <2>2, BorrowersFinite
  <1>6. pc'[t] = "idle" /\ conn'[t] = Nil
    BY <1>1 DEF IInv, TypeOK, ThreadInv, Borrowed, Commands
  <1>7. /\ ThreadInv(t)' /\ call' \in [Threads -> Request \cup {NoRequest}]
        /\ success' \in [Threads -> BOOLEAN] /\ met' \in [Threads -> BOOLEAN]
        /\ seen' \in [Threads -> Item \cup {Nil}]
    BY <1>1, <1>6, LeaveThread
  <1>8. TypeOK'
    BY <1>1, <1>5, <1>7 DEF IInv, TypeOK, serverVars, boundVars, Pcs
  <1>9. CountsConnections' /\ PoolDistinct'
    BY <1>1, <1>5 DEF IInv, CountsConnections, PoolDistinct, Borrowers, Connecting
  <1>10. ASSUME NEW u \in Threads \ {t}
         PROVE  ThreadInv(u)'
    <2>1. Stays(u) /\ Undisturbed(conn[u])
      BY <1>1 DEF Stays, Undisturbed, Leave, serverVars, IInv, TypeOK
    <2> QED BY <2>1, OthersKeep
  <1> QED BY <1>7, <1>8, <1>9, <1>10 DEF IInv

\* Whoever is signalled, the thread leaves and the others stay.
LEMMA SignalThreads ==
  ASSUME IInv, NEW t \in Threads, pc[t] = "return", Signal(t)
  PROVE  /\ pc' \in [Threads -> Pcs] /\ pc'[t] = "idle"
         /\ \A u \in Threads \ {t} :
              pc'[u] = pc[u] \/ (pc[u] = "waiting" /\ pc'[u] = "borrow")
  <1>1. pc \in [Threads -> Pcs]
    BY DEF IInv, TypeOK
  <1>2. CASE pc' = [pc EXCEPT ![t] = "idle"]
    BY <1>1, <1>2 DEF Pcs
  <1>3. ASSUME NEW w \in Waiting, pc' = [pc EXCEPT ![t] = "idle", ![w] = "borrow"]
        PROVE  /\ pc' \in [Threads -> Pcs] /\ pc'[t] = "idle"
               /\ \A u \in Threads \ {t} :
                    pc'[u] = pc[u] \/ (pc[u] = "waiting" /\ pc'[u] = "borrow")
    <2>1. w \in Threads /\ pc[w] = "waiting" /\ w # t
      BY DEF Waiting
    <2> QED BY <1>1, <1>3, <2>1 DEF Pcs
  <1> QED BY <1>2, <1>3 DEF Signal

LEMMA ReturnKeeps ==
  ASSUME IInv, NEW t \in Threads, returnConnection(t)
  PROVE  IInv'
  <1> DEFINE c == conn[t]
  <1>1. /\ pc[t] = "return" /\ conn' = [conn EXCEPT ![t] = Nil] /\ broken' = broken \ {c}
        /\ pool' = (IF c \in broken THEN pool ELSE <<c>> \o pool)
        /\ count' = (IF c \in broken THEN count - 1 ELSE count)
        /\ Signal(t) /\ Leave(t) /\ UNCHANGED <<serverVars, boundVars>>
    BY DEF returnConnection, CountAfter
  <1>2. c # Nil /\ c \in Conns
    BY <1>1 DEF IInv, TypeOK, ThreadInv, Borrowed
  <1>3. pool \in Seq(Conns) /\ count \in 0..PoolSize /\ PoolSize \in Nat /\ broken \subseteq Conns
    BY PoolAssumption DEF IInv, TypeOK
  <1>4. conn'[t] = Nil /\ \A u \in Threads \ {t} : conn'[u] = conn[u]
    BY <1>1 DEF IInv, TypeOK
  <1> HIDE DEF c
  <1>5. /\ pc' \in [Threads -> Pcs] /\ pc'[t] = "idle"
        /\ \A u \in Threads \ {t} :
             pc'[u] = pc[u] \/ (pc[u] = "waiting" /\ pc'[u] = "borrow")
    BY <1>1, SignalThreads
  <1>6. /\ ThreadInv(t)' /\ call' \in [Threads -> Request \cup {NoRequest}]
        /\ success' \in [Threads -> BOOLEAN] /\ met' \in [Threads -> BOOLEAN]
        /\ seen' \in [Threads -> Item \cup {Nil}]
    BY <1>1, <1>4, <1>5, LeaveThread
  <1>7. Connecting' = Connecting
    BY <1>1, <1>5 DEF Connecting
  <1>8. Borrowers' = Borrowers \ {t} /\ t \in Borrowers
    BY <1>2, <1>4 DEF Borrowers, c
  <1>9. pool' \in Seq(Conns) /\ Len(pool') = (IF c \in broken THEN Len(pool) ELSE Len(pool) + 1)
    BY <1>1, <1>2, <1>3
  <1>10. /\ count' = Len(pool') + Cardinality(Borrowers') + Cardinality(Connecting')
         /\ count' \in 0..PoolSize
    <2>1. /\ Cardinality(Borrowers') = Cardinality(Borrowers) - 1
          /\ Cardinality(Borrowers) \in Nat \ {0}
      BY <1>8, BorrowersFinite, OneLess
    <2>2. count = Len(pool) + Cardinality(Borrowers) + Cardinality(Connecting)
      BY CountIs DEF IInv
    <2>3. Len(pool) \in Nat
      BY <1>3
    <2> QED BY <1>1, <1>3, <1>7, <1>9, <2>1, <2>2, <2>3, BorrowersFinite
  <1>11. TypeOK'
    BY <1>1, <1>3, <1>5, <1>6, <1>9, <1>10, <1>2 DEF IInv, TypeOK, serverVars, boundVars
  <1>12. \A u, v \in Threads : u # v /\ conn'[u] # Nil => conn'[u] # conn'[v]
    BY <1>4 DEF IInv, CountsConnections
  <1>13. /\ \A i \in DOMAIN pool : pool[i] \in Conns \ broken /\ \A u \in Threads : conn[u] # pool[i]
         /\ \A u \in Threads \ {t} : conn[u] # c
    BY <1>2 DEF IInv, CountsConnections, c
  <1>14. /\ PoolDistinct'
         /\ \A i \in DOMAIN pool' : pool'[i] \in Conns \ broken' /\ \A u \in Threads : conn'[u] # pool'[i]
    <2>1. CASE c \in broken
      BY <1>1, <1>2, <1>4, <1>13, <2>1, NilAssumption DEF IInv, PoolDistinct
    <2>2. CASE c \notin broken
      <3>1. /\ DOMAIN pool' = 1..(Len(pool) + 1) /\ DOMAIN pool = 1..Len(pool) /\ Len(pool) \in Nat
            /\ pool'[1] = c
            /\ \A i \in DOMAIN pool' : i # 1 => i - 1 \in DOMAIN pool /\ pool'[i] = pool[i - 1]
        BY <1>1, <1>2, <1>3, <2>2
      <3>2. \A i \in DOMAIN pool : pool[i] # c
        BY <1>13 DEF c
      <3>3. ASSUME NEW i \in DOMAIN pool', NEW j \in DOMAIN pool', i # j
            PROVE  pool'[i] # pool'[j]
        <4>1. CASE i = 1 \/ j = 1
          BY <3>1, <3>2, <3>3, <4>1
        <4>2. CASE i # 1 /\ j # 1
          <5>1. i - 1 # j - 1 /\ i - 1 \in DOMAIN pool /\ j - 1 \in DOMAIN pool
            BY <3>1, <3>3, <4>2
          <5> QED BY <3>1, <4>2, <5>1 DEF IInv, PoolDistinct
        <4> QED BY <4>1, <4>2
      <3>4. ASSUME NEW i \in DOMAIN pool'
            PROVE  pool'[i] \in Conns \ broken' /\ \A u \in Threads : conn'[u] # pool'[i]
        <4>1. CASE i = 1
          BY <1>1, <1>2, <1>4, <1>13, <2>2, <3>1, <4>1
        <4>2. CASE i # 1
          BY <1>1, <1>2, <1>4, <1>13, <3>1, <4>2, NilAssumption
        <4> QED BY <4>1, <4>2
      <3> QED BY <3>3, <3>4 DEF PoolDistinct
    <2> QED BY <2>1, <2>2
  <1>15. CountsConnections'
    BY <1>10, <1>12, <1>14 DEF CountsConnections, Borrowers, Connecting
  <1>16. ASSUME NEW u \in Threads \ {t}
         PROVE  ThreadInv(u)'
    <2>1. call'[u] = call[u] /\ seen'[u] = seen[u]
      BY <1>1 DEF Leave, IInv, TypeOK
    <2>2. Stays(u) /\ Undisturbed(conn[u])
      BY <1>1, <1>4, <1>5, <2>1 DEF Stays, Undisturbed, serverVars
    <2> QED BY <2>2, OthersKeep
  <1> QED BY <1>6, <1>11, <1>14, <1>15, <1>16 DEF IInv

-----------------------------------------------------------------------------
(* The theorems.                                                            *)

LEMMA InitIInv == Init => IInv
  <1> SUFFICES ASSUME Init
               PROVE  IInv
    OBVIOUS
  <1>1. TypeOK
    <2>1. ServerType
      BY FreshType DEF Init, ServerType, Data
    <2>2. /\ pool \in Seq(Conns) /\ count \in 0..PoolSize /\ broken \subseteq Conns
          /\ calls \in [Threads -> 0..MaxCalls] /\ foreign \in 0..MaxForeign
      BY PoolAssumption, BoundsAssumption DEF Init
    <2>3. /\ pc \in [Threads -> Pcs] /\ call \in [Threads -> Request \cup {NoRequest}]
          /\ conn \in [Threads -> Conns \cup {Nil}]
          /\ success \in [Threads -> BOOLEAN] /\ met \in [Threads -> BOOLEAN]
          /\ seen \in [Threads -> Item \cup {Nil}]
      BY DEF Init, Pcs
    <2> QED BY <2>1, <2>2, <2>3 DEF TypeOK, ServerType, Sessions
  <1>2. pool = <<>> /\ DOMAIN pool = {} /\ Len(pool) = 0
    BY DEF Init
  <1>3. PoolDistinct
    BY <1>2 DEF PoolDistinct
  <1>4. Borrowers = {} /\ Connecting = {}
    BY DEF Init, Borrowers, Connecting
  <1>5. count = Len(pool) + Cardinality(Borrowers) + Cardinality(Connecting)
    BY <1>2, <1>4, FS_EmptySet DEF Init
  <1>6. CountsConnections
    BY <1>2, <1>5 DEF Init, CountsConnections, Borrowers, Connecting
  <1>7. \A w \in Write : w.op \in {"upsert", "init"}
    BY DEF Write
  <1>8. \A t \in Threads : ThreadInv(t)
    <2> SUFFICES ASSUME NEW t \in Threads
                 PROVE  ThreadInv(t)
      OBVIOUS
    <2>1. pc[t] = "idle" /\ conn[t] = Nil /\ call[t] \notin Write
      BY <1>7 DEF Init, NoRequest
    <2> QED BY <2>1 DEF ThreadInv, Borrowed, Requested, Watched, Commands
  <1> QED BY <1>1, <1>3, <1>6, <1>8 DEF IInv

LEMMA StepIInv == IInv /\ [Next]_vars => IInv'
  <1> SUFFICES ASSUME IInv, [Next]_vars
               PROVE  IInv'
    OBVIOUS
  <1>1. ASSUME NEW t \in Threads, (\E w \in Calls[t] : Begin(t, w)) \/ WaitTimesOut(t)
        PROVE  IInv'
    BY <1>1, CallKeeps
  <1>2. ASSUME NEW t \in Threads, ThreadStep(t)
        PROVE  IInv'
    BY <1>2, CallKeeps, BorrowPooledKeeps, BorrowNewKeeps, ConnectKeeps, ConnectFailsKeeps,
       CommandKeeps, ReturnKeeps DEF ThreadStep, Borrow
  <1>3. ASSUME NEW w \in Foreign, ForeignWrite(w)
        PROVE  IInv'
    BY <1>3, ForeignKeeps
  <1>4. CASE UNCHANGED vars
    <2>1. /\ UNCHANGED <<data, inited, session, pool, count, broken>>
          /\ UNCHANGED <<pc, call, conn, success, met, seen, calls, foreign>>
      BY <1>4 DEF vars, serverVars, poolVars, threadVars, boundVars
    <2>2. TypeOK'
      BY <2>1 DEF IInv, TypeOK
    <2>3. CountsConnections' /\ PoolDistinct'
      BY <2>1, AccountsStay DEF IInv, Connecting
    <2>4. \A u \in Threads : ThreadInv(u)'
      BY <2>1, OthersKeep DEF Stays, Undisturbed
    <2> QED BY <2>2, <2>3, <2>4 DEF IInv
  <1> QED BY <1>1, <1>2, <1>3, <1>4 DEF Next

LEMMA IInvHolds == Spec => []IInv
  BY InitIInv, StepIInv, PTL DEF Spec

\* Every variable keeps its type; the count stays between 0 and the size of
\* the pool, so that it cannot wrap.
THEOREM TypeCorrect == Spec => []TypeOK
  <1>1. IInv => TypeOK
    BY DEF IInv
  <1> QED BY <1>1, IInvHolds, PTL

\* Whatever connects, links and commands fail, in any order, the count is the
\* number of connections open or being opened, none is lost from it and none
\* has two users.
THEOREM ConnectionsCounted == Spec => []CountsConnections
  <1>1. IInv => CountsConnections
    BY DEF IInv
  <1> QED BY <1>1, IInvHolds, PTL

\* The optimistic lock keeps its promise: an upsert whose EXEC takes effect
\* replaces exactly what its HGET has read, and no live item of the same or a
\* later version, whatever threads and other processes wrote between the two.
THEOREM UpsertReplacesRead == Spec => UpsertsWhatItRead
  <1> DEFINE old(t) == data[call[t].key]
             Locked == \A t \in Threads :
               pc[t] = "EXEC" /\ pc'[t] # "EXEC" /\ call[t].op = "upsert" /\ data' # data
                 => /\ old(t) = seen[t]
                    /\ old(t) = Nil \/ old(t).deleted \/ old(t).version < call[t].item.version
  <1>1. IInv /\ [Next]_vars => [Locked]_vars
    <2> SUFFICES ASSUME IInv, Next, NEW t \in Threads,
                        pc[t] = "EXEC", pc'[t] # "EXEC", call[t].op = "upsert", data' # data
                 PROVE  /\ old(t) = seen[t]
                        /\ old(t) = Nil \/ old(t).deleted \/ old(t).version < call[t].item.version
      OBVIOUS
    <2>1. /\ call[t] \in Write
          /\ Mine(t).touched \/ AsRead(t)
      BY DEF IInv, ThreadInv, Requested, Watched
    <2>2. ASSUME NEW u \in Threads, u # t
          PROVE  ~ThreadStep(u)
      <3> SUFFICES ASSUME ThreadStep(u)
                   PROVE  pc'[t] = "EXEC"
        OBVIOUS
      <3>1. CASE Borrow(u)
        BY <2>2, <3>1 DEF Borrow, BorrowPooled, BorrowNew, BorrowWaits, Connect, ConnectFails, IInv, TypeOK
      <3>2. CASE Command(u)
        BY <2>2, <3>2, CommandFrame DEF IInv, TypeOK
      <3>3. CASE returnConnection(u)
        BY <2>2, <3>3, SignalThreads DEF returnConnection
      <3> QED BY <3>1, <3>2, <3>3 DEF ThreadStep
    <2>3. \A u \in Threads : ~WaitTimesOut(u) /\ \A w \in Calls[u] : ~Begin(u, w)
      BY DEF WaitTimesOut, Begin, serverVars
    <2>4. \A w \in Foreign : ~ForeignWrite(w)
      BY DEF ForeignWrite, threadVars
    <2>5. Command(t)
      BY <2>2, <2>3, <2>4 DEF Next, ThreadStep, Borrow, BorrowPooled, BorrowNew, BorrowWaits,
         Connect, ConnectFails, returnConnection
    <2>6. ~Mine(t).touched
      BY <2>5 DEF Command, Get, Exists, Watch, Hget, Multi, Queue, ExecDone, ExecNil, LinkLost,
         AllCrashes, ErrorReply, serverVars
    <2>7. old(t) = seen[t] /\ ~Outdated(call[t])
      BY <2>1, <2>6 DEF AsRead
    <2>8. CASE old(t) # Nil
      <3>1. call[t].key \in Keys /\ call[t].item.version \in Nat
        BY <2>1, RequestOps, VersionsAssumption DEF Request, Item
      <3>2. old(t).version \in Nat
        BY <2>8, <3>1, VersionsAssumption DEF IInv, TypeOK, Data, Item
      <3> QED BY <2>7, <2>8, <3>1, <3>2 DEF Outdated
    <2> QED BY <2>7, <2>8
  <1> QED BY <1>1, IInvHolds, PTL DEF Spec, UpsertsWhatItRead

=============================================================================
