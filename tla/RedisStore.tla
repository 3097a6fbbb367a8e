----------------------------- MODULE RedisStore -----------------------------
(***************************************************************************)
(* The redis store of stores/redis/src/redis.c: its pool of connections    *)
(* and the commands of its operations, against a redis server (external)   *)
(* that other processes write to.                                          *)
(*                                                                         *)
(* Every redisCommand is one step of the server.  The server keeps for     *)
(* each connection whether it watches the hash, whether the hash changed   *)
(* since, whether a MULTI is open and what is queued in it.  A command may *)
(* meet a lost link (redisCommand returns NULL and connection->err is set) *)
(* or an error reply, which leaves the connection as good as it was.       *)
(* The hashes of the kinds are independent; the model has one.             *)
(***************************************************************************)
EXTENDS Naturals, Sequences, FiniteSets

CONSTANTS
    Threads,   \* threads that call the store
    Calls,     \* the requests each of them makes
    Foreign,   \* the writes that other processes make
    Keys,      \* keys of items
    Versions,  \* versions of items
    PoolSize,  \* config->poolSize
    Conns,     \* identities of connections
    Faults,    \* what may go wrong: connect, link, reply
    MaxCalls,  \* bound: calls of each thread
    MaxForeign,\* bound: writes of other processes
    Nil        \* nothing

ASSUME VersionsAssumption == Versions \subseteq Nat
ASSUME PoolAssumption ==
    PoolSize \in Nat \ {0} /\ IsFiniteSet(Conns) /\ PoolSize <= Cardinality(Conns)
ASSUME FaultsAssumption == Faults \subseteq {"connect", "link", "reply"}
ASSUME BoundsAssumption == MaxCalls \in Nat /\ MaxForeign \in Nat
ASSUME ThreadsAssumption == IsFiniteSet(Threads)
ASSUME NilAssumption == Nil \notin Conns

Item == [version : Versions, deleted : BOOLEAN]
Data == [Keys -> Item \cup {Nil}]

\* What a MULTI queues: the HSET of an upsert, or the DEL, HSETs and SET of an
\* init.
Write == [op : {"upsert"}, key : Keys, item : Item] \cup [op : {"init"}, data : Data]

Request == Write \cup [op : {"get", "all", "initialized"}]
NoRequest == [op |-> "none"]

ASSUME CallsAssumption == Calls \in [Threads -> SUBSET Request]
ASSUME ForeignAssumption == Foreign \subseteq Write

VARIABLES
    data,    \* external: the hash
    inited,  \* external: the key $inited exists
    session, \* external: the server's side of each connection
    pool,    \* context->connections, the first one first
    count,   \* context->count
    broken,  \* connections with connection->err
    pc,      \* where each thread is
    call,    \* what it was called for
    conn,    \* the connection it has borrowed
    success, \* the result it is about to return
    met,     \* history: the call met a lost link or an error reply
    seen,    \* history: what the HGET of its upsert read
    calls,   \* bound: calls made
    foreign  \* bound: writes made by other processes

serverVars == <<data, inited, session>>
poolVars == <<pool, count, broken>>
threadVars == <<pc, call, conn, success, met, seen>>
boundVars == <<calls, foreign>>
vars == <<serverVars, poolVars, threadVars, boundVars>>

Fresh == [watching |-> FALSE, touched |-> FALSE, multi |-> FALSE, queue |-> Nil]

Commands == {"GET", "GETALL", "EXISTS", "WATCH", "HGET", "MULTI", "QUEUE", "EXEC"}
Pcs == {"idle", "borrow", "connecting", "waiting", "return", "crashed"} \cup Commands

TypeOK ==
    /\ data \in Data
    /\ inited \in BOOLEAN
    /\ session \in [Conns -> [watching : BOOLEAN, touched : BOOLEAN,
                              multi : BOOLEAN, queue : Write \cup {Nil}]]
    /\ pool \in Seq(Conns)
    /\ count \in 0..PoolSize
    /\ broken \subseteq Conns
    /\ pc \in [Threads -> Pcs]
    /\ call \in [Threads -> Request \cup {NoRequest}]
    /\ conn \in [Threads -> Conns \cup {Nil}]
    /\ success \in [Threads -> BOOLEAN]
    /\ met \in [Threads -> BOOLEAN]
    /\ seen \in [Threads -> Item \cup {Nil}]
    /\ calls \in [Threads -> 0..MaxCalls]
    /\ foreign \in 0..MaxForeign

Init ==
    /\ data = [k \in Keys |-> Nil]
    /\ inited = FALSE
    /\ session = [c \in Conns |-> Fresh]
    /\ pool = <<>>
    /\ count = 0
    /\ broken = {}
    /\ pc = [t \in Threads |-> "idle"]
    /\ call = [t \in Threads |-> NoRequest]
    /\ conn = [t \in Threads |-> Nil]
    /\ success = [t \in Threads |-> FALSE]
    /\ met = [t \in Threads |-> FALSE]
    /\ seen = [t \in Threads |-> Nil]
    /\ calls = [t \in Threads |-> 0]
    /\ foreign = 0

-----------------------------------------------------------------------------
(* A call begins.                                                           *)

\* A thread that crashes takes the process with it.
Alive == \A t \in Threads : pc[t] # "crashed"

\* The first command of each operation.
First(w) ==
    CASE w.op = "get" -> "GET"
      [] w.op = "all" -> "GETALL"
      [] w.op = "initialized" -> "EXISTS"
      [] w.op = "upsert" -> "WATCH"
      [] w.op = "init" -> "MULTI"

Begin(t, w) ==
    /\ Alive /\ pc[t] = "idle"
    /\ calls[t] < MaxCalls
    /\ pc' = [pc EXCEPT ![t] = "borrow"]
    /\ call' = [call EXCEPT ![t] = w]
    /\ calls' = [calls EXCEPT ![t] = @ + 1]
    /\ UNCHANGED <<serverVars, poolVars, conn, success, met, seen, foreign>>

\* The operation returns to its caller.
Leave(t) ==
    /\ call' = [call EXCEPT ![t] = NoRequest]
    /\ success' = [success EXCEPT ![t] = FALSE]
    /\ met' = [met EXCEPT ![t] = FALSE]
    /\ seen' = [seen EXCEPT ![t] = Nil]

-----------------------------------------------------------------------------
(* borrowConnection.                                                        *)

Waiting == {t \in Threads : pc[t] = "waiting"}
Unused == {c \in Conns : \A t \in Threads : conn[t] # c}
            \ {pool[i] : i \in DOMAIN pool}

HasRoomForOneMore == count <= PoolSize

HasRoom == count < PoolSize

BorrowPooled(t) ==
    /\ pc[t] = "borrow"
    /\ pool # <<>>
    /\ conn' = [conn EXCEPT ![t] = Head(pool)]
    /\ pool' = Tail(pool)
    /\ pc' = [pc EXCEPT ![t] = First(call[t])]
    /\ UNCHANGED <<serverVars, count, broken, call, success, met, seen, boundVars>>

\* "pre increment before attempt"
BorrowNew(t) ==
    /\ pc[t] = "borrow"
    /\ pool = <<>> /\ HasRoom
    /\ count' = count + 1
    /\ pc' = [pc EXCEPT ![t] = "connecting"]
    /\ UNCHANGED <<serverVars, pool, broken, call, conn, success, met, seen, boundVars>>

BorrowWaits(t) ==
    /\ pc[t] = "borrow"
    /\ pool = <<>> /\ ~HasRoom
    /\ pc' = [pc EXCEPT ![t] = "waiting"]
    /\ UNCHANGED <<serverVars, poolVars, call, conn, success, met, seen, boundVars>>

TimesOutNever(t) == FALSE

\* LDi_cond_wait gives up after ten seconds, and the loop looks again.
TimesOut(t) == pc[t] = "waiting"

WaitTimesOut(t) ==
    /\ Alive /\ TimesOut(t)
    /\ pc' = [pc EXCEPT ![t] = "borrow"]
    /\ UNCHANGED <<serverVars, poolVars, call, conn, success, met, seen, boundVars>>

Connect(t) ==
    /\ pc[t] = "connecting"
    /\ LET c == CHOOSE c \in Unused : TRUE
       IN  /\ conn' = [conn EXCEPT ![t] = c]
           /\ session' = [session EXCEPT ![c] = Fresh]
    /\ pc' = [pc EXCEPT ![t] = First(call[t])]
    /\ UNCHANGED <<data, inited, poolVars, call, success, met, seen, boundVars>>

\* The count goes down again, and nobody is told.
ConnectFails(t) ==
    /\ pc[t] = "connecting"
    /\ "connect" \in Faults
    /\ count' = count - 1
    /\ pc' = [pc EXCEPT ![t] = "idle"]
    /\ Leave(t)
    /\ UNCHANGED <<serverVars, pool, broken, conn, boundVars>>

-----------------------------------------------------------------------------
(* returnConnection.                                                        *)

\* LDi_cond_signal wakes one of the waiting threads.
Signal(t) ==
    \/ Waiting = {} /\ pc' = [pc EXCEPT ![t] = "idle"]
    \/ \E w \in Waiting : pc' = [pc EXCEPT ![t] = "idle", ![w] = "borrow"]

CountKept(t) == count

\* A connection with an error is freed.
CountAfter(t) == IF conn[t] \in broken THEN count - 1 ELSE count

returnConnection(t) ==
    /\ pc[t] = "return"
    /\ pool' = IF conn[t] \in broken THEN pool ELSE <<conn[t]>> \o pool
    /\ count' = CountAfter(t)
    /\ broken' = broken \ {conn[t]}
    /\ conn' = [conn EXCEPT ![t] = Nil]
    /\ Signal(t)
    /\ Leave(t)
    /\ UNCHANGED <<serverVars, boundVars>>

-----------------------------------------------------------------------------
(* Commands.                                                                *)

Mine(t) == session[conn[t]]

\* Thread t goes on to step p.
Step(t, p) == pc' = [pc EXCEPT ![t] = p] /\ UNCHANGED success

\* Thread t goes to cleanup with this result.
Cleanup(t, ok) ==
    /\ pc' = [pc EXCEPT ![t] = "return"]
    /\ success' = [success EXCEPT ![t] = ok]

\* A successful EXEC of a write: every connection that watches is touched,
\* and this one is through with its transaction.
Apply(c, w) ==
    /\ data' = IF w.op = "upsert" THEN [data EXCEPT ![w.key] = w.item] ELSE w.data
    /\ inited' = (inited \/ w.op = "init")
    /\ session' = [d \in Conns |->
                     IF d = c THEN Fresh
                     ELSE [session[d] EXCEPT !.touched = session[d].watching]]

\* In an open MULTI the server answers QUEUED, which no read expects.
Get(t) ==
    /\ pc[t] \in {"GET", "GETALL"}
    /\ Cleanup(t, ~Mine(t).multi)
    /\ UNCHANGED <<serverVars, poolVars, call, conn, met, seen, boundVars>>

\* Whatever is not an integer counts as "initialized".
Exists(t) ==
    /\ pc[t] = "EXISTS"
    /\ Cleanup(t, Mine(t).multi \/ inited)
    /\ UNCHANGED <<serverVars, poolVars, call, conn, met, seen, boundVars>>

WatchNothing(t) ==
    /\ pc[t] = "WATCH"
    /\ IF Mine(t).multi THEN Cleanup(t, FALSE) ELSE Step(t, "HGET")
    /\ UNCHANGED <<serverVars, poolVars, call, conn, met, seen, boundVars>>

\* The server refuses a WATCH inside a MULTI.
Watch(t) ==
    /\ pc[t] = "WATCH"
    /\ IF Mine(t).multi
       THEN Cleanup(t, FALSE) /\ UNCHANGED session
       ELSE Step(t, "HGET") /\ session' = [session EXCEPT ![conn[t]].watching = TRUE]
    /\ UNCHANGED <<data, inited, poolVars, call, conn, met, seen, boundVars>>

\* "does not exist": a deleted item counts as none, whatever its version.
Outdated(w) ==
    /\ data[w.key] # Nil /\ ~data[w.key].deleted
    /\ data[w.key].version >= w.item.version

\* The early return leaves the watch on.
Hget(t) ==
    /\ pc[t] = "HGET"
    /\ IF Outdated(call[t]) THEN Cleanup(t, TRUE) ELSE Step(t, "MULTI")
    /\ seen' = [seen EXCEPT ![t] = data[call[t].key]]
    /\ UNCHANGED <<serverVars, poolVars, call, conn, met, boundVars>>

\* A MULTI inside a MULTI is an error.
Multi(t) ==
    /\ pc[t] = "MULTI"
    /\ IF Mine(t).multi
       THEN Cleanup(t, FALSE) /\ UNCHANGED session
       ELSE Step(t, "QUEUE") /\ session' = [session EXCEPT ![conn[t]].multi = TRUE]
    /\ UNCHANGED <<data, inited, poolVars, call, conn, met, seen, boundVars>>

Queue(t) ==
    /\ pc[t] = "QUEUE"
    /\ Step(t, "EXEC")
    /\ session' = [session EXCEPT ![conn[t]].queue = call[t]]
    /\ UNCHANGED <<data, inited, poolVars, call, conn, met, seen, boundVars>>

ExecDone(t) ==
    /\ pc[t] = "EXEC"
    /\ ~Mine(t).touched
    /\ Apply(conn[t], Mine(t).queue)
    /\ Cleanup(t, TRUE)
    /\ UNCHANGED <<poolVars, call, conn, met, seen, boundVars>>

\* A watched hash has changed: EXEC answers NIL.  An upsert tries again, an
\* init has not expected it.
ExecNil(t) ==
    /\ pc[t] = "EXEC"
    /\ Mine(t).touched
    /\ session' = [session EXCEPT ![conn[t]] = Fresh]
    /\ IF call[t].op = "upsert" THEN Step(t, "WATCH") ELSE Cleanup(t, FALSE)
    /\ UNCHANGED <<data, inited, poolVars, call, conn, met, seen, boundVars>>

\* What an operation returns when a command has failed.
FailedResult(t) == call[t].op = "initialized"

\* The link is lost; an EXEC may have been executed before.
LinkLost(t) ==
    /\ pc[t] \in Commands \ {"GETALL"}
    /\ "link" \in Faults
    /\ broken' = broken \cup {conn[t]}
    /\ \/ /\ pc[t] = "EXEC" /\ ~Mine(t).touched
          /\ Apply(conn[t], Mine(t).queue)
       \/ /\ session' = [session EXCEPT ![conn[t]] = Fresh]
          /\ UNCHANGED <<data, inited>>
    /\ Cleanup(t, FailedResult(t))
    /\ met' = [met EXCEPT ![t] = TRUE]
    /\ UNCHANGED <<pool, count, call, conn, seen, boundVars>>

\* storeAll looks into the reply before it asks whether there is one.
AllCrashes(t) ==
    /\ pc[t] = "GETALL"
    /\ "link" \in Faults
    /\ pc' = [pc EXCEPT ![t] = "crashed"]
    /\ UNCHANGED <<serverVars, poolVars, call, conn, success, met, seen, boundVars>>

\* The server refuses a command (out of memory, a read-only replica).  A MULTI
\* that is open stays open; the EXEC of it ends it.
ErrorReply(t) ==
    /\ pc[t] \in Commands
    /\ "reply" \in Faults
    /\ session' = IF pc[t] = "EXEC" THEN [session EXCEPT ![conn[t]] = Fresh]
                                    ELSE session
    /\ Cleanup(t, FailedResult(t))
    /\ met' = [met EXCEPT ![t] = TRUE]
    /\ UNCHANGED <<data, inited, poolVars, call, conn, seen, boundVars>>

Command(t) ==
    \/ Get(t) \/ Exists(t)
    \/ Watch(t) \/ Hget(t) \/ Multi(t) \/ Queue(t)
    \/ ExecDone(t) \/ ExecNil(t)
    \/ LinkLost(t) \/ AllCrashes(t) \/ ErrorReply(t)

-----------------------------------------------------------------------------
(* Other processes.                                                         *)

ForeignWrite(w) ==
    /\ foreign < MaxForeign
    /\ foreign' = foreign + 1
    /\ w.op = "upsert" => ~Outdated(w)
    /\ data' = IF w.op = "upsert" THEN [data EXCEPT ![w.key] = w.item] ELSE w.data
    /\ inited' = (inited \/ w.op = "init")
    /\ session' = [c \in Conns |-> [session[c] EXCEPT !.touched = session[c].watching]]
    /\ UNCHANGED <<poolVars, threadVars, calls>>

Borrow(t) ==
    \/ BorrowPooled(t) \/ BorrowNew(t) \/ BorrowWaits(t)
    \/ Connect(t) \/ ConnectFails(t)

ThreadStep(t) == Alive /\ (Borrow(t) \/ Command(t) \/ returnConnection(t))

Next ==
    \/ \E t \in Threads :
         \/ \E w \in Calls[t] : Begin(t, w)
         \/ ThreadStep(t)
         \/ WaitTimesOut(t)
    \/ \E w \in Foreign : ForeignWrite(w)

Spec == Init /\ [][Next]_vars

\* Threads run, redis answers or the link fails, and waits time out.
Fairness == \A t \in Threads : WF_vars(ThreadStep(t)) /\ WF_vars(WaitTimesOut(t))

FairSpec == Spec /\ Fairness

-----------------------------------------------------------------------------
(* Properties.                                                              *)

\* context->count is the number of connections that are open or being opened:
\* no path of a failing connect, command or link leaks one or forgets one, and
\* no connection has two users.
CountsConnections ==
    /\ count = Len(pool) + Cardinality({t \in Threads : conn[t] # Nil})
                         + Cardinality({t \in Threads : pc[t] = "connecting"})
    /\ \A t, u \in Threads : t # u /\ conn[t] # Nil => conn[t] # conn[u]
    /\ \A i \in DOMAIN pool : pool[i] \in Conns \ broken
                                /\ \A t \in Threads : conn[t] # pool[i]

\* The optimistic lock of storeUpsertInternal: what the EXEC of an upsert replaces
\* is what its HGET has read, so no write that another thread or another process
\* made between the two is lost unread, and a live item that it replaces is older.
\* A tombstone is replaced whatever its version, because the code takes it for no
\* item: there the code does less than internal_store.h says of upsert.
UpsertsWhatItRead ==
    [][\A t \in Threads :
         LET old == data[call[t].key]
         IN  pc[t] = "EXEC" /\ pc'[t] # "EXEC" /\ call[t].op = "upsert" /\ data' # data
               => /\ old = seen[t]
                  /\ old = Nil \/ old.deleted \/ old.version < call[t].item.version]_vars

\* A thread that waits for a connection gets one, or an error, in the end,
\* although a failing connect signals nobody.
Served ==
    \A t \in Threads :
        pc[t] = "waiting" ~> pc[t] \notin {"waiting", "borrow"} \/ ~Alive

\* store.h: "The associated functions use a boolean result to indicate success,
\* or error outside of expected functionality": a write that got a connection
\* fails only when a command was refused or the link was lost.
OnlyErrorsFail ==
    \A t \in Threads : pc[t] = "return" /\ ~success[t] /\ call[t].op \in {"upsert", "init"} => met[t]
=============================================================================
