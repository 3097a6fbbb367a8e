----------------------------- MODULE Streaming -----------------------------
(***************************************************************************)
(* The streaming data source of src/streaming.c: its connection, retry and *)
(* read-timeout logic as the loop of src/network.c drives it, the parser   *)
(* it feeds and the store it updates.                                      *)
(*                                                                         *)
(* poll, the write callback and done all run on the network thread; what   *)
(* interleaves with them is the server, the network and time.  The loop    *)
(* polls every few milliseconds, so no tick passes while poll has          *)
(* something to do.  Times are kept relative to now: startedOn,            *)
(* lastReadTimeMilliseconds as ages, waitUntil as the time left.           *)
(***************************************************************************)
EXTENDS SSEParser, Integers, FiniteSets

CONSTANTS
    Keys,        \* flags and segments
    MaxVersion,  \* bound: versions of an item
    MaxLines,    \* bound: lines the server has sent and the client not read
    MaxAttempts, \* bound: attempts are counted up to here
    FirstWait,   \* 1000 ms, in ticks
    MaxWait,     \* 30 * 1000 ms, in ticks
    MinLife,     \* 60 * 1000 ms, in ticks
    ReadTimeout  \* 300 * 1000 ms, in ticks

ASSUME TimeAssumption ==
    /\ FirstWait \in Nat \ {0} /\ MaxWait \in Nat /\ FirstWait <= MaxWait
    /\ MinLife \in Nat \ {0} /\ ReadTimeout \in Nat \ {0}
\* There is room for a put.
ASSUME BoundAssumption ==
    /\ MaxVersion \in Nat \ {0} /\ MaxAttempts \in Nat \ {0}
    /\ MaxLines \in Nat /\ MaxLines >= 4

VARIABLES
    conn,             \* the transfer that `current` points to
    wire,             \* lines sent on it and not received
    parser,           \* context->parser
    active,           \* context->active
    attempts,         \* context->attempts
    waitLeft,         \* waitUntil - now, Null when waitUntil = 0
    sinceStart,       \* now - startedOn, up to MinLife
    sinceRead,        \* now - lastReadTimeMilliseconds, up to ReadTimeout
    permanentFailure, \* context->permanentFailure
    running,          \* the network thread has not ended
    server,           \* external: the data of the service
    store,            \* the feature store
    idle,             \* history: time since the last done
    clean             \* history: this connection began with an empty buffer

netVars == <<conn, wire, parser, active>>
retryVars == <<attempts, waitLeft, sinceStart, permanentFailure>>
historyVars == <<idle, clean>>
vars == <<netVars, retryVars, sinceRead, running, server, store, historyVars>>

-----------------------------------------------------------------------------
(* Values.                                                                  *)

Item == [version : 1..MaxVersion, deleted : BOOLEAN]
Data == [Keys -> Item \cup {Null}]

ASSUME NullAssumption ==
    Null \notin Item /\ Null \notin {"put", "patch", "delete"} /\ Null \notin Int

\* A put has the live items, a patch or a delete one item.
Put(d) == [name |-> "put", data |-> d]
Change(k, it) ==
    [name |-> IF it.deleted THEN "delete" ELSE "patch", key |-> k, item |-> it]

\* The body of a put is sent in two lines, that of a patch in one.
Parts(ev) ==
    IF ev.name = "put" THEN <<[of |-> ev, n |-> 1], [of |-> ev, n |-> 2]>>
                       ELSE <<[of |-> ev, n |-> 1]>>

Lines(ev) ==
    <<EventLine(ev.name)>>
      \o [i \in 1..Len(Parts(ev)) |-> DataLine(Parts(ev)[i])]
      \o <<Blank>>

Live(it) == IF it = Null \/ it.deleted THEN Null ELSE it
LiveData(d) == [k \in Keys |-> Live(d[k])]

Capped(n, top) == IF n < top THEN n ELSE top

\* 1000 * 2^attempts / 2 ms, capped, then jittered down to one half of that.
Backoff(n) == Capped(FirstWait * 2^(n - 1), MaxWait)
Backoffs(n) ==
    IF n = 1 THEN {FirstWait}
             ELSE {w \in 0..MaxWait : w \in (Backoff(n) \div 2)..Backoff(n)}

TypeOK ==
    /\ conn \in {"none", "connecting", "refused", "open", "dead", "aborted"}
    /\ Len(wire) <= MaxLines
    /\ parser.buffer \in {"empty", "partial", "garbage"}
    /\ parser.eventName \in {Null, "put", "patch", "delete"}
    /\ Len(parser.eventBody) <= 2
    /\ active \in BOOLEAN
    /\ attempts \in 0..MaxAttempts
    /\ waitLeft \in 0..MaxWait \cup {Null}
    /\ sinceStart \in 0..MinLife
    /\ sinceRead \in 0..ReadTimeout
    /\ permanentFailure \in BOOLEAN
    /\ running \in BOOLEAN
    /\ server \in Data
    /\ store \in Data
    /\ idle \in 0..MaxWait
    /\ clean \in BOOLEAN

\* startedOn is 0 and the monotonic clock counts from the machine's boot.
Init ==
    /\ conn = "none"
    /\ wire = <<>>
    /\ parser = LDSSEParserInitialize
    /\ active = FALSE
    /\ attempts = 0
    /\ waitLeft = Null
    /\ sinceStart = MinLife
    /\ sinceRead = 0
    /\ permanentFailure = FALSE
    /\ running = TRUE
    /\ server = [k \in Keys |-> [version |-> 1, deleted |-> FALSE]]
    /\ store = [k \in Keys |-> Null]
    /\ idle = MaxWait
    /\ clean = TRUE

-----------------------------------------------------------------------------
(* done, for each way a transfer ends.                                      *)

\* 400, 408 and 429 count as temporary.
Permanent(code) == code \in 400..499 \ {400, 408, 429}

\* "if closed within 60 seconds of start count as a failure"
Attempts(code) ==
    IF code = 200 /\ sinceStart >= MinLife
    THEN 0
    ELSE Capped(attempts + 1, MaxAttempts)

\* done ends in resetMemory, which destroys the parser.
done(code) ==
    /\ conn' = "none"
    /\ wire' = <<>>
    /\ active' = FALSE
    /\ permanentFailure' = (permanentFailure \/ Permanent(code))
    /\ attempts' = Attempts(code)
    /\ parser' = LDSSEParserDestroy(parser)
    /\ idle' = 0
    /\ UNCHANGED <<waitLeft, sinceStart, sinceRead, running, server, store, clean>>

-----------------------------------------------------------------------------
(* poll.                                                                    *)

CanPoll == running /\ ~permanentFailure

TimedOutNever == FALSE

TimedOut == active /\ sinceRead >= ReadTimeout

\* The read timeout kills the stream.
PollTimeout ==
    /\ CanPoll
    /\ TimedOut
    /\ done(0)

\* After a failure, the first poll only chooses how long to wait.
PollWait ==
    /\ CanPoll
    /\ ~active /\ attempts > 0
    /\ waitLeft = Null
    /\ waitLeft' \in Backoffs(attempts)
    /\ UNCHANGED <<netVars, attempts, sinceStart, permanentFailure, sinceRead,
                   running, server, store, historyVars>>

MayConnect == ~active /\ (attempts = 0 \/ waitLeft = 0)

EndWaitKeepingUntil ==
    /\ UNCHANGED waitLeft
    /\ sinceStart' = IF attempts > 0 THEN 0 ELSE sinceStart

\* "done waiting": startedOn is set here and nowhere else.
EndWait ==
    /\ waitLeft' = IF attempts > 0 THEN Null ELSE waitLeft
    /\ sinceStart' = IF attempts > 0 THEN 0 ELSE sinceStart

PollConnect ==
    /\ CanPoll
    /\ MayConnect
    /\ EndWait
    /\ conn' = "connecting"
    /\ active' = TRUE
    /\ sinceRead' = 0
    /\ clean' = (parser.buffer = "empty")
    /\ UNCHANGED <<wire, parser, attempts, permanentFailure, running, server,
                   store, idle>>

\* The request cannot be prepared: the wait is over all the same.
PollConnectFails ==
    /\ CanPoll
    /\ MayConnect /\ attempts > 0
    /\ EndWait
    /\ UNCHANGED <<netVars, attempts, permanentFailure, sinceRead, running,
                   server, store, historyVars>>

-----------------------------------------------------------------------------
(* LDi_streamWriteCallback, for each piece of a chunk.                      *)

ReceivePart ==
    /\ conn = "open"
    /\ wire # <<>>
    /\ parser.buffer = "empty"
    /\ parser' = PartOfLine(parser)
    /\ sinceRead' = 0
    /\ UNCHANGED <<conn, wire, active, retryVars, running, server, store, historyVars>>

\* A line that dispatches nothing.
ReceiveLine ==
    /\ conn = "open"
    /\ wire # <<>>
    /\ \E line \in Received(parser, Head(wire)) :
         /\ ~Dispatches(parser, line)
         /\ parser' = LDi_processLine(parser, line)
    /\ wire' = Tail(wire)
    /\ sinceRead' = 0
    /\ UNCHANGED <<conn, active, retryVars, running, server, store, historyVars>>

\* onPut, onPatch and onDelete: the body must be that of such an event.
Sent == parser.eventBody[1].of
WellFormed == parser.eventBody = Parts(Sent) /\ parser.eventName = Sent.name

Newer(k, it) == store[k] = Null \/ store[k].version < it.version

HandleMergingPut(ev) ==
    IF ev.name = "put"
    THEN store' = [k \in Keys |-> IF ev.data[k] = Null THEN store[k] ELSE ev.data[k]]
    ELSE store' = IF Newer(ev.key, ev.item) THEN [store EXCEPT ![ev.key] = ev.item]
                                            ELSE store

\* LDStoreInit replaces, LDStoreUpsert and LDStoreRemove need a newer version.
Handle(ev) ==
    IF ev.name = "put"
    THEN store' = ev.data
    ELSE store' = IF Newer(ev.key, ev.item) THEN [store EXCEPT ![ev.key] = ev.item]
                                            ELSE store

LDi_onEvent ==
    /\ conn = "open"
    /\ wire # <<>> /\ Dispatches(parser, Head(wire))
    /\ WellFormed
    /\ Handle(Sent)
    /\ parser' = LDi_processLine(parser, Head(wire))
    /\ wire' = Tail(wire)
    /\ sinceRead' = 0
    /\ UNCHANGED <<conn, active, retryVars, running, server, historyVars>>

\* The body is not that of the event, or the store reports an error: the
\* callback returns 0 and the transfer is aborted.
LDi_onEventFails ==
    /\ conn = "open"
    /\ wire # <<>> /\ Dispatches(parser, Head(wire))
    /\ parser' = DispatchFailed(parser)
    /\ conn' = "aborted"
    /\ wire' = <<>>
    /\ sinceRead' = 0
    /\ UNCHANGED <<active, retryVars, running, server, store, historyVars>>

\* The answer is an error, and its body goes through the same callback: text that
\* is no event, of which the parser keeps what comes after the last newline.
ReceiveErrorBody ==
    /\ conn \in {"connecting", "refused"}
    /\ conn' = "refused"
    /\ parser' \in {PartOfLine(parser), LDi_processLine(parser, Comment)}
    /\ sinceRead' = 0
    /\ UNCHANGED <<wire, active, retryVars, running, server, store, historyVars>>

-----------------------------------------------------------------------------
(* The end of a transfer, as LDi_networkthread sees it.                     *)

\* curl reports the response code of a complete transfer and 0 otherwise.
Ends(code) ==
    \/ conn = "aborted" /\ code = 0
    \/ conn = "open" /\ code \in {200, 0}
    \/ conn \in {"connecting", "refused"} /\ code \in {0, 404, 429, 503}

Finish(code) ==
    /\ running
    /\ Ends(code)
    /\ done(code)

\* 401 or 403 on any interface, an error of curl, or LDClientClose: the loop
\* ends and takes the transfer with it.
NetworkThreadEnds ==
    /\ running
    /\ running' = FALSE
    /\ conn' = "none"
    /\ wire' = <<>>
    /\ parser' = LDSSEParserDestroy(parser)
    /\ UNCHANGED <<active, retryVars, sinceRead, server, store, historyVars>>

-----------------------------------------------------------------------------
(* The service, the network and time.                                       *)

\* The service starts a stream with a put of everything it has.
Accept ==
    /\ conn = "connecting"
    /\ conn' = "open"
    /\ wire' = Lines(Put(LiveData(server)))
    /\ UNCHANGED <<parser, active, retryVars, sinceRead, running, server, store, historyVars>>

Room(n) == Len(wire) + n <= MaxLines

\* A flag or segment changes, and streams that are open are told.
ServerChange(k, deleted) ==
    /\ server[k].version < MaxVersion
    /\ Room(3)
    /\ LET it == [version |-> server[k].version + 1, deleted |-> deleted]
       IN  /\ server' = [server EXCEPT ![k] = it]
           /\ wire' = IF conn = "open" THEN wire \o Lines(Change(k, it)) ELSE wire
    /\ UNCHANGED <<conn, parser, active, retryVars, sinceRead, running, store, historyVars>>

Heartbeat ==
    /\ conn = "open" /\ wire = <<>>
    /\ wire' = <<Comment>>
    /\ UNCHANGED <<conn, parser, active, retryVars, sinceRead, running, server,
                   store, historyVars>>

\* The peer disappears: nothing arrives any more and nobody says so.
ConnectionDies ==
    /\ conn \in {"connecting", "refused", "open"}
    /\ conn' = "dead"
    /\ wire' = <<>>
    /\ UNCHANGED <<parser, active, retryVars, sinceRead, running, server, store, historyVars>>

PollDue ==
    /\ CanPoll
    /\ TimedOut \/ MayConnect \/ (~active /\ waitLeft = Null)

Tick ==
    /\ ~PollDue
    /\ conn # "aborted"
    /\ waitLeft' = IF waitLeft = Null \/ waitLeft = 0 THEN waitLeft ELSE waitLeft - 1
    /\ sinceStart' = Capped(sinceStart + 1, MinLife)
    /\ sinceRead' = Capped(sinceRead + 1, ReadTimeout)
    /\ idle' = Capped(idle + 1, MaxWait)
    /\ UNCHANGED <<netVars, attempts, permanentFailure, running, server, store, clean>>

Poll == PollTimeout \/ PollWait \/ PollConnect \/ PollConnectFails

Receive ==
    \/ ReceivePart \/ ReceiveLine
    \/ LDi_onEvent \/ LDi_onEventFails
    \/ ReceiveErrorBody

Service ==
    \/ Accept
    \/ \E k \in Keys, deleted \in BOOLEAN : ServerChange(k, deleted)
    \/ Heartbeat
    \/ ConnectionDies

Next ==
    \/ Poll
    \/ Receive
    \/ \E code \in {0, 200, 404, 429, 503} : Finish(code)
    \/ NetworkThreadEnds
    \/ Service
    \/ Tick

Spec == Init /\ [][Next]_vars

\* The loop of the network thread goes on and so does time.  A request can be
\* prepared again and again, so in the end one is.
Fairness ==
    /\ WF_vars(Tick)
    /\ WF_vars(PollTimeout)
    /\ WF_vars(PollWait)
    /\ SF_vars(PollConnect)

FairSpec == Spec /\ Fairness

-----------------------------------------------------------------------------
(* Properties.                                                              *)

\* Real-time updates: when everything that the service has sent on an open
\* stream is read, the store has the data of the service, whatever chunks it
\* came in and however earlier streams ended.
UpToDate ==
    conn = "open" /\ wire = <<>> => LiveData(store) = LiveData(server)

\* The same for a stream whose parser began with an empty buffer.
CleanStreamUpToDate == clean => UpToDate

\* After a failure the SDK does not connect again before the shortest backoff
\* for the number of attempts is over.
BacksOff ==
    [][conn # "connecting" /\ conn' = "connecting" /\ attempts > 0
         => \E w \in Backoffs(attempts) : idle >= w]_vars

\* A stream that has ended, or whose peer has gone without a word, is tried
\* again, unless the service has refused it for good.
Recovers ==
    conn \in {"none", "dead"} ~> conn = "connecting" \/ permanentFailure \/ ~running
=============================================================================
