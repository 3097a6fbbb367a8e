--------------------------- MODULE EventProcessor ---------------------------
(***************************************************************************)
(* The analytics event processor of src/event_processor.c and the set of   *)
(* known users of src/lru.c.                                               *)
(*                                                                         *)
(* Every operation holds processor->lock from end to end and is one action,*)
(* whichever thread calls it.  Of the queued events and of the summary the *)
(* model keeps the numbers: how many full events are queued, and how many  *)
(* evaluations the summary counters stand for.                             *)
(***************************************************************************)
EXTENDS Integers, Sequences

CONSTANTS
    Users,                 \* keys of users
    EventsCapacity,        \* config->eventsCapacity
    UserKeysCapacity,      \* config->userKeysCapacity
    UserKeysFlushInterval, \* config->userKeysFlushInterval, in ticks
    InlineUsers,           \* config->inlineUsersInEvents
    MaxPrerequisites,      \* bound: prerequisites that one evaluation evaluates
    MaxRecorded            \* bound: calls the application makes

ASSUME CapacityAssumption == EventsCapacity \in Nat /\ UserKeysCapacity \in Nat
ASSUME KeysIntervalAssumption == UserKeysFlushInterval \in Nat
ASSUME InlineAssumption == InlineUsers \in BOOLEAN
ASSUME RecordedAssumption == MaxRecorded \in Nat /\ MaxPrerequisites \in Nat

VARIABLES
    events,    \* length of processor->events
    summary,   \* evaluations counted in processor->summaryCounters
    userKeys,  \* processor->userKeys, the most recently used first
    keysAge,   \* time since lastUserKeyFlush, up to just above the interval
    calls,     \* bound: calls made so far
    pending,   \* history: events and evaluations recorded, less those that were
               \* dropped, given up with a payload or counted by the service
    recency    \* history: all users since the last clear, the last one first

processorVars == <<events, summary, userKeys, keysAge, calls, pending, recency>>

None == [events |-> 0, evaluations |-> 0]

ProcessorType ==
    /\ events \in 0..EventsCapacity
    /\ summary \in Nat
    /\ userKeys \in Seq(Users) /\ Len(userKeys) <= UserKeysCapacity
    /\ keysAge \in 0..(UserKeysFlushInterval + 1)
    /\ calls \in 0..MaxRecorded
    /\ pending \in [events : Int, evaluations : Int]

ProcessorInit ==
    /\ events = 0
    /\ summary = 0
    /\ userKeys = <<>>
    /\ keysAge = 0
    /\ calls = 0
    /\ pending = None
    /\ recency = <<>>

-----------------------------------------------------------------------------
(* lru.c.                                                                   *)

Contains(lru, u) == \E i \in DOMAIN lru : lru[i] = u

\* The place of a user in the list; a new one would come last.
Place(lru, u) ==
    IF Contains(lru, u) THEN CHOOSE i \in DOMAIN lru : lru[i] = u ELSE Len(lru) + 1

\* CDL_DELETE and CDL_PREPEND of one node: u comes first, and those that were
\* before it move back by one.
ToFront(lru, u) ==
    [i \in 1..(IF Contains(lru, u) THEN Len(lru) ELSE Len(lru) + 1) |->
        IF i = 1 THEN u ELSE IF i <= Place(lru, u) THEN lru[i - 1] ELSE lru[i]]

LDLRUInsertWithoutMove(lru, u) ==
    IF UserKeysCapacity = 0 \/ Contains(lru, u)
    THEN lru
    ELSE IF Len(lru) = UserKeysCapacity
         THEN <<u>> \o SubSeq(lru, 1, Len(lru) - 1)
         ELSE <<u>> \o lru

\* A known user moves to the front; a new one evicts the last one if need be.
LDLRUInsert(lru, u) ==
    IF UserKeysCapacity = 0
    THEN lru
    ELSE IF ~Contains(lru, u) /\ Len(lru) = UserKeysCapacity
         THEN <<u>> \o SubSeq(lru, 1, Len(lru) - 1)
         ELSE ToFront(lru, u)

\* The status LDLRUSTATUS_NEW; with no capacity every user is new.
IsNew(lru, u) == ~Contains(lru, u)

-----------------------------------------------------------------------------
(* Recording.                                                               *)

\* Each evaluation counts in the summary.
LDi_summarizeEvent(m) == summary + m

addEventIgnoringCapacity(n) == n

\* LDi_addEvent, n times: how many events fit into the queue.
LDi_addEvent(n) ==
    LET room == EventsCapacity - events IN IF n <= room THEN n ELSE room

\* One call of the application yields n events, of which the queue drops what
\* does not fit, and m evaluations.
Record(n, m) ==
    /\ calls < MaxRecorded
    /\ calls' = calls + 1
    /\ events' = events + LDi_addEvent(n)
    /\ summary' = LDi_summarizeEvent(m)
    /\ pending' = [events |-> pending.events + LDi_addEvent(n),
                   evaluations |-> pending.evaluations + m]

\* LDi_maybeMakeIndexEvent: known users are forgotten from time to time, and
\* a user that is not known gets an index event.
KeysExpired == keysAge > UserKeysFlushInterval
Known == IF KeysExpired THEN <<>> ELSE userKeys

RememberUser(u) ==
    IF InlineUsers
    THEN UNCHANGED <<userKeys, keysAge, recency>>
    ELSE /\ userKeys' = LDLRUInsert(Known, u)
         /\ keysAge' = IF KeysExpired THEN 0 ELSE keysAge
         /\ recency' = ToFront(IF KeysExpired THEN <<>> ELSE recency, u)

IndexEvents(u) == IF ~InlineUsers /\ IsNew(Known, u) THEN 1 ELSE 0

\* LDi_possiblyQueueEvent: each evaluation queues a feature event if the flag
\* tracks events and a debug event if it is being debugged.
QueuedEvents(m) == 0..(2 * m)

\* An evaluation brings those of its prerequisites along.
LDEventProcessor_ProcessEvaluation(u, m, n) ==
    /\ RememberUser(u)
    /\ Record(IndexEvents(u) + n, m)

LDEventProcessor_Track(u) ==
    /\ RememberUser(u)
    /\ Record(IndexEvents(u) + 1, 0)

\* Identify does not look at the age of the known users.
LDEventProcessor_Identify(u) ==
    /\ userKeys' = LDLRUInsert(userKeys, u)
    /\ recency' = ToFront(recency, u)
    /\ Record(1, 0)
    /\ UNCHANGED keysAge

LDEventProcessor_Alias ==
    /\ Record(1, 0)
    /\ UNCHANGED <<userKeys, keysAge, recency>>

Application ==
    \/ \E u \in Users :
         \/ \E m \in 1..(1 + MaxPrerequisites) : \E n \in QueuedEvents(m) :
              LDEventProcessor_ProcessEvaluation(u, m, n)
         \/ LDEventProcessor_Track(u)
         \/ LDEventProcessor_Identify(u)
    \/ LDEventProcessor_Alias

-----------------------------------------------------------------------------
(* LDEventProcessor_CreateEventPayloadAndResetState.                        *)

HasEvents == events > 0 \/ summary > 0

\* The summary becomes one more event of the payload.
Payload(id) == [id |-> id, events |-> events, evaluations |-> summary]

ResetState ==
    /\ events' = 0
    /\ summary' = 0
    /\ UNCHANGED <<userKeys, keysAge, calls, recency>>

KeysTick ==
    /\ keysAge' = IF KeysExpired THEN keysAge ELSE keysAge + 1
    /\ UNCHANGED <<events, summary, userKeys, calls, pending, recency>>

-----------------------------------------------------------------------------

\* The LRU of lru.c against its definition: the users it knows are the
\* UserKeysCapacity most recent ones, in that order, so that "duplicate user
\* details will not be sent" for them (include/launchdarkly/config.h).
RemembersMostRecent ==
    userKeys = SubSeq(recency, 1, IF Len(recency) < UserKeysCapacity
                                  THEN Len(recency) ELSE UserKeysCapacity)
=============================================================================
