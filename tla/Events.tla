------------------------------- MODULE Events -------------------------------
(***************************************************************************)
(* The sender of analytics events of src/events.c, on the network thread,  *)
(* with the event processor that application threads fill and LDClientFlush*)
(* of src/client.c.                                                        *)
(*                                                                         *)
(* A payload is sent at most twice with one payload id, by which the       *)
(* service recognizes a payload that it already has.                       *)
(***************************************************************************)
EXTENDS EventProcessor

CONSTANTS
    FlushInterval, \* config->flushInterval, in ticks
    RetryWait,     \* 1000 ms, in ticks
    Null           \* NULL, or 0 for a time

ASSUME IntervalAssumption == FlushInterval \in Nat /\ RetryWait \in Nat

VARIABLES
    shouldFlush, \* client->shouldFlush
    sinceFlush,  \* now - lastFlush, up to the interval
    active,      \* context->active
    buffer,      \* context->buffer and payloadId
    failureAge,  \* now - failureTime, Null when failureTime = 0
    request,     \* the transfer: none, sent, or arrived at the service
    running,     \* the network thread has not ended
    service,     \* external: the id of the last payload the service received
    sends        \* history: transfers of this payload

senderVars == <<shouldFlush, sinceFlush, active, buffer, failureAge, request, running>>
queueVars == <<events, summary, userKeys, keysAge, calls, recency>>
vars == <<processorVars, senderVars, service, sends>>

\* Three ids are as good as all UUIDs: see NewId.
Ids == 1..3
Payloads == [id : Ids, events : Int, evaluations : Int]

ASSUME NullAssumption == Null \notin Payloads /\ Null \notin Int

TypeOK ==
    /\ ProcessorType
    /\ shouldFlush \in BOOLEAN
    /\ sinceFlush \in 0..FlushInterval
    /\ active \in BOOLEAN
    /\ buffer \in Payloads \cup {Null}
    /\ failureAge \in 0..(RetryWait + 1) \cup {Null}
    /\ request \in {"none", "sent", "arrived"}
    /\ active <=> request # "none"
    /\ running \in BOOLEAN
    /\ service \in Ids \cup {Null}
    /\ sends \in 0..2

Init ==
    /\ ProcessorInit
    /\ shouldFlush = FALSE
    /\ sinceFlush = 0
    /\ active = FALSE
    /\ buffer = Null
    /\ failureAge = Null
    /\ request = "none"
    /\ running = TRUE
    /\ service = Null
    /\ sends = 0

-----------------------------------------------------------------------------

\* What is in the buffer and the service does not have.
Unsent ==
    IF buffer = Null \/ buffer.id = service
    THEN None
    ELSE [events |-> buffer.events, evaluations |-> buffer.evaluations]

\* What the service counts, and what is given up, is no longer pending.
Settle ==
    pending' = [events |-> pending.events - Unsent.events,
                evaluations |-> pending.evaluations - Unsent.evaluations]

\* A UUID that neither the buffer nor the service has.
NewId == CHOOSE id \in Ids : id # service /\ (buffer # Null => id # buffer.id)

Recording == Application /\ UNCHANGED <<senderVars, service, sends>>

LDClientFlush ==
    /\ shouldFlush' = TRUE
    /\ UNCHANGED <<processorVars, sinceFlush, active, buffer, failureAge, request,
                   running, service, sends>>

-----------------------------------------------------------------------------
(* poll.                                                                    *)

DueOnRequest == shouldFlush

Due == shouldFlush \/ sinceFlush >= FlushInterval

\* A new payload, with a UUID of its own, takes the place of the buffer.
Bundle ==
    /\ running /\ ~active
    /\ failureAge = Null
    /\ Due /\ HasEvents
    /\ buffer' = Payload(NewId)
    /\ ResetState
    /\ Settle
    /\ UNCHANGED <<shouldFlush, sinceFlush, failureAge, running, service>>

PollNew ==
    /\ Bundle
    /\ active' = TRUE
    /\ request' = "sent"
    /\ sends' = 1

\* The request cannot be prepared.
PollNewFails ==
    /\ Bundle
    /\ sends' = 0
    /\ UNCHANGED <<active, request>>

RetryWithNewId == buffer' = [buffer EXCEPT !.id = NewId]

\* "We want the header to remain the same during a retry".
RetryPayload == UNCHANGED buffer

PollRetry ==
    /\ running /\ ~active
    /\ failureAge # Null
    /\ failureAge > RetryWait
    /\ RetryPayload
    /\ active' = TRUE
    /\ request' = "sent"
    /\ sends' = sends + 1
    /\ UNCHANGED <<processorVars, shouldFlush, sinceFlush, failureAge, running,
                   service>>

-----------------------------------------------------------------------------
(* done.                                                                    *)

resetMemory == buffer' = Null /\ failureAge' = Null

\* 200 or 202.
doneSuccess ==
    /\ running /\ request = "arrived"
    /\ active' = FALSE
    /\ request' = "none"
    /\ shouldFlush' = FALSE
    /\ sinceFlush' = 0
    /\ resetMemory
    /\ UNCHANGED <<processorVars, running, service, sends>>

failAtOnce == resetMemory /\ Settle

\* "failed twice so just discard the payload"
fail ==
    IF failureAge # Null
    THEN resetMemory /\ Settle
    ELSE failureAge' = 0 /\ UNCHANGED <<buffer, pending>>

\* Any other code, or no answer; the service may have the payload all the same.
doneFailure ==
    /\ running /\ active
    /\ active' = FALSE
    /\ request' = "none"
    /\ fail
    /\ UNCHANGED <<queueVars, shouldFlush, sinceFlush, running, service,
                   sends>>

-----------------------------------------------------------------------------
(* The service, the end of the network thread, and time.                    *)

\* The service counts a payload once.
Arrive ==
    /\ request = "sent"
    /\ request' = "arrived"
    /\ service' = buffer.id
    /\ Settle
    /\ UNCHANGED <<queueVars, shouldFlush, sinceFlush, active, buffer, failureAge,
                   running, sends>>

\* 401 or 403 on any interface, or LDClientClose: the loop ends and destroy
\* frees the payload.  The queue is not flushed.
NetworkThreadEnds ==
    /\ running
    /\ running' = FALSE
    /\ active' = FALSE
    /\ request' = "none"
    /\ resetMemory
    /\ Settle
    /\ UNCHANGED <<queueVars, shouldFlush, sinceFlush, service, sends>>

Tick ==
    /\ KeysTick
    /\ sinceFlush' = IF sinceFlush < FlushInterval THEN sinceFlush + 1 ELSE sinceFlush
    /\ failureAge' = IF failureAge = Null \/ failureAge = RetryWait + 1
                     THEN failureAge ELSE failureAge + 1
    /\ UNCHANGED <<shouldFlush, active, buffer, request, running, service, sends>>

Next ==
    \/ Recording
    \/ LDClientFlush
    \/ PollNew
    \/ PollNewFails
    \/ PollRetry
    \/ doneSuccess
    \/ doneFailure
    \/ Arrive
    \/ NetworkThreadEnds
    \/ Tick

Spec == Init /\ [][Next]_vars

\* The network thread goes round its loop, time passes, and a request can be
\* prepared in the end.  That every transfer ends is up to the service and the
\* network: the code limits only the time to connect.
Fairness ==
    /\ WF_vars(Tick)
    /\ SF_vars(PollNew)
    /\ WF_vars(PollRetry)
    /\ WF_vars(doneSuccess \/ doneFailure)

FairSpec == Spec /\ Fairness

-----------------------------------------------------------------------------
(* Properties.                                                              *)

\* Every recorded event and evaluation that was not dropped because the queue
\* was full is in exactly one place: queued, in the payload, counted once by the
\* service, or given up with its payload; in particular a retry after a lost
\* answer never counts twice, and no path loses a payload unnoticed.
Conserved ==
    /\ pending.events = events + Unsent.events
    /\ pending.evaluations = summary + Unsent.evaluations

\* done gives a payload up only after it was sent twice.
DiscardedAfterRetry ==
    [][active /\ ~active' /\ running' /\ pending' # pending => sends = 2]_vars

\* What is queued is bundled into a payload in the end, however many sends
\* fail on the way.
Bundled == HasEvents ~> ~HasEvents \/ ~running
=============================================================================
