------------------------------- MODULE Client -------------------------------
(***************************************************************************)
(* The life of a client: LDClientInit and LDClientClose of src/client.c on *)
(* the application's thread, the loop of LDi_networkthread of              *)
(* src/network.c, and its polling interface of src/polling.c.  Of the      *)
(* analytics interface (module Events) only its transfers matter here; the *)
(* streaming interface (module Streaming) is idle when the client polls.   *)
(*                                                                         *)
(* The network may leave any transfer without an answer for ever: the code *)
(* limits the time to connect and not that of a transfer.                  *)
(***************************************************************************)
EXTENDS Integers, Sequences

CONSTANTS
    MaxWait,      \* maxwaitmilli, in ticks
    PollInterval, \* config->pollInterval, in ticks
    MaxVersion    \* bound: versions of the service's data

ASSUME WaitAssumption == MaxWait \in Nat /\ PollInterval \in Nat
ASSUME BoundAssumption == MaxVersion \in Nat \ {0}

VARIABLES
    config,       \* client->config: offline, useLDD, sendEvents
    app,          \* the application is in init, up, in close, done with it, or aborted
    waited,       \* time since LDClientInit began to wait, up to MaxWait
    shuttingdown, \* client->shuttingdown
    pc,           \* where the network thread is
    transfer,     \* each interface's current transfer: none, open, or its result
    memory,       \* PollContext memory: the bodies written so far
    sincePoll,    \* now - lastpoll, up to the interval
    store,        \* version of the data in the store, 0 if not initialized
    latest,       \* external: version of the service's data
    refused       \* history: the thread read a 401 or 403

appVars == <<app, waited, shuttingdown>>
pollVars == <<memory, sincePoll, store>>
vars == <<config, appVars, pc, transfer, pollVars, latest, refused>>

Interfaces == {"polling", "events"}

\* How transfers end: responses, among which 503 stands for all others, and
\* transfers that curl reports as failed.
Codes == {"200", "401", "403", "503", "failed"}

\* What is not the complete body of a put.
Cut == 0
MaxPieces == 2

Versions == 1..MaxVersion

TypeOK ==
    /\ config \in [offline : BOOLEAN, useLDD : BOOLEAN, sendEvents : BOOLEAN]
    /\ app \in {"init", "up", "close", "gone", "aborted"}
    /\ waited \in 0..MaxWait
    /\ shuttingdown \in BOOLEAN
    /\ pc \in {"new", "top", "poll", "events", "read", "ended", "aborted"}
    /\ transfer \in [Interfaces -> {"none", "open"} \cup Codes]
    /\ memory \in Seq(Versions \cup {Cut}) /\ Len(memory) <= MaxPieces
    /\ transfer["polling"] = "none" => memory = <<>>
    /\ sincePoll \in 0..PollInterval
    /\ store \in 0..MaxVersion
    /\ latest \in Versions
    /\ refused \in BOOLEAN

\* lastpoll is 0 and the monotonic clock counts from the machine's boot, which
\* may be less than an interval ago.
Init ==
    /\ config \in [offline : BOOLEAN, useLDD : BOOLEAN, sendEvents : BOOLEAN]
    /\ app = "init"
    /\ waited = 0
    /\ shuttingdown = FALSE
    /\ pc = "new"
    /\ transfer = [i \in Interfaces |-> "none"]
    /\ memory = <<>>
    /\ sincePoll \in 0..PollInterval
    /\ store = 0
    /\ latest = 1
    /\ refused = FALSE

-----------------------------------------------------------------------------
(* The application.                                                         *)

WaitOverWhenReady == store > 0

WaitOver == store > 0 \/ waited >= MaxWait

LDClientInit ==
    /\ app = "init"
    /\ WaitOver
    /\ app' = "up"
    /\ UNCHANGED <<config, waited, shuttingdown, pc, transfer, pollVars, latest, refused>>

LDClientClose ==
    /\ app = "up"
    /\ shuttingdown' = TRUE
    /\ app' = "close"
    /\ UNCHANGED <<config, waited, pc, transfer, pollVars, latest, refused>>

\* LDi_thread_join, and everything is freed.
Join ==
    /\ app = "close"
    /\ pc = "ended"
    /\ app' = "gone"
    /\ UNCHANGED <<config, waited, shuttingdown, pc, transfer, pollVars, latest, refused>>

-----------------------------------------------------------------------------
(* polling.c.                                                               *)

PollDue == transfer["polling"] = "none" /\ sincePoll >= PollInterval

resetMemoryKeepingSize == UNCHANGED memory

resetMemory == memory' = <<>>

CompleteUnvalidated == Len(memory) = 1

\* LDJSONDeserialize and validatePutBody accept what was received.
Complete == Len(memory) = 1 /\ memory[1] # Cut

updateStore == store' = memory[1]

\* LD_ASSERT(rawupdate) fails: nothing was received, so that memory is NULL.
NothingReceived == memory = <<>>

\* lastpoll is set by every 200, also if its body is of no use.
LastPoll(code) == sincePoll' = IF code = "200" THEN 0 ELSE sincePoll

-----------------------------------------------------------------------------
(* LDi_networkthread.                                                       *)

ThreadStarts ==
    /\ pc = "new"
    /\ pc' = "top"
    /\ UNCHANGED <<config, appVars, transfer, pollVars, latest, refused>>

\* An interface cannot be constructed.
ThreadFailsToStart ==
    /\ pc = "new"
    /\ pc' = "ended"
    /\ UNCHANGED <<config, appVars, transfer, pollVars, latest, refused>>

\* Every transfer is removed and every interface destroyed.
Cleanup ==
    /\ pc' = "ended"
    /\ transfer' = [i \in Interfaces |-> "none"]
    /\ memory' = <<>>
    /\ UNCHANGED <<config, appVars, sincePoll, store, latest>>

ShouldStopWhenIdle == shuttingdown /\ \A i \in Interfaces : transfer[i] # "open"

ShouldStop == shuttingdown

LoopStops ==
    /\ pc = "top"
    /\ ShouldStop
    /\ Cleanup
    /\ UNCHANGED refused

LoopGoesOn ==
    /\ pc = "top"
    /\ ~ShouldStop
    /\ pc' = "poll"
    /\ UNCHANGED <<config, appVars, transfer, pollVars, latest, refused>>

\* curl_multi_init, curl_multi_add_handle, curl_multi_wait and the like fail.
CurlFails ==
    /\ pc \in {"poll", "events", "read"}
    /\ Cleanup
    /\ UNCHANGED refused

\* The interface, if there is one, has nothing to send or cannot prepare it.
Polled(here, next) ==
    /\ pc = here
    /\ pc' = next
    /\ UNCHANGED <<config, appVars, transfer, pollVars, latest, refused>>

PollsNothing == Polled("poll", "events") \/ Polled("events", "read")

PollSends ==
    /\ pc = "poll"
    /\ ~config.offline /\ ~config.useLDD
    /\ PollDue
    /\ transfer' = [transfer EXCEPT !["polling"] = "open"]
    /\ pc' = "events"
    /\ UNCHANGED <<config, appVars, pollVars, latest, refused>>

EventsSend ==
    /\ pc = "events"
    /\ ~config.offline /\ config.sendEvents
    /\ transfer["events"] = "none"
    /\ transfer' = [transfer EXCEPT !["events"] = "open"]
    /\ pc' = "read"
    /\ UNCHANGED <<config, appVars, pollVars, latest, refused>>

RefusedUnauthorized(code) == code = "401"

Refused(code) == code \in {"401", "403"}

ReadRefusal(i) ==
    /\ pc = "read"
    /\ transfer[i] \in Codes /\ Refused(transfer[i])
    /\ Cleanup
    /\ refused' = TRUE

Ended(i) ==
    /\ pc = "read"
    /\ transfer[i] \in Codes /\ ~Refused(transfer[i])
    /\ transfer' = [transfer EXCEPT ![i] = "none"]
    /\ refused' = (refused \/ transfer[i] \in {"401", "403"})
    /\ UNCHANGED <<config, appVars, pc, latest>>

\* done of polling.c: a 200 with a good body initializes the store ...
donePolled ==
    /\ Ended("polling")
    /\ transfer["polling"] = "200" /\ Complete
    /\ updateStore
    /\ LastPoll("200")
    /\ resetMemory

\* ... a 200 without a body aborts the process ...
doneAborts ==
    /\ pc = "read"
    /\ transfer["polling"] = "200" /\ NothingReceived
    /\ pc' = "aborted"
    /\ app' = "aborted"
    /\ UNCHANGED <<config, waited, shuttingdown, transfer, pollVars, latest, refused>>

\* ... and all else leaves the store alone, a good body too if the store reports
\* an error.
doneNotPolled ==
    /\ Ended("polling")
    /\ ~(transfer["polling"] = "200" /\ NothingReceived)
    /\ LastPoll(transfer["polling"])
    /\ resetMemory
    /\ UNCHANGED store

doneEvents == Ended("events") /\ UNCHANGED pollVars

LoopWaits ==
    /\ pc = "read"
    /\ \A i \in Interfaces : transfer[i] \in {"none", "open"}
    /\ pc' = "top"
    /\ UNCHANGED <<config, appVars, transfer, pollVars, latest, refused>>

-----------------------------------------------------------------------------
(* The service and the network, in curl_multi_perform, which comes before   *)
(* the interfaces are polled.                                               *)

\* writeCallback: a body, or part of one.
writeCallback(body) ==
    /\ pc = "poll"
    /\ transfer["polling"] = "open" /\ Len(memory) < MaxPieces
    /\ memory' = Append(memory, body)
    /\ UNCHANGED <<config, appVars, pc, transfer, sincePoll, store, latest, refused>>

Finish(i, code) ==
    /\ pc = "poll"
    /\ transfer[i] = "open"
    /\ transfer' = [transfer EXCEPT ![i] = code]
    /\ UNCHANGED <<config, appVars, pc, pollVars, latest, refused>>

ServerChange ==
    /\ latest < MaxVersion
    /\ latest' = latest + 1
    /\ UNCHANGED <<config, appVars, pc, transfer, pollVars, refused>>

Tick ==
    /\ waited' = IF app = "init" /\ waited < MaxWait THEN waited + 1 ELSE waited
    /\ sincePoll' = IF sincePoll < PollInterval THEN sincePoll + 1 ELSE sincePoll
    /\ UNCHANGED <<config, app, shuttingdown, pc, transfer, memory, store, latest, refused>>

Thread ==
    \/ ThreadStarts \/ ThreadFailsToStart
    \/ LoopStops \/ LoopGoesOn \/ LoopWaits
    \/ PollsNothing \/ PollSends \/ EventsSend
    \/ \E i \in Interfaces : ReadRefusal(i)
    \/ donePolled \/ doneAborts \/ doneNotPolled \/ doneEvents

Next ==
    \/ LDClientInit \/ LDClientClose \/ Join
    \/ Thread
    \/ CurlFails
    \/ \E body \in {latest, Cut} : writeCallback(body)
    \/ \E i \in Interfaces, code \in Codes : Finish(i, code)
    \/ ServerChange
    \/ Tick

\* Time passes and the threads run.
Spec ==
    /\ Init /\ [][Next]_vars
    /\ WF_vars(Tick)
    /\ WF_vars(Thread)
    /\ WF_vars(LDClientInit) /\ WF_vars(Join)

\* The network ends every transfer, the service answers some polls completely,
\* and such an answer is stored in the end.
Answers ==
    /\ SF_vars(PollSends)
    /\ SF_vars(\E code \in Codes : Finish("polling", code))
    /\ SF_vars(memory = <<>> /\ writeCallback(latest))
    /\ SF_vars(Complete /\ Finish("polling", "200"))
    /\ SF_vars(donePolled)

-----------------------------------------------------------------------------
(* Properties.                                                              *)

\* The process has died of an assertion: the other properties say what happens
\* unless it does.
Aborted == app = "aborted"

\* LDClientInit returns after its time (client.h: "If the timeout is reached a
\* non fully initialized client will be returned"), also when the network
\* thread could not start, was refused, or never gets an answer.
InitReturns == app = "init" ~> app = "up" \/ Aborted

\* LDClientClose returns, even if a transfer that is open never ends.
CloseReturns == app = "close" ~> app = "gone" \/ Aborted

\* Once the thread has read that the service refuses the SDK key, for one
\* interface, no interface sends anything again.
RefusalStops ==
    [][refused => \A i \in Interfaces : transfer'[i] = "open" => transfer[i] = "open"]_vars

\* A poll never takes the store back to older data.
StoreAdvances == [][store' >= store]_vars

\* What the service has reaches the store if the service answers, whatever
\* failed before: no failed or cut answer spoils the one after it, except that
\* a 200 without a body aborts the process (done and updateStore of polling.c).
Follows ==
    Answers => \A v \in Versions :
        (latest >= v /\ ~config.offline /\ ~config.useLDD)
            ~> (store >= v \/ pc = "ended" \/ Aborted)
=============================================================================
