---------------------------- MODULE ClientProofs ----------------------------
(***************************************************************************)
(* Proofs about Client for every wait, every poll interval and every       *)
(* number of versions of the service's data.  None of them needs fairness. *)
(***************************************************************************)
EXTENDS Client, TLAPS

USE WaitAssumption, BoundAssumption

Frame == <<config, appVars, latest>>

-----------------------------------------------------------------------------
(* The inductive invariant.                                                 *)

\* Nothing of a body is older than the store: what is received was the
\* service's data when it was sent, and the store gets nothing while a body is
\* being received.
Received ==
    /\ store <= latest
    /\ \A i \in DOMAIN memory : memory[i] = Cut \/ memory[i] \in store..latest

\* A thread that was refused has ended.
RefusedEnded == refused => pc = "ended"

IInv == TypeOK /\ Received /\ RefusedEnded

-----------------------------------------------------------------------------
(* Operators.                                                               *)

LEMMA Constants ==
  /\ Versions \subseteq Nat
  /\ Cut \notin Versions
  /\ \A v \in Versions : v \in 0..MaxVersion
  BY DEF Versions, Cut

\* The end of the thread leaves no transfer and no body behind.
LEMMA CleanupKeeps ==
  ASSUME IInv, Cleanup, refused' \in BOOLEAN
  PROVE  IInv'
  <1>1. /\ UNCHANGED <<config, app, waited, shuttingdown, sincePoll, store, latest>>
        /\ pc' = "ended" /\ memory' = <<>>
        /\ transfer' = [i \in Interfaces |-> "none"]
    BY DEF Cleanup, appVars
  <1>2. memory' \in Seq(Versions \cup {Cut}) /\ Len(memory') = 0 /\ DOMAIN memory' = {}
    BY <1>1
  <1>3. TypeOK'
    BY <1>1, <1>2 DEF IInv, TypeOK, MaxPieces
  <1>4. Received'
    BY <1>1, <1>2 DEF IInv, Received
  <1>5. RefusedEnded'
    BY <1>1 DEF RefusedEnded
  <1> QED BY <1>3, <1>4, <1>5 DEF IInv

\* A step of the thread or of the network that sets one transfer and leaves
\* the bodies and the store alone.
LEMMA TransferKeeps ==
  ASSUME IInv, NEW i \in Interfaces, NEW result \in {"open"} \cup Codes,
         pc # "ended", pc' \in {"poll", "events", "read"},
         transfer' = [transfer EXCEPT ![i] = result],
         UNCHANGED <<Frame, pollVars, refused>>
  PROVE  IInv'
  <1>1. UNCHANGED <<config, app, waited, shuttingdown, memory, sincePoll, store, latest>>
    BY DEF Frame, appVars, pollVars
  <1>2. transfer' \in [Interfaces -> {"none", "open"} \cup Codes]
    BY DEF IInv, TypeOK
  <1>3. transfer'["polling"] = "none" => transfer["polling"] = "none"
    BY DEF IInv, TypeOK, Codes, Interfaces
  <1>4. TypeOK'
    BY <1>1, <1>2, <1>3 DEF IInv, TypeOK
  <1>5. Received' /\ RefusedEnded'
    BY <1>1 DEF IInv, Received, RefusedEnded
  <1> QED BY <1>4, <1>5 DEF IInv

\* A step that moves the thread on and does nothing else.
LEMMA MoveKeeps ==
  ASSUME IInv, pc # "ended", pc' \in {"top", "poll", "events", "read", "ended"},
         UNCHANGED <<Frame, transfer, pollVars, refused>>
  PROVE  IInv'
  BY DEF Frame, appVars, pollVars, IInv, TypeOK, Received, RefusedEnded

\* The end of a poll empties the body, whatever becomes of the store.
LEMMA PollDoneKeeps ==
  ASSUME IInv, Ended("polling"), resetMemory, sincePoll' \in 0..PollInterval,
         store' \in 0..MaxVersion, store' <= latest
  PROVE  IInv'
  <1>1. /\ UNCHANGED <<config, app, waited, shuttingdown, latest, pc>>
        /\ memory' = <<>>
        /\ transfer' = [transfer EXCEPT !["polling"] = "none"]
        /\ pc = "read" /\ refused' \in BOOLEAN
        /\ refused' = refused
    BY DEF Ended, Refused, resetMemory, appVars, IInv, TypeOK
  <1>2. memory' \in Seq(Versions \cup {Cut}) /\ Len(memory') = 0 /\ DOMAIN memory' = {}
    BY <1>1
  <1>3. transfer' \in [Interfaces -> {"none", "open"} \cup Codes]
    BY <1>1 DEF IInv, TypeOK
  <1>4. TypeOK'
    BY <1>1, <1>2, <1>3 DEF IInv, TypeOK, MaxPieces
  <1>5. Received'
    BY <1>1, <1>2 DEF IInv, Received
  <1>6. RefusedEnded'
    BY <1>1 DEF IInv, RefusedEnded
  <1> QED BY <1>4, <1>5, <1>6 DEF IInv

\* What a complete body holds is no older than the store.
LEMMA CompleteNewer ==
  ASSUME IInv, Complete
  PROVE  /\ memory[1] \in 0..MaxVersion
         /\ store <= memory[1] /\ memory[1] <= latest
  <1>1. memory \in Seq(Versions \cup {Cut}) /\ Len(memory) = 1
    BY DEF IInv, TypeOK, Complete
  <1>2. 1 \in DOMAIN memory /\ memory[1] \in Versions \cup {Cut}
    BY <1>1
  <1>3. memory[1] \in store..latest
    BY <1>2 DEF IInv, Received, Complete
  <1> QED BY <1>2, <1>3, Constants DEF IInv, TypeOK, Complete

-----------------------------------------------------------------------------
(* The steps.                                                               *)

LEMMA ThreadKeeps ==
  ASSUME IInv, Thread
  PROVE  IInv'
  <1>1. CASE ThreadStarts \/ ThreadFailsToStart \/ LoopGoesOn \/ LoopWaits \/ PollsNothing
    BY <1>1, MoveKeeps DEF ThreadStarts, ThreadFailsToStart, LoopGoesOn, LoopWaits,
                           PollsNothing, Polled, Frame
  <1>2. CASE LoopStops
    BY <1>2, CleanupKeeps DEF LoopStops, IInv, TypeOK
  <1>3. CASE PollSends
    BY <1>3, TransferKeeps DEF PollSends, Frame, Interfaces
  <1>4. CASE EventsSend
    BY <1>4, TransferKeeps DEF EventsSend, Frame, Interfaces
  <1>5. ASSUME NEW i \in Interfaces, ReadRefusal(i) PROVE IInv'
    BY <1>5, CleanupKeeps DEF ReadRefusal
  <1>6. CASE donePolled
    <2>1. store' = memory[1] /\ sincePoll' = 0
      BY <1>6 DEF donePolled, updateStore, LastPoll
    <2>2. store' \in 0..MaxVersion /\ store' <= latest
      BY <1>6, <2>1, CompleteNewer DEF donePolled
    <2> QED BY <1>6, <2>1, <2>2, PollDoneKeeps DEF donePolled
  <1>7. CASE doneNotPolled
    <2>1. sincePoll' \in 0..PollInterval
      BY <1>7 DEF doneNotPolled, LastPoll, IInv, TypeOK
    <2>2. store' \in 0..MaxVersion /\ store' <= latest
      BY <1>7 DEF doneNotPolled, IInv, TypeOK, Received
    <2> QED BY <1>7, <2>1, <2>2, PollDoneKeeps DEF doneNotPolled
  <1>9. CASE doneAborts
    <2>1. /\ UNCHANGED <<config, waited, shuttingdown, transfer, memory, sincePoll, store,
                         latest, refused>>
          /\ pc = "read" /\ pc' = "aborted" /\ app' = "aborted"
      BY <1>9 DEF doneAborts, pollVars
    <2> QED BY <2>1 DEF IInv, TypeOK, Received, RefusedEnded
  <1>8. CASE doneEvents
    <2>1. /\ UNCHANGED <<config, app, waited, shuttingdown, latest, pc,
                         memory, sincePoll, store, refused>>
          /\ transfer' = [transfer EXCEPT !["events"] = "none"]
      BY <1>8 DEF doneEvents, Ended, Refused, appVars, pollVars, IInv, TypeOK
    <2>2. /\ transfer' \in [Interfaces -> {"none", "open"} \cup Codes]
          /\ transfer'["polling"] = transfer["polling"]
      BY <2>1 DEF IInv, TypeOK, Interfaces
    <2> QED BY <2>1, <2>2 DEF IInv, TypeOK, Received, RefusedEnded
  <1> QED BY <1>1, <1>2, <1>3, <1>4, <1>5, <1>6, <1>7, <1>8, <1>9 DEF Thread

\* A piece of a body is the service's data or of no use.
LEMMA WriteKeeps ==
  ASSUME IInv, NEW body \in {latest, Cut}, writeCallback(body)
  PROVE  IInv'
  <1>1. /\ UNCHANGED <<config, app, waited, shuttingdown, pc, transfer, sincePoll,
                       store, latest, refused>>
        /\ memory' = Append(memory, body)
        /\ Len(memory) < MaxPieces
        /\ transfer["polling"] = "open"
    BY DEF writeCallback, appVars
  <1>2. memory \in Seq(Versions \cup {Cut}) /\ body \in Versions \cup {Cut}
    BY DEF IInv, TypeOK
  <1>3. /\ memory' \in Seq(Versions \cup {Cut})
        /\ Len(memory') = Len(memory) + 1
        /\ \A i \in DOMAIN memory' :
             \/ i \in DOMAIN memory /\ memory'[i] = memory[i]
             \/ memory'[i] = body
    BY <1>1, <1>2
  <1>4. Len(memory') <= MaxPieces
    BY <1>1, <1>2, <1>3 DEF MaxPieces
  <1>5. TypeOK'
    BY <1>1, <1>3, <1>4 DEF IInv, TypeOK
  <1>6. store <= latest /\ store \in Nat /\ latest \in Nat
    BY Constants DEF IInv, TypeOK, Received
  <1>7. Received'
    BY <1>1, <1>3, <1>6 DEF IInv, Received
  <1>8. RefusedEnded'
    BY <1>1 DEF IInv, RefusedEnded
  <1> QED BY <1>5, <1>7, <1>8 DEF IInv

LEMMA StepKeeps ==
  ASSUME IInv, [Next]_vars
  PROVE  IInv'
  <1>1. CASE LDClientInit \/ LDClientClose \/ Join
    <2>1. /\ UNCHANGED <<config, waited, pc, transfer, memory, sincePoll, store, latest,
                         refused>>
          /\ app' \in {"init", "up", "close", "gone", "aborted"}
          /\ shuttingdown' \in BOOLEAN
      BY <1>1 DEF LDClientInit, LDClientClose, Join, pollVars, IInv, TypeOK
    <2> QED BY <2>1 DEF IInv, TypeOK, Received, RefusedEnded
  <1>2. CASE Thread
    BY <1>2, ThreadKeeps
  <1>3. CASE CurlFails
    BY <1>3, CleanupKeeps DEF CurlFails, IInv, TypeOK
  <1>4. ASSUME NEW body \in {latest, Cut}, writeCallback(body) PROVE IInv'
    BY <1>4, WriteKeeps
  <1>5. ASSUME NEW i \in Interfaces, NEW code \in Codes, Finish(i, code) PROVE IInv'
    BY <1>5, TransferKeeps DEF Finish, Frame
  <1>6. CASE ServerChange
    <2>1. /\ UNCHANGED <<config, app, waited, shuttingdown, pc, transfer, memory,
                         sincePoll, store, refused>>
          /\ latest' = latest + 1 /\ latest < MaxVersion
      BY <1>6 DEF ServerChange, appVars, pollVars
    <2>2. latest' \in Versions /\ latest \in Nat
      BY <2>1, Constants DEF IInv, TypeOK, Versions
    <2>3. TypeOK'
      BY <2>1, <2>2 DEF IInv, TypeOK
    <2>4. Received'
      BY <2>1, <2>2 DEF IInv, TypeOK, Received
    <2> QED BY <2>1, <2>3, <2>4 DEF IInv, RefusedEnded
  <1>7. CASE Tick
    <2>1. waited' \in 0..MaxWait /\ sincePoll' \in 0..PollInterval
      BY <1>7 DEF Tick, IInv, TypeOK
    <2> QED BY <1>7, <2>1 DEF Tick, IInv, TypeOK, Received, RefusedEnded
  <1>8. CASE UNCHANGED vars
    BY <1>8 DEF vars, appVars, pollVars, IInv, TypeOK, Received, RefusedEnded
  <1> QED BY <1>1, <1>2, <1>3, <1>4, <1>5, <1>6, <1>7, <1>8 DEF Next

LEMMA InitHolds ==
  ASSUME Init
  PROVE  IInv
  <1>1. /\ memory \in Seq(Versions \cup {Cut}) /\ Len(memory) = 0
        /\ DOMAIN memory = {}
    BY DEF Init
  <1>2. latest \in Versions /\ store \in 0..MaxVersion /\ waited \in 0..MaxWait
    BY DEF Init, Versions
  <1>3. Len(memory) <= MaxPieces
    BY <1>1 DEF MaxPieces
  <1>4. TypeOK
    BY <1>1, <1>2, <1>3 DEF Init, TypeOK
  <1>5. Received /\ RefusedEnded
    BY <1>1 DEF Init, Received, RefusedEnded
  <1> QED BY <1>4, <1>5 DEF IInv

LEMMA Invariant == Spec => []IInv
  <1>1. Init => IInv
    BY InitHolds
  <1>2. IInv /\ [Next]_vars => IInv'
    BY StepKeeps
  <1> QED BY <1>1, <1>2, PTL DEF Spec

-----------------------------------------------------------------------------
(* The theorems.                                                            *)

\* TypeOK holds in every behaviour: in particular no piece of a body is left
\* when no poll is open, so that a failed poll cannot spoil the next one.
THEOREM TypeCorrect == Spec => []TypeOK
  <1>1. IInv => TypeOK
    BY DEF IInv
  <1> QED BY <1>1, Invariant, PTL

\* Only done of polling.c writes to the store, and never older data.
LEMMA StoreStep ==
  ASSUME IInv, [Next]_vars
  PROVE  store' >= store
  <1>1. store \in Nat
    BY DEF IInv, TypeOK
  <1>2. CASE donePolled
    BY <1>1, <1>2, CompleteNewer DEF donePolled, updateStore
  <1>3. CASE ~donePolled
    <2>1. store' = store
      BY <1>3 DEF Next, Thread, LDClientInit, LDClientClose, Join, CurlFails, Cleanup,
           ThreadStarts, ThreadFailsToStart, LoopStops, LoopGoesOn, LoopWaits,
           PollsNothing, Polled, PollSends, EventsSend, ReadRefusal, doneAborts, doneNotPolled,
           doneEvents, writeCallback, Finish, ServerChange, Tick, vars, pollVars
    <2> QED BY <1>1, <2>1
  <1> QED BY <1>2, <1>3

\* A poll never takes the store back to older data (StoreAdvances), however the
\* answers of the service are cut, repeated or lost.
THEOREM PollsAdvance == Spec => StoreAdvances
  <1>1. IInv /\ [Next]_vars => [store' >= store]_vars
    BY StoreStep
  <1> QED BY <1>1, Invariant, PTL DEF Spec, StoreAdvances

\* Only a thread that runs starts a transfer.
LEMMA SendStep ==
  ASSUME IInv, [Next]_vars, refused, NEW i \in Interfaces, transfer'[i] = "open"
  PROVE  transfer[i] = "open"
  <1>1. pc = "ended"
    BY DEF IInv, RefusedEnded
  <1>2. transfer' = transfer
    BY <1>1 DEF Next, Thread, LDClientInit, LDClientClose, Join, CurlFails,
         ThreadStarts, ThreadFailsToStart, LoopStops, LoopGoesOn, LoopWaits,
         PollsNothing, Polled, PollSends, EventsSend, ReadRefusal, donePolled,
         doneAborts, doneNotPolled, doneEvents, Ended, writeCallback, Finish, ServerChange, Tick,
         vars
  <1> QED BY <1>2

\* After a 401 or 403 on one interface no interface sends anything
\* (RefusalStops).
THEOREM RefusalEndsSending == Spec => RefusalStops
  <1>1. IInv /\ [Next]_vars
          => [refused => \A i \in Interfaces :
                           transfer'[i] = "open" => transfer[i] = "open"]_vars
    BY SendStep
  <1> QED BY <1>1, Invariant, PTL DEF Spec, RefusalStops
=============================================================================
