---------------------------- MODULE EventsProofs ----------------------------
(***************************************************************************)
(* Proofs about Events for every set of users, every capacity and every    *)
(* interval.                                                               *)
(***************************************************************************)
EXTENDS Events, TLAPS

USE CapacityAssumption, NullAssumption

-----------------------------------------------------------------------------
(* The inductive invariant.                                                 *)

NumberType ==
    /\ events \in Int /\ summary \in Int
    /\ pending \in [events : Int, evaluations : Int]

\* The sender has a payload as long as it has something to send or to retry,
\* and what has arrived is that payload.
PayloadKept ==
    /\ buffer \in Payloads \cup {Null}
    /\ service \in Ids \cup {Null}
    /\ request \in {"none", "sent", "arrived"}
    /\ active \in BOOLEAN
    /\ active <=> request # "none"
    /\ request # "none" \/ failureAge # Null => buffer # Null
    /\ request = "arrived" => buffer.id = service

IInv == NumberType /\ PayloadKept /\ Conserved

-----------------------------------------------------------------------------
(* Operators.                                                               *)

LEMMA UnsentType ==
  ASSUME PayloadKept
  PROVE  Unsent \in [events : Int, evaluations : Int]
  BY DEF PayloadKept, Unsent, None, Payloads

LEMMA FreshId ==
  ASSUME PayloadKept
  PROVE  NewId \in Ids /\ NewId # service
  <1>1. \E id \in Ids : id # service /\ (buffer # Null => id # buffer.id)
    <2>1. CASE buffer = Null
      BY <2>1 DEF PayloadKept, Ids
    <2>2. CASE buffer # Null
      BY <2>2 DEF PayloadKept, Ids, Payloads
    <2> QED BY <2>1, <2>2
  <1> QED BY <1>1 DEF NewId

\* The processor takes in whole numbers of events.
LEMMA AddedType ==
  ASSUME NumberType, NEW n \in Int
  PROVE  LDi_addEvent(n) \in Int
  BY DEF NumberType, LDi_addEvent

LEMMA IndexType ==
  ASSUME NEW u
  PROVE  IndexEvents(u) \in Int
  BY DEF IndexEvents

\* Recording keeps the processor and the account in step.
LEMMA RecordKeeps ==
  ASSUME IInv, NEW n \in Int, NEW m \in Int, Record(n, m),
         UNCHANGED <<senderVars, service>>
  PROVE  IInv'
  <1>1. LDi_addEvent(n) \in Int
    BY AddedType DEF IInv
  <1> DEFINE added == LDi_addEvent(n)
  <1>2. /\ events' = events + added
        /\ summary' = summary + m
        /\ pending' = [events |-> pending.events + added,
                       evaluations |-> pending.evaluations + m]
    BY DEF Record, LDi_summarizeEvent
  <1>3. Unsent' = Unsent
    BY DEF Unsent, senderVars
  <1>4. PayloadKept'
    BY DEF IInv, PayloadKept, senderVars
  <1>5. added \in Int /\ NumberType /\ Conserved /\ PayloadKept
    BY <1>1 DEF IInv
  <1> HIDE DEF added
  <1>6. NumberType'
    BY <1>2, <1>5 DEF NumberType
  <1>7. Conserved'
    <2>1. Unsent \in [events : Int, evaluations : Int]
      BY <1>5, UnsentType
    <2> QED BY <1>2, <1>3, <1>5, <2>1 DEF NumberType, Conserved
  <1> QED BY <1>4, <1>6, <1>7 DEF IInv

LEMMA ApplicationKeeps ==
  ASSUME IInv, Recording
  PROVE  IInv'
  <1>1. UNCHANGED <<senderVars, service>>
    BY DEF Recording
  <1>2. ASSUME NEW u \in Users, NEW m \in 1..(1 + MaxPrerequisites),
               NEW n \in QueuedEvents(m), LDEventProcessor_ProcessEvaluation(u, m, n)
        PROVE  IInv'
    <2>1. m \in Int /\ n \in Int
      BY RecordedAssumption DEF QueuedEvents
    <2>2. IndexEvents(u) + n \in Int
      BY <2>1, IndexType
    <2>3. Record(IndexEvents(u) + n, m)
      BY <1>2 DEF LDEventProcessor_ProcessEvaluation
    <2> QED BY <1>1, <2>1, <2>2, <2>3, RecordKeeps
  <1>3. ASSUME NEW u \in Users, LDEventProcessor_Track(u)
        PROVE  IInv'
    <2>1. IndexEvents(u) + 1 \in Int
      BY IndexType
    <2>2. Record(IndexEvents(u) + 1, 0)
      BY <1>3 DEF LDEventProcessor_Track
    <2> QED BY <1>1, <2>1, <2>2, RecordKeeps
  <1>4. ASSUME NEW u \in Users, LDEventProcessor_Identify(u)
        PROVE  IInv'
    BY <1>1, <1>4, RecordKeeps DEF LDEventProcessor_Identify
  <1>5. ASSUME LDEventProcessor_Alias
        PROVE  IInv'
    BY <1>1, <1>5, RecordKeeps DEF LDEventProcessor_Alias
  <1> QED BY <1>2, <1>3, <1>4, <1>5 DEF Recording, Application

-----------------------------------------------------------------------------
(* The sender.                                                              *)

\* What Settle takes off the account is what the payload stands for.
LEMMA SettleType ==
  ASSUME IInv, Settle
  PROVE  /\ pending' \in [events : Int, evaluations : Int]
         /\ pending'.events = events
         /\ pending'.evaluations = summary
  <1>1. Unsent \in [events : Int, evaluations : Int]
    BY UnsentType DEF IInv
  <1> QED BY <1>1 DEF IInv, NumberType, Conserved, Settle

LEMMA BundleKeeps ==
  ASSUME IInv, Bundle, PollNew \/ PollNewFails
  PROVE  IInv'
  <1>1. NewId \in Ids /\ NewId # service
    BY FreshId DEF IInv
  <1>2. /\ buffer' = [id |-> NewId, events |-> events, evaluations |-> summary]
        /\ service' = service
        /\ events' = 0 /\ summary' = 0
        /\ failureAge = Null /\ failureAge' = Null
        /\ ~active
    BY DEF Bundle, Payload, ResetState
  <1>3. /\ pending' \in [events : Int, evaluations : Int]
        /\ pending'.events = events
        /\ pending'.evaluations = summary
    BY SettleType DEF Bundle
  <1>4. buffer' \in Payloads /\ buffer'.id # service'
    BY <1>1, <1>2 DEF IInv, NumberType, Payloads
  <1>5. buffer' # Null
    BY <1>4
  <1>6. NumberType'
    BY <1>2, <1>3 DEF NumberType
  <1>7. Conserved'
    BY <1>2, <1>3, <1>4, <1>5 DEF Conserved, Unsent, IInv, NumberType
  <1>8. PayloadKept'
    <2>1. request = "none" /\ active = FALSE
      BY <1>2 DEF IInv, PayloadKept
    <2>2. service' \in Ids \cup {Null}
      BY <1>2 DEF IInv, PayloadKept
    <2>3. CASE PollNew
      BY <1>4, <1>5, <2>2, <2>3 DEF PayloadKept, PollNew
    <2>4. CASE PollNewFails
      BY <1>2, <1>4, <1>5, <2>1, <2>2, <2>4 DEF PayloadKept, PollNewFails
    <2> QED BY <2>3, <2>4
  <1> QED BY <1>6, <1>7, <1>8 DEF IInv

\* Nothing is left of a payload that is given up.
LEMMA DiscardKeeps ==
  ASSUME IInv, Settle, resetMemory, request' = "none", active' = FALSE,
         UNCHANGED <<queueVars, service>>
  PROVE  IInv'
  <1>1. Unsent' = None
    BY DEF Unsent, resetMemory
  <1>2. events' = events /\ summary' = summary
    BY DEF queueVars
  <1>3. NumberType' /\ Conserved'
    BY <1>1, <1>2, SettleType DEF IInv, NumberType, Conserved, None
  <1>4. PayloadKept'
    BY DEF IInv, PayloadKept, resetMemory
  <1> QED BY <1>3, <1>4 DEF IInv

LEMMA StepKeeps ==
  ASSUME IInv, [Next]_vars
  PROVE  IInv'
  <1>1. CASE Recording
    BY <1>1, ApplicationKeeps
  <1>2. CASE LDClientFlush
    BY <1>2 DEF LDClientFlush, IInv, NumberType, PayloadKept, Conserved, Unsent,
               processorVars
  <1>3. CASE PollNew
    BY <1>3, BundleKeeps DEF PollNew
  <1>4. CASE PollNewFails
    BY <1>4, BundleKeeps DEF PollNewFails
  <1>5. CASE PollRetry
    BY <1>5 DEF PollRetry, RetryPayload, IInv, NumberType, PayloadKept, Conserved,
               Unsent, processorVars
  <1>6. CASE doneSuccess
    <2>1. Unsent = None /\ Unsent' = None
      BY <1>6 DEF doneSuccess, resetMemory, Unsent, IInv, PayloadKept
    <2>2. UNCHANGED <<events, summary, pending, service>>
      BY <1>6 DEF doneSuccess, processorVars
    <2>3. NumberType' /\ Conserved'
      BY <2>1, <2>2 DEF IInv, NumberType, Conserved
    <2>4. PayloadKept'
      BY <1>6 DEF doneSuccess, resetMemory, IInv, PayloadKept
    <2> QED BY <2>3, <2>4 DEF IInv
  <1>7. CASE doneFailure
    <2>1. CASE failureAge # Null
      BY <1>7, <2>1, DiscardKeeps DEF doneFailure, fail
    <2>2. CASE failureAge = Null
      <3>1. UNCHANGED <<events, summary, pending, service, buffer>>
        BY <1>7, <2>2 DEF doneFailure, fail, queueVars
      <3>2. NumberType' /\ Conserved'
        BY <3>1 DEF IInv, NumberType, Conserved, Unsent
      <3>3. PayloadKept'
        BY <1>7, <2>2, <3>1 DEF doneFailure, fail, IInv, PayloadKept
      <3> QED BY <3>2, <3>3 DEF IInv
    <2> QED BY <2>1, <2>2
  <1>8. CASE Arrive
    <2>1. /\ buffer # Null /\ buffer' = buffer /\ service' = buffer.id
          /\ events' = events /\ summary' = summary
      BY <1>8 DEF Arrive, queueVars, IInv, PayloadKept
    <2>2. Unsent' = None
      BY <2>1 DEF Unsent
    <2>3. NumberType' /\ Conserved'
      BY <1>8, <2>1, <2>2, SettleType DEF Arrive, IInv, NumberType, Conserved, None
    <2>4. PayloadKept'
      BY <1>8, <2>1 DEF Arrive, IInv, PayloadKept, Payloads
    <2> QED BY <2>3, <2>4 DEF IInv
  <1>9. CASE NetworkThreadEnds
    BY <1>9, DiscardKeeps DEF NetworkThreadEnds
  <1>10. CASE Tick
    BY <1>10 DEF Tick, KeysTick, IInv, NumberType, PayloadKept, Conserved, Unsent
  <1>11. CASE UNCHANGED vars
    BY <1>11 DEF vars, processorVars, senderVars, IInv, NumberType, PayloadKept,
                Conserved, Unsent
  <1> QED BY <1>1, <1>2, <1>3, <1>4, <1>5, <1>6, <1>7, <1>8, <1>9, <1>10, <1>11
          DEF Next

LEMMA InitHolds ==
  ASSUME Init
  PROVE  IInv
  <1>1. NumberType
    BY DEF Init, ProcessorInit, None, NumberType
  <1>2. PayloadKept
    BY DEF Init, PayloadKept
  <1>3. Unsent = None
    BY DEF Init, Unsent
  <1>4. Conserved
    BY <1>3 DEF Init, ProcessorInit, None, Conserved
  <1> QED BY <1>1, <1>2, <1>4 DEF IInv

\* No event and no evaluation is counted twice or lost track of (Conserved),
\* for any number of calls, failures, lost answers and retries of events.c.
THEOREM Conservation == Spec => []Conserved
  <1>1. Init => IInv
    BY InitHolds
  <1>2. IInv /\ [Next]_vars => IInv'
    BY StepKeeps
  <1>3. IInv => Conserved
    BY DEF IInv
  <1> QED BY <1>1, <1>2, <1>3, PTL DEF Spec
-----------------------------------------------------------------------------
(* A payload is given up only after two transfers.                          *)

\* failureTime tells the first transfer of a payload from the second.
SendsCounted ==
    /\ active \in BOOLEAN
    /\ failureAge \in Int \cup {Null}
    /\ active /\ failureAge = Null => sends = 1
    /\ active /\ failureAge # Null => sends = 2
    /\ ~active /\ failureAge # Null => sends = 1

LEMMA StepCountsSends ==
  ASSUME SendsCounted, [Next]_vars
  PROVE  SendsCounted'
  <1>1. CASE Recording \/ LDClientFlush \/ Arrive \/ UNCHANGED vars
    <2>1. UNCHANGED <<active, failureAge, sends>>
      BY <1>1 DEF Recording, LDClientFlush, Arrive, vars, senderVars
    <2> QED BY <2>1 DEF SendsCounted
  <1>2. CASE PollNew \/ PollNewFails
    BY <1>2 DEF PollNew, PollNewFails, Bundle, SendsCounted
  <1>3. CASE PollRetry
    BY <1>3 DEF PollRetry, SendsCounted
  <1>4. CASE doneSuccess \/ NetworkThreadEnds
    BY <1>4 DEF doneSuccess, NetworkThreadEnds, resetMemory, SendsCounted
  <1>5. CASE doneFailure
    <2>1. active = TRUE /\ active' = FALSE /\ sends' = sends
      BY <1>5 DEF doneFailure, SendsCounted
    <2>2. CASE failureAge = Null
      BY <1>5, <2>1, <2>2 DEF doneFailure, fail, SendsCounted
    <2>3. CASE failureAge # Null
      BY <1>5, <2>1, <2>3 DEF doneFailure, fail, resetMemory, SendsCounted
    <2> QED BY <2>2, <2>3
  <1>6. CASE Tick
    BY <1>6, IntervalAssumption DEF Tick, SendsCounted
  <1> QED BY <1>1, <1>2, <1>3, <1>4, <1>5, <1>6 DEF Next

LEMMA DiscardStep ==
  ASSUME SendsCounted, [Next]_vars, active, ~active', running', pending' # pending
  PROVE  sends = 2
  <1>1. ~(Recording \/ LDClientFlush \/ Arrive \/ Tick \/ UNCHANGED vars)
    BY DEF Recording, LDClientFlush, Arrive, Tick, vars, senderVars
  <1>2. ~(PollNew \/ PollNewFails \/ PollRetry)
    BY DEF PollNew, PollNewFails, Bundle, PollRetry
  <1>3. ~(doneSuccess \/ NetworkThreadEnds)
    BY DEF doneSuccess, NetworkThreadEnds, processorVars
  <1>4. doneFailure
    BY <1>1, <1>2, <1>3 DEF Next
  <1> QED BY <1>4 DEF doneFailure, fail, SendsCounted

\* done of events.c gives a payload up only after its second transfer
\* (DiscardedAfterRetry), whatever fails and whenever time passes.
THEOREM Retried == Spec => DiscardedAfterRetry
  <1>1. Init => SendsCounted
    BY DEF Init, SendsCounted
  <1>2. SendsCounted /\ [Next]_vars => SendsCounted'
    BY StepCountsSends
  <1>3. SendsCounted /\ [Next]_vars
          => [active /\ ~active' /\ running' /\ pending' # pending => sends = 2]_vars
    BY DiscardStep
  <1> QED BY <1>1, <1>2, <1>3, PTL DEF Spec, DiscardedAfterRetry
-----------------------------------------------------------------------------
(* The known users.                                                         *)

Distinct(s) == \A i, j \in DOMAIN s : s[i] = s[j] => i = j

\* The users that the definition of RemembersMostRecent speaks of.
MostRecent(s) ==
    SubSeq(s, 1, IF Len(s) < UserKeysCapacity THEN Len(s) ELSE UserKeysCapacity)

\* A list in which a user has one place can be told by its places.
LEMMA PlaceIs ==
  ASSUME NEW s \in Seq(Users), NEW u
  PROVE  /\ Contains(s, u) => Place(s, u) \in 1..Len(s) /\ s[Place(s, u)] = u
         /\ ~Contains(s, u) => Place(s, u) = Len(s) + 1
  BY DEF Contains, Place

LEMMA ToFrontType ==
  ASSUME NEW s \in Seq(Users), NEW u \in Users
  PROVE  /\ ToFront(s, u) \in Seq(Users)
         /\ Len(ToFront(s, u)) = IF Contains(s, u) THEN Len(s) ELSE Len(s) + 1
         /\ \A i \in 1..Len(ToFront(s, u)) :
              ToFront(s, u)[i] = IF i = 1 THEN u
                                 ELSE IF i <= Place(s, u) THEN s[i - 1] ELSE s[i]
  <1> DEFINE n == IF Contains(s, u) THEN Len(s) ELSE Len(s) + 1
             f == [i \in 1..n |-> IF i = 1 THEN u
                                  ELSE IF i <= Place(s, u) THEN s[i - 1] ELSE s[i]]
  <1>1. n \in Nat /\ ToFront(s, u) = f
    BY DEF ToFront
  <1>2. ASSUME NEW i \in 1..n
        PROVE  f[i] \in Users
    <2>1. Place(s, u) \in Nat
      BY PlaceIs
    <2>2. i # 1 /\ i <= Place(s, u) => i - 1 \in 1..Len(s)
      BY PlaceIs
    <2>3. i # 1 /\ ~(i <= Place(s, u)) => i \in 1..Len(s)
      BY PlaceIs
    <2> QED BY <2>1, <2>2, <2>3
  <1>3. DOMAIN f = 1..n /\ f = [i \in 1..n |-> f[i]]
    OBVIOUS
  <1> HIDE DEF n, f
  <1>4. f \in [1..n -> Users]
    BY <1>2, <1>3
  <1>5. f \in Seq(Users) /\ Len(f) = n
    BY <1>1, <1>3, <1>4
  <1>6. \A i \in 1..n : f[i] = IF i = 1 THEN u
                               ELSE IF i <= Place(s, u) THEN s[i - 1] ELSE s[i]
    BY DEF f
  <1> QED BY <1>1, <1>5, <1>6 DEF n

\* Moving a user to the front makes no duplicate of it, or of any other.
LEMMA ToFrontDistinct ==
  ASSUME NEW s \in Seq(Users), NEW u \in Users, Distinct(s)
  PROVE  Distinct(ToFront(s, u))
  <1> DEFINE f == ToFront(s, u)
             p == Place(s, u)
             from(i) == IF i <= p THEN i - 1 ELSE i
  <1>1. /\ f \in Seq(Users)
        /\ Len(f) = IF Contains(s, u) THEN Len(s) ELSE Len(s) + 1
        /\ f[1] = u
        /\ \A i \in 2..Len(f) : f[i] = s[from(i)]
    <2>1. /\ f \in Seq(Users)
          /\ Len(f) = IF Contains(s, u) THEN Len(s) ELSE Len(s) + 1
          /\ \A i \in 1..Len(f) :
               f[i] = IF i = 1 THEN u ELSE IF i <= p THEN s[i - 1] ELSE s[i]
      BY ToFrontType
    <2>2. Len(f) \in Nat /\ Len(f) >= 1
      BY <2>1, PlaceIs
    <2> HIDE DEF f, p
    <2> QED BY <2>1, <2>2
  <1>2. p \in Nat /\ (Contains(s, u) => s[p] = u) /\ p \in 1..(Len(s) + 1)
    BY PlaceIs
  <1>3. ASSUME NEW i \in 2..Len(f)
        PROVE  from(i) \in 1..Len(s) /\ from(i) # p
    BY <1>1, <1>2, PlaceIs
  <1>4. ASSUME NEW i \in 2..Len(f)
        PROVE  f[i] # u
    <2>1. from(i) \in DOMAIN s /\ f[i] = s[from(i)]
      BY <1>1, <1>3
    <2>2. CASE Contains(s, u)
      BY <1>2, <1>3, <2>1, <2>2, PlaceIs DEF Distinct
    <2>3. CASE ~Contains(s, u)
      BY <2>1, <2>3 DEF Contains
    <2> QED BY <2>2, <2>3
  <1>5. ASSUME NEW i \in 2..Len(f), NEW j \in 2..Len(f), f[i] = f[j]
        PROVE  i = j
    <2>1. from(i) = from(j)
      BY <1>1, <1>3, <1>5 DEF Distinct
    <2> QED BY <1>2, <1>3, <2>1
  <1> HIDE DEF f
  <1>6. DOMAIN f = 1..Len(f) /\ Len(f) \in Nat
    BY <1>1
  <1>7. ASSUME NEW i \in DOMAIN f, NEW j \in DOMAIN f, f[i] = f[j]
        PROVE  i = j
    <2>1. CASE i = 1 /\ j = 1 BY <2>1
    <2>2. CASE i = 1 /\ j # 1 BY <1>1, <1>4, <1>6, <1>7, <2>2
    <2>3. CASE i # 1 /\ j = 1 BY <1>1, <1>4, <1>6, <1>7, <2>3
    <2>4. CASE i # 1 /\ j # 1 BY <1>5, <1>6, <1>7, <2>4
    <2> QED BY <2>1, <2>2, <2>3, <2>4
  <1>8. Distinct(f)
    BY <1>7 DEF Distinct
  <1> QED BY <1>8 DEF f

LEMMA MostRecentType ==
  ASSUME NEW s \in Seq(Users)
  PROVE  /\ MostRecent(s) \in Seq(Users)
         /\ Len(MostRecent(s)) = IF Len(s) < UserKeysCapacity THEN Len(s)
                                                             ELSE UserKeysCapacity
         /\ Len(MostRecent(s)) <= Len(s)
         /\ \A i \in 1..Len(MostRecent(s)) : MostRecent(s)[i] = s[i]
  <1> DEFINE n == IF Len(s) < UserKeysCapacity THEN Len(s) ELSE UserKeysCapacity
  <1>1. n \in Nat /\ n <= Len(s) /\ Len(s) \in Nat
    OBVIOUS
  <1>2. MostRecent(s) = SubSeq(s, 1, n)
    BY DEF MostRecent
  <1> HIDE DEF n
  <1>3. /\ SubSeq(s, 1, n) \in Seq(Users)
        /\ Len(SubSeq(s, 1, n)) = n
        /\ \A i \in 1..n : SubSeq(s, 1, n)[i] = s[i]
    BY <1>1
  <1> QED BY <1>1, <1>2, <1>3 DEF n

\* Two lists of the same length with the same members are one list.
LEMMA SameList ==
  ASSUME NEW s \in Seq(Users), NEW r \in Seq(Users), Len(s) = Len(r),
         \A i \in 1..Len(s) : s[i] = r[i]
  PROVE  s = r
  OBVIOUS

\* The LRU of lru.c does with the users it keeps what moving a user to the
\* front does with the list of all: nothing that was forgotten is missed.
LEMMA InsertIntoMostRecent ==
  ASSUME NEW s \in Seq(Users), NEW u \in Users, Distinct(s)
  PROVE  LDLRUInsert(MostRecent(s), u) = MostRecent(ToFront(s, u))
  <1> DEFINE l == MostRecent(s)
             f == ToFront(s, u)
             m == MostRecent(f)
             n == UserKeysCapacity
  <1>1. /\ l \in Seq(Users) /\ Len(l) \in Nat /\ Len(l) <= Len(s)
        /\ Len(l) = IF Len(s) < n THEN Len(s) ELSE n
        /\ \A i \in 1..Len(l) : l[i] = s[i]
    BY MostRecentType
  <1>2. /\ f \in Seq(Users)
        /\ Len(f) = IF Contains(s, u) THEN Len(s) ELSE Len(s) + 1
        /\ \A i \in 1..Len(f) : f[i] = IF i = 1 THEN u
                                       ELSE IF i <= Place(s, u) THEN s[i - 1] ELSE s[i]
    BY ToFrontType
  <1>3. /\ m \in Seq(Users)
        /\ Len(m) = IF Len(f) < n THEN Len(f) ELSE n
        /\ Len(m) <= Len(f)
        /\ \A i \in 1..Len(m) : m[i] = f[i]
    BY <1>2, MostRecentType
  <1>4. /\ Contains(s, u) => Place(s, u) \in 1..Len(s) /\ s[Place(s, u)] = u
        /\ ~Contains(s, u) => Place(s, u) = Len(s) + 1
        /\ Len(s) \in Nat /\ n \in Nat
    BY PlaceIs
  <1> HIDE DEF l, f, m
  \* What is kept has the place it has among all.
  <1>5. Contains(l, u) <=> Contains(s, u) /\ Place(s, u) <= Len(l)
    <2>1. ASSUME Contains(l, u)
          PROVE  Contains(s, u) /\ Place(s, u) <= Len(l)
      <3>1. PICK i \in 1..Len(l) : l[i] = u
        BY <1>1, <2>1 DEF Contains
      <3>2. i \in DOMAIN s /\ s[i] = u
        BY <1>1, <3>1
      <3>3. Contains(s, u)
        BY <3>2 DEF Contains
      <3>4. Place(s, u) = i
        BY <1>4, <3>2, <3>3 DEF Distinct
      <3> QED BY <3>1, <3>3, <3>4
    <2>2. ASSUME Contains(s, u), Place(s, u) <= Len(l)
          PROVE  Contains(l, u)
      <3>1. Place(s, u) \in 1..Len(l)
        BY <1>1, <1>4, <2>2
      <3>2. Place(s, u) \in DOMAIN l /\ l[Place(s, u)] = u
        BY <1>1, <1>4, <2>2, <3>1
      <3> QED BY <3>2 DEF Contains
    <2> QED BY <2>1, <2>2
  <1>6. CASE n = 0
    <2>1. LDLRUInsert(l, u) = l
      BY <1>6 DEF LDLRUInsert
    <2>2. Len(l) = 0 /\ Len(m) = 0
      BY <1>1, <1>2, <1>3, <1>4, <1>6
    <2> QED BY <1>1, <1>3, <2>1, <2>2, SameList DEF l, f, m
  <1>7. CASE n # 0 /\ ~Contains(l, u) /\ Len(l) = n
    <2> DEFINE r == <<u>> \o SubSeq(l, 1, Len(l) - 1)
    <2>1. LDLRUInsert(l, u) = r
      BY <1>7 DEF LDLRUInsert
    <2>2. /\ SubSeq(l, 1, n - 1) \in Seq(Users)
          /\ Len(SubSeq(l, 1, n - 1)) = n - 1
          /\ \A i \in 1..(n - 1) : SubSeq(l, 1, n - 1)[i] = l[i]
      BY <1>1, <1>4, <1>7
    <2>3. /\ r \in Seq(Users) /\ Len(r) = n
          /\ r[1] = u
          /\ \A i \in 2..n : r[i] = l[i - 1]
      BY <1>4, <1>7, <2>2
    <2>4. Len(m) = n /\ Place(s, u) > n
      BY <1>1, <1>2, <1>3, <1>4, <1>5, <1>7
    <2> HIDE DEF r
    <2>5. ASSUME NEW i \in 1..n
          PROVE  r[i] = m[i]
      <3>1. m[i] = IF i = 1 THEN u ELSE s[i - 1]
        <4>1. i \in 1..Len(m) /\ i \in 1..Len(f)
          BY <1>2, <1>3, <2>4
        <4>2. i <= Place(s, u)
          BY <1>4, <2>4
        <4> QED BY <1>2, <1>3, <4>1, <4>2
      <3>2. i # 1 => l[i - 1] = s[i - 1]
        BY <1>1, <1>4, <1>7
      <3> QED BY <2>3, <3>1, <3>2
    <2>6. r = m
      BY <1>3, <2>3, <2>4, <2>5, SameList
    <2> QED BY <2>1, <2>6 DEF l, f, m
  <1>8. CASE n # 0 /\ (Contains(l, u) \/ Len(l) # n)
    <2> DEFINE r == ToFront(l, u)
    <2>1. LDLRUInsert(l, u) = r
      BY <1>8 DEF LDLRUInsert
    <2>2. /\ r \in Seq(Users)
          /\ Len(r) = IF Contains(l, u) THEN Len(l) ELSE Len(l) + 1
          /\ \A i \in 1..Len(r) : r[i] = IF i = 1 THEN u
                                         ELSE IF i <= Place(l, u) THEN l[i - 1] ELSE l[i]
      BY <1>1, ToFrontType
    <2>3. Place(l, u) = Place(s, u)
      <3>1. CASE Contains(l, u)
        <4>1. Place(l, u) \in 1..Len(l) /\ l[Place(l, u)] = u
          BY <1>1, <3>1, PlaceIs
        <4>2. Place(l, u) \in DOMAIN s /\ s[Place(l, u)] = u
          BY <1>1, <4>1
        <4>3. Place(s, u) \in DOMAIN s /\ s[Place(s, u)] = u
          BY <1>4, <1>5, <3>1
        <4> QED BY <4>2, <4>3 DEF Distinct
      <3>2. CASE ~Contains(l, u)
        <4>1. Len(l) = Len(s)
          BY <1>1, <1>4, <1>8, <3>2
        <4>2. ~Contains(s, u)
          BY <1>4, <1>5, <3>2, <4>1
        <4> QED BY <1>1, <1>4, <3>2, <4>1, <4>2, PlaceIs
      <3> QED BY <3>1, <3>2
    <2>4. Len(r) = Len(m)
      BY <1>1, <1>2, <1>3, <1>4, <1>5, <1>8, <2>2
    <2> HIDE DEF r
    <2>5. ASSUME NEW i \in 1..Len(m)
          PROVE  r[i] = m[i]
      <3>1. m[i] = IF i = 1 THEN u ELSE IF i <= Place(s, u) THEN s[i - 1] ELSE s[i]
        BY <1>2, <1>3
      <3>2. r[i] = IF i = 1 THEN u ELSE IF i <= Place(s, u) THEN l[i - 1] ELSE l[i]
        BY <2>2, <2>3, <2>4
      <3>3. i # 1 /\ i <= Place(s, u) => l[i - 1] = s[i - 1]
        <4>1. Len(m) <= Len(l) + 1
          BY <1>1, <2>2, <2>4
        <4> QED BY <1>1, <1>3, <4>1
      <3>4. i # 1 /\ ~(i <= Place(s, u)) => l[i] = s[i]
        <4>1. ~(i <= Place(s, u)) => Contains(l, u)
          <5>1. CASE Contains(s, u)
            BY <1>1, <1>3, <1>4, <1>5, <2>2, <2>4, <5>1
          <5>2. CASE ~Contains(s, u)
            BY <1>1, <1>2, <1>3, <1>4, <5>2
          <5> QED BY <5>1, <5>2
        <4>2. Contains(l, u) => Len(m) = Len(l)
          BY <2>2, <2>4
        <4> QED BY <1>1, <1>3, <4>1, <4>2
      <3> QED BY <3>1, <3>2, <3>3, <3>4
    <2>6. r = m
      BY <1>3, <2>2, <2>4, <2>5, SameList
    <2> QED BY <2>1, <2>6 DEF l, f, m
  <1> QED BY <1>6, <1>7, <1>8

\* With the age of the known users, what the processor keeps of them.
KeysKept ==
    /\ recency \in Seq(Users)
    /\ Distinct(recency)
    /\ userKeys = MostRecent(recency)

LEMMA EmptyKept ==
  /\ <<>> \in Seq(Users) /\ Distinct(<<>>) /\ MostRecent(<<>>) = <<>>
  <1>1. <<>> \in Seq(Users) /\ Len(<<>>) = 0 /\ DOMAIN <<>> = {}
    OBVIOUS
  <1>2. ASSUME NEW s \in Seq(Users), Len(s) = 0
        PROVE  MostRecent(s) = s
    <2>1. MostRecent(s) \in Seq(Users) /\ Len(MostRecent(s)) <= Len(s)
      BY MostRecentType
    <2>2. Len(MostRecent(s)) = 0
      BY <1>2, <2>1
    <2> QED BY <1>2, <2>1, <2>2, SameList
  <1>3. MostRecent(<<>>) = <<>>
    BY <1>1, <1>2
  <1> QED BY <1>1, <1>3 DEF Distinct

LEMMA InsertKeeps ==
  ASSUME NEW s \in Seq(Users), Distinct(s), NEW u \in Users,
         userKeys' = LDLRUInsert(MostRecent(s), u), recency' = ToFront(s, u)
  PROVE  KeysKept'
  BY ToFrontType, ToFrontDistinct, InsertIntoMostRecent DEF KeysKept, MostRecent, Distinct

LEMMA RememberKeeps ==
  ASSUME KeysKept, NEW u \in Users, RememberUser(u)
  PROVE  KeysKept'
  <1>1. CASE InlineUsers
    BY <1>1 DEF RememberUser, KeysKept, MostRecent, Distinct
  <1>2. CASE ~InlineUsers /\ KeysExpired
    BY <1>2, EmptyKept, InsertKeeps DEF RememberUser, Known
  <1>3. CASE ~InlineUsers /\ ~KeysExpired
    BY <1>3, InsertKeeps DEF RememberUser, Known, KeysKept
  <1> QED BY <1>1, <1>2, <1>3

LEMMA StepKeepsKeys ==
  ASSUME KeysKept, [Next]_vars
  PROVE  KeysKept'
  <1>1. CASE Recording
    <2>1. ASSUME NEW u \in Users, RememberUser(u) PROVE KeysKept'
      BY <2>1, RememberKeeps
    <2>2. ASSUME NEW u \in Users, LDEventProcessor_Identify(u) PROVE KeysKept'
      BY <2>2, InsertKeeps DEF LDEventProcessor_Identify, KeysKept
    <2>3. CASE LDEventProcessor_Alias
      BY <2>3 DEF LDEventProcessor_Alias, KeysKept, MostRecent, Distinct
    <2> QED BY <1>1, <2>1, <2>2, <2>3 DEF Recording, Application,
               LDEventProcessor_ProcessEvaluation, LDEventProcessor_Track
  <1>2. CASE ~Recording
    <2>1. UNCHANGED <<userKeys, recency>>
      BY <1>2 DEF Next, LDClientFlush, PollNew, PollNewFails, Bundle, ResetState,
           PollRetry, doneSuccess, doneFailure, Arrive, NetworkThreadEnds, Tick,
           KeysTick, vars, processorVars, queueVars
    <2> QED BY <2>1 DEF KeysKept, MostRecent, Distinct
  <1> QED BY <1>1, <1>2

\* The set of known users holds the most recent ones in the order of their last
\* use (RemembersMostRecent), for every capacity, 0 and 1 included, and any
\* number of users, insertions, evictions and periodic clearings.
THEOREM MostRecentRemembered == Spec => []RemembersMostRecent
  <1>1. Init => KeysKept
    BY EmptyKept DEF Init, ProcessorInit, KeysKept
  <1>2. KeysKept /\ [Next]_vars => KeysKept'
    BY StepKeepsKeys
  <1>3. KeysKept => RemembersMostRecent
    BY DEF KeysKept, RemembersMostRecent, MostRecent
  <1> QED BY <1>1, <1>2, <1>3, PTL DEF Spec

-----------------------------------------------------------------------------
(* Type correctness.                                                        *)

USE KeysIntervalAssumption, RecordedAssumption, IntervalAssumption

\* The ranges that neither Conserved nor RemembersMostRecent rests on.
Ranges ==
    /\ events \in 0..EventsCapacity
    /\ summary \in Nat
    /\ keysAge \in 0..(UserKeysFlushInterval + 1)
    /\ calls \in 0..MaxRecorded
    /\ shouldFlush \in BOOLEAN
    /\ sinceFlush \in 0..FlushInterval
    /\ failureAge \in 0..(RetryWait + 1) \cup {Null}
    /\ running \in BOOLEAN
    /\ sends \in 0..2

\* The queue takes no more than it has room for.
LEMMA RecordRanges ==
  ASSUME Ranges, NEW n \in Nat, NEW m \in Nat, Record(n, m),
         keysAge' \in 0..(UserKeysFlushInterval + 1),
         UNCHANGED <<senderVars, service, sends>>
  PROVE  Ranges'
  <1>1. /\ LDi_addEvent(n) \in 0..(EventsCapacity - events)
        /\ events' = events + LDi_addEvent(n)
    BY DEF LDi_addEvent, Record, Ranges
  <1>2. events' \in 0..EventsCapacity
    BY <1>1 DEF Ranges
  <1>3. summary' \in Nat /\ calls' \in 0..MaxRecorded
    BY DEF Record, LDi_summarizeEvent, Ranges
  <1> QED BY <1>2, <1>3 DEF Ranges, senderVars

LEMMA RecordingRanges ==
  ASSUME Ranges, Recording
  PROVE  Ranges'
  <1>1. UNCHANGED <<senderVars, service, sends>>
    BY DEF Recording
  <1>2. ASSUME NEW u \in Users, RememberUser(u)
        PROVE  keysAge' \in 0..(UserKeysFlushInterval + 1)
    BY <1>2 DEF RememberUser, Ranges
  <1>3. ASSUME NEW u
        PROVE  IndexEvents(u) \in Nat
    BY DEF IndexEvents
  <1>4. ASSUME NEW u \in Users, NEW m \in 1..(1 + MaxPrerequisites),
               NEW n \in QueuedEvents(m), LDEventProcessor_ProcessEvaluation(u, m, n)
        PROVE  Ranges'
    <2>1. m \in Nat /\ n \in Nat
      BY DEF QueuedEvents
    <2>2. IndexEvents(u) + n \in Nat
      BY <1>3, <2>1
    <2> QED BY <1>1, <1>2, <1>4, <2>1, <2>2, RecordRanges
            DEF LDEventProcessor_ProcessEvaluation
  <1>5. ASSUME NEW u \in Users, LDEventProcessor_Track(u)
        PROVE  Ranges'
    <2>1. IndexEvents(u) + 1 \in Nat
      BY <1>3
    <2> QED BY <1>1, <1>2, <1>5, <2>1, RecordRanges DEF LDEventProcessor_Track
  <1>6. ASSUME NEW u \in Users, LDEventProcessor_Identify(u)
        PROVE  Ranges'
    BY <1>1, <1>6, RecordRanges DEF LDEventProcessor_Identify, Ranges
  <1>7. CASE LDEventProcessor_Alias
    BY <1>1, <1>7, RecordRanges DEF LDEventProcessor_Alias, Ranges
  <1> QED BY <1>4, <1>5, <1>6, <1>7 DEF Recording, Application

LEMMA StepRanges ==
  ASSUME Ranges, SendsCounted, [Next]_vars
  PROVE  Ranges'
  <1>1. CASE Recording
    BY <1>1, RecordingRanges
  <1>2. CASE LDClientFlush
    BY <1>2 DEF LDClientFlush, Ranges, processorVars
  <1>3. CASE PollNew \/ PollNewFails
    BY <1>3 DEF PollNew, PollNewFails, Bundle, ResetState, Ranges
  <1>4. CASE PollRetry
    <2>1. sends' \in 0..2
      BY <1>4 DEF PollRetry, SendsCounted
    <2> QED BY <1>4, <2>1 DEF PollRetry, Ranges, processorVars
  <1>5. CASE doneSuccess
    <2>1. 0 \in 0..FlushInterval
      OBVIOUS
    <2> QED BY <1>5, <2>1 DEF doneSuccess, resetMemory, Ranges, processorVars
  <1>6. CASE doneFailure
    <2>1. failureAge' \in 0..(RetryWait + 1) \cup {Null}
      BY <1>6 DEF doneFailure, fail, resetMemory
    <2> QED BY <1>6, <2>1 DEF doneFailure, Ranges, queueVars
  <1>7. CASE Arrive
    BY <1>7 DEF Arrive, Ranges, queueVars
  <1>8. CASE NetworkThreadEnds
    BY <1>8 DEF NetworkThreadEnds, resetMemory, Ranges, queueVars
  <1>9. CASE Tick
    <2>1. keysAge' \in 0..(UserKeysFlushInterval + 1)
      BY <1>9 DEF Tick, KeysTick, KeysExpired, Ranges
    <2>2. sinceFlush' \in 0..FlushInterval
      BY <1>9 DEF Tick, Ranges
    <2>3. failureAge' \in 0..(RetryWait + 1) \cup {Null}
      BY <1>9 DEF Tick, Ranges
    <2> QED BY <1>9, <2>1, <2>2, <2>3 DEF Tick, KeysTick, Ranges
  <1>10. CASE UNCHANGED vars
    BY <1>10 DEF vars, processorVars, senderVars, Ranges
  <1> QED BY <1>1, <1>2, <1>3, <1>4, <1>5, <1>6, <1>7, <1>8, <1>9, <1>10 DEF Next

\* TypeOK holds in every behaviour: the queue never exceeds config->eventsCapacity,
\* the set of known users never exceeds userKeysCapacity, a payload is sent at
\* most twice, and the sender is active exactly while it has a transfer.
THEOREM TypeCorrect == Spec => []TypeOK
  <1>1. Init => Ranges /\ SendsCounted /\ KeysKept
    <2>1. ASSUME Init PROVE Ranges
      <3>1. /\ 0 \in 0..EventsCapacity /\ 0 \in 0..(UserKeysFlushInterval + 1)
            /\ 0 \in 0..MaxRecorded /\ 0 \in 0..FlushInterval /\ 0 \in 0..2
        OBVIOUS
      <3>2. /\ events = 0 /\ summary = 0 /\ keysAge = 0 /\ calls = 0
            /\ shouldFlush = FALSE /\ sinceFlush = 0 /\ failureAge = Null
            /\ running = TRUE /\ sends = 0
        BY <2>1 DEF Init, ProcessorInit
      <3> QED BY <3>1, <3>2 DEF Ranges
    <2>2. Init => SendsCounted
      BY DEF Init, SendsCounted
    <2>3. Init => KeysKept
      BY EmptyKept DEF Init, ProcessorInit, KeysKept
    <2> QED BY <2>1, <2>2, <2>3
  <1>2. Init => IInv
    BY InitHolds
  <1>3. Ranges /\ SendsCounted /\ KeysKept /\ IInv /\ [Next]_vars
          => (Ranges /\ SendsCounted /\ KeysKept /\ IInv)'
    BY StepRanges, StepCountsSends, StepKeepsKeys, StepKeeps
  <1>4. Ranges /\ SendsCounted /\ KeysKept /\ IInv => TypeOK
    <2>1. KeysKept => userKeys \in Seq(Users) /\ Len(userKeys) <= UserKeysCapacity
      BY MostRecentType DEF KeysKept
    <2> QED BY <2>1 DEF Ranges, IInv, NumberType, PayloadKept, TypeOK, ProcessorType
  <1> QED BY <1>1, <1>2, <1>3, <1>4, PTL DEF Spec
=============================================================================
