----------------------------- MODULE Evaluation -----------------------------
(***************************************************************************)
(* One call of the evaluation API, src/variations.c, running beside the    *)
(* data source that changes the store.                                     *)
(*                                                                         *)
(* LDi_evaluate recurs into the prerequisites of a flag and reads the      *)
(* store each time it needs a flag or a segment; the store is not locked   *)
(* in between.  The recursion is a stack of frames, one for each flag      *)
(* under evaluation, and each read of the store is a step of its own.      *)
(*                                                                         *)
(* The event processor is reduced to the counters of the summary; index    *)
(* events and the queue are in module EventProcessor.                      *)
(***************************************************************************)
EXTENDS FlagSemantics, Bags

CONSTANTS
    Flags, Segments,   \* the keys of flags and segments, which the store keeps apart
    Contents,          \* what LDStoreInit may be given: key to body or Null
    Patches,           \* key to the bodies that may replace its body
    Users,             \* users, records of key and attrs
    Wanted,            \* the types asked for: JSON types, or "any"
    OptionSets,        \* sets of options passed to LDAllFlagsState
    Offline,           \* config->offline
    SendEvents,        \* config->sendEvents
    Uptime,            \* LDi_getMonotonicMilliseconds
    MaxWrites,         \* bound: changes of the store during the call
    MaxFailures,       \* bound: reads of the store that fail
    MaxDepth           \* bound: flags under evaluation, the depth of the recursion

Keys == Flags \cup Segments

\* What each key may hold.
Bodies(k) == Patches[k] \cup {s[k] : s \in Contents}

\* Prerequisites are a list and name flags.
NamesFlags(list) ==
    /\ IsSeq(list)
    /\ \A i \in DOMAIN list : list[i] # Bad => list[i].key \in Flags

\* A clause on segments lists segments.
NamesSegments(clause) ==
    (clause # Bad /\ clause.op = "segmentMatch" /\ clause.values # Bad) =>
        clause.values \in Seq(Segments)

ClausesAreLists(rules) ==
    \A i \in DOMAIN rules : (rules[i] # Bad /\ rules[i].clauses # Bad) =>
        /\ IsSeq(rules[i].clauses)
        /\ \A j \in DOMAIN rules[i].clauses : NamesSegments(rules[i].clauses[j])

ASSUME DataAssumption ==
    /\ IsFiniteSet(Flags)
    /\ Flags \cap Segments = {}
    /\ \A s \in Contents : DOMAIN s = Keys
    /\ \A k \in Keys : \A body \in Bodies(k) :
        body # Null =>
            /\ {"key", "version"} \subseteq DOMAIN body
            /\ body.key = k
            /\ k \in Flags =>
                 /\ {"rules", "prerequisites"} \subseteq DOMAIN body
                 /\ body.rules = Bad \/ IsSeq(body.rules)
                 /\ body.rules # Bad => ClausesAreLists(body.rules)
                 /\ body.prerequisites = Bad \/ NamesFlags(body.prerequisites)
                 /\ body.fallthrough \notin {Null, Bad}
\* An absent or malformed field is none of the things it is compared with.
ASSUME AbsentAssumption ==
    Null # Bad /\ Null \notin Nat /\ Bad \notin Nat /\ "key" # Bad
\* The table of hashes has an entry for whatever may be hashed.
ASSUME HashAssumption ==
    /\ Keys \subseteq HashIds
    /\ \A user \in Users, id \in HashIds : \A a \in DOMAIN user.attrs :
         Hash[<<user.key, a, id>>] \in 0..Scale
ASSUME UsersAssumption ==
    \A user \in Users : \A a \in DOMAIN user.attrs :
        (user.attrs[a] # Null /\ user.attrs[a].type = "array") => IsSeq(user.attrs[a].elements)
ASSUME BoundsAssumption == MaxWrites \in Nat /\ MaxFailures \in Nat
\* Prerequisites without a cycle never reach the bound: each state of the store
\* adds a chain of different flags at most.
ASSUME DepthAssumption ==
    MaxDepth \in Nat /\ MaxDepth >= Cardinality(Flags) * (MaxWrites + 1)

VARIABLES
    initialized,  \* LDStoreInitialized
    store,        \* what LDStoreGet returns for each key, Null if nothing
    call,         \* the call that is running or has run, Null before it
    stack,        \* the frames of LDi_evaluate, the innermost last
    todo,         \* flags of LDStoreAll that are not evaluated yet
    states,       \* what LDAllFlags or LDAllFlagsState has collected
    answer,       \* what the call returned, Null while it runs
    counters,     \* processor->summaryCounters, a bag of summary keys
    writes, failures,
    held,         \* history: the contents of the store since the call began
    reads,        \* history: what the current top-level flag read for each key
    evaluated     \* history: the outcomes of the top-level evaluations

feedVars == <<initialized, store, writes>>
callVars == <<call, stack, todo, states, answer, counters, failures, reads, evaluated>>
vars == <<feedVars, callVars, held>>

Calls ==
    [op : {"variation"}, user : Users, key : Flags, want : Wanted]
    \cup [op : {"allFlags", "allFlagsState"}, user : Users,
          options : OptionSets \cup {{"INCLUDE_REASON"}}]

Running == call # Null /\ answer = Null

Init ==
    /\ initialized = FALSE
    /\ store = [k \in Keys |-> Null]
    /\ call = Null /\ answer = Null
    /\ stack = <<>> /\ todo = <<>> /\ states = <<>>
    /\ counters = EmptyBag
    /\ writes = 0 /\ failures = 0
    /\ held = <<>>
    /\ reads = [k \in Keys |-> <<>>]
    /\ evaluated = <<>>

-----------------------------------------------------------------------------
(* The data source: streaming, polling, files or test data.                 *)

Holding(s) == held' = IF Running THEN Append(held, s) ELSE held

\* LDStoreInit.
Put ==
    /\ ~initialized
    /\ initialized' = TRUE
    /\ \E s \in Contents : store' = s /\ Holding(s)
    /\ UNCHANGED <<writes, callVars>>

\* LDStoreUpsert of a newer version, and LDStoreRemove.
Change(k, body) ==
    /\ initialized /\ writes < MaxWrites
    /\ writes' = writes + 1
    /\ store' = [store EXCEPT ![k] =
                    IF body = Null THEN Null ELSE [body EXCEPT !.version = writes + 2]]
    /\ Holding(store')
    /\ UNCHANGED <<initialized, callVars>>

Feed == Put \/ \E k \in Keys : \E body \in Patches[k] \cup {Null} : Change(k, body)

-----------------------------------------------------------------------------
(* Events, src/event_processor.c.                                           *)

\* LDReasonToJSON has no text for a reason that was never set, nor for OOM.
LDReasonToJSON(details) ==
    /\ details.reason # "UNKNOWN"
    /\ details.reason = "ERROR" => details.extra # "OOM"

\* The fields of a flag that are checked when an event of it is made.
EventFields(flag) ==
    {flag.version, flag.trackEvents, flag.trackEventsFallthrough, flag.debugEventsUntilDate}

\* LDi_newFeatureEvent fails.  flag is Null when the key was not found.
NoFeatureEvent(flag, details) ==
    \/ ~LDReasonToJSON(details)
    \/ flag # Null /\ Bad \in EventFields(flag)

LDi_newFeatureEvent(key, flag, details, prereqOf) ==
    [key |-> key, prereqOf |-> prereqOf, variation |-> details.variation,
     version |-> IF flag = Null THEN Null ELSE flag.version]

\* A summary key that ignores the version of the flag.
UnversionedKey(event) ==
    [key |-> event.key, variation |-> event.variation, version |-> Null]

LDi_makeSummaryKey(event) ==
    [key |-> event.key, variation |-> event.variation, version |-> event.version]

\* How often each summary key occurs among the events.
Occurrences(events) ==
    [c \in {LDi_makeSummaryKey(events[i]) : i \in DOMAIN events} |->
        Cardinality({i \in DOMAIN events : LDi_makeSummaryKey(events[i]) = c})]

LDi_summarizeEvent(bag, events) == bag (+) Occurrences(events)

\* The evaluation and those of its prerequisites, or nothing at all.
LDEventProcessor_ProcessEvaluation(key, flag, details, subEvents) ==
    LET event == LDi_newFeatureEvent(key, flag, details, Null) IN
    counters' = IF NoFeatureEvent(flag, details) THEN counters
                ELSE LDi_summarizeEvent(counters, <<event>> \o subEvents)

-----------------------------------------------------------------------------
(* variation of src/variations.c.                                           *)

Answer(value, details) == [value |-> value, details |-> details]
Fallback(details) == Answer("fallback", details)

\* The error kind overwrites the other members of the union.
WithError(details, kind) ==
    [ErrorDetails(kind) EXCEPT !.variation = details.variation]

DetailsOf(result) ==
    CASE result.status = "MEM" -> WithError(result.details, "OOM")
      [] result.status = "SCHEMA" -> WithError(result.details, "MALFORMED_FLAG")
      [] OTHER -> result.details

\* A check that lets a text pass for anything.
checkTypeUnlessText(value) == call'.want \in {"any", value} \/ value = "text"

\* LDi_isBool and its likes.
checkType(value) == call'.want \in {"any", value}

\* LDi_evaluate, or the search for the flag, is over.
FinishVariation(flag, result, subEvents) ==
    LET details == DetailsOf(result)
        value == result.value
    IN  /\ IF result.status = "MEM" \/ ~SendEvents
           THEN UNCHANGED counters
           ELSE LDEventProcessor_ProcessEvaluation(call'.key, flag, details,
                    IF result.status = "SCHEMA" THEN <<>> ELSE subEvents)
        /\ answer' =
             IF \/ result.status = "MEM"
                \/ SendEvents /\ NoFeatureEvent(flag, details)
                \/ value \in {Null, "null"}
             THEN Fallback(details)
             ELSE IF ~checkType(value)
             THEN Fallback(ErrorDetails("WRONG_TYPE"))
             ELSE Answer(value, details)

Frame(flag) ==
    [flag |-> flag, at |-> "on", prerequisite |-> 1, rule |-> 1, clause |-> 1,
     segment |-> 1, events |-> <<>>, result |-> Null]

ReadOne(k) == reads' = [reads EXCEPT ![k] = Append(@, store[k])]

StoreFails ==
    /\ failures < MaxFailures
    /\ failures' = failures + 1

StoreWorks == UNCHANGED failures

\* LDBoolVariation and its likes differ in the type they want.
Variation(user, key, want) ==
    /\ call = Null
    /\ call' = [op |-> "variation", user |-> user, key |-> key, want |-> want]
    /\ held' = <<store>>
    /\ \/ /\ ~initialized
          /\ answer' = Fallback(ErrorDetails("CLIENT_NOT_READY"))
          /\ UNCHANGED <<stack, counters, failures, reads>>
       \/ /\ initialized /\ StoreFails
          /\ answer' = Fallback(ErrorDetails("STORE_ERROR"))
          /\ UNCHANGED <<stack, counters, reads>>
       \/ /\ initialized /\ store[key] = Null /\ StoreWorks
          /\ FinishVariation(Null,
                 Result("MISS", Null, ErrorDetails("FLAG_NOT_FOUND")), <<>>)
          /\ UNCHANGED <<stack, reads>>
       \/ /\ initialized /\ store[key] # Null /\ StoreWorks
          /\ stack' = <<Frame(store[key])>>
          /\ ReadOne(key)
          /\ UNCHANGED <<answer, counters>>
    /\ UNCHANGED <<feedVars, todo, states, evaluated>>

-----------------------------------------------------------------------------
(* LDAllFlags and LDAllFlagsState.                                           *)

Collected(valid, flags) == [valid |-> valid, flags |-> flags]
Invalid == Collected(FALSE, <<>>)
ASSUME NullAssumption == Null \notin Calls \cup {Invalid}

\* LDStoreAll returns every flag at one instant.
AllFlags(op, user, options) ==
    /\ call = Null
    /\ call' = [op |-> op, user |-> user, options |-> options]
    /\ held' = <<store>>
    /\ \/ /\ Offline \/ ~initialized
          /\ answer' = Invalid
          /\ UNCHANGED <<todo, failures>>
       \/ /\ ~Offline /\ initialized /\ StoreFails
          /\ answer' = Invalid
          /\ UNCHANGED todo
       \/ /\ ~Offline /\ initialized /\ StoreWorks
          /\ todo' = LET keys == SetToSeq({k \in Flags : store[k] # Null})
                     IN  [i \in DOMAIN keys |-> store[keys[i]]]
          /\ UNCHANGED answer
    /\ UNCHANGED <<feedVars, stack, states, counters, reads, evaluated>>

\* LDi_initFlagModel: the older field counts only without the newer one.
UsingEnvironmentID(flag) ==
    IF flag.clientSideAvailability \notin {Null, Bad}
    THEN flag.clientSideAvailability.usingEnvironmentId = TRUE
    ELSE flag.clientSide = TRUE

Skipped(flag) ==
    call.op = "allFlagsState" /\ "CLIENT_SIDE_ONLY" \in call.options
    /\ ~UsingEnvironmentID(flag)

NextFlag ==
    /\ Running /\ stack = <<>> /\ todo # <<>>
    /\ todo' = Tail(todo)
    /\ IF Skipped(Head(todo))
       THEN UNCHANGED <<stack, reads>>
       ELSE /\ stack' = <<Frame(Head(todo))>>
            /\ reads' = [k \in Keys |-> IF k = Head(todo).key THEN <<Head(todo)>> ELSE <<>>]
    /\ UNCHANGED <<feedVars, held, call, states, answer, counters, failures, evaluated>>

\* LDi_allFlagsBuilderAdd.  debugEventsUntilDate is compared with the uptime.
OmitDetails(flag) ==
    /\ "DETAILS_ONLY_FOR_TRACKED_FLAGS" \in call.options
    /\ flag.trackEvents # TRUE
    /\ flag.debugEventsUntilDate \in {Null, Bad} \/ flag.debugEventsUntilDate <= Uptime

\* The version that the store holds by now.
NewestVersion(flag) ==
    IF store[flag.key] = Null THEN flag.version ELSE store[flag.key].version

LDi_flagModelPopulate(flag) == flag.version

FlagState(flag, result) ==
    [key |-> flag.key, value |-> result.value, version |-> LDi_flagModelPopulate(flag),
     omitDetails |-> OmitDetails(flag),
     details |-> IF "INCLUDE_REASON" \in call.options THEN result.details
                 ELSE [NoDetails EXCEPT !.variation = result.details.variation]]

\* LDAllFlags leaves out a flag without a value.  Neither looks at the status
\* of the evaluation, and both throw its events away.
AddState(flag, result) ==
    states' =
        IF call.op = "allFlagsState" THEN Append(states, FlagState(flag, result))
        ELSE IF result.value # Null
        THEN Append(states, [key |-> flag.key, value |-> result.value])
        ELSE states

FinishAllFlags ==
    /\ Running /\ call.op # "variation" /\ stack = <<>> /\ todo = <<>>
    /\ answer' = Collected(TRUE, states)
    /\ UNCHANGED <<feedVars, held, call, stack, todo, states, counters, failures,
                   reads, evaluated>>

-----------------------------------------------------------------------------
(* LDi_evaluate.                                                            *)

Depth == Len(stack)
Top == stack[Depth]

At(section) == Running /\ stack # <<>> /\ Top.at = section

SetTop(frame) == stack' = [stack EXCEPT ![Depth] = frame]

\* LDi_evaluate of the frame returns.
Done(frame, result) == [frame EXCEPT !.at = "done", !.result = result]

Decide(result) == SetTop(Done(Top, result))
Fail(status) == Decide(Result(status, Null, NoDetails))

\* A section that reads nothing from the store.
Local ==
    UNCHANGED <<feedVars, held, call, todo, states, answer, counters, failures,
                reads, evaluated>>

Reads ==
    UNCHANGED <<feedVars, held, call, todo, states, answer, counters, evaluated>>

SectionOn ==
    /\ At("on")
    /\ LET result == EvaluateOn(Top.flag) IN
       IF result # Undecided THEN Decide(result)
       ELSE SetTop([Top EXCEPT !.at = "prerequisites"])
    /\ Local

\* LDi_checkPrerequisites up to the read, or past the last prerequisite.
NoPrerequisite ==
    /\ At("prerequisites")
    /\ \/ Top.flag.prerequisites = Bad /\ Fail("SCHEMA")
       \/ /\ Top.flag.prerequisites # Bad
          /\ Top.prerequisite > Len(Top.flag.prerequisites)
          /\ SetTop([Top EXCEPT !.at = "targets"])
       \/ /\ Top.flag.prerequisites # Bad
          /\ Top.prerequisite <= Len(Top.flag.prerequisites)
          /\ Top.flag.prerequisites[Top.prerequisite] = Bad
          /\ Fail("SCHEMA")
    /\ Local

\* Always the first one.
FirstPrerequisite == Top.flag.prerequisites[1]

Prerequisite == Top.flag.prerequisites[Top.prerequisite]

\* There is no check for a flag that is under evaluation already.
ReadPrerequisite ==
    /\ At("prerequisites")
    /\ Top.flag.prerequisites # Bad
    /\ Top.prerequisite <= Len(Top.flag.prerequisites)
    /\ Prerequisite # Bad
    /\ \/ StoreFails /\ Fail("STORE") /\ UNCHANGED reads
       \/ /\ StoreWorks /\ store[Prerequisite.key] = Null
          /\ Decide(EvaluateFailedPrerequisite(Top.flag, Prerequisite.key))
          /\ ReadOne(Prerequisite.key)
       \/ /\ StoreWorks /\ store[Prerequisite.key] # Null
          /\ Depth < MaxDepth
          /\ stack' = Append(stack, Frame(store[Prerequisite.key]))
          /\ ReadOne(Prerequisite.key)
    /\ Reads

\* The event of a prerequisite ahead of those of its own prerequisites.
AppendEventFirst(events, subevents, event) == events \o <<event>> \o subevents

AppendEvents(events, subevents, event) == events \o subevents \o <<event>>

\* The rest of LDi_checkPrerequisites, when the prerequisite is evaluated: its
\* event is added even if it fails.
AfterPrerequisite(parent, child) ==
    LET wanted == parent.flag.prerequisites[parent.prerequisite]
        result == child.result
        event == LDi_newFeatureEvent(wanted.key, child.flag, result.details,
                                     parent.flag.key)
        counted == [parent EXCEPT !.events = AppendEvents(@, child.events, event)]
    IN  IF LDi_isEvalError(result.status)
        THEN Done(parent, Result(result.status, Null, NoDetails))
        ELSE IF NoFeatureEvent(child.flag, result.details)
        THEN Done(parent, Result("MEM", Null, NoDetails))
        ELSE IF \/ result.status = "MISS"
                \/ child.flag.on # TRUE
                \/ result.details.variation # wanted.variation
        THEN Done(counted, EvaluateFailedPrerequisite(parent.flag, wanted.key))
        ELSE [counted EXCEPT !.prerequisite = @ + 1]

ReturnToPrerequisites ==
    /\ Running /\ Depth > 1 /\ Top.at = "done"
    /\ stack' = [SubSeq(stack, 1, Depth - 1) EXCEPT ![Depth - 1] =
                    AfterPrerequisite(@, Top)]
    /\ Local

SectionTargets ==
    /\ At("targets")
    /\ LET result == EvaluateTargets(Top.flag, call.user) IN
       IF result # Undecided THEN Decide(result)
       ELSE SetTop([Top EXCEPT !.at = "rules"])
    /\ Local

\* A rule that does not match is tried again.
AfterClauseAgain(status) ==
    IF LDi_isEvalError(status) THEN Fail(status)
    ELSE SetTop(IF status = "MATCH"
                THEN [Top EXCEPT !.clause = @ + 1, !.segment = 1]
                ELSE [Top EXCEPT !.clause = 1, !.segment = 1])

\* LDi_ruleMatchesUser: a rule matches when its clauses are used up.
AfterClause(status) ==
    IF LDi_isEvalError(status) THEN Fail(status)
    ELSE SetTop(IF status = "MATCH"
                THEN [Top EXCEPT !.clause = @ + 1, !.segment = 1]
                ELSE [Top EXCEPT !.rule = @ + 1, !.clause = 1, !.segment = 1])

Rule == Top.flag.rules[Top.rule]
Clause == Rule.clauses[Top.clause]

RulesLeft == Top.flag.rules # Bad /\ Top.rule <= Len(Top.flag.rules)
ClausesLeft ==
    /\ RulesLeft
    /\ Rule # Bad
    /\ Rule.clauses # Bad
    /\ Top.clause <= Len(Rule.clauses)
OnSegments == ClausesLeft /\ Clause # Bad /\ Clause.op = "segmentMatch"
SegmentsLeft ==
    OnSegments /\ Clause.values # Bad /\ Top.segment <= Len(Clause.values)

SectionRules ==
    /\ At("rules")
    /\ ~OnSegments
    /\ IF Top.flag.rules = Bad THEN Fail("SCHEMA")
       ELSE IF ~RulesLeft THEN Decide(EvaluateFallthrough(Top.flag, call.user))
       ELSE IF Rule = Bad \/ Rule.clauses = Bad THEN Fail("SCHEMA")
       ELSE IF ~ClausesLeft THEN Decide(EvaluateRule(Top.flag, Top.rule, call.user))
       ELSE AfterClause(LDi_clauseMatchesUserNoSegments(Clause, call.user))
    /\ Local

\* LDi_clauseMatchesUser of a segment clause, past its last segment.
NoSegmentLeft ==
    /\ At("rules") /\ OnSegments /\ ~SegmentsLeft
    /\ AfterClause(IF Clause.values = Bad THEN "SCHEMA" ELSE maybeNegate(Clause, "MISS"))
    /\ Local

\* The same for one segment; a segment that is not in the store is skipped.
ReadSegment ==
    /\ At("rules") /\ SegmentsLeft
    /\ LET key == Clause.values[Top.segment]
           status == IF store[key] = Null THEN "MISS"
                     ELSE LDi_segmentMatchesUser(store[key], call.user)
       IN  \/ StoreFails /\ Fail("STORE") /\ UNCHANGED reads
           \/ /\ StoreWorks /\ ReadOne(key)
              /\ IF status = "MISS" THEN SetTop([Top EXCEPT !.segment = @ + 1])
                 ELSE AfterClause(maybeNegate(Clause, status))
    /\ Reads

\* LDi_evaluate returns to variation or to the loop of LDAllFlags.
Return ==
    /\ Running /\ Depth = 1 /\ Top.at = "done"
    /\ stack' = <<>>
    /\ evaluated' = Append(evaluated, [flag |-> Top.flag, result |-> Top.result,
                                       events |-> Top.events, reads |-> reads])
    /\ IF call.op = "variation"
       THEN /\ UNCHANGED call
            /\ FinishVariation(Top.flag, Top.result, Top.events)
            /\ UNCHANGED states
       ELSE /\ AddState(Top.flag, Top.result)
            /\ UNCHANGED <<call, answer, counters>>
    /\ UNCHANGED <<feedVars, held, todo, failures, reads>>

Step ==
    \/ NextFlag \/ FinishAllFlags
    \/ SectionOn \/ NoPrerequisite \/ ReadPrerequisite \/ ReturnToPrerequisites
    \/ SectionTargets \/ SectionRules \/ NoSegmentLeft \/ ReadSegment
    \/ Return

Next ==
    \/ Feed
    \/ \E user \in Users :
         \/ \E key \in Flags, want \in Wanted : Variation(user, key, want)
         \/ AllFlags("allFlags", user, {"INCLUDE_REASON"})
         \/ \E options \in OptionSets : AllFlags("allFlagsState", user, options)
    \/ Step

Spec == Init /\ [][Next]_vars

\* The calling thread runs.
FairSpec == Spec /\ WF_vars(Step)

-----------------------------------------------------------------------------
(* Properties.                                                               *)

\* The types of the variables; the frames on the stack are a chain of
\* prerequisites, each read for the flag below it.
TypeOK ==
    /\ initialized \in BOOLEAN
    /\ \A k \in Keys : store[k] = Null \/ store[k].key = k
    /\ writes \in 0..MaxWrites /\ failures \in 0..MaxFailures
    /\ IsABag(counters)
    /\ stack # <<>> => Running
    /\ \A i \in DOMAIN stack :
         /\ stack[i].at \in {"on", "prerequisites", "targets", "rules", "done"}
         /\ i < Depth => /\ stack[i].at = "prerequisites"
                         /\ stack[i].flag.prerequisites[stack[i].prerequisite].key
                              = stack[i + 1].flag.key

\* What an evaluation read of each key, if it read the same thing every time.
Consistent(e) ==
    \A k \in Keys : \A i \in DOMAIN e.reads[k] : e.reads[k][i] = e.reads[k][1]
Content(e) == [k \in Keys |-> IF e.reads[k] = <<>> THEN Null ELSE e.reads[k][1]]

BodyOK(body) ==
    body = Null \/ IF body.key \in Flags THEN FlagOK(body) ELSE SegmentOK(body)

\* However reads of the store interleave with its changes, an evaluation of
\* well-formed data that saw each flag and segment in one state gives the
\* variation and the reason that these states mean, unless the store failed:
\* off, the first unmet prerequisite, the first target, the first rule, the
\* fallthrough, and the share of a rollout that holds the user's bucket.
FollowsMeaning ==
    \A i \in DOMAIN evaluated :
        LET e == evaluated[i] IN
        (/\ Consistent(e) /\ e.result.status # "STORE"
         /\ \A k \in Keys : BodyOK(Content(e)[k])) =>
            LET meaning == Meaning(Content(e), Flags, call.user)[e.flag.key]
                details == e.result.details
            IN  /\ ~LDi_isEvalError(e.result.status)
                /\ meaning = Outcome(details.reason, details.extra, details.variation)

\* The evaluations that one call of LDi_evaluate made, its own first: the reads
\* that found a flag, as pairs of a key and a place among its reads.
Found(e) ==
    UNION {{<<k, i>> : i \in {n \in DOMAIN e.reads[k] : e.reads[k][n] # Null}} : k \in Flags}

\* The flag that a variation call evaluated counts once in the summary, under
\* the variation it gave, and every prerequisite once for each time it was
\* evaluated, all under the versions they were read in: the evaluations can be
\* dealt out to the counters.  A call whose evaluation failed counts its flag
\* alone or nothing, and so does one whose flag is unfit for an event;
\* LDAllFlags counts nothing.
CountsEvaluations ==
    (answer # Null /\ SendEvents) =>
        IF call.op # "variation" THEN counters = EmptyBag
        ELSE IF evaluated = <<>>
        THEN counters \in {EmptyBag, SetToBag({[key |-> call.key, variation |-> Null,
                                                version |-> Null]})}
        ELSE LET e == evaluated[1]
                 keys == BagToSet(counters)
             IN  IF Bad \in EventFields(e.flag)
                 THEN counters = EmptyBag
                 ELSE IF LDi_isEvalError(e.result.status)
                 THEN \A c \in keys : c.key = call.key /\ counters = SetToBag({c})
                 ELSE \E of \in [Found(e) -> keys] :
                        /\ <<call.key, 1>> \in Found(e)
                        /\ of[<<call.key, 1>>].variation = e.result.details.variation
                        /\ \A r \in Found(e) :
                             /\ of[r].key = r[1]
                             /\ of[r].version = e.reads[r[1]][r[2]].version
                        /\ \A c \in keys :
                             Cardinality({r \in Found(e) : of[r] = c}) = counters[c]

\* The events of an evaluation that has evaluated the first n prerequisites of
\* the flag and found the first met of them to hold.  Each prerequisite has a
\* run of events, in the order of the prerequisites; its own event is the last
\* one, and the others are of its prerequisites, theirs, and so on: each comes
\* before an event of the flag that required it.
Explained(events, flag, n, met) ==
    \E last \in [0..n -> 0..Len(events)] :
        /\ last[0] = 0 /\ last[n] = Len(events)
        /\ \A m \in 1..n :
             /\ last[m - 1] < last[m]
             /\ events[last[m]].prereqOf = flag.key
             /\ events[last[m]].key = flag.prerequisites[m].key
             /\ m <= met => events[last[m]].variation = flag.prerequisites[m].variation
             /\ \A j \in (last[m - 1] + 1)..(last[m] - 1) :
                  \E l \in (j + 1)..last[m] : events[l].key = events[j].prereqOf

\* The events of an evaluation explain it: all prerequisites, with the
\* variations they are required to have, when none failed, and those up to the
\* failed one when one did, whose event is missing if its flag is; the event of
\* a nested prerequisite comes before the event of the flag that required it.
EventsExplain ==
    \A i \in DOMAIN evaluated :
        LET e == evaluated[i]
            details == e.result.details
            required == e.flag.prerequisites
        IN  /\ details.reason = "OFF" => e.events = <<>>
            /\ details.reason \in {"TARGET_MATCH", "RULE_MATCH", "FALLTHROUGH"} =>
                 Explained(e.events, e.flag, Len(required), Len(required))
            /\ details.reason = "PREREQUISITE_FAILED" =>
                 \E n \in DOMAIN required :
                    /\ required[n].key = details.extra
                    /\ \/ Explained(e.events, e.flag, n - 1, n - 1)
                       \/ Explained(e.events, e.flag, n, n - 1)
            /\ \A j \in DOMAIN e.events : e.events[j].prereqOf # e.flag.key =>
                 \E l \in (j + 1)..Len(e.events) : e.events[l].key = e.events[j].prereqOf

\* Some rule of the flag has an id that is no text.
OddRuleId(flag) ==
    flag.rules # Bad /\ \E i \in DOMAIN flag.rules :
        flag.rules[i] # Bad /\ flag.rules[i].id = Bad

\* A value served by a variation call has the type that was asked for and is
\* the value of the reported variation in some state the flag had during the
\* call.  An error serves the fallback, with one exception: the id of a rule
\* that matched is looked at when its value is set already, so a flag with an
\* id that is no text may serve the value of the rule and report an error.
AnswersWithValue ==
    (answer # Null /\ call.op = "variation") =>
        \/ answer.value = "fallback"
        \/ /\ call.want \in {"any", answer.value}
           /\ \E i \in DOMAIN held : LET flag == held[i][call.key] IN
                /\ flag # Null
                /\ getValue(flag, answer.details.variation) = answer.value
                /\ answer.details.reason = "ERROR" => OddRuleId(flag)

\* The flags in an LDAllFlagsState are those of the store at one moment of the
\* call, less the ones an option leaves out, and each one's version, variation
\* and value belong together, although flags change while it is collected.
OneSnapshot ==
    (answer # Null /\ call.op = "allFlagsState" /\ answer.valid) =>
        \E i \in DOMAIN held :
            LET s == held[i] IN
            /\ {answer.flags[j].key : j \in DOMAIN answer.flags}
                 = {k \in Flags : s[k] # Null /\ ~Skipped(s[k])}
            /\ \A j \in DOMAIN answer.flags : LET state == answer.flags[j] IN
                 /\ state.version = s[state.key].version
                 /\ state.details.variation # Null =>
                      state.value = getValue(s[state.key], state.details.variation)

\* The flag k has l among its prerequisites.
RequiresIn(content, k, l) ==
    /\ content[k] # Null
    /\ content[k].prerequisites # Bad
    /\ \E i \in DOMAIN content[k].prerequisites :
         LET p == content[k].prerequisites[i] IN p # Bad /\ p.key = l

\* Some flags require one another in a cycle: each of them requires another.
Cyclic(content) ==
    \E S \in SUBSET Flags \ {{}} : \A k \in S : \E l \in S : RequiresIn(content, k, l)

\* Every call returns, whatever the data source does meanwhile, unless at some
\* moment of the call the prerequisites in the store formed a cycle; then
\* LDi_evaluate may recur without end.
Returns == call # Null ~> answer # Null \/ \E i \in DOMAIN held : Cyclic(held[i])
=============================================================================
