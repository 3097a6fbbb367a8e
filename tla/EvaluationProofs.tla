--------------------------- MODULE EvaluationProofs ---------------------------
(***************************************************************************)
(* Proofs about Evaluation, for any flags, segments, users, contents of    *)
(* the store, changes and failures: the types and the chain of frames, a   *)
(* served value belongs to the reported variation of the flag as it was    *)
(* when the call began, LDAllFlagsState shows the flags of one moment, the *)
(* events of an evaluation explain it, the summary counts each evaluation  *)
(* once, and an evaluation gives what the flags it read mean.              *)
(***************************************************************************)
EXTENDS Evaluation, FiniteSetTheorems, WellFoundedInduction, TLAPS

-----------------------------------------------------------------------------
(* Sequences of anything.                                                    *)

\* A sequence over some set is one over its own elements.
LEMMA SeqIsSeq ==
    ASSUME NEW S, NEW s \in Seq(S)
    PROVE  IsSeq(s) /\ Len(s) \in Nat /\ DOMAIN s = 1..Len(s)
<1>1. Len(s) \in Nat /\ DOMAIN s = 1..Len(s)
    OBVIOUS
<1>2. \A i \in 1..Len(s) : s[i] \in Range(s)
    BY <1>1 DEF Range
<1>3. s \in [1..Len(s) -> Range(s)]
    BY <1>1, <1>2
<1> QED
    BY <1>1, <1>3 DEF IsSeq

LEMMA IsSeqLen ==
    ASSUME NEW s, IsSeq(s)
    PROVE  Len(s) \in Nat /\ DOMAIN s = 1..Len(s)
BY DEF IsSeq

LEMMA EmptyIsSeq == IsSeq(<<>>) /\ Len(<<>>) = 0
<1>1. <<>> \in Seq({})
    OBVIOUS
<1> QED
    BY <1>1, SeqIsSeq

LEMMA NonEmpty ==
    ASSUME NEW s, IsSeq(s)
    PROVE  (s # <<>>) <=> (Len(s) >= 1)
BY IsSeqLen DEF IsSeq

LEMMA OneIsSeq ==
    ASSUME NEW x
    PROVE  IsSeq(<<x>>) /\ Len(<<x>>) = 1 /\ <<x>>[1] = x
<1>1. <<x>> \in Seq({x})
    OBVIOUS
<1> QED
    BY <1>1, SeqIsSeq

LEMMA AppendIsSeq ==
    ASSUME NEW s, IsSeq(s), NEW x
    PROVE  /\ IsSeq(Append(s, x))
           /\ Len(Append(s, x)) = Len(s) + 1
           /\ Append(s, x)[Len(s) + 1] = x
           /\ \A i \in 1..Len(s) : Append(s, x)[i] = s[i]
<1> DEFINE S == Range(s) \cup {x}
<1>1. s \in Seq(S)
    <2>1. s \in Seq(Range(s))
        BY DEF IsSeq
    <2> QED
        BY <2>1
<1>2. x \in S
    OBVIOUS
<1> HIDE DEF S
<1>3. Append(s, x) \in Seq(S)
    BY <1>1, <1>2
<1>4. Len(Append(s, x)) = Len(s) + 1
    BY <1>1, <1>2
<1>5. /\ Append(s, x)[Len(s) + 1] = x
      /\ \A i \in 1..Len(s) : Append(s, x)[i] = s[i]
    BY <1>1, <1>2
<1> QED
    BY <1>3, <1>4, <1>5, SeqIsSeq

LEMMA ConcatIsSeq ==
    ASSUME NEW s, NEW t, IsSeq(s), IsSeq(t)
    PROVE  IsSeq(s \o t)
<1> DEFINE S == Range(s) \cup Range(t)
<1>1. s \in Seq(S) /\ t \in Seq(S)
    <2>1. s \in Seq(Range(s)) /\ t \in Seq(Range(t))
        BY DEF IsSeq
    <2> QED
        BY <2>1
<1> HIDE DEF S
<1>2. s \o t \in Seq(S)
    BY <1>1
<1> QED
    BY <1>2, SeqIsSeq

LEMMA ReplacedIsSeq ==
    ASSUME NEW s, IsSeq(s), NEW t, t = [i \in 1..Len(s) |-> t[i]]
    PROVE  IsSeq(t) /\ Len(t) = Len(s)
<1>1. Len(s) \in Nat
    BY IsSeqLen
<1>2. DOMAIN t = 1..Len(s)
    OBVIOUS
<1>3. \A i \in 1..Len(s) : t[i] \in Range(t)
    BY <1>2 DEF Range
<1>4. t \in [1..Len(s) -> Range(t)]
    BY <1>3
<1>5. t \in Seq(Range(t)) /\ Len(t) = Len(s)
    <2>1. PICK u : u = t
        OBVIOUS
    <2>2. u \in [1..Len(s) -> Range(t)] /\ DOMAIN u = 1..Len(s)
        BY <1>4, <2>1
    <2>3. u \in Seq(Range(t))
        BY <1>1, <2>2
    <2>4. Len(u) = Len(s)
        BY <1>1, <2>2, <2>3
    <2> QED
        BY <2>1, <2>3, <2>4
<1> QED
    BY <1>5 DEF IsSeq

LEMMA ShorterIsSeq ==
    ASSUME NEW s, IsSeq(s), NEW n \in 1..Len(s), NEW t, t = SubSeq(s, 1, n)
    PROVE  IsSeq(t) /\ Len(t) = n /\ \A i \in 1..n : t[i] = s[i]
<1> DEFINE S == Range(s)
<1>1. s \in Seq(S)
    BY DEF IsSeq
<1> HIDE DEF S
<1>2. SubSeq(s, 1, n) \in Seq(S) /\ Len(SubSeq(s, 1, n)) = n
    BY <1>1
<1>3. \A i \in 1..n : SubSeq(s, 1, n)[i] = s[i]
    BY <1>1
<1> QED
    BY <1>2, <1>3, SeqIsSeq

LEMMA TailIsSeq ==
    ASSUME NEW s, IsSeq(s), s # <<>>
    PROVE  /\ IsSeq(Tail(s)) /\ Len(Tail(s)) = Len(s) - 1 /\ Len(s) >= 1
           /\ Head(s) = s[1]
           /\ \A i \in 1..Len(Tail(s)) : Tail(s)[i] = s[i + 1]
<1> DEFINE S == Range(s)
<1>1. s \in Seq(S)
    BY DEF IsSeq
<1> HIDE DEF S
<1>2. Tail(s) \in Seq(S) /\ Len(Tail(s)) = Len(s) - 1 /\ Len(s) >= 1
    BY <1>1
<1>3. Head(s) = s[1] /\ \A i \in 1..Len(Tail(s)) : Tail(s)[i] = s[i + 1]
    BY <1>1, <1>2
<1> QED
    BY <1>2, <1>3, SeqIsSeq

-----------------------------------------------------------------------------
(* Results of evaluation.                                                    *)

\* The value of a result is the one of its variation.  If the ids of rules are
\* texts, a result with a value is no error.
Sound(flag, result) ==
    /\ (result.details.variation # Null \/ result.value # Null) =>
         result.value = getValue(flag, result.details.variation)
    /\ (result.value # Null /\ ~OddRuleId(flag)) =>
         /\ result.status \notin {"MEM", "SCHEMA"}
         /\ result.details.reason # "ERROR"

\* What a section of LDi_evaluate decides, unless it fails, is its own reason.
Gives(result, reason, extra) ==
    /\ result.status # "STORE"
    /\ ~LDi_isEvalError(result.status) => result.details.reason = reason
    /\ result.details.reason \in {reason, "UNKNOWN", "ERROR"}
    /\ result.details.reason = reason => result.details.extra = extra

LEMMA MalformedGives ==
    ASSUME NEW details, NEW reason, NEW extra, reason \notin {"UNKNOWN", "ERROR"},
           \/ details.reason \in {"UNKNOWN", "ERROR"}
           \/ details.reason = reason /\ details.extra = extra
    PROVE  Gives(Result("SCHEMA", Null, details), reason, extra)
BY DEF Gives, Result, LDi_isEvalError

\* A result without a value and without a variation is sound.
LEMMA EmptySound ==
    ASSUME NEW flag, NEW status, NEW details, details.variation = Null
    PROVE  Sound(flag, Result(status, Null, details))
BY DEF Sound, Result

LEMMA NoDetailsShape ==
    \E no : NoDetails = [reason |-> "UNKNOWN", extra |-> Null, ruleId |-> Null,
                         inExperiment |-> no, variation |-> Null]
<1> WITNESS FALSE
<1> QED
    BY DEF NoDetails

LEMMA ErrorVariation ==
    ASSUME NEW kind
    PROVE  ErrorDetails(kind).variation = Null /\ ErrorDetails(kind).reason = "ERROR"
BY DEF ErrorDetails, NoDetails

\* addValue reports the variation it takes the value from, or no value.
LEMMA AddValueSound ==
    ASSUME NEW flag, NEW index, NEW status, status \in {"MISS", "MATCH"},
           NEW reason, reason \notin {"UNKNOWN", "ERROR"}, NEW extra, NEW id, NEW in,
           NEW details, details = [reason |-> reason, extra |-> extra, ruleId |-> id,
                                   inExperiment |-> in, variation |-> Null]
    PROVE  /\ Sound(flag, addValue(flag, details, index, status))
           /\ Gives(addValue(flag, details, index, status), reason, extra)
           /\ addValue(flag, details, index, status) =
                IF getValue(flag, index) = Null
                THEN Result("SCHEMA", Null, ErrorDetails("MALFORMED_FLAG"))
                ELSE Result(status, getValue(flag, index),
                            [reason |-> reason, extra |-> extra, ruleId |-> id,
                             inExperiment |-> in, variation |-> index])
<1>1. CASE getValue(flag, index) = Null
    <2>1. addValue(flag, details, index, status)
            = Result("SCHEMA", Null, ErrorDetails("MALFORMED_FLAG"))
        BY <1>1 DEF addValue
    <2> QED
        BY <1>1, <2>1, EmptySound, ErrorVariation, MalformedGives
<1>2. CASE getValue(flag, index) # Null
    <2> DEFINE with == [reason |-> reason, extra |-> extra, ruleId |-> id,
                        inExperiment |-> in, variation |-> index]
    <2>1. [details EXCEPT !.variation = index] = with
        OBVIOUS
    <2>2. addValue(flag, details, index, status)
            = Result(status, getValue(flag, index), with)
        BY <1>2, <2>1 DEF addValue
    <2>3. /\ with.variation = index /\ with.reason # "ERROR"
          /\ with.reason = reason /\ with.extra = extra
        OBVIOUS
    <2> HIDE DEF with
    <2>4. Sound(flag, Result(status, getValue(flag, index), with))
        BY <2>3 DEF Sound, Result
    <2>5. Gives(Result(status, getValue(flag, index), with), reason, extra)
        BY <2>3 DEF Gives, Result, LDi_isEvalError
    <2> QED
        BY <1>2, <2>2, <2>4, <2>5 DEF with
<1> QED
    BY <1>1, <1>2

LEMMA OnSound ==
    ASSUME NEW flag, EvaluateOn(flag) # Undecided
    PROVE  Sound(flag, EvaluateOn(flag)) /\ Gives(EvaluateOn(flag), "OFF", Null)
<1>0. PICK no : NoDetails = [reason |-> "UNKNOWN", extra |-> Null, ruleId |-> Null,
                             inExperiment |-> no, variation |-> Null]
    BY NoDetailsShape
<1> DEFINE off == [NoDetails EXCEPT !.reason = "OFF"]
<1>1. off = [reason |-> "OFF", extra |-> Null, ruleId |-> Null,
             inExperiment |-> no, variation |-> Null]
    BY <1>0
<1>2. /\ NoDetails.variation = Null /\ off.variation = Null
      /\ NoDetails.reason = "UNKNOWN" /\ off.reason = "OFF" /\ off.extra = Null
    BY <1>0, <1>1
<1>3. /\ Sound(flag, addValue(flag, off, flag.offVariation, "MISS"))
      /\ Gives(addValue(flag, off, flag.offVariation, "MISS"), "OFF", Null)
    <2> HIDE DEF off
    <2> QED
        BY <1>1, AddValueSound
<1> HIDE DEF off
<1>4. Gives(Result("MISS", Null, off), "OFF", Null)
    BY <1>2 DEF Gives, Result
<1>5. Gives(Result("SCHEMA", Null, NoDetails), "OFF", Null)
    BY <1>2, MalformedGives
<1> QED
    BY <1>2, <1>3, <1>4, <1>5, EmptySound DEF EvaluateOn, off

LEMMA FailedPrerequisiteSound ==
    ASSUME NEW flag, NEW key
    PROVE  /\ Sound(flag, EvaluateFailedPrerequisite(flag, key))
           /\ Gives(EvaluateFailedPrerequisite(flag, key), "PREREQUISITE_FAILED", key)
<1>0. PICK no : NoDetails = [reason |-> "UNKNOWN", extra |-> Null, ruleId |-> Null,
                             inExperiment |-> no, variation |-> Null]
    BY NoDetailsShape
<1> DEFINE failed == [NoDetails EXCEPT !.reason = "PREREQUISITE_FAILED", !.extra = key]
<1>1. failed = [reason |-> "PREREQUISITE_FAILED", extra |-> key, ruleId |-> Null,
                inExperiment |-> no, variation |-> Null]
    <2>1. [NoDetails EXCEPT !.reason = "PREREQUISITE_FAILED"]
            = [reason |-> "PREREQUISITE_FAILED", extra |-> Null, ruleId |-> Null,
               inExperiment |-> no, variation |-> Null]
        BY <1>0
    <2>2. failed = [[NoDetails EXCEPT !.reason = "PREREQUISITE_FAILED"] EXCEPT !.extra = key]
        OBVIOUS
    <2> HIDE DEF failed
    <2> QED
        BY <2>1, <2>2
<1>2. /\ Sound(flag, addValue(flag, failed, flag.offVariation, "MISS"))
      /\ Gives(addValue(flag, failed, flag.offVariation, "MISS"),
               "PREREQUISITE_FAILED", key)
    <2> HIDE DEF failed
    <2> QED
        BY <1>1, AddValueSound
<1> QED
    BY <1>2 DEF EvaluateFailedPrerequisite

LEMMA TargetsSound ==
    ASSUME NEW flag, NEW user, EvaluateTargets(flag, user) # Undecided
    PROVE  /\ Sound(flag, EvaluateTargets(flag, user))
           /\ Gives(EvaluateTargets(flag, user), "TARGET_MATCH", Null)
<1>0. PICK no : NoDetails = [reason |-> "UNKNOWN", extra |-> Null, ruleId |-> Null,
                             inExperiment |-> no, variation |-> Null]
    BY NoDetailsShape
<1> DEFINE i == SelectInSeq(flag.targets, LAMBDA t : t = Bad \/ user.key \in t.values)
           hit == [NoDetails EXCEPT !.reason = "TARGET_MATCH"]
<1>1. hit = [reason |-> "TARGET_MATCH", extra |-> Null, ruleId |-> Null,
             inExperiment |-> no, variation |-> Null]
    BY <1>0
<1>2. NoDetails.variation = Null /\ NoDetails.reason = "UNKNOWN"
    BY <1>0
<1>3. /\ Sound(flag, addValue(flag, hit, flag.targets[i].variation, "MATCH"))
      /\ Gives(addValue(flag, hit, flag.targets[i].variation, "MATCH"),
               "TARGET_MATCH", Null)
    <2> HIDE DEF hit, i
    <2> QED
        BY <1>1, AddValueSound
<1>4. EvaluateTargets(flag, user) \in
        {Result("SCHEMA", Null, NoDetails), Undecided,
         addValue(flag, hit, flag.targets[i].variation, "MATCH")}
    <2>1. EvaluateTargets(flag, user) =
            IF flag.targets = Bad THEN Result("SCHEMA", Null, NoDetails)
            ELSE IF i = 0 THEN Undecided
            ELSE IF flag.targets[i] = Bad \/ flag.targets[i].variation = Bad
            THEN Result("SCHEMA", Null, NoDetails)
            ELSE addValue(flag, hit, flag.targets[i].variation, "MATCH")
        BY DEF EvaluateTargets
    <2> HIDE DEF hit, i
    <2> QED
        BY <2>1
<1> HIDE DEF hit, i
<1> QED
    BY <1>2, <1>3, <1>4, EmptySound, MalformedGives

LEMMA FallthroughSound ==
    ASSUME NEW flag, NEW user
    PROVE  /\ Sound(flag, EvaluateFallthrough(flag, user))
           /\ Gives(EvaluateFallthrough(flag, user), "FALLTHROUGH", Null)
<1>0. PICK no : NoDetails = [reason |-> "UNKNOWN", extra |-> Null, ruleId |-> Null,
                             inExperiment |-> no, variation |-> Null]
    BY NoDetailsShape
<1> DEFINE fall == [NoDetails EXCEPT !.reason = "FALLTHROUGH"]
           pick == LDi_getIndexForVariationOrRollout(flag, flag.fallthrough, user)
           with == [fall EXCEPT !.inExperiment = pick.inExperiment]
<1>1. fall = [reason |-> "FALLTHROUGH", extra |-> Null, ruleId |-> Null,
              inExperiment |-> no, variation |-> Null]
    BY <1>0
<1>2. EvaluateFallthrough(flag, user) =
        IF pick.ok THEN addValue(flag, with, pick.index, "MATCH")
        ELSE Result("SCHEMA", Null, fall)
    BY DEF EvaluateFallthrough
<1> HIDE DEF pick, fall
<1>3. with = [reason |-> "FALLTHROUGH", extra |-> Null, ruleId |-> Null,
              inExperiment |-> pick.inExperiment, variation |-> Null]
    BY <1>1
<1> HIDE DEF with
<1>4. /\ Sound(flag, addValue(flag, with, pick.index, "MATCH"))
      /\ Gives(addValue(flag, with, pick.index, "MATCH"), "FALLTHROUGH", Null)
    BY <1>3, AddValueSound
<1>5. fall.variation = Null /\ fall.reason = "FALLTHROUGH" /\ fall.extra = Null
    BY <1>1
<1>6. Gives(Result("SCHEMA", Null, fall), "FALLTHROUGH", Null)
    BY <1>5, MalformedGives
<1> QED
    BY <1>2, <1>4, <1>5, <1>6, EmptySound

\* The id of a rule is looked at when the value is set.
LEMMA RuleSound ==
    ASSUME NEW flag, NEW i \in DOMAIN flag.rules, NEW user,
           flag.rules # Bad, flag.rules[i] # Bad
    PROVE  /\ Sound(flag, EvaluateRule(flag, i, user))
           /\ Gives(EvaluateRule(flag, i, user), "RULE_MATCH", i - 1)
<1>0. PICK no : NoDetails = [reason |-> "UNKNOWN", extra |-> Null, ruleId |-> Null,
                             inExperiment |-> no, variation |-> Null]
    BY NoDetailsShape
<1> DEFINE rule == flag.rules[i]
           matched == [NoDetails EXCEPT !.reason = "RULE_MATCH", !.extra = i - 1]
           pick == LDi_getIndexForVariationOrRollout(flag, rule.serve, user)
           with == [matched EXCEPT !.inExperiment = pick.inExperiment]
           result == addValue(flag, with, pick.index, "MATCH")
<1>1. matched = [reason |-> "RULE_MATCH", extra |-> i - 1, ruleId |-> Null,
                 inExperiment |-> no, variation |-> Null]
    <2>1. [NoDetails EXCEPT !.reason = "RULE_MATCH"]
            = [reason |-> "RULE_MATCH", extra |-> Null, ruleId |-> Null,
               inExperiment |-> no, variation |-> Null]
        BY <1>0
    <2>2. matched = [[NoDetails EXCEPT !.reason = "RULE_MATCH"] EXCEPT !.extra = i - 1]
        OBVIOUS
    <2> HIDE DEF matched
    <2> QED
        BY <2>1, <2>2
<1>2. EvaluateRule(flag, i, user) =
        IF ~pick.ok THEN Result("SCHEMA", Null, matched)
        ELSE IF LDi_isEvalError(result.status) THEN result
        ELSE IF rule.id = Bad THEN [result EXCEPT !.status = "SCHEMA"]
        ELSE [result EXCEPT !.details.ruleId = rule.id]
    BY DEF EvaluateRule
<1>3. rule.id = Bad => OddRuleId(flag)
    BY DEF OddRuleId
<1> HIDE DEF pick, matched, rule
<1>4. with = [reason |-> "RULE_MATCH", extra |-> i - 1, ruleId |-> Null,
              inExperiment |-> pick.inExperiment, variation |-> Null]
    BY <1>1
<1> DEFINE value == getValue(flag, pick.index)
           details == [reason |-> "RULE_MATCH", extra |-> i - 1, ruleId |-> Null,
                       inExperiment |-> pick.inExperiment, variation |-> pick.index]
<1>5. /\ Sound(flag, result)
      /\ Gives(result, "RULE_MATCH", i - 1)
      /\ result = IF value = Null
                  THEN Result("SCHEMA", Null, ErrorDetails("MALFORMED_FLAG"))
                  ELSE Result("MATCH", value, details)
    <2> HIDE DEF with
    <2> QED
        BY <1>4, AddValueSound
<1>6. /\ matched.variation = Null
      /\ Gives(Result("SCHEMA", Null, matched), "RULE_MATCH", i - 1)
    <2>1. /\ matched.variation = Null
          /\ matched.reason = "RULE_MATCH" /\ matched.extra = i - 1
        BY <1>1
    <2> QED
        BY <2>1, MalformedGives
<1>7. CASE value = Null
    <2>1. LDi_isEvalError(result.status)
        BY <1>5, <1>7 DEF Result, LDi_isEvalError
    <2> HIDE DEF result, with
    <2> QED
        BY <1>2, <1>5, <1>6, <2>1, EmptySound
<1>8. CASE value # Null
    <2>1. result = [status |-> "MATCH", value |-> value, details |-> details]
        BY <1>5, <1>8 DEF Result
    <2> DEFINE named == [reason |-> "RULE_MATCH", extra |-> i - 1, ruleId |-> rule.id,
                         inExperiment |-> pick.inExperiment, variation |-> pick.index]
    <2>2. Sound(flag, [status |-> "MATCH", value |-> value, details |-> named])
        <3>1. named.variation = pick.index /\ named.reason # "ERROR"
            OBVIOUS
        <3> HIDE DEF named
        <3> QED
            BY <3>1 DEF Sound
    <2>3. /\ Gives([status |-> "MATCH", value |-> value, details |-> named],
                   "RULE_MATCH", i - 1)
          /\ Gives([status |-> "SCHEMA", value |-> value, details |-> details],
                   "RULE_MATCH", i - 1)
        <3>1. /\ named.reason = "RULE_MATCH" /\ named.extra = i - 1
              /\ details.reason = "RULE_MATCH" /\ details.extra = i - 1
            OBVIOUS
        <3> HIDE DEF named, details
        <3> QED
            BY <3>1 DEF Gives, LDi_isEvalError
    <2>4. rule.id = Bad =>
            Sound(flag, [status |-> "SCHEMA", value |-> value, details |-> details])
        <3>1. details.variation = pick.index
            OBVIOUS
        <3> HIDE DEF details
        <3> QED
            BY <1>3, <3>1 DEF Sound
    <2>5. [result EXCEPT !.status = "SCHEMA"]
            = [status |-> "SCHEMA", value |-> value, details |-> details]
        <3> HIDE DEF result, details, value
        <3> QED
            BY <2>1
    <2>6. [result EXCEPT !.details.ruleId = rule.id]
            = [status |-> "MATCH", value |-> value, details |-> named]
        <3>1. [details EXCEPT !.ruleId = rule.id] = named
            OBVIOUS
        <3>2. [result EXCEPT !.details.ruleId = rule.id]
                = [status |-> "MATCH", value |-> value,
                   details |-> [details EXCEPT !.ruleId = rule.id]]
            <4> HIDE DEF result, details, value, named
            <4> QED
                BY <2>1
        <3> QED
            BY <3>1, <3>2
    <2> HIDE DEF result, with, value, details, named
    <2> QED
        BY <1>2, <1>5, <1>6, <2>2, <2>3, <2>4, <2>5, <2>6, EmptySound
<1> QED
    BY <1>7, <1>8

-----------------------------------------------------------------------------
(* The inductive invariant.                                                  *)

ListsOK(flag) ==
    /\ flag.rules = Bad \/ IsSeq(flag.rules)
    /\ flag.rules # Bad => ClausesAreLists(flag.rules)
    /\ flag.prerequisites = Bad \/ NamesFlags(flag.prerequisites)

StoredAt(k, body) ==
    /\ body.key = k
    /\ k \in Flags => ListsOK(body)

Stored(s) == DOMAIN s = Keys /\ \A k \in Keys : s[k] # Null => StoredAt(k, s[k])

IsFrame(f) ==
    f = [flag |-> f.flag, at |-> f.at, prerequisite |-> f.prerequisite,
         rule |-> f.rule, clause |-> f.clause, segment |-> f.segment,
         events |-> f.events, result |-> f.result]

GoodFrame(f) ==
    /\ IsFrame(f)
    /\ f.at \in {"on", "prerequisites", "targets", "rules", "done"}
    /\ f.prerequisite \in Nat \ {0} /\ f.rule \in Nat \ {0}
    /\ IsSeq(f.events)
    /\ ListsOK(f.flag)
    /\ f.at = "done" => Sound(f.flag, f.result)

\* Frame i waits for the prerequisite that frame i + 1 evaluates.
Linked(s) ==
    \A i \in 1..Len(s) : i < Len(s) =>
        /\ s[i].at = "prerequisites"
        /\ s[i].flag.prerequisites[s[i].prerequisite].key = s[i + 1].flag.key

GoodStack(s) == IsSeq(s) /\ (\A i \in 1..Len(s) : GoodFrame(s[i])) /\ Linked(s)

\* A flag as the store had it when the call began.
Initially(flag) ==
    flag # Null /\ flag.key \in Flags /\ flag = held[1][flag.key]

CallShape ==
    /\ call = Null =>
         answer = Null /\ stack = <<>> /\ todo = <<>> /\ states = <<>>
    /\ call # Null =>
         call \in Calls /\ IsSeq(held) /\ Len(held) >= 1 /\ Stored(held[1])

EvaluatesOne ==
    (Running /\ call.op = "variation") =>
        /\ todo = <<>>
        /\ stack # <<>> => Initially(stack[1].flag) /\ stack[1].flag.key = call.key

EvaluatesAll ==
    (Running /\ call.op # "variation") =>
        /\ IsSeq(todo) /\ IsSeq(states)
        /\ \A i \in 1..Len(todo) : Initially(todo[i])
        /\ stack # <<>> => Initially(stack[1].flag)

\* The state of a flag tells of the flag as it was when the call began.
StateOK(state) ==
    LET flag == held[1][state.key] IN
    /\ state.key \in Flags
    /\ flag # Null /\ ~Skipped(flag)
    /\ state.version = flag.version
    /\ state.details.variation # Null =>
         state.value = getValue(flag, state.details.variation)

\* Every flag that the store had is collected, under evaluation or to come.
Collecting ==
    (Running /\ call.op = "allFlagsState") =>
        /\ stack # <<>> => ~Skipped(stack[1].flag)
        /\ \A j \in 1..Len(states) : StateOK(states[j])
        /\ \A k \in Flags : (held[1][k] # Null /\ ~Skipped(held[1][k])) =>
             \/ \E j \in 1..Len(states) : states[j].key = k
             \/ stack # <<>> /\ stack[1].flag.key = k
             \/ \E i \in 1..Len(todo) : todo[i].key = k

Counts ==
    /\ initialized \in BOOLEAN
    /\ writes \in 0..MaxWrites /\ failures \in 0..MaxFailures
    /\ IsABag(counters)

IInv ==
    /\ Counts
    /\ Stored(store)
    /\ GoodStack(stack) /\ (stack # <<>> => Running)
    /\ CallShape /\ EvaluatesOne /\ EvaluatesAll /\ Collecting
    /\ AnswersWithValue
    /\ OneSnapshot

-----------------------------------------------------------------------------
(* Frames.                                                                   *)

LEMMA NewFrame ==
    ASSUME NEW flag, ListsOK(flag)
    PROVE  /\ GoodFrame(Frame(flag)) /\ Frame(flag).flag = flag
           /\ Frame(flag).at = "on"
BY EmptyIsSeq DEF GoodFrame, IsFrame, Frame

\* A frame with one or two fields changed.
LEMMA FrameUpdates ==
    ASSUME NEW f, GoodFrame(f)
    PROVE  /\ \A r : Sound(f.flag, r) => GoodFrame(Done(f, r)) /\ Done(f, r).flag = f.flag
           /\ \A a \in {"on", "prerequisites", "targets", "rules"} :
                LET g == [f EXCEPT !.at = a] IN
                GoodFrame(g) /\ g.flag = f.flag
           /\ LET g == [f EXCEPT !.clause = f.clause + 1, !.segment = 1] IN
              GoodFrame(g) /\ g.flag = f.flag
           /\ \A t :
                LET g == [f EXCEPT !.segment = t] IN
                GoodFrame(g) /\ g.flag = f.flag
           /\ LET g == [f EXCEPT !.rule = f.rule + 1, !.clause = 1, !.segment = 1] IN
              GoodFrame(g) /\ g.flag = f.flag
           /\ \A e : IsSeq(e) =>
                LET g == [f EXCEPT !.events = e] IN
                GoodFrame(g) /\ g.flag = f.flag /\ g.prerequisite = f.prerequisite
           /\ \A n \in Nat \ {0} :
                LET g == [f EXCEPT !.prerequisite = n] IN
                GoodFrame(g) /\ g.flag = f.flag
<1>1. PICK b, a0, p, n0, c0, s0, e0, r0 :
        /\ f = [flag |-> b, at |-> a0, prerequisite |-> p, rule |-> n0, clause |-> c0,
                segment |-> s0, events |-> e0, result |-> r0]
        /\ a0 \in {"on", "prerequisites", "targets", "rules", "done"}
        /\ p \in Nat \ {0} /\ n0 \in Nat \ {0} /\ IsSeq(e0) /\ ListsOK(b)
        /\ a0 = "done" => Sound(b, r0)
    BY DEF GoodFrame, IsFrame
<1> DEFINE Made(at, pr, n, c, s, e, r) ==
             [flag |-> b, at |-> at, prerequisite |-> pr, rule |-> n, clause |-> c,
              segment |-> s, events |-> e, result |-> r]
<1>2. ASSUME NEW at \in {"on", "prerequisites", "targets", "rules", "done"}, NEW pr \in Nat \ {0},
             NEW n \in Nat \ {0}, NEW c, NEW s, NEW e, IsSeq(e),
             NEW r, at = "done" => Sound(b, r)
      PROVE  /\ GoodFrame(Made(at, pr, n, c, s, e, r))
             /\ Made(at, pr, n, c, s, e, r).flag = f.flag
    BY <1>1, <1>2 DEF GoodFrame, IsFrame
<1>3. ASSUME NEW r, Sound(f.flag, r)
      PROVE  GoodFrame(Done(f, r)) /\ Done(f, r).flag = f.flag
    <2> DEFINE g == [f EXCEPT !.at = "done"]
    <2>3. g = Made("done", p, n0, c0, s0, e0, r0)
        BY <1>1
    <2>4. Done(f, r) = [g EXCEPT !.result = r]
        BY DEF Done
    <2> HIDE DEF g
    <2>1. Done(f, r) = Made("done", p, n0, c0, s0, e0, r)
        BY <2>3, <2>4
    <2>2. Sound(b, r)
        BY <1>1, <1>3
    <2> HIDE DEF Made
    <2> QED
        BY <1>1, <1>2, <2>1, <2>2
<1>4. ASSUME NEW a \in {"on", "prerequisites", "targets", "rules"}
      PROVE  LET g == [f EXCEPT !.at = a] IN GoodFrame(g) /\ g.flag = f.flag
    <2>1. [f EXCEPT !.at = a] = Made(a, p, n0, c0, s0, e0, r0)
        BY <1>1
    <2> HIDE DEF Made
    <2> QED
        BY <1>1, <1>2, <2>1
<1>5. LET g == [f EXCEPT !.clause = f.clause + 1, !.segment = 1] IN
      GoodFrame(g) /\ g.flag = f.flag
    <2>1. PICK c : c = f.clause + 1
        OBVIOUS
    <2> DEFINE g == [f EXCEPT !.clause = c]
    <2>2. g = Made(a0, p, n0, c, s0, e0, r0)
        BY <1>1
    <2>3. [f EXCEPT !.clause = c, !.segment = 1] = [g EXCEPT !.segment = 1]
        OBVIOUS
    <2> HIDE DEF g
    <2>4. [f EXCEPT !.clause = c, !.segment = 1] = Made(a0, p, n0, c, 1, e0, r0)
        BY <2>2, <2>3
    <2> HIDE DEF Made
    <2>5. LET h == [f EXCEPT !.clause = c, !.segment = 1] IN
          GoodFrame(h) /\ h.flag = f.flag
        BY <1>1, <1>2, <2>4
    <2> QED
        BY <2>1, <2>5
<1>6. ASSUME NEW t
      PROVE  LET g == [f EXCEPT !.segment = t] IN GoodFrame(g) /\ g.flag = f.flag
    <2>1. [f EXCEPT !.segment = t] = Made(a0, p, n0, c0, t, e0, r0)
        BY <1>1
    <2> HIDE DEF Made
    <2> QED
        BY <1>1, <1>2, <2>1
<1>7. LET g == [f EXCEPT !.rule = f.rule + 1, !.clause = 1, !.segment = 1] IN
      GoodFrame(g) /\ g.flag = f.flag
    <2>1. PICK n \in Nat \ {0} : n = f.rule + 1
        BY <1>1
    <2> DEFINE g == [f EXCEPT !.rule = n]
               h == [g EXCEPT !.clause = 1]
    <2>2. g = Made(a0, p, n, c0, s0, e0, r0)
        BY <1>1
    <2>3. [f EXCEPT !.rule = n, !.clause = 1, !.segment = 1] = [h EXCEPT !.segment = 1]
        OBVIOUS
    <2> HIDE DEF g
    <2>4. h = Made(a0, p, n, 1, s0, e0, r0)
        BY <2>2
    <2> HIDE DEF h
    <2>5. [f EXCEPT !.rule = n, !.clause = 1, !.segment = 1]
            = Made(a0, p, n, 1, 1, e0, r0)
        BY <2>3, <2>4
    <2> HIDE DEF Made
    <2>6. LET k == [f EXCEPT !.rule = n, !.clause = 1, !.segment = 1] IN
          GoodFrame(k) /\ k.flag = f.flag
        BY <1>1, <1>2, <2>5
    <2> QED
        BY <2>1, <2>6
<1>8. ASSUME NEW e, IsSeq(e)
      PROVE  LET g == [f EXCEPT !.events = e] IN
             GoodFrame(g) /\ g.flag = f.flag /\ g.prerequisite = f.prerequisite
    <2>1. [f EXCEPT !.events = e] = Made(a0, p, n0, c0, s0, e, r0)
        BY <1>1
    <2>2. Made(a0, p, n0, c0, s0, e, r0).prerequisite = f.prerequisite
        BY <1>1
    <2> HIDE DEF Made
    <2> QED
        BY <1>1, <1>2, <1>8, <2>1, <2>2
<1>9. ASSUME NEW n \in Nat \ {0}
      PROVE  LET g == [f EXCEPT !.prerequisite = n] IN GoodFrame(g) /\ g.flag = f.flag
    <2>1. [f EXCEPT !.prerequisite = n] = Made(a0, n, n0, c0, s0, e0, r0)
        BY <1>1
    <2> HIDE DEF Made
    <2> QED
        BY <1>1, <1>2, <2>1
<1> HIDE DEF Made
<1> QED
    BY <1>3, <1>4, <1>5, <1>6, <1>7, <1>8, <1>9

-----------------------------------------------------------------------------
(* Steps of LDi_evaluate: what they make of the stack.                       *)

\* The stack is good and its first frame still evaluates the same flag.
Progress ==
    GoodStack(stack') /\ stack' # <<>> /\ stack'[1].flag = stack[1].flag

LEMMA TopIsGood ==
    ASSUME GoodStack(stack), stack # <<>>
    PROVE  /\ Depth \in Nat \ {0} /\ Depth \in 1..Len(stack)
           /\ GoodFrame(Top)
<1>1. Depth \in Nat /\ Depth >= 1
    BY NonEmpty, IsSeqLen DEF GoodStack, Depth
<1>2. Depth \in 1..Len(stack)
    BY <1>1 DEF Depth
<1> QED
    BY <1>1, <1>2 DEF GoodStack, Top

LEMMA SetTopKeeps ==
    ASSUME GoodStack(stack), stack # <<>>,
           NEW f, GoodFrame(f), f.flag = Top.flag, SetTop(f)
    PROVE  Progress
<1>1. Depth \in Nat \ {0} /\ Depth = Len(stack) /\ Depth \in 1..Len(stack)
    BY TopIsGood DEF Depth
<1>2. stack' = [stack EXCEPT ![Depth] = f]
    BY DEF SetTop
<1>3. /\ IsSeq(stack') /\ Len(stack') = Len(stack)
      /\ stack'[Depth] = f
      /\ \A i \in 1..Len(stack) : i # Depth => stack'[i] = stack[i]
    <2>1. IsSeq(stack) /\ DOMAIN stack = 1..Len(stack)
        BY IsSeqLen DEF GoodStack
    <2>2. /\ stack' = [i \in 1..Len(stack) |-> stack'[i]]
          /\ stack'[Depth] = f
          /\ \A i \in 1..Len(stack) : i # Depth => stack'[i] = stack[i]
        BY <1>1, <1>2, <2>1
    <2> QED
        BY <2>1, <2>2, ReplacedIsSeq
<1>4. stack' # <<>>
    BY <1>1, <1>3, NonEmpty
<1>5. \A i \in 1..Len(stack) : GoodFrame(stack'[i]) /\ stack'[i].flag = stack[i].flag
    BY <1>1, <1>3 DEF GoodStack, Top
<1>6. Linked(stack')
    <2> SUFFICES ASSUME NEW i \in 1..Len(stack), i < Len(stack)
                 PROVE  /\ stack'[i].at = "prerequisites"
                        /\ stack'[i].flag.prerequisites[stack'[i].prerequisite].key
                             = stack'[i + 1].flag.key
        BY <1>3 DEF Linked
    <2>1. stack'[i] = stack[i] /\ i + 1 \in 1..Len(stack)
        BY <1>1, <1>3
    <2>2. stack'[i + 1].flag = stack[i + 1].flag
        BY <1>5, <2>1
    <2> QED
        BY <2>1, <2>2 DEF GoodStack, Linked
<1>7. 1 \in 1..Len(stack)
    BY <1>1
<1> QED
    BY <1>3, <1>4, <1>5, <1>6, <1>7 DEF Progress, GoodStack

LEMMA PushKeeps ==
    ASSUME GoodStack(stack), stack # <<>>,
           Top.at = "prerequisites",
           NEW f, GoodFrame(f), f.flag.key = Prerequisite.key,
           stack' = Append(stack, f)
    PROVE  Progress
<1>1. Depth \in Nat \ {0} /\ Depth = Len(stack) /\ 1 \in 1..Len(stack)
    BY TopIsGood DEF Depth
<1>2. /\ IsSeq(stack') /\ Len(stack') = Len(stack) + 1
      /\ stack'[Len(stack) + 1] = f
      /\ \A i \in 1..Len(stack) : stack'[i] = stack[i]
    BY AppendIsSeq DEF GoodStack
<1>3. stack' # <<>>
    BY <1>1, <1>2, NonEmpty
<1>4. \A i \in 1..Len(stack') : GoodFrame(stack'[i])
    BY <1>1, <1>2 DEF GoodStack
<1>5. Linked(stack')
    <2> SUFFICES ASSUME NEW i \in 1..Len(stack'), i < Len(stack')
                 PROVE  /\ stack'[i].at = "prerequisites"
                        /\ stack'[i].flag.prerequisites[stack'[i].prerequisite].key
                             = stack'[i + 1].flag.key
        BY DEF Linked
    <2>1. i \in 1..Len(stack) /\ stack'[i] = stack[i]
        BY <1>1, <1>2
    <2>2. CASE i = Len(stack)
        BY <1>1, <1>2, <2>1, <2>2 DEF Top, Prerequisite
    <2>3. CASE i # Len(stack)
        <3>1. i < Len(stack) /\ i + 1 \in 1..Len(stack)
            BY <1>1, <2>1, <2>3
        <3>2. stack'[i + 1] = stack[i + 1]
            BY <1>2, <3>1
        <3> QED
            BY <2>1, <3>1, <3>2 DEF GoodStack, Linked
    <2> QED
        BY <2>2, <2>3
<1> QED
    BY <1>1, <1>2, <1>3, <1>4, <1>5 DEF Progress, GoodStack

LEMMA PopKeeps ==
    ASSUME GoodStack(stack), Depth > 1, NEW f, GoodFrame(f),
           f.flag = stack[Depth - 1].flag,
           stack' = [SubSeq(stack, 1, Depth - 1) EXCEPT ![Depth - 1] = f]
    PROVE  Progress
<1> DEFINE n == Depth - 1
           t == SubSeq(stack, 1, n)
<1>1. Depth \in Nat /\ Depth = Len(stack) /\ n \in Nat \ {0} /\ n \in 1..Len(stack)
    BY IsSeqLen DEF GoodStack, Depth
<1>2. IsSeq(t) /\ Len(t) = n /\ \A i \in 1..n : t[i] = stack[i]
    BY <1>1, ShorterIsSeq DEF GoodStack
<1>3. n \in 1..Len(t)
    BY <1>1, <1>2
<1>4. /\ IsSeq(stack') /\ Len(stack') = n
      /\ stack'[n] = f
      /\ \A i \in 1..n : i # n => stack'[i] = stack[i]
    <2> HIDE DEF t, n
    <2>1. stack' = [t EXCEPT ![n] = f]
        BY DEF t, n
    <2>2. DOMAIN t = 1..n
        BY <1>2, IsSeqLen
    <2>3. /\ stack' = [i \in 1..n |-> stack'[i]]
          /\ stack'[n] = f
          /\ \A i \in 1..n : i # n => stack'[i] = t[i]
        BY <1>2, <1>3, <2>1, <2>2
    <2>4. stack' = [i \in 1..Len(t) |-> stack'[i]]
        BY <1>2, <2>3
    <2>5. IsSeq(stack') /\ Len(stack') = Len(t)
        BY <1>2, <2>4, ReplacedIsSeq
    <2> QED
        BY <1>2, <2>3, <2>5
<1>5. stack' # <<>>
    BY <1>1, <1>4, NonEmpty
<1> HIDE DEF t
<1>6. \A i \in 1..n : i \in 1..Len(stack) /\ GoodFrame(stack'[i])
                       /\ stack'[i].flag = stack[i].flag
    <2> SUFFICES ASSUME NEW i \in 1..n
                 PROVE  i \in 1..Len(stack) /\ GoodFrame(stack'[i])
                        /\ stack'[i].flag = stack[i].flag
        OBVIOUS
    <2>1. i \in 1..Len(stack)
        BY <1>1
    <2>2. GoodFrame(stack[i])
        BY <2>1 DEF GoodStack
    <2> QED
        BY <1>4, <2>1, <2>2
<1>7. Linked(stack')
    <2> HIDE DEF n
    <2> SUFFICES ASSUME NEW i \in 1..n, i < n
                 PROVE  /\ stack'[i].at = "prerequisites"
                        /\ stack'[i].flag.prerequisites[stack'[i].prerequisite].key
                             = stack'[i + 1].flag.key
        BY <1>4 DEF Linked
    <2>1. stack'[i] = stack[i] /\ i + 1 \in 1..n /\ i \in 1..Len(stack) /\ i < Len(stack)
        BY <1>1, <1>4 DEF n
    <2>2. stack'[i + 1].flag = stack[i + 1].flag
        BY <1>6, <2>1
    <2> QED
        BY <2>1, <2>2 DEF GoodStack, Linked
<1>8. 1 \in 1..n
    BY <1>1
<1> QED
    BY <1>4, <1>5, <1>6, <1>7, <1>8 DEF Progress, GoodStack

LEMMA DecideKeeps ==
    ASSUME GoodStack(stack), stack # <<>>, NEW r, Sound(Top.flag, r), Decide(r)
    PROVE  Progress
<1> DEFINE g == Done(Top, r)
<1>1. GoodFrame(g) /\ g.flag = Top.flag
    BY TopIsGood, FrameUpdates
<1>2. SetTop(g)
    BY DEF Decide
<1> HIDE DEF g
<1> QED
    BY <1>1, <1>2, SetTopKeeps

LEMMA FailKeeps ==
    ASSUME GoodStack(stack), stack # <<>>, NEW status, Fail(status)
    PROVE  Progress
<1>1. NoDetails.variation = Null
    BY NoDetailsShape
<1>2. Sound(Top.flag, Result(status, Null, NoDetails))
    BY <1>1, EmptySound
<1> QED
    BY <1>2, DecideKeeps DEF Fail

LEMMA AtKeeps ==
    ASSUME GoodStack(stack), stack # <<>>,
           NEW a \in {"on", "prerequisites", "targets", "rules"},
           SetTop([Top EXCEPT !.at = a])
    PROVE  Progress
<1> DEFINE g == [Top EXCEPT !.at = a]
<1>1. GoodFrame(g) /\ g.flag = Top.flag
    BY TopIsGood, FrameUpdates
<1>2. SetTop(g)
    OBVIOUS
<1> HIDE DEF g
<1> QED
    BY <1>1, <1>2, SetTopKeeps

LEMMA ClauseKeeps ==
    ASSUME GoodStack(stack), stack # <<>>, NEW status, AfterClause(status)
    PROVE  Progress
<1> DEFINE next == [Top EXCEPT !.clause = Top.clause + 1, !.segment = 1]
           rest == [Top EXCEPT !.rule = Top.rule + 1, !.clause = 1, !.segment = 1]
<1>1. \/ Fail(status)
      \/ SetTop(next)
      \/ SetTop(rest)
    BY DEF AfterClause
<1>2. GoodFrame(Top)
    BY TopIsGood
<1>3. GoodFrame(next) /\ next.flag = Top.flag
    BY <1>2, FrameUpdates
<1>4. GoodFrame(rest) /\ rest.flag = Top.flag
    BY <1>2, FrameUpdates
<1> HIDE DEF next, rest
<1> QED
    BY <1>1, <1>3, <1>4, FailKeeps, SetTopKeeps

\* The rest of LDi_checkPrerequisites gives a sound result or none.
LEMMA AfterIsGood ==
    ASSUME NEW parent, NEW child, GoodFrame(parent), GoodFrame(child)
    PROVE  LET f == AfterPrerequisite(parent, child) IN
           GoodFrame(f) /\ f.flag = parent.flag
<1> DEFINE wanted == parent.flag.prerequisites[parent.prerequisite]
           result == child.result
           event == LDi_newFeatureEvent(wanted.key, child.flag, result.details,
                                        parent.flag.key)
           events == AppendEvents(parent.events, child.events, event)
           counted == [parent EXCEPT !.events = events]
           failed == EvaluateFailedPrerequisite(parent.flag, wanted.key)
<1>1. \/ AfterPrerequisite(parent, child)
           = Done(parent, Result(result.status, Null, NoDetails))
      \/ AfterPrerequisite(parent, child) = Done(parent, Result("MEM", Null, NoDetails))
      \/ AfterPrerequisite(parent, child) = Done(counted, failed)
      \/ AfterPrerequisite(parent, child)
           = [counted EXCEPT !.prerequisite = counted.prerequisite + 1]
    BY DEF AfterPrerequisite
<1>2. NoDetails.variation = Null
    BY NoDetailsShape
<1>3. \A status : Sound(parent.flag, Result(status, Null, NoDetails))
    BY <1>2, EmptySound
<1>4. Sound(parent.flag, failed)
    BY FailedPrerequisiteSound
<1>5. IsSeq(events)
    <2> HIDE DEF event
    <2>1. IsSeq(parent.events) /\ IsSeq(child.events) /\ IsSeq(<<event>>)
        BY OneIsSeq DEF GoodFrame
    <2>2. IsSeq(parent.events \o child.events)
        BY <2>1, ConcatIsSeq
    <2>3. IsSeq((parent.events \o child.events) \o <<event>>)
        BY <2>1, <2>2, ConcatIsSeq
    <2> QED
        BY <2>3 DEF AppendEvents
<1>6. /\ GoodFrame(counted) /\ counted.flag = parent.flag
      /\ counted.prerequisite = parent.prerequisite
    <2> HIDE DEF events
    <2> QED
        BY <1>5, FrameUpdates
<1> HIDE DEF wanted, result, event, events, counted, failed
<1>7. \A r : Sound(parent.flag, r) =>
        GoodFrame(Done(parent, r)) /\ Done(parent, r).flag = parent.flag
    BY FrameUpdates
<1>8. GoodFrame(Done(counted, failed)) /\ Done(counted, failed).flag = parent.flag
    BY <1>4, <1>6, FrameUpdates
<1>9. LET g == [counted EXCEPT !.prerequisite = counted.prerequisite + 1] IN
      GoodFrame(g) /\ g.flag = parent.flag
    <2>1. PICK n \in Nat \ {0} : n = counted.prerequisite + 1
        BY <1>6 DEF GoodFrame
    <2>2. LET g == [counted EXCEPT !.prerequisite = n] IN
          GoodFrame(g) /\ g.flag = parent.flag
        BY <1>6, FrameUpdates
    <2> QED
        BY <2>1, <2>2
<1> QED
    BY <1>1, <1>3, <1>7, <1>8, <1>9

\* Each section of LDi_evaluate and each return from a prerequisite.
LEMMA SectionsProgress ==
    ASSUME GoodStack(stack), Stored(store)
    PROVE  (\/ SectionOn \/ NoPrerequisite \/ ReadPrerequisite \/ ReturnToPrerequisites
            \/ SectionTargets \/ SectionRules \/ NoSegmentLeft \/ ReadSegment)
           => Progress
<1>1. ASSUME SectionOn PROVE Progress
    <2>1. stack # <<>>
        BY <1>1 DEF SectionOn, At
    <2>2. CASE EvaluateOn(Top.flag) # Undecided
        <3>1. Decide(EvaluateOn(Top.flag))
            BY <1>1, <2>2 DEF SectionOn
        <3> QED
            BY <2>1, <2>2, <3>1, OnSound, DecideKeeps
    <2>3. CASE EvaluateOn(Top.flag) = Undecided
        <3>1. SetTop([Top EXCEPT !.at = "prerequisites"])
            BY <1>1, <2>3 DEF SectionOn
        <3> QED
            BY <2>1, <3>1, AtKeeps
    <2> QED
        BY <2>2, <2>3
<1>2. ASSUME NoPrerequisite PROVE Progress
    <2>1. stack # <<>>
        BY <1>2 DEF NoPrerequisite, At
    <2>2. Fail("SCHEMA") \/ SetTop([Top EXCEPT !.at = "targets"])
        BY <1>2 DEF NoPrerequisite
    <2> QED
        BY <2>1, <2>2, FailKeeps, AtKeeps
<1>3. ASSUME ReadPrerequisite PROVE Progress
    <2>1. stack # <<>> /\ Top.at = "prerequisites"
        BY <1>3 DEF ReadPrerequisite, At
    <2>2. GoodFrame(Top)
        BY <2>1, TopIsGood
    <2>3. CASE Fail("STORE")
        BY <2>1, <2>3, FailKeeps
    <2>4. CASE Decide(EvaluateFailedPrerequisite(Top.flag, Prerequisite.key))
        BY <2>1, <2>4, FailedPrerequisiteSound, DecideKeeps
    <2>5. CASE /\ store[Prerequisite.key] # Null
               /\ stack' = Append(stack, Frame(store[Prerequisite.key]))
        <3> DEFINE list == Top.flag.prerequisites
        <3>1. list # Bad /\ Top.prerequisite <= Len(list) /\ list[Top.prerequisite] # Bad
            BY <1>3 DEF ReadPrerequisite, Prerequisite
        <3>2. NamesFlags(list)
            BY <2>2, <3>1 DEF GoodFrame, ListsOK
        <3>3. IsSeq(list)
            BY <3>2 DEF NamesFlags, IsSeq
        <3>4. Top.prerequisite \in DOMAIN list
            BY <2>2, <3>1, <3>3, IsSeqLen DEF GoodFrame
        <3>5. Prerequisite.key \in Flags
            BY <3>1, <3>2, <3>4 DEF NamesFlags, Prerequisite
        <3>6. StoredAt(Prerequisite.key, store[Prerequisite.key])
            BY <2>5, <3>5 DEF Stored, Keys
        <3>7. /\ ListsOK(store[Prerequisite.key])
              /\ store[Prerequisite.key].key = Prerequisite.key
            BY <3>5, <3>6 DEF StoredAt
        <3>8. PICK f : f = Frame(store[Prerequisite.key])
            OBVIOUS
        <3>9. GoodFrame(f) /\ f.flag.key = Prerequisite.key
            BY <3>7, <3>8, NewFrame
        <3> QED
            BY <2>1, <2>5, <3>8, <3>9, PushKeeps
    <2> QED
        BY <1>3, <2>3, <2>4, <2>5 DEF ReadPrerequisite
<1>4. ASSUME ReturnToPrerequisites PROVE Progress
    <2>1. Depth > 1 /\ Len(stack) \in Nat /\ Depth = Len(stack)
        BY <1>4, IsSeqLen DEF ReturnToPrerequisites, GoodStack, Depth
    <2>2. /\ Depth - 1 \in 1..Len(stack) /\ Depth \in 1..Len(stack)
          /\ Depth - 1 \in 1..(Depth - 1)
        BY <2>1
    <2>3. SubSeq(stack, 1, Depth - 1)[Depth - 1] = stack[Depth - 1]
        BY <2>2, ShorterIsSeq DEF GoodStack
    <2>4. PICK f : f = AfterPrerequisite(stack[Depth - 1], Top)
        OBVIOUS
    <2>5. stack' = [SubSeq(stack, 1, Depth - 1) EXCEPT ![Depth - 1] = f]
        BY <1>4, <2>3, <2>4 DEF ReturnToPrerequisites
    <2>6. GoodFrame(stack[Depth - 1]) /\ GoodFrame(Top)
        BY <2>2 DEF GoodStack, Top
    <2>7. GoodFrame(f) /\ f.flag = stack[Depth - 1].flag
        BY <2>4, <2>6, AfterIsGood
    <2> QED
        BY <2>1, <2>5, <2>7, PopKeeps
<1>5. ASSUME SectionTargets PROVE Progress
    <2>1. stack # <<>>
        BY <1>5 DEF SectionTargets, At
    <2>2. CASE EvaluateTargets(Top.flag, call.user) # Undecided
        <3>1. Decide(EvaluateTargets(Top.flag, call.user))
            BY <1>5, <2>2 DEF SectionTargets
        <3> QED
            BY <2>1, <2>2, <3>1, TargetsSound, DecideKeeps
    <2>3. CASE EvaluateTargets(Top.flag, call.user) = Undecided
        <3>1. SetTop([Top EXCEPT !.at = "rules"])
            BY <1>5, <2>3 DEF SectionTargets
        <3> QED
            BY <2>1, <3>1, AtKeeps
    <2> QED
        BY <2>2, <2>3
<1>6. ASSUME SectionRules PROVE Progress
    <2>1. stack # <<>>
        BY <1>6 DEF SectionRules, At
    <2>2. GoodFrame(Top)
        BY <2>1, TopIsGood
    <2>3. \/ Fail("SCHEMA")
          \/ Decide(EvaluateFallthrough(Top.flag, call.user))
          \/ /\ RulesLeft /\ Rule # Bad
             /\ Decide(EvaluateRule(Top.flag, Top.rule, call.user))
          \/ AfterClause(LDi_clauseMatchesUserNoSegments(Clause, call.user))
        BY <1>6 DEF SectionRules
    <2>4. CASE RulesLeft /\ Rule # Bad /\ Decide(EvaluateRule(Top.flag, Top.rule, call.user))
        <3>1. Top.flag.rules # Bad /\ Top.rule <= Len(Top.flag.rules)
              /\ Top.flag.rules[Top.rule] # Bad
            BY <2>4 DEF RulesLeft, Rule
        <3>2. IsSeq(Top.flag.rules) /\ Top.rule \in Nat \ {0}
            BY <2>2, <3>1 DEF GoodFrame, ListsOK
        <3>3. Top.rule \in DOMAIN Top.flag.rules
            BY <3>1, <3>2, IsSeqLen
        <3> QED
            BY <2>1, <2>4, <3>1, <3>3, RuleSound, DecideKeeps
    <2> QED
        BY <2>1, <2>3, <2>4, FailKeeps, FallthroughSound, DecideKeeps, ClauseKeeps
<1>7. ASSUME NoSegmentLeft PROVE Progress
    <2>1. stack # <<>>
        BY <1>7 DEF NoSegmentLeft, At
    <2>2. PICK status : AfterClause(status)
        BY <1>7 DEF NoSegmentLeft
    <2> QED
        BY <2>1, <2>2, ClauseKeeps
<1>8. ASSUME ReadSegment PROVE Progress
    <2>1. stack # <<>>
        BY <1>8 DEF ReadSegment, At
    <2> DEFINE g == [Top EXCEPT !.segment = Top.segment + 1]
    <2>2. Fail("STORE") \/ SetTop(g) \/ \E status : AfterClause(status)
        BY <1>8 DEF ReadSegment
    <2>3. GoodFrame(g) /\ g.flag = Top.flag
        <3>1. PICK t : t = Top.segment + 1
            OBVIOUS
        <3>2. GoodFrame([Top EXCEPT !.segment = t]) /\ [Top EXCEPT !.segment = t].flag = Top.flag
            BY <2>1, TopIsGood, FrameUpdates
        <3> QED
            BY <3>1, <3>2
    <2> HIDE DEF g
    <2> QED
        BY <2>1, <2>2, <2>3, FailKeeps, SetTopKeeps, ClauseKeeps
<1> QED
    BY <1>1, <1>2, <1>3, <1>4, <1>5, <1>6, <1>7, <1>8

-----------------------------------------------------------------------------
(* The summary of events.                                                    *)

LEMMA BagOfOccurrences ==
    ASSUME NEW events, IsSeq(events)
    PROVE  IsABag(Occurrences(events))
<1> DEFINE at(c) == {i \in DOMAIN events : LDi_makeSummaryKey(events[i]) = c}
           keys == {LDi_makeSummaryKey(events[i]) : i \in DOMAIN events}
<1>1. IsFiniteSet(DOMAIN events)
    BY IsSeqLen, FS_Interval
<1>2. \A c \in keys : Cardinality(at(c)) \in {n \in Nat : n > 0}
    <2> SUFFICES ASSUME NEW c \in keys
                 PROVE  Cardinality(at(c)) \in {n \in Nat : n > 0}
        OBVIOUS
    <2>1. at(c) \in SUBSET DOMAIN events /\ at(c) # {}
        OBVIOUS
    <2> HIDE DEF at, keys
    <2>2. IsFiniteSet(at(c))
        BY <1>1, <2>1, FS_Subset
    <2>3. Cardinality(at(c)) \in Nat
        BY <2>2, FS_CardinalityType
    <2>4. Cardinality(at(c)) # 0
        BY <2>1, <2>2, FS_EmptySet
    <2> QED
        BY <2>3, <2>4
<1>3. Occurrences(events) = [c \in keys |-> Cardinality(at(c))]
    BY DEF Occurrences
<1> HIDE DEF at, keys
<1> QED
    BY <1>2, <1>3 DEF IsABag

LEMMA SummaryIsBag ==
    ASSUME NEW key, NEW flag, NEW details, NEW subEvents, IsSeq(subEvents), IsABag(counters),
           LDEventProcessor_ProcessEvaluation(key, flag, details, subEvents)
    PROVE  IsABag(counters')
<1>0. PICK event : event = LDi_newFeatureEvent(key, flag, details, Null)
    OBVIOUS
<1>1. IsSeq(<<event>> \o subEvents)
    BY OneIsSeq, ConcatIsSeq
<1>2. IsABag(Occurrences(<<event>> \o subEvents))
    BY <1>1, BagOfOccurrences
<1>3. \A a, b : (IsABag(a) /\ IsABag(b)) => IsABag(a (+) b)
    BY DEF IsABag, (+)
<1> QED
    BY <1>0, <1>2, <1>3 DEF LDEventProcessor_ProcessEvaluation, LDi_summarizeEvent

\* variation serves the value of a sound result with its details, or the
\* fallback.
LEMMA FinishAnswers ==
    ASSUME NEW flag, NEW result, NEW subEvents, IsSeq(subEvents), IsABag(counters),
           FinishVariation(flag, result, subEvents)
    PROVE  /\ IsABag(counters')
           /\ \/ answer'.value = "fallback"
              \/ /\ answer' = Answer(result.value, DetailsOf(result))
                 /\ result.value # Null
                 /\ call'.want \in {"any", result.value}
<1> DEFINE details == DetailsOf(result)
<1>1. /\ IF result.status = "MEM" \/ ~SendEvents
         THEN UNCHANGED counters
         ELSE LDEventProcessor_ProcessEvaluation(call'.key, flag, details,
                  IF result.status = "SCHEMA" THEN <<>> ELSE subEvents)
      /\ answer' =
           IF \/ result.status = "MEM"
              \/ SendEvents /\ NoFeatureEvent(flag, details)
              \/ result.value \in {Null, "null"}
           THEN Fallback(details)
           ELSE IF ~checkType(result.value)
           THEN Fallback(ErrorDetails("WRONG_TYPE"))
           ELSE Answer(result.value, details)
    BY DEF FinishVariation
<1> HIDE DEF details
<1>2. IsABag(counters')
    <2>1. CASE result.status = "MEM" \/ ~SendEvents
        BY <1>1, <2>1
    <2>2. CASE ~(result.status = "MEM" \/ ~SendEvents)
        <3>1. PICK sub : /\ sub = IF result.status = "SCHEMA" THEN <<>> ELSE subEvents
                         /\ LDEventProcessor_ProcessEvaluation(call'.key, flag, details, sub)
            BY <1>1, <2>2
        <3>2. IsSeq(sub)
            BY <3>1, EmptyIsSeq
        <3> QED
            BY <3>1, <3>2, SummaryIsBag
    <2> QED
        BY <2>1, <2>2
<1>3. \A d : Fallback(d).value = "fallback"
    BY DEF Fallback, Answer
<1>4. checkType(result.value) => call'.want \in {"any", result.value}
    BY DEF checkType
<1> QED
    BY <1>1, <1>2, <1>3, <1>4 DEF details

-----------------------------------------------------------------------------
(* The flags of LDStoreAll.                                                  *)

\* SetToSeq lists a finite set.
LEMMA SetToSeqLists ==
    ASSUME NEW S, IsFiniteSet(S)
    PROVE  /\ Cardinality(S) \in Nat
           /\ SetToSeq(S) \in [1..Cardinality(S) -> S]
           /\ \A x \in S : \E i \in 1..Cardinality(S) : SetToSeq(S)[i] = x
<1> DEFINE n == Cardinality(S)
           F == [1..n -> S]
<1>1. n \in Nat /\ ExistsBijection(1..n, S)
    BY FS_CardinalityType
<1>2. PICK b \in F : IsInjective(b)
    BY <1>1 DEF ExistsBijection, Bijection, Injection
<1>3. SetToSeq(S) \in F /\ IsInjective(SetToSeq(S))
    <2>1. SetToSeq(S) = CHOOSE f \in F : IsInjective(f)
        BY DEF SetToSeq
    <2> HIDE DEF F
    <2> QED
        BY <1>2, <2>1
<1>4. SetToSeq(S) \in Injection(1..n, S)
    BY <1>3 DEF Injection
<1>5. IsFiniteSet(1..n) /\ Cardinality(1..n) = n
    BY <1>1, FS_Interval
<1>6. SetToSeq(S) \in Surjection(1..n, S)
    <2> HIDE DEF n
    <2>1. Cardinality(1..n) = Cardinality(S)
        BY <1>5 DEF n
    <2> QED
        BY <1>4, <2>1, FS_Injection
<1>7. \A x \in S : \E i \in 1..n : SetToSeq(S)[i] = x
    BY <1>6 DEF Surjection
<1> QED
    BY <1>1, <1>3, <1>7

-----------------------------------------------------------------------------
(* Every step keeps the invariant.                                           *)

LEMMA InitInv == Init => IInv
<1> SUFFICES ASSUME Init PROVE IInv
    OBVIOUS
<1>1. Counts
    <2>1. initialized \in BOOLEAN
        BY DEF Init
    <2>2. writes \in 0..MaxWrites /\ failures \in 0..MaxFailures
        BY BoundsAssumption DEF Init
    <2>3. IsABag(EmptyBag)
        BY DEF IsABag, EmptyBag, SetToBag
    <2> QED
        BY <2>1, <2>2, <2>3 DEF Init, Counts
<1>2. Stored(store)
    BY DEF Init, Stored
<1>3. GoodStack(stack) /\ stack = <<>>
    BY EmptyIsSeq DEF Init, GoodStack, Linked
<1> QED
    BY <1>1, <1>2, <1>3
       DEF Init, IInv, CallShape, EvaluatesOne, EvaluatesAll, Collecting, Running,
           AnswersWithValue, OneSnapshot

\* A step of LDi_evaluate leaves everything but the stack alone.
LEMMA ProgressKeeps ==
    ASSUME IInv, Running, stack # <<>>, Progress, failures' \in 0..MaxFailures,
           UNCHANGED <<initialized, store, writes, held, call, todo, states, answer,
                       counters>>
    PROVE  IInv'
<1>1. Counts'
    BY DEF IInv, Counts
<1>2. Stored(store)'
    BY DEF IInv, Stored, StoredAt
<1>3. GoodStack(stack)' /\ (stack # <<>> => Running)' /\ stack' # <<>>
    BY DEF Progress, Running
<1>4. CallShape'
    BY DEF IInv, CallShape, Running
<1>5. \A flag : Initially(flag)' <=> Initially(flag)
    BY DEF Initially
<1>6. EvaluatesOne'
    BY DEF IInv, EvaluatesOne, Running, Progress, Initially
<1>7. EvaluatesAll'
    BY DEF IInv, EvaluatesAll, Running, Progress, Initially
<1>8. Collecting'
    BY DEF IInv, Collecting, Running, Progress, StateOK, Skipped
<1>9. AnswersWithValue' /\ OneSnapshot'
    BY DEF Running, AnswersWithValue, OneSnapshot
<1> QED
    BY <1>1, <1>2, <1>3, <1>4, <1>6, <1>7, <1>8, <1>9 DEF IInv

\* A change of the store adds to what was held since the call began.
LEMMA FeedKeeps ==
    ASSUME IInv, Stored(store'), Holding(store'), UNCHANGED callVars,
           initialized' \in BOOLEAN, writes' \in 0..MaxWrites
    PROVE  IInv'
<1> USE DEF callVars
<1>1. Counts'
    BY DEF IInv, Counts
<1>2. Stored(store)'
    OBVIOUS
<1>3. GoodStack(stack)' /\ (stack # <<>> => Running)'
    BY DEF IInv, Running
<1>4. call # Null => IsSeq(held') /\ Len(held') >= 1 /\ held'[1] = held[1]
    <2> SUFFICES ASSUME call # Null
                 PROVE  IsSeq(held') /\ Len(held') >= 1 /\ held'[1] = held[1]
        OBVIOUS
    <2>1. IsSeq(held) /\ Len(held) >= 1 /\ Len(held) \in Nat
        BY IsSeqLen DEF IInv, CallShape
    <2>2. CASE Running
        <3>1. held' = Append(held, store')
            BY <2>2 DEF Holding
        <3> QED
            BY <2>1, <3>1, AppendIsSeq
    <2>3. CASE ~Running
        BY <2>1, <2>3 DEF Holding
    <2> QED
        BY <2>2, <2>3
<1>5. CallShape'
    BY <1>4 DEF IInv, CallShape
<1>6. EvaluatesOne'
    BY <1>4 DEF IInv, EvaluatesOne, Running, Initially
<1>7. EvaluatesAll'
    BY <1>4 DEF IInv, EvaluatesAll, Running, Initially
<1>8. Collecting'
    BY <1>4 DEF IInv, Collecting, Running, StateOK, Skipped
<1>9. answer # Null => held' = held
    BY DEF Holding, Running
<1>10. AnswersWithValue'
    BY <1>9 DEF IInv, AnswersWithValue
<1>11. OneSnapshot'
    BY <1>9 DEF IInv, OneSnapshot, Skipped
<1> QED
    BY <1>1, <1>2, <1>3, <1>5, <1>6, <1>7, <1>8, <1>10, <1>11 DEF IInv

LEMMA ContentsStored ==
    ASSUME NEW s \in Contents
    PROVE  Stored(s)
<1>1. DOMAIN s = Keys
    BY DataAssumption
<1>2. ASSUME NEW k \in Keys, s[k] # Null
      PROVE  StoredAt(k, s[k])
    <2>1. s[k] \in Bodies(k)
        BY DEF Bodies
    <2>2. /\ s[k].key = k
          /\ k \in Flags =>
               /\ s[k].rules = Bad \/ IsSeq(s[k].rules)
               /\ s[k].rules # Bad => ClausesAreLists(s[k].rules)
               /\ s[k].prerequisites = Bad \/ NamesFlags(s[k].prerequisites)
        BY <1>2, <2>1, DataAssumption
    <2>3. k \in Flags => ListsOK(s[k])
        BY <2>2 DEF ListsOK
    <2> QED
        BY <2>2, <2>3 DEF StoredAt
<1> QED
    BY <1>1, <1>2 DEF Stored

LEMMA ChangeStored ==
    ASSUME Stored(store), NEW k \in Keys, NEW body \in Patches[k] \cup {Null}, NEW version,
           NEW new, new = [store EXCEPT ![k] = IF body = Null THEN Null
                                               ELSE [body EXCEPT !.version = version]]
    PROVE  Stored(new)
<1> DEFINE b == [body EXCEPT !.version = version]
<1>1. body # Null => StoredAt(k, b)
    <2> SUFFICES ASSUME body # Null PROVE StoredAt(k, b)
        OBVIOUS
    <2>1. body \in Bodies(k)
        BY DEF Bodies
    <2>2. /\ {"key", "version"} \subseteq DOMAIN body
          /\ body.key = k
          /\ k \in Flags =>
               /\ {"rules", "prerequisites"} \subseteq DOMAIN body
               /\ body.rules = Bad \/ IsSeq(body.rules)
               /\ body.rules # Bad => ClausesAreLists(body.rules)
               /\ body.prerequisites = Bad \/ NamesFlags(body.prerequisites)
        BY <2>1, DataAssumption
    <2>3. b.key = k
        BY <2>2
    <2>4. k \in Flags => b.rules = body.rules /\ b.prerequisites = body.prerequisites
        BY <2>2
    <2> HIDE DEF b
    <2>5. k \in Flags => ListsOK(body)
        BY <2>2 DEF ListsOK
    <2>6. k \in Flags => ListsOK(b)
        BY <2>4, <2>5 DEF ListsOK
    <2> QED
        BY <2>3, <2>6 DEF StoredAt
<1> HIDE DEF b
<1>2. DOMAIN store = Keys /\ \A j \in Keys : store[j] # Null => StoredAt(j, store[j])
    BY DEF Stored
<1>3. new = [store EXCEPT ![k] = IF body = Null THEN Null ELSE b]
    BY DEF b
<1>4. /\ DOMAIN new = Keys
      /\ new[k] = IF body = Null THEN Null ELSE b
      /\ \A j \in Keys : j # k => new[j] = store[j]
    BY <1>2, <1>3
<1> QED
    BY <1>1, <1>2, <1>4 DEF Stored

LEMMA FeedInv ==
    ASSUME IInv, Feed
    PROVE  IInv'
<1>1. CASE Put
    <2>1. PICK s \in Contents : store' = s /\ Holding(s)
        BY <1>1 DEF Put
    <2>2. Stored(store') /\ Holding(store')
        BY <2>1, ContentsStored
    <2>3. UNCHANGED callVars /\ initialized' \in BOOLEAN /\ writes' \in 0..MaxWrites
        BY <1>1 DEF Put, IInv, Counts
    <2> QED
        BY <2>2, <2>3, FeedKeeps
<1>2. ASSUME NEW k \in Keys, NEW body \in Patches[k] \cup {Null}, Change(k, body)
      PROVE  IInv'
    <2>1. PICK version : version = writes + 2
        OBVIOUS
    <2>2. store' = [store EXCEPT ![k] = IF body = Null THEN Null
                                        ELSE [body EXCEPT !.version = version]]
        BY <1>2, <2>1 DEF Change
    <2>3. PICK new : new = store'
        OBVIOUS
    <2>4. Stored(new)
        BY <2>2, <2>3, ChangeStored DEF IInv
    <2>5. Stored(store') /\ Holding(store')
        BY <1>2, <2>3, <2>4 DEF Change
    <2>6. UNCHANGED callVars /\ initialized' \in BOOLEAN
        BY <1>2 DEF Change, IInv, Counts
    <2>7. writes' \in 0..MaxWrites
        BY <1>2, BoundsAssumption DEF Change, IInv, Counts
    <2> QED
        BY <2>5, <2>6, <2>7, FeedKeeps
<1> QED
    BY <1>1, <1>2 DEF Feed

\* The state that a call begins in.
LEMMA BeforeCall ==
    ASSUME IInv, call = Null
    PROVE  stack = <<>> /\ todo = <<>> /\ states = <<>> /\ answer = Null
BY DEF IInv, CallShape

LEMMA HeldAtCall ==
    ASSUME IInv, held' = <<store>>
    PROVE  IsSeq(held') /\ Len(held') >= 1 /\ held'[1] = store /\ Stored(held'[1])
BY OneIsSeq DEF IInv

LEMMA FailuresBounded ==
    ASSUME IInv, StoreFails \/ UNCHANGED failures
    PROVE  failures' \in 0..MaxFailures
BY BoundsAssumption DEF IInv, Counts, StoreFails

\* What is left to show of a step that begins or ends a variation call.
LEMMA VariationKeeps ==
    ASSUME IInv, UNCHANGED <<initialized, store, writes>>, failures' \in 0..MaxFailures,
           IsABag(counters'), todo' = <<>>,
           call' \in Calls, call'.op = "variation",
           IsSeq(held'), Len(held') >= 1, Stored(held'[1]),
           \/ stack' = <<>>
           \/ /\ GoodStack(stack') /\ answer' = Null
              /\ Initially(stack[1].flag)' /\ stack'[1].flag.key = call'.key,
           AnswersWithValue'
    PROVE  IInv'
<1>1. call' # Null
    BY NullAssumption
<1>2. Counts'
    BY DEF IInv, Counts
<1>3. Stored(store)'
    BY DEF IInv
<1>4. GoodStack(stack)' /\ (stack # <<>> => Running)'
    BY <1>1, EmptyIsSeq DEF GoodStack, Linked, Running
<1>5. CallShape'
    BY <1>1 DEF CallShape
<1>6. EvaluatesOne' /\ EvaluatesAll' /\ Collecting' /\ OneSnapshot'
    BY DEF EvaluatesOne, EvaluatesAll, Collecting, OneSnapshot
<1> QED
    BY <1>2, <1>3, <1>4, <1>5, <1>6 DEF IInv

LEMMA VariationInv ==
    ASSUME IInv, NEW user \in Users, NEW key \in Flags, NEW want \in Wanted,
           Variation(user, key, want)
    PROVE  IInv'
<1>1. /\ call = Null
      /\ call' = [op |-> "variation", user |-> user, key |-> key, want |-> want]
      /\ held' = <<store>> /\ UNCHANGED <<initialized, store, writes, todo, states>>
    BY DEF Variation, feedVars
<1>2. call' \in Calls /\ call'.op = "variation" /\ call'.key = key
    BY <1>1 DEF Calls
<1>3. stack = <<>> /\ todo' = <<>> /\ answer = Null
    BY <1>1, BeforeCall
<1>4. IsSeq(held') /\ Len(held') >= 1 /\ held'[1] = store /\ Stored(held'[1])
    BY <1>1, HeldAtCall
<1>5. failures' \in 0..MaxFailures
    <2>1. StoreFails \/ UNCHANGED failures
        BY DEF Variation, StoreWorks
    <2> QED
        BY <2>1, FailuresBounded
<1>6. \A details : Fallback(details).value = "fallback"
    BY DEF Fallback, Answer
<1>7. \/ \E details : answer' = Fallback(details) /\ stack' = stack /\ counters' = counters
      \/ /\ FinishVariation(Null, Result("MISS", Null, ErrorDetails("FLAG_NOT_FOUND")), <<>>)
         /\ stack' = stack
      \/ /\ store[key] # Null /\ stack' = <<Frame(store[key])>>
         /\ answer' = answer /\ counters' = counters
    BY DEF Variation
<1>8. CASE \E details : answer' = Fallback(details) /\ stack' = stack /\ counters' = counters
    <2>1. AnswersWithValue'
        BY <1>6, <1>8 DEF AnswersWithValue
    <2>2. IsABag(counters')
        BY <1>8 DEF IInv, Counts
    <2> QED
        BY <1>1, <1>2, <1>3, <1>4, <1>5, <1>8, <2>1, <2>2, VariationKeeps
<1>9. CASE /\ FinishVariation(Null, Result("MISS", Null, ErrorDetails("FLAG_NOT_FOUND")), <<>>)
           /\ stack' = stack
    <2>1. PICK result : result = Result("MISS", Null, ErrorDetails("FLAG_NOT_FOUND"))
        OBVIOUS
    <2>2. result.value = Null
        BY <2>1 DEF Result
    <2>3. IsABag(counters') /\ answer'.value = "fallback"
        BY <1>9, <2>1, <2>2, EmptyIsSeq, FinishAnswers DEF IInv, Counts
    <2>4. AnswersWithValue'
        BY <2>3 DEF AnswersWithValue
    <2> QED
        BY <1>1, <1>2, <1>3, <1>4, <1>5, <1>9, <2>3, <2>4, VariationKeeps
<1>10. CASE /\ store[key] # Null /\ stack' = <<Frame(store[key])>>
            /\ answer' = answer /\ counters' = counters
    <2>1. StoredAt(key, store[key])
        BY <1>10 DEF IInv, Stored, Keys
    <2>2. PICK f : f = Frame(store[key])
        OBVIOUS
    <2>3. GoodFrame(f) /\ f.flag = store[key] /\ f.flag.key = key
        BY <2>1, <2>2, NewFrame DEF StoredAt
    <2>4. IsSeq(stack') /\ Len(stack') = 1 /\ stack'[1] = f
        BY <1>10, <2>2, OneIsSeq
    <2>5. GoodStack(stack')
        BY <2>3, <2>4 DEF GoodStack, Linked
    <2>6. Initially(stack[1].flag)' /\ stack'[1].flag.key = call'.key
        BY <1>2, <1>4, <1>10, <2>3, <2>4 DEF Initially
    <2>7. AnswersWithValue'
        BY <1>3, <1>10 DEF AnswersWithValue
    <2>8. IsABag(counters')
        BY <1>10 DEF IInv, Counts
    <2>9. answer' = Null
        BY <1>3, <1>10
    <2> QED
        BY <1>1, <1>2, <1>3, <1>4, <1>5, <2>5, <2>6, <2>7, <2>8, <2>9, VariationKeeps
<1> QED
    BY <1>7, <1>8, <1>9, <1>10

LEMMA AllFlagsInv ==
    ASSUME IInv, NEW op \in {"allFlags", "allFlagsState"}, NEW user \in Users,
           NEW options \in OptionSets \cup {{"INCLUDE_REASON"}},
           AllFlags(op, user, options)
    PROVE  IInv'
<1>1. /\ call = Null
      /\ call' = [op |-> op, user |-> user, options |-> options]
      /\ held' = <<store>>
      /\ UNCHANGED <<initialized, store, writes, stack, states, counters>>
    BY DEF AllFlags, feedVars
<1>2. call' \in Calls /\ call'.op # "variation" /\ call' # Null
    BY <1>1, NullAssumption DEF Calls
<1>3. stack' = <<>> /\ states' = <<>> /\ answer = Null /\ todo = <<>>
    BY <1>1, BeforeCall
<1>4. IsSeq(held') /\ Len(held') >= 1 /\ held'[1] = store /\ Stored(held'[1])
    BY <1>1, HeldAtCall
<1>5. failures' \in 0..MaxFailures
    <2>1. StoreFails \/ UNCHANGED failures
        BY DEF AllFlags, StoreWorks
    <2> QED
        BY <2>1, FailuresBounded
<1>6. Counts'
    BY <1>1, <1>5 DEF IInv, Counts
<1>7. Stored(store)'
    BY <1>1 DEF IInv
<1>8. GoodStack(stack)' /\ (stack # <<>> => Running)'
    BY <1>3, EmptyIsSeq DEF GoodStack, Linked
<1>9. CallShape'
    BY <1>2, <1>4 DEF CallShape
<1>10. EvaluatesOne' /\ AnswersWithValue'
    BY <1>2 DEF EvaluatesOne, AnswersWithValue
<1>11. EvaluatesAll' /\ Collecting' /\ OneSnapshot'
    <2>1. CASE answer' = Invalid
        <3>1. answer' # Null /\ ~answer'.valid
            BY <2>1, NullAssumption DEF Invalid, Collected
        <3> QED
            BY <3>1 DEF EvaluatesAll, Collecting, OneSnapshot, Running
    <2> DEFINE S == {k \in Flags : store[k] # Null}
               keys == SetToSeq(S)
               n == Cardinality(S)
    <2>2. CASE answer' = answer /\ todo' = [i \in DOMAIN keys |-> store[keys[i]]]
        <3>1. IsFiniteSet(S)
            <4>1. IsFiniteSet(Flags) /\ S \in SUBSET Flags
                BY DataAssumption
            <4> HIDE DEF S
            <4> QED
                BY <4>1, FS_Subset
        <3>2. /\ n \in Nat /\ keys \in [1..n -> S]
              /\ \A k \in S : \E i \in 1..n : keys[i] = k
            <4> HIDE DEF S
            <4> QED
                BY <3>1, SetToSeqLists
        <3> HIDE DEF keys, n
        <3>3. \A i \in 1..n : /\ keys[i] \in Flags /\ store[keys[i]] # Null
                              /\ store[keys[i]].key = keys[i]
            BY <3>2 DEF IInv, Stored, StoredAt, Keys
        <3> HIDE DEF S
        <3>4. todo' = [i \in 1..n |-> store[keys[i]]]
            BY <2>2, <3>2
        <3>5. IsSeq(todo') /\ Len(todo') = n
            <4>1. PICK t : t = todo'
                OBVIOUS
            <4>2. t \in [1..n -> Range(t)] /\ DOMAIN t = 1..n
                BY <3>4, <4>1 DEF Range
            <4>3. t \in Seq(Range(t))
                BY <3>2, <4>2
            <4>4. Len(t) = n
                BY <3>2, <4>2, <4>3
            <4> QED
                BY <4>1, <4>3, <4>4 DEF IsSeq
        <3>6. \A i \in 1..n : Initially(todo[i])'
            BY <1>4, <3>3, <3>4 DEF Initially
        <3>7. EvaluatesAll'
            BY <1>3, <3>5, <3>6, EmptyIsSeq DEF EvaluatesAll
        <3>8. Collecting'
            <4>1. \A k \in Flags : store[k] # Null => \E i \in 1..n : todo'[i].key = k
                BY <3>2, <3>3, <3>4 DEF S
            <4> QED
                BY <1>3, <1>4, <3>5, <4>1, EmptyIsSeq DEF Collecting
        <3>9. OneSnapshot'
            BY <1>3, <2>2 DEF OneSnapshot
        <3> QED
            BY <3>7, <3>8, <3>9
    <2> QED
        BY <2>1, <2>2 DEF AllFlags
<1> QED
    BY <1>6, <1>7, <1>8, <1>9, <1>10, <1>11 DEF IInv

\* What a step between the evaluations of LDAllFlags and LDAllFlagsState keeps.
LEMMA LoopKeeps ==
    ASSUME IInv, Running, call.op # "variation",
           UNCHANGED <<initialized, store, writes, held, call, counters, failures>>,
           GoodStack(stack'), (stack # <<>> => Running)',
           EvaluatesAll', Collecting', OneSnapshot'
    PROVE  IInv'
<1>1. Counts' /\ Stored(store)'
    BY DEF IInv, Counts, Stored, StoredAt
<1>2. CallShape'
    BY DEF IInv, CallShape, Running
<1>3. EvaluatesOne' /\ AnswersWithValue'
    BY DEF EvaluatesOne, AnswersWithValue
<1> QED
    BY <1>1, <1>2, <1>3 DEF IInv

LEMMA NextFlagInv ==
    ASSUME IInv, NextFlag
    PROVE  IInv'
<1>1. /\ Running /\ stack = <<>> /\ todo # <<>> /\ todo' = Tail(todo)
      /\ UNCHANGED <<initialized, store, writes, held, call, states, answer, counters,
                     failures>>
    BY DEF NextFlag, feedVars
<1>2. call.op # "variation"
    BY <1>1 DEF IInv, EvaluatesOne
<1>3. /\ IsSeq(todo) /\ IsSeq(states) /\ \A i \in 1..Len(todo) : Initially(todo[i])
      /\ Stored(held[1])
    BY <1>1, <1>2 DEF IInv, EvaluatesAll, CallShape, Running
<1>4. /\ IsSeq(todo') /\ Len(todo') = Len(todo) - 1 /\ Len(todo) >= 1
      /\ Len(todo) \in Nat /\ Head(todo) = todo[1]
      /\ \A i \in 1..Len(todo') : todo'[i] = todo[i + 1]
    BY <1>1, <1>3, TailIsSeq, IsSeqLen
<1>5. PICK flag : flag = todo[1]
    OBVIOUS
<1>6. Initially(flag)
    BY <1>3, <1>4, <1>5
<1>7. \A i \in 1..Len(todo') : Initially(todo[i])'
    <2> SUFFICES ASSUME NEW i \in 1..Len(todo') PROVE Initially(todo'[i])
        BY <1>1 DEF Initially
    <2>1. i + 1 \in 1..Len(todo) /\ todo'[i] = todo[i + 1]
        BY <1>4
    <2> QED
        BY <1>3, <2>1
<1>8. \A i \in 1..Len(todo) : i = 1 \/ (i - 1 \in 1..Len(todo') /\ todo'[i - 1] = todo[i])
    <2> SUFFICES ASSUME NEW i \in 1..Len(todo), i # 1
                 PROVE  i - 1 \in 1..Len(todo') /\ todo'[i - 1] = todo[i]
        OBVIOUS
    <2>1. PICK j \in 1..Len(todo') : j = i - 1 /\ j + 1 = i
        BY <1>4
    <2> QED
        BY <1>4, <2>1
<1>9. OneSnapshot' /\ Running'
    BY <1>1 DEF OneSnapshot, Running
<1>10. CASE Skipped(flag)
    <2>1. stack' = <<>>
        BY <1>1, <1>4, <1>5, <1>10 DEF NextFlag
    <2>2. GoodStack(stack')
        BY <2>1, EmptyIsSeq DEF GoodStack, Linked
    <2>3. EvaluatesAll'
        BY <1>1, <1>3, <1>4, <1>7, <2>1 DEF EvaluatesAll
    <2>4. Collecting'
        <3> SUFFICES ASSUME call.op = "allFlagsState" PROVE Collecting'
            BY <1>1 DEF Collecting
        <3>1. \A j \in 1..Len(states) : StateOK(states[j])'
            BY <1>1 DEF IInv, Collecting, StateOK, Skipped
        <3>2. ASSUME NEW k \in Flags, held[1][k] # Null, ~Skipped(held[1][k])
              PROVE  \/ \E j \in 1..Len(states) : states[j].key = k
                     \/ \E i \in 1..Len(todo') : todo'[i].key = k
            <4>1. CASE \E j \in 1..Len(states) : states[j].key = k
                BY <4>1
            <4>2. CASE \E i \in 1..Len(todo) : todo[i].key = k
                <5>1. PICK i \in 1..Len(todo) : todo[i].key = k
                    BY <4>2
                <5>2. i # 1
                    <6>1. flag.key = k => flag = held[1][k]
                        BY <1>6 DEF Initially
                    <6> QED
                        BY <1>5, <1>10, <3>2, <5>1, <6>1
                <5> QED
                    BY <1>8, <5>1, <5>2
            <4> QED
                BY <1>1, <3>2, <4>1, <4>2 DEF IInv, Collecting
        <3>3. \A k : (held[1][k] # Null /\ ~Skipped(held[1][k]))'
                       <=> (held[1][k] # Null /\ ~Skipped(held[1][k]))
            BY <1>1 DEF Skipped
        <3> QED
            BY <1>1, <2>1, <3>1, <3>2, <3>3 DEF Collecting
    <2> QED
        BY <1>1, <1>2, <1>9, <2>1, <2>2, <2>3, <2>4, LoopKeeps
<1>11. CASE ~Skipped(flag)
    <2>1. PICK f : f = Frame(flag)
        OBVIOUS
    <2>2. stack' = <<f>>
        BY <1>1, <1>4, <1>5, <1>11, <2>1 DEF NextFlag
    <2>3. IsSeq(stack') /\ Len(stack') = 1 /\ stack'[1] = f /\ stack' # <<>>
        BY <2>2, OneIsSeq, NonEmpty
    <2>4. StoredAt(flag.key, flag)
        BY <1>3, <1>6 DEF Stored, Initially, Keys
    <2>5. GoodFrame(f) /\ f.flag = flag
        BY <1>6, <2>1, <2>4, NewFrame DEF StoredAt, Initially
    <2>6. GoodStack(stack')
        BY <2>3, <2>5 DEF GoodStack, Linked
    <2>7. EvaluatesAll'
        BY <1>1, <1>3, <1>4, <1>6, <1>7, <2>3, <2>5 DEF EvaluatesAll, Initially
    <2>8. Collecting'
        <3> SUFFICES ASSUME call.op = "allFlagsState" PROVE Collecting'
            BY <1>1 DEF Collecting
        <3>1. \A j \in 1..Len(states) : StateOK(states[j])'
            BY <1>1 DEF IInv, Collecting, StateOK, Skipped
        <3>2. ASSUME NEW k \in Flags, held[1][k] # Null, ~Skipped(held[1][k])
              PROVE  \/ \E j \in 1..Len(states) : states[j].key = k
                     \/ flag.key = k
                     \/ \E i \in 1..Len(todo') : todo'[i].key = k
            <4>1. CASE \E j \in 1..Len(states) : states[j].key = k
                BY <4>1
            <4>2. CASE \E i \in 1..Len(todo) : todo[i].key = k
                BY <1>5, <1>8, <4>2
            <4> QED
                BY <1>1, <3>2, <4>1, <4>2 DEF IInv, Collecting
        <3>3. \A k : (held[1][k] # Null /\ ~Skipped(held[1][k]))'
                       <=> (held[1][k] # Null /\ ~Skipped(held[1][k]))
            BY <1>1 DEF Skipped
        <3>4. (~Skipped(stack[1].flag))'
            BY <1>1, <1>11, <2>3, <2>5 DEF Skipped
        <3> QED
            BY <1>1, <2>3, <2>5, <3>1, <3>2, <3>3, <3>4 DEF Collecting
    <2> QED
        BY <1>1, <1>2, <1>9, <2>6, <2>7, <2>8, LoopKeeps
<1> QED
    BY <1>10, <1>11

LEMMA FinishAllFlagsInv ==
    ASSUME IInv, FinishAllFlags
    PROVE  IInv'
<1>1. /\ Running /\ call.op # "variation" /\ stack = <<>> /\ todo = <<>>
      /\ answer' = Collected(TRUE, states)
      /\ UNCHANGED <<initialized, store, writes, held, call, counters, failures,
                     stack, todo, states>>
    BY DEF FinishAllFlags, feedVars
<1>2. GoodStack(stack') /\ (stack # <<>> => Running)'
    BY <1>1 DEF IInv
<1>3. EvaluatesAll'
    BY <1>1 DEF IInv, EvaluatesAll, Running, Initially
<1>4. Collecting'
    BY <1>1 DEF IInv, Collecting, Running, StateOK, Skipped
<1>5. OneSnapshot'
    <2> SUFFICES ASSUME call.op = "allFlagsState" PROVE OneSnapshot'
        BY <1>1 DEF OneSnapshot
    <2>1. answer'.flags = states
        BY <1>1 DEF Collected
    <2>2. /\ IsSeq(states) /\ DOMAIN states = 1..Len(states)
          /\ IsSeq(held') /\ Len(held') >= 1 /\ held' = held /\ 1 \in DOMAIN held'
        BY <1>1, IsSeqLen DEF IInv, EvaluatesAll, CallShape, Running
    <2>3. /\ \A j \in DOMAIN states : StateOK(states[j])
          /\ \A k \in Flags : (held[1][k] # Null /\ ~Skipped(held[1][k])) =>
                \E j \in DOMAIN states : states[j].key = k
        BY <1>1, <2>2, EmptyIsSeq DEF IInv, Collecting
    <2>4. {states[j].key : j \in DOMAIN states}
            = {k \in Flags : held[1][k] # Null /\ ~Skipped(held[1][k])}
        BY <2>3 DEF StateOK
    <2>5. \A j \in DOMAIN states :
             /\ states[j].version = held[1][states[j].key].version
             /\ states[j].details.variation # Null =>
                  states[j].value = getValue(held[1][states[j].key], states[j].details.variation)
        BY <2>3 DEF StateOK
    <2>6. \A k : Skipped(held[1][k])' <=> Skipped(held[1][k])
        BY <1>1 DEF Skipped
    <2>7. {states[j].key : j \in DOMAIN states}
            = {k \in Flags : (held[1][k] # Null /\ ~Skipped(held[1][k]))'}
        BY <2>2, <2>4, <2>6
    <2> QED
        BY <2>1, <2>2, <2>5, <2>7 DEF OneSnapshot
<1> QED
    BY <1>1, <1>2, <1>3, <1>4, <1>5, LoopKeeps

\* The variation of a flag's state is that of its evaluation.
LEMMA StateOfFlag ==
    ASSUME NEW flag, NEW result
    PROVE  LET state == FlagState(flag, result) IN
           /\ state.key = flag.key /\ state.value = result.value
           /\ state.version = flag.version
           /\ state.details.variation = result.details.variation
<1> DEFINE d == IF "INCLUDE_REASON" \in call.options THEN result.details
                ELSE [NoDetails EXCEPT !.variation = result.details.variation]
<1>1. d.variation = result.details.variation
    BY NoDetailsShape
<1>2. /\ FlagState(flag, result).key = flag.key
      /\ FlagState(flag, result).value = result.value
      /\ FlagState(flag, result).version = flag.version
      /\ FlagState(flag, result).details = d
    BY DEF FlagState, LDi_flagModelPopulate
<1> HIDE DEF d
<1> QED
    BY <1>1, <1>2

\* An error kind leaves the variation of the details alone.
LEMMA DetailsOfVariation ==
    ASSUME NEW result
    PROVE  /\ DetailsOf(result).variation = result.details.variation
           /\ result.status \notin {"MEM", "SCHEMA"} => DetailsOf(result) = result.details
<1>1. \A kind : WithError(result.details, kind).variation = result.details.variation
    BY NoDetailsShape DEF WithError, ErrorDetails
<1> QED
    BY <1>1 DEF DetailsOf

LEMMA ReturnInv ==
    ASSUME IInv, Return
    PROVE  IInv'
<1>1. /\ Running /\ Depth = 1 /\ Top.at = "done" /\ stack' = <<>>
      /\ UNCHANGED <<initialized, store, writes, held, todo, failures, call>>
    BY DEF Return, feedVars
<1>2. PICK f : f = stack[1]
    OBVIOUS
<1>3. GoodFrame(f) /\ f = Top /\ stack # <<>>
    <2>1. Len(stack) = 1 /\ Top = f
        BY <1>1, <1>2 DEF Top, Depth
    <2> QED
        BY <1>2, <2>1, EmptyIsSeq DEF IInv, GoodStack
<1>4. Sound(f.flag, f.result) /\ IsSeq(f.events)
    BY <1>1, <1>3 DEF GoodFrame
<1>5. call # Null /\ call \in Calls /\ IsSeq(held) /\ Len(held) >= 1 /\ Stored(held[1])
    BY <1>1 DEF IInv, CallShape, Running
<1>6. CASE call.op = "variation"
    <2>1. FinishVariation(f.flag, f.result, f.events)
        BY <1>3, <1>6 DEF Return
    <2>2. /\ IsABag(counters')
          /\ \/ answer'.value = "fallback"
             \/ /\ answer' = Answer(f.result.value, DetailsOf(f.result))
                /\ f.result.value # Null
                /\ call'.want \in {"any", f.result.value}
        BY <1>4, <2>1, FinishAnswers DEF IInv, Counts
    <2>3. Initially(f.flag) /\ f.flag.key = call.key /\ todo = <<>>
        BY <1>1, <1>2, <1>3, <1>6 DEF IInv, EvaluatesOne
    <2>4. AnswersWithValue'
        <3>1. CASE answer'.value = "fallback"
            BY <3>1 DEF AnswersWithValue
        <3>2. CASE /\ answer' = Answer(f.result.value, DetailsOf(f.result))
                   /\ f.result.value # Null
                   /\ call'.want \in {"any", f.result.value}
            <4>1. f.result.value = getValue(f.flag, f.result.details.variation)
                BY <1>4, <3>2 DEF Sound
            <4>2. ~OddRuleId(f.flag) =>
                     /\ f.result.status \notin {"MEM", "SCHEMA"}
                     /\ f.result.details.reason # "ERROR"
                BY <1>4, <3>2 DEF Sound
            <4>3. /\ answer'.value = f.result.value
                  /\ answer'.details.variation = f.result.details.variation
                  /\ ~OddRuleId(f.flag) => answer'.details.reason # "ERROR"
                BY <3>2, <4>2, DetailsOfVariation DEF Answer
            <4>4. /\ held'[1][call'.key] = f.flag /\ f.flag # Null
                  /\ 1 \in DOMAIN held'
                BY <1>1, <1>5, <2>3, IsSeqLen DEF Initially
            <4> QED
                BY <3>2, <4>1, <4>3, <4>4 DEF AnswersWithValue
        <3> QED
            BY <2>2, <3>1, <3>2
    <2>5. failures' \in 0..MaxFailures
        BY <1>1 DEF IInv, Counts
    <2> QED
        BY <1>1, <1>5, <1>6, <2>2, <2>3, <2>4, <2>5, VariationKeeps
<1>7. CASE call.op # "variation"
    <2>1. AddState(f.flag, f.result) /\ UNCHANGED <<answer, counters>>
        BY <1>3, <1>7 DEF Return
    <2>2. IsSeq(todo) /\ IsSeq(states) /\ Initially(f.flag)
          /\ \A i \in 1..Len(todo) : Initially(todo[i])
        BY <1>1, <1>2, <1>3, <1>7 DEF IInv, EvaluatesAll
    <2>3. GoodStack(stack') /\ (stack # <<>> => Running)'
        BY <1>1, EmptyIsSeq DEF GoodStack, Linked
    <2>4. states' = states \/ \E x : states' = Append(states, x)
        BY <2>1 DEF AddState
    <2>5. IsSeq(states')
        <3>1. CASE states' = states
            BY <2>2, <3>1
        <3>2. CASE \E x : states' = Append(states, x)
            <4>1. PICK x : states' = Append(states, x)
                BY <3>2
            <4>2. IsSeq(Append(states, x))
                BY <2>2, AppendIsSeq
            <4> QED
                BY <4>1, <4>2
        <3> QED
            BY <2>4, <3>1, <3>2
    <2>6. EvaluatesAll'
        BY <1>1, <2>2, <2>5 DEF EvaluatesAll, Initially
    <2>7. OneSnapshot'
        BY <1>1, <2>1 DEF OneSnapshot, Running
    <2>8. Collecting'
        <3> SUFFICES ASSUME call.op = "allFlagsState" PROVE Collecting'
            BY <1>1 DEF Collecting
        <3>1. PICK state : state = FlagState(f.flag, f.result)
            OBVIOUS
        <3>2. states' = Append(states, state)
            BY <2>1, <3>1 DEF AddState
        <3>3. /\ Len(states') = Len(states) + 1 /\ Len(states) \in Nat
              /\ states'[Len(states) + 1] = state
              /\ \A j \in 1..Len(states) : states'[j] = states[j]
            BY <2>2, <3>2, AppendIsSeq, IsSeqLen
        <3>4. /\ state.key = f.flag.key /\ state.value = f.result.value
              /\ state.version = f.flag.version
              /\ state.details.variation = f.result.details.variation
            BY <3>1, StateOfFlag
        <3>5. ~Skipped(f.flag)
            BY <1>1, <1>2, <1>3 DEF IInv, Collecting
        <3>6. StateOK(state)
            BY <1>4, <2>2, <3>4, <3>5 DEF StateOK, Initially, Sound
        <3>7. \A j \in 1..Len(states) : StateOK(states[j])
            BY <1>1 DEF IInv, Collecting
        <3>8. \A j \in 1..Len(states') : StateOK(states'[j])
            <4> SUFFICES ASSUME NEW j \in 1..Len(states') PROVE StateOK(states'[j])
                OBVIOUS
            <4>1. j = Len(states) + 1 \/ j \in 1..Len(states)
                BY <3>3
            <4> QED
                BY <3>3, <3>6, <3>7, <4>1
        <3>9. \A j \in 1..Len(states') : StateOK(states[j])'
            BY <1>1, <3>8 DEF StateOK, Skipped
        <3>10. ASSUME NEW k \in Flags, held[1][k] # Null, ~Skipped(held[1][k])
               PROVE  \/ \E j \in 1..Len(states') : states'[j].key = k
                      \/ \E i \in 1..Len(todo) : todo[i].key = k
            <4>1. \/ \E j \in 1..Len(states) : states[j].key = k
                  \/ f.flag.key = k
                  \/ \E i \in 1..Len(todo) : todo[i].key = k
                BY <1>1, <1>2, <3>10 DEF IInv, Collecting
            <4>2. Len(states) + 1 \in 1..Len(states') /\ 1..Len(states) \subseteq 1..Len(states')
                BY <3>3
            <4> QED
                BY <3>3, <3>4, <4>1, <4>2
        <3>11. \A k : (held[1][k] # Null /\ ~Skipped(held[1][k]))'
                        <=> (held[1][k] # Null /\ ~Skipped(held[1][k]))
            BY <1>1 DEF Skipped
        <3> QED
            BY <1>1, <3>9, <3>10, <3>11 DEF Collecting
    <2> QED
        BY <1>1, <1>7, <2>1, <2>3, <2>6, <2>7, <2>8, LoopKeeps
<1> QED
    BY <1>6, <1>7

LEMMA SectionsInv ==
    ASSUME IInv,
           \/ SectionOn \/ NoPrerequisite \/ ReadPrerequisite \/ ReturnToPrerequisites
           \/ SectionTargets \/ SectionRules \/ NoSegmentLeft \/ ReadSegment
    PROVE  IInv'
<1>1. Progress
    BY SectionsProgress DEF IInv
<1>2. Running /\ stack # <<>>
    <2>1. ASSUME ReturnToPrerequisites PROVE stack # <<>>
        BY <2>1, EmptyIsSeq DEF ReturnToPrerequisites, Depth
    <2> QED
        BY <2>1 DEF ReturnToPrerequisites, SectionOn, NoPrerequisite, ReadPrerequisite,
                    SectionTargets, SectionRules, NoSegmentLeft, ReadSegment, At
<1>3. /\ UNCHANGED <<initialized, store, writes, held, call, todo, states, answer,
                     counters>>
      /\ StoreFails \/ UNCHANGED failures
    BY DEF ReturnToPrerequisites, SectionOn, NoPrerequisite, ReadPrerequisite,
           SectionTargets, SectionRules, NoSegmentLeft, ReadSegment, Local, Reads,
           StoreWorks, feedVars
<1>4. failures' \in 0..MaxFailures
    BY <1>3, FailuresBounded
<1> QED
    BY <1>1, <1>2, <1>3, <1>4, ProgressKeeps

LEMMA NextInv == IInv /\ [Next]_vars => IInv'
<1> SUFFICES ASSUME IInv, [Next]_vars PROVE IInv'
    OBVIOUS
<1>1. CASE Feed
    BY <1>1, FeedInv
<1>2. ASSUME NEW user \in Users, NEW key \in Flags, NEW want \in Wanted,
             Variation(user, key, want)
      PROVE  IInv'
    BY <1>2, VariationInv
<1>3. ASSUME NEW user \in Users, AllFlags("allFlags", user, {"INCLUDE_REASON"})
      PROVE  IInv'
    <2>1. {"INCLUDE_REASON"} \in OptionSets \cup {{"INCLUDE_REASON"}}
        OBVIOUS
    <2> QED
        BY <1>3, <2>1, AllFlagsInv
<1>4. ASSUME NEW user \in Users, NEW options \in OptionSets,
             AllFlags("allFlagsState", user, options)
      PROVE  IInv'
    BY <1>4, AllFlagsInv
<1>5. CASE Step
    BY <1>5, NextFlagInv, FinishAllFlagsInv, SectionsInv, ReturnInv DEF Step
<1>6. CASE UNCHANGED vars
    <2>1. UNCHANGED <<initialized, store, writes, held, call, todo, states, answer,
                      counters, stack, failures>>
        BY <1>6 DEF vars, feedVars, callVars
    <2>2. Counts' /\ Stored(store)' /\ GoodStack(stack)' /\ (stack # <<>> => Running)'
        BY <2>1 DEF IInv, Counts, Running
    <2>3. CallShape' /\ EvaluatesOne' /\ EvaluatesAll'
        BY <2>1 DEF IInv, CallShape, EvaluatesOne, EvaluatesAll, Running, Initially
    <2>4. Collecting'
        BY <2>1 DEF IInv, Collecting, Running, StateOK, Skipped
    <2>5. AnswersWithValue'
        BY <2>1 DEF IInv, AnswersWithValue
    <2>6. OneSnapshot'
        BY <2>1 DEF IInv, OneSnapshot, Skipped
    <2> QED
        BY <2>2, <2>3, <2>4, <2>5, <2>6 DEF IInv
<1> QED
    BY <1>1, <1>2, <1>3, <1>4, <1>5, <1>6 DEF Next

-----------------------------------------------------------------------------
(* Frames with their events.                                                 *)

\* Each event comes before one of the flag that required it, or tells of a
\* prerequisite of the flag under the key.
RequirersFollow(events, key) ==
    \A j \in 1..Len(events) : events[j].prereqOf # key =>
        \E l \in (j + 1)..Len(events) : events[l].key = events[j].prereqOf

\* What the events of an evaluation tell, by the reason it gave.
Explains(flag, result, events) ==
    LET reason == result.details.reason
        required == flag.prerequisites
    IN  /\ reason = "OFF" => events = <<>>
        /\ reason \in {"TARGET_MATCH", "RULE_MATCH", "FALLTHROUGH"} =>
             Explained(events, flag, Len(required), Len(required))
        /\ reason = "PREREQUISITE_FAILED" =>
             \E n \in DOMAIN required :
                /\ required[n].key = result.details.extra
                /\ \/ Explained(events, flag, n - 1, n - 1)
                   \/ Explained(events, flag, n, n - 1)

\* A failed store leaves no reason, and only a failure leaves none.
Reasoned(result) ==
    /\ result.status = "STORE" => result.details = NoDetails
    /\ ~LDi_isEvalError(result.status) => result.details.reason \notin {"UNKNOWN", "ERROR"}

\* The events of a frame are those of the prerequisites that it is past, all of
\* them once it looks at targets and rules; a decided frame is explained.
Work(f) ==
    /\ f.flag # Null
    /\ f.clause \in Nat \ {0} /\ f.segment \in Nat \ {0}
    /\ f.at = "on" => f.prerequisite = 1
    /\ f.flag.prerequisites # Bad => f.prerequisite <= Len(f.flag.prerequisites) + 1
    /\ f.at \in {"targets", "rules"} =>
         /\ f.flag.prerequisites # Bad
         /\ f.prerequisite = Len(f.flag.prerequisites) + 1
    /\ RequirersFollow(f.events, f.flag.key)
    /\ f.at # "done" =>
         Explained(f.events, f.flag, f.prerequisite - 1, f.prerequisite - 1)
    /\ f.at = "done" => Explains(f.flag, f.result, f.events) /\ Reasoned(f.result)

Waiting(f) == f.flag.prerequisites # Bad /\ f.prerequisite <= Len(f.flag.prerequisites)

-----------------------------------------------------------------------------
(* Events of prerequisites.                                                  *)

LEMMA ConcatElements ==
    ASSUME NEW s, NEW t, IsSeq(s), IsSeq(t)
    PROVE  /\ IsSeq(s \o t) /\ Len(s \o t) = Len(s) + Len(t)
           /\ \A i \in 1..Len(s) : (s \o t)[i] = s[i]
           /\ \A i \in 1..Len(t) : (s \o t)[Len(s) + i] = t[i]
<1> DEFINE S == Range(s) \cup Range(t)
<1>1. s \in Seq(S) /\ t \in Seq(S)
    <2>1. s \in Seq(Range(s)) /\ t \in Seq(Range(t))
        BY DEF IsSeq
    <2> QED
        BY <2>1
<1> HIDE DEF S
<1>2. Len(s \o t) = Len(s) + Len(t)
    BY <1>1
<1>3. \A i \in 1..Len(s) : (s \o t)[i] = s[i]
    BY <1>1
<1>4. \A i \in 1..Len(t) : (s \o t)[Len(s) + i] = t[i]
    BY <1>1
<1> QED
    BY <1>2, <1>3, <1>4, ConcatIsSeq

\* The events of earlier prerequisites, of the prerequisite's own evaluation,
\* and the event of the prerequisite.
LEMMA AppendEventsParts ==
    ASSUME NEW events, NEW sub, NEW event, IsSeq(events), IsSeq(sub),
           NEW new, new = AppendEvents(events, sub, event)
    PROVE  /\ IsSeq(new) /\ Len(events) \in Nat /\ Len(sub) \in Nat
           /\ Len(new) = Len(events) + Len(sub) + 1
           /\ \A i \in 1..Len(events) : new[i] = events[i]
           /\ \A i \in 1..Len(sub) : new[Len(events) + i] = sub[i]
           /\ new[Len(events) + Len(sub) + 1] = event
<1>1. PICK both : both = events \o sub
    OBVIOUS
<1>2. /\ IsSeq(both) /\ Len(both) = Len(events) + Len(sub)
      /\ \A i \in 1..Len(events) : both[i] = events[i]
      /\ \A i \in 1..Len(sub) : both[Len(events) + i] = sub[i]
    BY <1>1, ConcatElements
<1>3. IsSeq(<<event>>) /\ Len(<<event>>) = 1 /\ <<event>>[1] = event
    BY OneIsSeq
<1>4. new = both \o <<event>>
    BY <1>1 DEF AppendEvents
<1>5. /\ IsSeq(new) /\ Len(new) = Len(both) + 1
      /\ \A i \in 1..Len(both) : new[i] = both[i]
      /\ \A i \in 1..1 : new[Len(both) + i] = event
    <2> HIDE DEF IsSeq
    <2>1. /\ IsSeq(both \o <<event>>) /\ Len(both \o <<event>>) = Len(both) + Len(<<event>>)
          /\ \A i \in 1..Len(both) : (both \o <<event>>)[i] = both[i]
          /\ \A i \in 1..Len(<<event>>) : (both \o <<event>>)[Len(both) + i] = <<event>>[i]
        BY <1>2, <1>3, ConcatElements
    <2> QED
        BY <1>3, <1>4, <2>1
<1>6. Len(events) \in Nat /\ Len(sub) \in Nat
    BY IsSeqLen
<1> QED
    BY <1>2, <1>5, <1>6

LEMMA NoneExplained ==
    ASSUME NEW flag
    PROVE  Explained(<<>>, flag, 0, 0)
<1> DEFINE last == [m \in 0..0 |-> 0]
<1>1. Len(<<>>) = 0
    BY EmptyIsSeq
<1>2. last \in [0..0 -> 0..0] /\ last[0] = 0
    OBVIOUS
<1> HIDE DEF last
<1> QED
    BY <1>1, <1>2 DEF Explained

\* Before the first prerequisite there is no event.
LEMMA NothingYet ==
    ASSUME NEW events, IsSeq(events), NEW flag, Explained(events, flag, 0, 0)
    PROVE  events = <<>>
<1>1. Len(events) = 0
    BY DEF Explained
<1> QED
    BY <1>1, NonEmpty

LEMMA FollowParts ==
    ASSUME NEW events, NEW sub, NEW event, IsSeq(events), IsSeq(sub), NEW key,
           RequirersFollow(events, key), RequirersFollow(sub, event.key),
           event.prereqOf = key,
           NEW new, new = AppendEvents(events, sub, event)
    PROVE  RequirersFollow(new, key)
<1> DEFINE a == Len(events)
           b == Len(sub)
<1>1. /\ a \in Nat /\ b \in Nat /\ Len(new) = a + b + 1
      /\ \A i \in 1..a : new[i] = events[i]
      /\ \A i \in 1..b : new[a + i] = sub[i]
      /\ new[a + b + 1] = event
    BY AppendEventsParts
<1> SUFFICES ASSUME NEW j \in 1..Len(new), new[j].prereqOf # key
             PROVE  \E l \in (j + 1)..Len(new) : new[l].key = new[j].prereqOf
    BY DEF RequirersFollow
<1>2. CASE j \in 1..a
    <2>1. PICK l \in (j + 1)..a : events[l].key = events[j].prereqOf
        BY <1>1, <1>2 DEF RequirersFollow
    <2> QED
        BY <1>1, <1>2, <2>1
<1>3. CASE j \in (a + 1)..(a + b)
    <2>0. j - a \in 1..b /\ j = a + (j - a)
        BY <1>1, <1>3
    <2>1. PICK i \in 1..b : j = a + i
        BY <2>0
    <2>2. CASE sub[i].prereqOf = event.key
        BY <1>1, <2>1, <2>2
    <2>3. CASE sub[i].prereqOf # event.key
        <3>1. PICK l \in (i + 1)..b : sub[l].key = sub[i].prereqOf
            BY <2>1, <2>3 DEF RequirersFollow
        <3>2. a + l \in (j + 1)..Len(new) /\ new[a + l] = sub[l]
            BY <1>1, <2>1, <3>1
        <3> QED
            BY <1>1, <2>1, <3>1, <3>2
    <2> QED
        BY <2>2, <2>3
<1> QED
    BY <1>1, <1>2, <1>3

\* One more prerequisite has been evaluated.
LEMMA OneMore ==
    ASSUME NEW events, NEW sub, NEW event, IsSeq(events), IsSeq(sub), NEW flag,
           NEW n \in Nat, Explained(events, flag, n, n),
           event.prereqOf = flag.key, event.key = flag.prerequisites[n + 1].key,
           RequirersFollow(sub, event.key),
           NEW met, met = n \/ (met = n + 1 /\ event.variation = flag.prerequisites[n + 1].variation),
           NEW new, new = AppendEvents(events, sub, event)
    PROVE  Explained(new, flag, n + 1, met)
<1> DEFINE a == Len(events)
           b == Len(sub)
<1>1. /\ a \in Nat /\ b \in Nat /\ Len(new) = a + b + 1
      /\ \A i \in 1..a : new[i] = events[i]
      /\ \A i \in 1..b : new[a + i] = sub[i]
      /\ new[a + b + 1] = event
    BY AppendEventsParts
<1>2. PICK last \in [0..n -> 0..a] :
        /\ last[0] = 0 /\ last[n] = a
        /\ \A m \in 1..n :
             /\ last[m - 1] < last[m]
             /\ events[last[m]].prereqOf = flag.key
             /\ events[last[m]].key = flag.prerequisites[m].key
             /\ m <= n => events[last[m]].variation = flag.prerequisites[m].variation
             /\ \A j \in (last[m - 1] + 1)..(last[m] - 1) :
                  \E l \in (j + 1)..last[m] : events[l].key = events[j].prereqOf
    BY DEF Explained
<1> DEFINE next == [m \in 0..(n + 1) |-> IF m = n + 1 THEN a + b + 1 ELSE last[m]]
<1>3. /\ next \in [0..(n + 1) -> 0..Len(new)]
      /\ next[n + 1] = Len(new) /\ next[n] = a /\ next[0] = 0
      /\ \A m \in 0..n : next[m] = last[m] /\ last[m] \in 0..a
    BY <1>1, <1>2
<1> HIDE DEF next
<1>4. ASSUME NEW m \in 1..n
      PROVE  /\ next[m - 1] < next[m]
             /\ new[next[m]].prereqOf = flag.key
             /\ new[next[m]].key = flag.prerequisites[m].key
             /\ new[next[m]].variation = flag.prerequisites[m].variation
             /\ \A j \in (next[m - 1] + 1)..(next[m] - 1) :
                  \E l \in (j + 1)..next[m] : new[l].key = new[j].prereqOf
    <2>1. /\ m \in 0..n /\ m - 1 \in 0..n /\ next[m] = last[m] /\ next[m - 1] = last[m - 1]
          /\ last[m] \in 0..a /\ last[m - 1] \in 0..a
        BY <1>3
    <2>2. last[m - 1] < last[m]
        BY <1>2
    <2>3. last[m] \in 1..a /\ new[last[m]] = events[last[m]]
        BY <1>1, <2>1, <2>2
    <2>4. ASSUME NEW j \in (last[m - 1] + 1)..(last[m] - 1)
          PROVE  \E l \in (j + 1)..last[m] : new[l].key = new[j].prereqOf
        <3>1. PICK l \in (j + 1)..last[m] : events[l].key = events[j].prereqOf
            BY <1>2
        <3>2. l \in 1..a /\ j \in 1..a
            BY <1>1, <2>1, <3>1
        <3> QED
            BY <1>1, <3>1, <3>2
    <2> QED
        BY <1>2, <2>1, <2>2, <2>3, <2>4
<1>5. /\ next[n] < next[n + 1]
      /\ new[next[n + 1]] = event
      /\ \A j \in (next[n] + 1)..(next[n + 1] - 1) :
           \E l \in (j + 1)..next[n + 1] : new[l].key = new[j].prereqOf
    <2>1. next[n] < next[n + 1] /\ new[next[n + 1]] = event
        BY <1>1, <1>3
    <2>2. ASSUME NEW j \in (a + 1)..(a + b)
          PROVE  \E l \in (j + 1)..(a + b + 1) : new[l].key = new[j].prereqOf
        <3>0. j - a \in 1..b /\ j = a + (j - a) /\ a + b + 1 \in (j + 1)..(a + b + 1)
            BY <1>1
        <3>1. PICK i \in 1..b : j = a + i
            BY <3>0
        <3>2. CASE sub[i].prereqOf = event.key
            BY <1>1, <3>0, <3>1, <3>2
        <3>3. CASE sub[i].prereqOf # event.key
            <4>1. PICK l \in (i + 1)..b : sub[l].key = sub[i].prereqOf
                BY <3>1, <3>3 DEF RequirersFollow
            <4>2. a + l \in (j + 1)..(a + b + 1) /\ new[a + l] = sub[l]
                BY <1>1, <3>1, <4>1
            <4> QED
                BY <1>1, <3>1, <4>1, <4>2
        <3> QED
            BY <3>2, <3>3
    <2>3. next[n + 1] = a + b + 1 /\ next[n + 1] - 1 = a + b /\ next[n] = a
        BY <1>1, <1>3
    <2> QED
        BY <2>1, <2>2, <2>3
<1>6. ASSUME NEW m \in 1..(n + 1)
      PROVE  /\ next[m - 1] < next[m]
             /\ new[next[m]].prereqOf = flag.key
             /\ new[next[m]].key = flag.prerequisites[m].key
             /\ m <= met => new[next[m]].variation = flag.prerequisites[m].variation
             /\ \A j \in (next[m - 1] + 1)..(next[m] - 1) :
                  \E l \in (j + 1)..next[m] : new[l].key = new[j].prereqOf
    <2>1. CASE m = n + 1
        <3>1. m - 1 = n /\ (m <= met => event.variation = flag.prerequisites[n + 1].variation)
            BY <2>1
        <3> QED
            BY <1>5, <2>1, <3>1
    <2>2. CASE m # n + 1
        <3>1. m \in 1..n
            BY <2>2
        <3> QED
            BY <1>4, <3>1
    <2> QED
        BY <2>1, <2>2
<1> QED
    BY <1>3, <1>6 DEF Explained

-----------------------------------------------------------------------------
(* Frames and their events.                                                  *)

\* A frame with other values in the fields that tell of prerequisites.
Changed(f, at, n, events, result) ==
    [flag |-> f.flag, at |-> at, prerequisite |-> n, rule |-> f.rule, clause |-> f.clause,
     segment |-> f.segment, events |-> events, result |-> result]

LEMMA ChangedFields ==
    ASSUME NEW f, NEW at, NEW n, NEW events, NEW result
    PROVE  LET g == Changed(f, at, n, events, result) IN
           /\ g.flag = f.flag /\ g.at = at /\ g.prerequisite = n /\ g.events = events
           /\ g.result = result /\ g.clause = f.clause /\ g.segment = f.segment
           /\ g.rule = f.rule
BY DEF Changed

LEMMA DoneChanges ==
    ASSUME NEW f, GoodFrame(f), NEW r
    PROVE  Done(f, r) = Changed(f, "done", f.prerequisite, f.events, r)
<1>1. PICK b, a0, p, n0, c0, s0, e0, r0 :
        f = [flag |-> b, at |-> a0, prerequisite |-> p, rule |-> n0, clause |-> c0,
             segment |-> s0, events |-> e0, result |-> r0]
    BY DEF GoodFrame, IsFrame
<1> DEFINE g == [f EXCEPT !.at = "done"]
<1>2. g = [flag |-> b, at |-> "done", prerequisite |-> p, rule |-> n0, clause |-> c0,
           segment |-> s0, events |-> e0, result |-> r0]
    BY <1>1
<1>3. Done(f, r) = [g EXCEPT !.result = r]
    BY DEF Done
<1> HIDE DEF g
<1>4. Done(f, r) = [flag |-> b, at |-> "done", prerequisite |-> p, rule |-> n0, clause |-> c0,
                    segment |-> s0, events |-> e0, result |-> r]
    BY <1>2, <1>3
<1> QED
    BY <1>1, <1>4 DEF Changed

LEMMA CountedDone ==
    ASSUME NEW f, GoodFrame(f), NEW events, IsSeq(events), NEW r
    PROVE  Done([f EXCEPT !.events = events], r)
             = Changed(f, "done", f.prerequisite, events, r)
<1> DEFINE counted == [f EXCEPT !.events = events]
<1>1. PICK b, a0, p, n0, c0, s0, e0, r0 :
        f = [flag |-> b, at |-> a0, prerequisite |-> p, rule |-> n0, clause |-> c0,
             segment |-> s0, events |-> e0, result |-> r0]
    BY DEF GoodFrame, IsFrame
<1>2. counted = [flag |-> b, at |-> a0, prerequisite |-> p, rule |-> n0, clause |-> c0,
                 segment |-> s0, events |-> events, result |-> r0]
    BY <1>1
<1>3. GoodFrame(counted)
    BY FrameUpdates
<1> HIDE DEF counted
<1>4. Done(counted, r)
        = Changed(counted, "done", counted.prerequisite, counted.events, r)
    BY <1>3, DoneChanges
<1>5. Done(counted, r) = Changed(f, "done", f.prerequisite, events, r)
    BY <1>1, <1>2, <1>4 DEF Changed
<1> QED
    BY <1>5 DEF counted

LEMMA CountedNext ==
    ASSUME NEW f, GoodFrame(f), NEW events, IsSeq(events)
    PROVE  LET counted == [f EXCEPT !.events = events] IN
           [counted EXCEPT !.prerequisite = @ + 1]
             = Changed(f, f.at, f.prerequisite + 1, events, f.result)
<1> DEFINE counted == [f EXCEPT !.events = events]
<1>1. PICK b, a0, p, n0, c0, s0, e0, r0 :
        f = [flag |-> b, at |-> a0, prerequisite |-> p, rule |-> n0, clause |-> c0,
             segment |-> s0, events |-> e0, result |-> r0]
    BY DEF GoodFrame, IsFrame
<1>2. counted = [flag |-> b, at |-> a0, prerequisite |-> p, rule |-> n0, clause |-> c0,
                 segment |-> s0, events |-> events, result |-> r0]
    BY <1>1
<1> HIDE DEF counted
<1>3. PICK n : n = counted.prerequisite + 1
    OBVIOUS
<1>4. [counted EXCEPT !.prerequisite = n]
        = [flag |-> b, at |-> a0, prerequisite |-> n, rule |-> n0, clause |-> c0,
           segment |-> s0, events |-> events, result |-> r0]
    BY <1>2
<1>5. n = f.prerequisite + 1
    BY <1>1, <1>2, <1>3
<1>6. [counted EXCEPT !.prerequisite = @ + 1]
        = Changed(f, f.at, f.prerequisite + 1, events, f.result)
    BY <1>1, <1>3, <1>4, <1>5 DEF Changed
<1> QED
    BY <1>6 DEF counted

\* LDi_evaluate of a frame ends without an event more.
LEMMA DoneWorks ==
    ASSUME NEW f, GoodFrame(f), Work(f), NEW r,
           Reasoned(r), Explains(f.flag, r, f.events)
    PROVE  Work(Done(f, r)) /\ Done(f, r).events = f.events /\ Done(f, r).flag = f.flag
           /\ Done(f, r).result = r /\ Done(f, r).at = "done"
<1>1. PICK g : g = Done(f, r)
    OBVIOUS
<1>2. /\ g.flag = f.flag /\ g.at = "done" /\ g.prerequisite = f.prerequisite
      /\ g.events = f.events /\ g.result = r /\ g.clause = f.clause /\ g.segment = f.segment
    BY <1>1, DoneChanges, ChangedFields
<1>3. Work(g)
    BY <1>2 DEF Work
<1> QED
    BY <1>1, <1>2, <1>3

\* A failure says nothing about events.
LEMMA FailureExplains ==
    ASSUME NEW flag, NEW events, NEW status, LDi_isEvalError(status)
    PROVE  /\ Reasoned(Result(status, Null, NoDetails))
           /\ Explains(flag, Result(status, Null, NoDetails), events)
<1>1. NoDetails.reason = "UNKNOWN"
    BY NoDetailsShape
<1> QED
    BY <1>1 DEF Reasoned, Explains, Result

LEMMA GivenReasoned ==
    ASSUME NEW r, NEW reason, NEW extra, reason \notin {"UNKNOWN", "ERROR"},
           Gives(r, reason, extra)
    PROVE  Reasoned(r)
BY DEF Gives, Reasoned

\* How the evaluation of a prerequisite reaches the flag that requires it: it
\* fails the flag, or its event is added behind those of its own evaluation.
Counted(parent, child, f) ==
    \E event :
        /\ event.key = child.flag.key /\ event.version = child.flag.version
        /\ event.prereqOf = parent.flag.key
        /\ event.variation = child.result.details.variation
        /\ f.events = AppendEvents(parent.events, child.events, event)
        /\ f.flag = parent.flag

Failed(f) == f.at = "done" /\ LDi_isEvalError(f.result.status)

LEMMA AfterWorks ==
    ASSUME NEW parent, NEW child, GoodFrame(parent), GoodFrame(child),
           Work(parent), Work(child), Waiting(parent),
           parent.at = "prerequisites", child.at = "done",
           parent.flag.prerequisites[parent.prerequisite].key = child.flag.key
    PROVE  LET f == AfterPrerequisite(parent, child) IN
           /\ Work(f)
           /\ Failed(f) \/ (~Failed(child) /\ Counted(parent, child, f))
<1> DEFINE wanted == parent.flag.prerequisites[parent.prerequisite]
           result == child.result
           event == LDi_newFeatureEvent(wanted.key, child.flag, result.details,
                                        parent.flag.key)
           counted == [parent EXCEPT !.events =
                           AppendEvents(parent.events, child.events, event)]
           failed == EvaluateFailedPrerequisite(parent.flag, wanted.key)
           fails(status) == Done(parent, Result(status, Null, NoDetails))
<1>1. AfterPrerequisite(parent, child) =
        IF LDi_isEvalError(result.status) THEN fails(result.status)
        ELSE IF NoFeatureEvent(child.flag, result.details) THEN fails("MEM")
        ELSE IF \/ result.status = "MISS"
                \/ child.flag.on # TRUE
                \/ result.details.variation # wanted.variation
        THEN Done(counted, failed)
        ELSE [counted EXCEPT !.prerequisite = @ + 1]
    BY DEF AfterPrerequisite
<1>2. ASSUME NEW status, LDi_isEvalError(status)
      PROVE  Work(fails(status)) /\ Failed(fails(status))
    <2>1. PICK r : r = Result(status, Null, NoDetails)
        OBVIOUS
    <2>2. Reasoned(r) /\ Explains(parent.flag, r, parent.events)
        BY <1>2, <2>1, FailureExplains
    <2>3. Work(Done(parent, r)) /\ Done(parent, r).result = r /\ Done(parent, r).at = "done"
        BY <2>2, DoneWorks
    <2>4. r.status = status
        BY <2>1 DEF Result
    <2> QED
        BY <1>2, <2>1, <2>3, <2>4 DEF Failed
<1>3. LDi_isEvalError("MEM")
    BY DEF LDi_isEvalError
<1>4. PICK v : v = event
    OBVIOUS
<1>5. PICK events : events = AppendEvents(parent.events, child.events, v)
    OBVIOUS
<1>6. /\ v.key = child.flag.key /\ v.version = child.flag.version
      /\ v.prereqOf = parent.flag.key /\ v.variation = result.details.variation
    <2>1. child.flag # Null
        BY DEF Work
    <2> QED
        BY <1>4, <2>1 DEF LDi_newFeatureEvent
<1>7. PICK n \in Nat : parent.prerequisite = n + 1
    <2>1. parent.prerequisite - 1 \in Nat
          /\ parent.prerequisite = (parent.prerequisite - 1) + 1
        BY DEF GoodFrame
    <2> QED
        BY <2>1
<1>8. /\ IsSeq(parent.events) /\ IsSeq(child.events)
      /\ Explained(parent.events, parent.flag, n, n)
      /\ RequirersFollow(parent.events, parent.flag.key)
      /\ RequirersFollow(child.events, child.flag.key)
    BY <1>7 DEF GoodFrame, Work
<1>9. IsSeq(events)
    BY <1>5, <1>8, AppendEventsParts
<1>10. parent.flag.prerequisites # Bad /\ n + 1 <= Len(parent.flag.prerequisites)
      /\ IsSeq(parent.flag.prerequisites) /\ n + 1 \in DOMAIN parent.flag.prerequisites
      /\ Len(parent.flag.prerequisites) \in Nat
    <2>1. parent.flag.prerequisites # Bad /\ n + 1 <= Len(parent.flag.prerequisites)
        BY <1>7 DEF Waiting
    <2>2. IsSeq(parent.flag.prerequisites)
        BY <2>1 DEF GoodFrame, ListsOK, NamesFlags, IsSeq
    <2> QED
        BY <2>1, <2>2, IsSeqLen
<1>11. counted = [parent EXCEPT !.events = events]
    BY <1>4, <1>5
<1>12. RequirersFollow(events, parent.flag.key)
    BY <1>5, <1>6, <1>8, FollowParts
<1>13. Work(Done(counted, failed)) /\ Counted(parent, child, Done(counted, failed))
    <2>1. PICK g : g = Done(counted, failed)
        OBVIOUS
    <2>2. g = Changed(parent, "done", parent.prerequisite, events, failed)
        <3> HIDE DEF counted, failed
        <3>1. Done([parent EXCEPT !.events = events], failed)
                = Changed(parent, "done", parent.prerequisite, events, failed)
            BY <1>9, CountedDone
        <3> QED
            BY <1>11, <2>1, <3>1
    <2>3. /\ g.flag = parent.flag /\ g.at = "done" /\ g.prerequisite = n + 1
          /\ g.events = events /\ g.result = failed /\ g.clause = parent.clause
          /\ g.segment = parent.segment
        <3> HIDE DEF failed
        <3> QED
            BY <1>7, <2>2, ChangedFields
    <2>4. Gives(failed, "PREREQUISITE_FAILED", wanted.key)
        BY FailedPrerequisiteSound
    <2>5. Reasoned(failed)
        <3> HIDE DEF failed
        <3> QED
            BY <2>4, GivenReasoned
    <2>6. wanted.key = child.flag.key /\ wanted = parent.flag.prerequisites[n + 1]
        BY <1>7
    <2>7. Explained(events, parent.flag, n + 1, n)
        <3> HIDE DEF wanted, event
        <3> QED
            BY <1>5, <1>6, <1>8, <2>6, OneMore
    <2>8. Explains(parent.flag, failed, events)
        <3>1. /\ n + 1 \in DOMAIN parent.flag.prerequisites
              /\ (n + 1) - 1 = n
            BY <1>10
        <3>2. Explained(events, parent.flag, n + 1, (n + 1) - 1)
            BY <2>7, <3>1
        <3> HIDE DEF failed, wanted
        <3> QED
            BY <2>4, <2>6, <3>1, <3>2 DEF Gives, Explains
    <2> HIDE DEF failed, counted
    <2>9. Work(g)
        BY <1>7, <1>12, <2>3, <2>5, <2>8 DEF Work
    <2>10. Counted(parent, child, g)
        BY <1>5, <1>6, <2>3 DEF Counted
    <2> QED
        BY <2>1, <2>9, <2>10
<1>14. ASSUME result.details.variation = wanted.variation
       PROVE  LET g == [counted EXCEPT !.prerequisite = @ + 1] IN
              Work(g) /\ Counted(parent, child, g)
    <2>1. PICK g : g = [counted EXCEPT !.prerequisite = @ + 1]
        OBVIOUS
    <2>2. g = Changed(parent, parent.at, parent.prerequisite + 1, events, parent.result)
        <3> HIDE DEF counted
        <3> QED
            BY <1>9, <1>11, <2>1, CountedNext
    <2>3. /\ g.flag = parent.flag /\ g.at = "prerequisites" /\ g.prerequisite = n + 2
          /\ g.events = events /\ g.clause = parent.clause
          /\ g.segment = parent.segment
        <3>1. PICK k : k = parent.prerequisite + 1
            OBVIOUS
        <3>2. k = n + 2
            BY <1>7, <3>1
        <3> QED
            BY <2>2, <3>1, <3>2, ChangedFields
    <2>4. wanted.key = child.flag.key /\ wanted = parent.flag.prerequisites[n + 1]
        BY <1>7
    <2>5. Explained(events, parent.flag, n + 1, n + 1)
        <3>1. v.variation = parent.flag.prerequisites[n + 1].variation
              /\ v.key = parent.flag.prerequisites[n + 1].key
              /\ v.prereqOf = parent.flag.key /\ v.key = child.flag.key
            BY <1>6, <1>14, <2>4
        <3> HIDE DEF wanted, event
        <3> QED
            BY <1>5, <1>8, <3>1, OneMore
    <2>6. (n + 2) - 1 = n + 1 /\ n + 2 <= Len(parent.flag.prerequisites) + 1
        BY <1>10
    <2> HIDE DEF counted
    <2>7. Work(g)
        BY <1>12, <2>3, <2>5, <2>6 DEF Work
    <2>8. Counted(parent, child, g)
        BY <1>5, <1>6, <2>3 DEF Counted
    <2> QED
        BY <2>1, <2>7, <2>8
<1>15. ~LDi_isEvalError(result.status) => ~Failed(child)
    BY DEF Failed
<1> HIDE DEF wanted, result, event, counted, failed, fails
<1> QED
    BY <1>1, <1>2, <1>3, <1>13, <1>14, <1>15

\* A frame that has the same events and the same prerequisite.
Alike(f, g) ==
    /\ g.flag = f.flag /\ g.prerequisite = f.prerequisite /\ g.events = f.events
    /\ g.clause \in Nat \ {0} /\ g.segment \in Nat \ {0}

LEMMA AlikeWorks ==
    ASSUME NEW f, NEW g, Work(f), Alike(f, g), f.at # "done",
           \/ g.at = f.at
           \/ g.at = "prerequisites"
           \/ /\ g.at \in {"targets", "rules"} /\ f.flag.prerequisites # Bad
              /\ f.prerequisite = Len(f.flag.prerequisites) + 1
    PROVE  Work(g)
<1>1. g.at # "done"
    OBVIOUS
<1> QED
    BY <1>1 DEF Work, Alike

LEMMA AtAlike ==
    ASSUME NEW f, GoodFrame(f), Work(f), NEW a
    PROVE  Alike(f, [f EXCEPT !.at = a]) /\ [f EXCEPT !.at = a].at = a
<1>1. PICK b, a0, p, n0, c0, s0, e0, r0 :
        f = [flag |-> b, at |-> a0, prerequisite |-> p, rule |-> n0, clause |-> c0,
             segment |-> s0, events |-> e0, result |-> r0]
    BY DEF GoodFrame, IsFrame
<1>2. PICK g : g = [f EXCEPT !.at = a]
    OBVIOUS
<1>3. g = [flag |-> b, at |-> a, prerequisite |-> p, rule |-> n0, clause |-> c0,
           segment |-> s0, events |-> e0, result |-> r0]
    BY <1>1, <1>2
<1>4. Alike(f, g) /\ g.at = a
    BY <1>1, <1>3 DEF Alike, Work
<1> QED
    BY <1>2, <1>4

LEMMA SegmentAlike ==
    ASSUME NEW f, GoodFrame(f), Work(f)
    PROVE  LET g == [f EXCEPT !.segment = @ + 1] IN Alike(f, g) /\ g.at = f.at
<1>1. PICK b, a0, p, n0, c0, s0, e0, r0 :
        f = [flag |-> b, at |-> a0, prerequisite |-> p, rule |-> n0, clause |-> c0,
             segment |-> s0, events |-> e0, result |-> r0]
    BY DEF GoodFrame, IsFrame
<1>2. PICK t \in Nat \ {0} : t = f.segment + 1
    BY DEF Work
<1>3. PICK g : g = [f EXCEPT !.segment = t]
    OBVIOUS
<1>4. g = [flag |-> b, at |-> a0, prerequisite |-> p, rule |-> n0, clause |-> c0,
           segment |-> t, events |-> e0, result |-> r0]
    BY <1>1, <1>3
<1>5. Alike(f, g) /\ g.at = f.at
    BY <1>1, <1>4 DEF Alike, Work
<1> QED
    BY <1>2, <1>3, <1>5

LEMMA ClauseAlike ==
    ASSUME NEW f, GoodFrame(f), Work(f)
    PROVE  /\ LET g == [f EXCEPT !.clause = @ + 1, !.segment = 1] IN
              Alike(f, g) /\ g.at = f.at
           /\ LET g == [f EXCEPT !.rule = @ + 1, !.clause = 1, !.segment = 1] IN
              Alike(f, g) /\ g.at = f.at
<1>1. PICK b, a0, p, n0, c0, s0, e0, r0 :
        f = [flag |-> b, at |-> a0, prerequisite |-> p, rule |-> n0, clause |-> c0,
             segment |-> s0, events |-> e0, result |-> r0]
    BY DEF GoodFrame, IsFrame
<1>2. PICK c \in Nat \ {0} : c = f.clause + 1
    BY DEF Work
<1>3. PICK n : n = f.rule + 1
    OBVIOUS
<1> DEFINE Made(m, d, s) ==
             [flag |-> b, at |-> a0, prerequisite |-> p, rule |-> m, clause |-> d,
              segment |-> s, events |-> e0, result |-> r0]
<1>4. ASSUME NEW m, NEW d \in Nat \ {0}
      PROVE  Alike(f, Made(m, d, 1)) /\ Made(m, d, 1).at = f.at
    BY <1>1 DEF Alike
<1>5. [f EXCEPT !.clause = c, !.segment = 1] = Made(n0, c, 1)
    <2> DEFINE g == [f EXCEPT !.clause = c]
    <2>1. g = Made(n0, c, s0)
        BY <1>1
    <2>2. [f EXCEPT !.clause = c, !.segment = 1] = [g EXCEPT !.segment = 1]
        OBVIOUS
    <2> HIDE DEF g
    <2> QED
        BY <2>1, <2>2
<1>6. [f EXCEPT !.rule = n, !.clause = 1, !.segment = 1] = Made(n, 1, 1)
    <2> DEFINE g == [f EXCEPT !.rule = n]
               h == [g EXCEPT !.clause = 1]
    <2>1. g = Made(n, c0, s0)
        BY <1>1
    <2>2. [f EXCEPT !.rule = n, !.clause = 1, !.segment = 1] = [h EXCEPT !.segment = 1]
        OBVIOUS
    <2> HIDE DEF g
    <2>3. h = Made(n, 1, s0)
        BY <2>1
    <2> HIDE DEF h
    <2> QED
        BY <2>2, <2>3
<1> HIDE DEF Made
<1>7. LET g == [f EXCEPT !.clause = c, !.segment = 1] IN Alike(f, g) /\ g.at = f.at
    BY <1>4, <1>5
<1>8. LET g == [f EXCEPT !.rule = n, !.clause = 1, !.segment = 1] IN
      Alike(f, g) /\ g.at = f.at
    BY <1>4, <1>6
<1> QED
    BY <1>2, <1>3, <1>7, <1>8

-----------------------------------------------------------------------------
(* Steps of LDi_evaluate: what they do to frames and to the reads.           *)

Working(s) ==
    \A i \in 1..Len(s) : Work(s[i]) /\ (i < Len(s) => Waiting(s[i]))

\* The innermost frame goes on; nothing is read that is a flag.
GoesOn ==
    /\ \E f : /\ SetTop(f) /\ Work(f) /\ f.flag = Top.flag /\ f.events = Top.events
    /\ Top.at # "done"
    /\ UNCHANGED reads \/ \E k \in Keys : ReadOne(k) /\ (k \notin Flags \/ store[k] = Null)

\* A prerequisite is read and its evaluation begins.
Descends ==
    \E k \in Flags :
        /\ store[k] # Null /\ stack' = Append(stack, Frame(store[k])) /\ ReadOne(k)
        /\ Top.at # "done" /\ Waiting(Top)

\* The evaluation of a prerequisite returns.
Ascends ==
    /\ Depth > 1 /\ Top.at = "done"
    /\ \E f : /\ stack' = [SubSeq(stack, 1, Depth - 1) EXCEPT ![Depth - 1] = f]
              /\ Work(f)
              /\ Failed(f) \/ (~Failed(Top) /\ Counted(stack[Depth - 1], Top, f))
    /\ UNCHANGED reads

LEMMA TopWorks ==
    ASSUME GoodStack(stack), stack # <<>>, Working(stack)
    PROVE  GoodFrame(Top) /\ Work(Top)
<1>1. Depth \in 1..Len(stack) /\ GoodFrame(Top)
    BY TopIsGood
<1> QED
    BY <1>1 DEF Working, Top

LEMMA DecideGoesOn ==
    ASSUME GoodStack(stack), stack # <<>>, Working(stack), NEW r, Decide(r),
           Reasoned(r), Explains(Top.flag, r, Top.events)
    PROVE  \E f : SetTop(f) /\ Work(f) /\ f.flag = Top.flag /\ f.events = Top.events
<1>1. PICK f : f = Done(Top, r)
    OBVIOUS
<1>2. Work(f) /\ f.flag = Top.flag /\ f.events = Top.events
    BY <1>1, TopWorks, DoneWorks
<1>3. SetTop(f)
    BY <1>1 DEF Decide
<1> QED
    BY <1>2, <1>3

LEMMA FailGoesOn ==
    ASSUME GoodStack(stack), stack # <<>>, Working(stack), NEW status, Fail(status),
           LDi_isEvalError(status)
    PROVE  \E f : SetTop(f) /\ Work(f) /\ f.flag = Top.flag /\ f.events = Top.events
<1>1. PICK r : r = Result(status, Null, NoDetails)
    OBVIOUS
<1>2. Decide(r) /\ Reasoned(r) /\ Explains(Top.flag, r, Top.events)
    BY <1>1, FailureExplains DEF Fail
<1> QED
    BY <1>2, DecideGoesOn

LEMMA AlikeGoesOn ==
    ASSUME GoodStack(stack), stack # <<>>, Working(stack), NEW f, SetTop(f),
           Alike(Top, f), Top.at # "done",
           \/ f.at = Top.at
           \/ f.at = "prerequisites"
           \/ /\ f.at \in {"targets", "rules"} /\ Top.flag.prerequisites # Bad
              /\ Top.prerequisite = Len(Top.flag.prerequisites) + 1
    PROVE  \E g : SetTop(g) /\ Work(g) /\ g.flag = Top.flag /\ g.events = Top.events
<1>1. Work(f)
    BY TopWorks, AlikeWorks
<1>2. f.flag = Top.flag /\ f.events = Top.events
    BY DEF Alike
<1> QED
    BY <1>1, <1>2

LEMMA ClauseGoesOn ==
    ASSUME GoodStack(stack), stack # <<>>, Working(stack), NEW status, AfterClause(status),
           Top.at # "done"
    PROVE  \E f : SetTop(f) /\ Work(f) /\ f.flag = Top.flag /\ f.events = Top.events
<1> DEFINE next == [Top EXCEPT !.clause = @ + 1, !.segment = 1]
           rest == [Top EXCEPT !.rule = @ + 1, !.clause = 1, !.segment = 1]
<1>1. \/ LDi_isEvalError(status) /\ Fail(status)
      \/ SetTop(next)
      \/ SetTop(rest)
    BY DEF AfterClause
<1>2. GoodFrame(Top) /\ Work(Top)
    BY TopWorks
<1>3. Alike(Top, next) /\ next.at = Top.at
    BY <1>2, ClauseAlike
<1>4. Alike(Top, rest) /\ rest.at = Top.at
    BY <1>2, ClauseAlike
<1> HIDE DEF next, rest
<1> QED
    BY <1>1, <1>3, <1>4, FailGoesOn, AlikeGoesOn

\* A decision made past the prerequisites.
LEMMA PastExplains ==
    ASSUME NEW f, Work(f), f.at \in {"targets", "rules"}, NEW r, NEW reason, NEW extra,
           reason \in {"TARGET_MATCH", "RULE_MATCH", "FALLTHROUGH"}, Gives(r, reason, extra),
           GoodFrame(f)
    PROVE  Reasoned(r) /\ Explains(f.flag, r, f.events)
<1>1. Reasoned(r)
    BY GivenReasoned
<1>2. f.flag.prerequisites # Bad /\ f.prerequisite = Len(f.flag.prerequisites) + 1
    BY DEF Work
<1>3. IsSeq(f.flag.prerequisites)
    BY <1>2 DEF GoodFrame, ListsOK, NamesFlags, IsSeq
<1>4. Len(f.flag.prerequisites) \in Nat
    BY <1>3, IsSeqLen
<1>5. f.prerequisite - 1 = Len(f.flag.prerequisites)
    BY <1>2, <1>4
<1>6. Explained(f.events, f.flag, Len(f.flag.prerequisites), Len(f.flag.prerequisites))
    BY <1>5 DEF Work
<1>7. r.details.reason \in {reason, "UNKNOWN", "ERROR"}
    BY DEF Gives
<1>8. Explains(f.flag, r, f.events)
    BY <1>6, <1>7 DEF Explains
<1> QED
    BY <1>1, <1>8

\* A decision made before the prerequisites.
LEMMA OffExplains ==
    ASSUME NEW flag, NEW r, NEW extra, NEW events, Gives(r, "OFF", extra), events = <<>>
    PROVE  Reasoned(r) /\ Explains(flag, r, events)
<1>1. Reasoned(r)
    BY GivenReasoned
<1>2. r.details.reason \in {"OFF", "UNKNOWN", "ERROR"}
    BY DEF Gives
<1>3. Explains(flag, r, events)
    BY <1>2 DEF Explains
<1> QED
    BY <1>1, <1>3

\* A decision made at the n-th prerequisite, before it has an event.
LEMMA FailedExplains ==
    ASSUME NEW flag, NEW r, NEW events, NEW n \in DOMAIN flag.prerequisites,
           Gives(r, "PREREQUISITE_FAILED", flag.prerequisites[n].key),
           Explained(events, flag, n - 1, n - 1)
    PROVE  Reasoned(r) /\ Explains(flag, r, events)
<1>1. Reasoned(r)
    BY GivenReasoned
<1>2. /\ r.details.reason \in {"PREREQUISITE_FAILED", "UNKNOWN", "ERROR"}
      /\ r.details.reason = "PREREQUISITE_FAILED" =>
            r.details.extra = flag.prerequisites[n].key
    BY DEF Gives
<1>3. Explains(flag, r, events)
    BY <1>2 DEF Explains
<1> QED
    BY <1>1, <1>3

LEMMA PrerequisiteNamed ==
    ASSUME NEW f, GoodFrame(f), f.flag.prerequisites # Bad,
           f.prerequisite <= Len(f.flag.prerequisites),
           f.flag.prerequisites[f.prerequisite] # Bad
    PROVE  /\ f.prerequisite \in DOMAIN f.flag.prerequisites
           /\ f.flag.prerequisites[f.prerequisite].key \in Flags
<1>1. NamesFlags(f.flag.prerequisites) /\ IsSeq(f.flag.prerequisites)
    BY DEF GoodFrame, ListsOK, NamesFlags, IsSeq
<1>2. f.prerequisite \in DOMAIN f.flag.prerequisites
    BY <1>1, IsSeqLen DEF GoodFrame
<1> QED
    BY <1>1, <1>2 DEF NamesFlags

\* Rules read segments, not flags.
LEMMA SegmentNamed ==
    ASSUME GoodFrame(Top), Work(Top), SegmentsLeft
    PROVE  Clause.values[Top.segment] \in Keys \ Flags
<1>1. /\ Top.flag.rules # Bad /\ Top.rule <= Len(Top.flag.rules)
      /\ Rule # Bad /\ Rule.clauses # Bad /\ Top.clause <= Len(Rule.clauses)
      /\ Clause # Bad /\ Clause.op = "segmentMatch" /\ Clause.values # Bad
      /\ Top.segment <= Len(Clause.values)
    BY DEF SegmentsLeft, OnSegments, ClausesLeft, RulesLeft
<1>2. /\ IsSeq(Top.flag.rules) /\ ClausesAreLists(Top.flag.rules)
      /\ Top.rule \in Nat \ {0} /\ Top.clause \in Nat \ {0} /\ Top.segment \in Nat \ {0}
    BY <1>1 DEF GoodFrame, ListsOK, Work
<1>3. Top.rule \in DOMAIN Top.flag.rules
    BY <1>1, <1>2, IsSeqLen
<1>4. IsSeq(Rule.clauses) /\ \A j \in DOMAIN Rule.clauses : NamesSegments(Rule.clauses[j])
    BY <1>1, <1>2, <1>3 DEF ClausesAreLists, Rule, IsSeq
<1>5. Top.clause \in DOMAIN Rule.clauses
    BY <1>1, <1>2, <1>4, IsSeqLen
<1>6. NamesSegments(Clause)
    BY <1>4, <1>5 DEF Clause
<1>7. Clause.values \in Seq(Segments)
    BY <1>1, <1>6 DEF NamesSegments
<1>8. Clause.values[Top.segment] \in Segments
    BY <1>1, <1>2, <1>7
<1>9. Flags \cap Segments = {}
    BY DataAssumption
<1> QED
    BY <1>8, <1>9 DEF Keys

Sections ==
    \/ SectionOn \/ NoPrerequisite \/ ReadPrerequisite \/ ReturnToPrerequisites
    \/ SectionTargets \/ SectionRules \/ NoSegmentLeft \/ ReadSegment

LEMMA SectionsShape ==
    ASSUME GoodStack(stack), Working(stack), Stored(store), Sections
    PROVE  stack # <<>> /\ (GoesOn \/ Descends \/ Ascends)
<1>0. stack # <<>>
    <2>1. ASSUME ReturnToPrerequisites PROVE stack # <<>>
        BY <2>1, EmptyIsSeq DEF ReturnToPrerequisites, Depth
    <2> QED
        BY <2>1 DEF Sections, SectionOn, NoPrerequisite, ReadPrerequisite,
                    SectionTargets, SectionRules, NoSegmentLeft, ReadSegment, At
<1> DEFINE Rewritten ==
             \E f : SetTop(f) /\ Work(f) /\ f.flag = Top.flag /\ f.events = Top.events
<1>T. GoodFrame(Top) /\ Work(Top)
    BY <1>0, TopWorks
<1>S. ASSUME NEW f, SetTop(f), Alike(Top, f), Top.at # "done", f.at = Top.at
      PROVE  Rewritten
    BY <1>0, <1>S, AlikeGoesOn
<1>E. LDi_isEvalError("SCHEMA") /\ LDi_isEvalError("STORE")
    BY DEF LDi_isEvalError
<1>1. ASSUME SectionOn PROVE GoesOn
    <2>1. Top.at = "on" /\ UNCHANGED reads
        BY <1>1 DEF SectionOn, At, Local
    <2>2. CASE EvaluateOn(Top.flag) # Undecided
        <3>1. PICK r : r = EvaluateOn(Top.flag)
            OBVIOUS
        <3>2. Decide(r)
            BY <1>1, <2>2, <3>1 DEF SectionOn
        <3>3. Gives(r, "OFF", Null)
            BY <2>2, <3>1, OnSound
        <3>4. Top.events = <<>>
            <4>1. Explained(Top.events, Top.flag, Top.prerequisite - 1, Top.prerequisite - 1)
                  /\ Top.prerequisite = 1 /\ Top.prerequisite - 1 = 0
                BY <1>T, <2>1 DEF Work
            <4>2. Explained(Top.events, Top.flag, 0, 0) /\ IsSeq(Top.events)
                BY <1>T, <4>1 DEF GoodFrame
            <4> QED
                BY <4>2, NothingYet
        <3>5. Reasoned(r) /\ Explains(Top.flag, r, Top.events)
            BY <3>3, <3>4, OffExplains
        <3>6. Rewritten
            BY <1>0, <3>2, <3>5, DecideGoesOn
        <3> QED
            BY <2>1, <3>6 DEF GoesOn
    <2>3. CASE EvaluateOn(Top.flag) = Undecided
        <3>1. PICK f : f = [Top EXCEPT !.at = "prerequisites"]
            OBVIOUS
        <3>2. SetTop(f)
            BY <1>1, <2>3, <3>1 DEF SectionOn
        <3>3. Alike(Top, f) /\ f.at = "prerequisites"
            BY <1>T, <3>1, AtAlike
        <3>4. Rewritten
            BY <1>0, <2>1, <3>2, <3>3, AlikeGoesOn
        <3> QED
            BY <2>1, <3>4 DEF GoesOn
    <2> QED
        BY <2>2, <2>3
<1>2. ASSUME NoPrerequisite PROVE GoesOn
    <2>1. Top.at = "prerequisites" /\ UNCHANGED reads
        BY <1>2 DEF NoPrerequisite, At, Local
    <2>2. CASE Fail("SCHEMA")
        <3>1. Rewritten
            BY <1>0, <1>E, <2>2, FailGoesOn
        <3> QED
            BY <2>1, <3>1 DEF GoesOn
    <2>3. CASE /\ Top.flag.prerequisites # Bad
               /\ Top.prerequisite > Len(Top.flag.prerequisites)
               /\ SetTop([Top EXCEPT !.at = "targets"])
        <3>1. PICK f : f = [Top EXCEPT !.at = "targets"]
            OBVIOUS
        <3>2. SetTop(f)
            BY <2>3, <3>1
        <3>3. Alike(Top, f) /\ f.at = "targets"
            BY <1>T, <3>1, AtAlike
        <3>4. IsSeq(Top.flag.prerequisites)
            BY <1>T, <2>3 DEF GoodFrame, ListsOK, NamesFlags, IsSeq
        <3>5. Top.prerequisite = Len(Top.flag.prerequisites) + 1
            <4>1. /\ Len(Top.flag.prerequisites) \in Nat /\ Top.prerequisite \in Nat
                  /\ Top.prerequisite <= Len(Top.flag.prerequisites) + 1
                BY <1>T, <2>3, <3>4, IsSeqLen DEF GoodFrame, Work
            <4> QED
                BY <2>3, <4>1
        <3>6. Rewritten
            BY <1>0, <2>1, <2>3, <3>2, <3>3, <3>5, AlikeGoesOn
        <3> QED
            BY <2>1, <3>6 DEF GoesOn
    <2> QED
        BY <1>2, <2>2, <2>3 DEF NoPrerequisite
<1>3. ASSUME ReadPrerequisite PROVE GoesOn \/ Descends
    <2>1. /\ Top.at = "prerequisites" /\ Top.flag.prerequisites # Bad
          /\ Top.prerequisite <= Len(Top.flag.prerequisites)
          /\ Top.flag.prerequisites[Top.prerequisite] # Bad
        BY <1>3 DEF ReadPrerequisite, At, Prerequisite
    <2>2. /\ Top.prerequisite \in DOMAIN Top.flag.prerequisites
          /\ Prerequisite.key \in Flags /\ Waiting(Top)
        BY <1>T, <2>1, PrerequisiteNamed DEF Prerequisite, Waiting
    <2>3. CASE Fail("STORE") /\ UNCHANGED reads
        <3>1. Rewritten
            BY <1>0, <1>E, <2>3, FailGoesOn
        <3> QED
            BY <2>1, <2>3, <3>1 DEF GoesOn
    <2>4. CASE /\ store[Prerequisite.key] = Null
               /\ Decide(EvaluateFailedPrerequisite(Top.flag, Prerequisite.key))
               /\ ReadOne(Prerequisite.key)
        <3>1. PICK r : r = EvaluateFailedPrerequisite(Top.flag, Prerequisite.key)
            OBVIOUS
        <3>2. Gives(r, "PREREQUISITE_FAILED", Prerequisite.key)
            BY <3>1, FailedPrerequisiteSound
        <3>3. Explained(Top.events, Top.flag, Top.prerequisite - 1, Top.prerequisite - 1)
            BY <1>T, <2>1 DEF Work
        <3>4. Gives(r, "PREREQUISITE_FAILED", Top.flag.prerequisites[Top.prerequisite].key)
            BY <3>2 DEF Prerequisite
        <3>5. Reasoned(r) /\ Explains(Top.flag, r, Top.events)
            BY <2>2, <3>3, <3>4, FailedExplains
        <3>6. Rewritten
            BY <1>0, <2>4, <3>1, <3>5, DecideGoesOn
        <3> QED
            BY <2>1, <2>2, <2>4, <3>6 DEF GoesOn, Keys
    <2>5. CASE /\ store[Prerequisite.key] # Null
               /\ stack' = Append(stack, Frame(store[Prerequisite.key]))
               /\ ReadOne(Prerequisite.key)
        BY <2>1, <2>2, <2>5 DEF Descends
    <2> QED
        BY <1>3, <2>3, <2>4, <2>5 DEF ReadPrerequisite
<1>4. ASSUME ReturnToPrerequisites PROVE Ascends
    <2>1. Depth > 1 /\ Len(stack) \in Nat /\ Depth = Len(stack) /\ Top.at = "done"
          /\ UNCHANGED reads
        BY <1>4, IsSeqLen DEF ReturnToPrerequisites, GoodStack, Depth, Local
    <2>2. /\ Depth - 1 \in 1..Len(stack) /\ Depth - 1 < Len(stack)
          /\ Depth - 1 \in 1..(Depth - 1) /\ (Depth - 1) + 1 = Depth
        BY <2>1
    <2>3. SubSeq(stack, 1, Depth - 1)[Depth - 1] = stack[Depth - 1]
        BY <2>2, ShorterIsSeq DEF GoodStack
    <2>4. PICK f : f = AfterPrerequisite(stack[Depth - 1], Top)
        OBVIOUS
    <2>5. stack' = [SubSeq(stack, 1, Depth - 1) EXCEPT ![Depth - 1] = f]
        BY <1>4, <2>3, <2>4 DEF ReturnToPrerequisites
    <2>6. PICK parent : parent = stack[Depth - 1]
        OBVIOUS
    <2>7. /\ GoodFrame(parent) /\ Work(parent) /\ Waiting(parent)
          /\ parent.at = "prerequisites"
          /\ parent.flag.prerequisites[parent.prerequisite].key = Top.flag.key
        BY <2>2, <2>6 DEF GoodStack, Working, Linked, Top
    <2>8. Work(f) /\ (Failed(f) \/ (~Failed(Top) /\ Counted(parent, Top, f)))
        BY <1>T, <2>1, <2>4, <2>6, <2>7, AfterWorks
    <2> QED
        BY <2>1, <2>5, <2>6, <2>8 DEF Ascends
<1>5. ASSUME SectionTargets PROVE GoesOn
    <2>1. Top.at = "targets" /\ UNCHANGED reads
        BY <1>5 DEF SectionTargets, At, Local
    <2>2. CASE EvaluateTargets(Top.flag, call.user) # Undecided
        <3>1. PICK r : r = EvaluateTargets(Top.flag, call.user)
            OBVIOUS
        <3>2. Decide(r)
            BY <1>5, <2>2, <3>1 DEF SectionTargets
        <3>3. Gives(r, "TARGET_MATCH", Null)
            BY <2>2, <3>1, TargetsSound
        <3>4. Reasoned(r) /\ Explains(Top.flag, r, Top.events)
            BY <1>T, <2>1, <3>3, PastExplains
        <3>5. Rewritten
            BY <1>0, <3>2, <3>4, DecideGoesOn
        <3> QED
            BY <2>1, <3>5 DEF GoesOn
    <2>3. CASE EvaluateTargets(Top.flag, call.user) = Undecided
        <3>1. PICK f : f = [Top EXCEPT !.at = "rules"]
            OBVIOUS
        <3>2. SetTop(f)
            BY <1>5, <2>3, <3>1 DEF SectionTargets
        <3>3. Alike(Top, f) /\ f.at = "rules"
            BY <1>T, <3>1, AtAlike
        <3>4. /\ Top.flag.prerequisites # Bad
              /\ Top.prerequisite = Len(Top.flag.prerequisites) + 1
            BY <1>T, <2>1 DEF Work
        <3>5. Rewritten
            BY <1>0, <2>1, <3>2, <3>3, <3>4, AlikeGoesOn
        <3> QED
            BY <2>1, <3>5 DEF GoesOn
    <2> QED
        BY <2>2, <2>3
<1>6. ASSUME SectionRules PROVE GoesOn
    <2>1. Top.at = "rules" /\ UNCHANGED reads
        BY <1>6 DEF SectionRules, At, Local
    <2>2. \/ Fail("SCHEMA")
          \/ Decide(EvaluateFallthrough(Top.flag, call.user))
          \/ /\ RulesLeft /\ Rule # Bad
             /\ Decide(EvaluateRule(Top.flag, Top.rule, call.user))
          \/ \E status : AfterClause(status)
        BY <1>6 DEF SectionRules
    <2>3. CASE Decide(EvaluateFallthrough(Top.flag, call.user))
        <3>1. PICK r : r = EvaluateFallthrough(Top.flag, call.user)
            OBVIOUS
        <3>2. Gives(r, "FALLTHROUGH", Null)
            BY <3>1, FallthroughSound
        <3>3. Reasoned(r) /\ Explains(Top.flag, r, Top.events)
            BY <1>T, <2>1, <3>2, PastExplains
        <3> QED
            BY <1>0, <2>3, <3>1, <3>3, DecideGoesOn, <2>1 DEF GoesOn
    <2>4. CASE RulesLeft /\ Rule # Bad /\ Decide(EvaluateRule(Top.flag, Top.rule, call.user))
        <3>1. PICK r : r = EvaluateRule(Top.flag, Top.rule, call.user)
            OBVIOUS
        <3>2. Top.flag.rules # Bad /\ Top.rule <= Len(Top.flag.rules)
              /\ Top.flag.rules[Top.rule] # Bad
            BY <2>4 DEF RulesLeft, Rule
        <3>3. IsSeq(Top.flag.rules) /\ Top.rule \in Nat \ {0}
            BY <1>T, <3>2 DEF GoodFrame, ListsOK
        <3>4. Top.rule \in DOMAIN Top.flag.rules
            BY <3>2, <3>3, IsSeqLen
        <3>5. PICK extra : Gives(r, "RULE_MATCH", extra)
            BY <3>1, <3>2, <3>4, RuleSound
        <3>6. Reasoned(r) /\ Explains(Top.flag, r, Top.events)
            BY <1>T, <2>1, <3>5, PastExplains
        <3> QED
            BY <1>0, <2>1, <2>4, <3>1, <3>6, DecideGoesOn DEF GoesOn
    <2>5. CASE Fail("SCHEMA")
        BY <1>0, <1>E, <2>1, <2>5, FailGoesOn DEF GoesOn
    <2>6. CASE \E status : AfterClause(status)
        BY <1>0, <2>1, <2>6, ClauseGoesOn DEF GoesOn
    <2> QED
        BY <2>2, <2>3, <2>4, <2>5, <2>6
<1>7. ASSUME NoSegmentLeft PROVE GoesOn
    <2>1. Top.at = "rules" /\ UNCHANGED reads /\ \E status : AfterClause(status)
        BY <1>7 DEF NoSegmentLeft, At, Local
    <2> QED
        BY <1>0, <2>1, ClauseGoesOn DEF GoesOn
<1>8. ASSUME ReadSegment PROVE GoesOn
    <2>1. Top.at = "rules" /\ SegmentsLeft
        BY <1>8 DEF ReadSegment, At
    <2>2. PICK key : key = Clause.values[Top.segment]
        OBVIOUS
    <2>3. key \in Keys \ Flags
        BY <1>T, <2>1, <2>2, SegmentNamed
    <2> DEFINE next == [Top EXCEPT !.segment = @ + 1]
    <2>4. \/ Fail("STORE") /\ UNCHANGED reads
          \/ ReadOne(key) /\ (SetTop(next) \/ \E status : AfterClause(status))
        BY <1>8, <2>2 DEF ReadSegment
    <2>5. Alike(Top, next) /\ next.at = Top.at
        BY <1>T, SegmentAlike
    <2> HIDE DEF next
    <2>6. Rewritten
        BY <1>0, <1>E, <1>S, <2>1, <2>4, <2>5, FailGoesOn, ClauseGoesOn
    <2> QED
        BY <2>1, <2>3, <2>4, <2>6 DEF GoesOn
<1> QED
    BY <1>0, <1>1, <1>2, <1>3, <1>4, <1>5, <1>6, <1>7, <1>8 DEF Sections

LEMMA FrameWorks ==
    ASSUME NEW flag, flag # Null, ListsOK(flag)
    PROVE  Work(Frame(flag))
<1>1. /\ Frame(flag).flag = flag /\ Frame(flag).at = "on" /\ Frame(flag).prerequisite = 1
      /\ Frame(flag).events = <<>> /\ Frame(flag).clause = 1 /\ Frame(flag).segment = 1
    BY DEF Frame
<1>2. Explained(<<>>, flag, 0, 0)
    BY NoneExplained
<1>3. RequirersFollow(<<>>, flag.key)
    BY EmptyIsSeq DEF RequirersFollow
<1>4. flag.prerequisites # Bad => 1 <= Len(flag.prerequisites) + 1
    <2> SUFFICES ASSUME flag.prerequisites # Bad PROVE 1 <= Len(flag.prerequisites) + 1
        OBVIOUS
    <2>1. IsSeq(flag.prerequisites)
        BY DEF ListsOK, NamesFlags, IsSeq
    <2>2. Len(flag.prerequisites) \in Nat
        BY <2>1, IsSeqLen
    <2> QED
        BY <2>2
<1>5. 1 - 1 = 0 /\ 1 \in Nat \ {0}
    OBVIOUS
<1>6. PICK f : f = Frame(flag)
    OBVIOUS
<1>7. Explained(f.events, f.flag, f.prerequisite - 1, f.prerequisite - 1)
    BY <1>1, <1>2, <1>5, <1>6
<1>8. Work(f)
    BY <1>1, <1>3, <1>4, <1>5, <1>6, <1>7 DEF Work
<1> QED
    BY <1>6, <1>8

\* What the three kinds of steps make of the stack.
LEMMA GoesOnStack ==
    ASSUME GoodStack(stack), stack # <<>>, NEW f, SetTop(f)
    PROVE  /\ Len(stack) \in Nat \ {0} /\ Depth = Len(stack)
           /\ Len(stack') = Len(stack) /\ stack'[Len(stack)] = f
           /\ \A i \in 1..Len(stack) : i # Len(stack) => stack'[i] = stack[i]
<1>1. Depth \in Nat \ {0} /\ Depth = Len(stack) /\ Depth \in 1..Len(stack)
    BY TopIsGood DEF Depth
<1>2. stack' = [stack EXCEPT ![Depth] = f]
    BY DEF SetTop
<1>3. IsSeq(stack) /\ DOMAIN stack = 1..Len(stack)
    BY IsSeqLen DEF GoodStack
<1>4. /\ stack' = [i \in 1..Len(stack) |-> stack'[i]]
      /\ stack'[Depth] = f
      /\ \A i \in 1..Len(stack) : i # Depth => stack'[i] = stack[i]
    BY <1>1, <1>2, <1>3
<1>5. Len(stack') = Len(stack)
    BY <1>3, <1>4, ReplacedIsSeq
<1> QED
    BY <1>1, <1>4, <1>5

LEMMA DescendsStack ==
    ASSUME GoodStack(stack), stack # <<>>, NEW f, stack' = Append(stack, f)
    PROVE  /\ Len(stack) \in Nat \ {0} /\ Depth = Len(stack)
           /\ Len(stack') = Len(stack) + 1 /\ stack'[Len(stack) + 1] = f
           /\ \A i \in 1..Len(stack) : stack'[i] = stack[i]
<1>1. Depth \in Nat \ {0} /\ Depth = Len(stack)
    BY TopIsGood DEF Depth
<1>2. IsSeq(stack)
    BY DEF GoodStack
<1> QED
    BY <1>1, <1>2, AppendIsSeq

LEMMA AscendsStack ==
    ASSUME GoodStack(stack), Depth > 1, NEW f,
           stack' = [SubSeq(stack, 1, Depth - 1) EXCEPT ![Depth - 1] = f]
    PROVE  /\ Len(stack) \in Nat \ {0, 1} /\ Depth = Len(stack)
           /\ Len(stack') = Len(stack) - 1 /\ stack'[Len(stack) - 1] = f
           /\ \A i \in 1..(Len(stack) - 2) : stack'[i] = stack[i]
<1>1. IsSeq(stack)
    BY DEF GoodStack
<1>2. Len(stack) \in Nat \ {0, 1} /\ Depth = Len(stack)
    BY <1>1, IsSeqLen DEF Depth
<1>3. PICK n \in Nat \ {0} : n = Depth - 1 /\ n \in 1..Len(stack)
    BY <1>2
<1>4. PICK t : t = SubSeq(stack, 1, n)
    OBVIOUS
<1>5. IsSeq(t) /\ Len(t) = n /\ \A i \in 1..n : t[i] = stack[i]
    BY <1>1, <1>3, <1>4, ShorterIsSeq
<1>6. DOMAIN t = 1..n /\ n \in 1..n
    BY <1>3, <1>5, IsSeqLen
<1>7. stack' = [t EXCEPT ![n] = f]
    BY <1>3, <1>4
<1>8. /\ stack' = [i \in 1..n |-> stack'[i]]
      /\ stack'[n] = f
      /\ \A i \in 1..n : i # n => stack'[i] = t[i]
    BY <1>6, <1>7
<1>9. Len(stack') = n
    <2>1. stack' = [i \in 1..Len(t) |-> stack'[i]]
        BY <1>5, <1>8
    <2> QED
        BY <1>5, <2>1, ReplacedIsSeq
<1>10. \A i \in 1..(Len(stack) - 2) : i \in 1..n /\ i # n
    BY <1>2, <1>3
<1> QED
    BY <1>2, <1>3, <1>5, <1>8, <1>9, <1>10

LEMMA StepsWork ==
    ASSUME GoodStack(stack), Working(stack), Stored(store), stack # <<>>,
           GoesOn \/ Descends \/ Ascends
    PROVE  Working(stack')
<1>1. CASE GoesOn
    <2>1. PICK f : SetTop(f) /\ Work(f)
        BY <1>1 DEF GoesOn
    <2>2. /\ Len(stack) \in Nat \ {0} /\ Len(stack') = Len(stack) /\ stack'[Len(stack)] = f
          /\ \A i \in 1..Len(stack) : i # Len(stack) => stack'[i] = stack[i]
        BY <2>1, GoesOnStack
    <2> QED
        BY <2>1, <2>2 DEF Working
<1>2. CASE Descends
    <2>1. PICK k \in Flags : /\ store[k] # Null /\ stack' = Append(stack, Frame(store[k]))
                             /\ Waiting(Top)
        BY <1>2 DEF Descends
    <2>2. PICK f : f = Frame(store[k])
        OBVIOUS
    <2>3. Work(f)
        <3>1. ListsOK(store[k])
            BY <2>1 DEF Stored, StoredAt, Keys
        <3> QED
            BY <2>1, <2>2, <3>1, FrameWorks
    <2>4. /\ Len(stack) \in Nat \ {0} /\ Depth = Len(stack)
          /\ Len(stack') = Len(stack) + 1 /\ stack'[Len(stack) + 1] = f
          /\ \A i \in 1..Len(stack) : stack'[i] = stack[i]
        BY <2>1, <2>2, DescendsStack
    <2> SUFFICES ASSUME NEW i \in 1..Len(stack')
                 PROVE  Work(stack'[i]) /\ (i < Len(stack') => Waiting(stack'[i]))
        BY DEF Working
    <2>5. CASE i = Len(stack) + 1
        BY <2>3, <2>4, <2>5
    <2>6. CASE i = Len(stack)
        <3>1. i \in 1..Len(stack) /\ stack'[i] = Top
            BY <2>4, <2>6 DEF Top
        <3> QED
            BY <2>1, <2>4, <2>6, <3>1 DEF Working, Top
    <2>7. CASE i \in 1..Len(stack) /\ i < Len(stack)
        BY <2>4, <2>7 DEF Working
    <2> QED
        BY <2>4, <2>5, <2>6, <2>7
<1>3. CASE Ascends
    <2>1. PICK f : /\ stack' = [SubSeq(stack, 1, Depth - 1) EXCEPT ![Depth - 1] = f]
                   /\ Work(f) /\ Depth > 1
        BY <1>3 DEF Ascends
    <2>2. /\ Len(stack) \in Nat \ {0, 1} /\ Depth = Len(stack)
          /\ Len(stack') = Len(stack) - 1 /\ stack'[Len(stack) - 1] = f
          /\ \A i \in 1..(Len(stack) - 2) : stack'[i] = stack[i]
        BY <2>1, AscendsStack
    <2> SUFFICES ASSUME NEW i \in 1..Len(stack')
                 PROVE  Work(stack'[i]) /\ (i < Len(stack') => Waiting(stack'[i]))
        BY DEF Working
    <2>3. CASE i = Len(stack) - 1
        BY <2>1, <2>2, <2>3
    <2>4. CASE i # Len(stack) - 1
        <3>1. i \in 1..(Len(stack) - 2) /\ i \in 1..Len(stack) /\ i < Len(stack)
            BY <2>2, <2>4
        <3> QED
            BY <2>2, <3>1 DEF Working
    <2> QED
        BY <2>3, <2>4
<1> QED
    BY <1>1, <1>2, <1>3

-----------------------------------------------------------------------------
(* The events of every evaluation explain it.                                *)

\* An evaluation that returned.
ExplainedEvaluation(e) ==
    IsSeq(e.events) /\ Explains(e.flag, e.result, e.events)
    /\ RequirersFollow(e.events, e.flag.key)

EInv ==
    /\ Working(stack)
    /\ IsSeq(evaluated)
    /\ \A i \in 1..Len(evaluated) : ExplainedEvaluation(evaluated[i])

LEMMA StartsWork ==
    ASSUME NEW flag, flag # Null, ListsOK(flag), NEW s, s = <<Frame(flag)>>
    PROVE  /\ Working(s) /\ IsSeq(s) /\ Len(s) = 1 /\ s[1] = Frame(flag)
<1>1. PICK f : f = Frame(flag)
    OBVIOUS
<1>2. Work(f)
    BY <1>1, FrameWorks
<1>3. IsSeq(s) /\ Len(s) = 1 /\ s[1] = f
    BY <1>1, OneIsSeq
<1> QED
    BY <1>1, <1>2, <1>3 DEF Working

\* The flag that the loop of LDAllFlags comes to.
LEMMA NextFlagStored ==
    ASSUME IInv, NextFlag
    PROVE  /\ call.op # "variation" /\ Initially(Head(todo)) /\ Head(todo) # Null
           /\ Head(todo).key \in Flags /\ ListsOK(Head(todo))
<1>1. Running /\ todo # <<>>
    BY DEF NextFlag
<1>2. call.op # "variation"
    BY <1>1 DEF IInv, EvaluatesOne
<1>3. /\ IsSeq(todo) /\ \A i \in 1..Len(todo) : Initially(todo[i])
      /\ Stored(held[1])
    BY <1>1, <1>2 DEF IInv, EvaluatesAll, CallShape, Running
<1>4. Len(todo) >= 1 /\ Len(todo) \in Nat /\ Head(todo) = todo[1]
    BY <1>1, <1>3, TailIsSeq, IsSeqLen
<1>5. PICK flag : flag = todo[1]
    OBVIOUS
<1>6. Initially(flag)
    BY <1>3, <1>4, <1>5
<1>7. ListsOK(flag)
    BY <1>3, <1>6 DEF Initially, Stored, StoredAt, Keys
<1> QED
    BY <1>2, <1>4, <1>5, <1>6, <1>7 DEF Initially

LEMMA InitEvents == Init => EInv
<1> SUFFICES ASSUME Init PROVE EInv
    OBVIOUS
<1>1. IsSeq(stack) /\ Len(stack) = 0 /\ IsSeq(evaluated) /\ Len(evaluated) = 0
    BY EmptyIsSeq DEF Init
<1> QED
    BY <1>1 DEF EInv, Working

LEMMA NextEvents == IInv /\ EInv /\ [Next]_vars => EInv'
<1> SUFFICES ASSUME IInv, EInv, [Next]_vars PROVE EInv'
    OBVIOUS
<1>1. ASSUME UNCHANGED <<stack, evaluated>> PROVE EInv'
    BY <1>1 DEF EInv
<1>2. ASSUME UNCHANGED evaluated, Working(stack') PROVE EInv'
    BY <1>2 DEF EInv
<1>3. CASE Feed
    <2>1. UNCHANGED <<stack, evaluated>>
        BY <1>3 DEF Feed, Put, Change, callVars
    <2> QED
        BY <1>1, <2>1
<1>4. ASSUME NEW user \in Users, NEW key \in Flags, NEW want \in Wanted,
             Variation(user, key, want)
      PROVE  EInv'
    <2>1. UNCHANGED evaluated
        BY <1>4 DEF Variation
    <2>2. \/ UNCHANGED stack
          \/ store[key] # Null /\ stack' = <<Frame(store[key])>>
        BY <1>4 DEF Variation
    <2>3. CASE store[key] # Null /\ stack' = <<Frame(store[key])>>
        <3>1. ListsOK(store[key])
            BY <2>3 DEF IInv, Stored, StoredAt, Keys
        <3>2. Working(stack')
            BY <2>3, <3>1, StartsWork
        <3> QED
            BY <1>2, <2>1, <3>2
    <2> QED
        BY <1>1, <2>1, <2>2, <2>3
<1>5. ASSUME NEW op, NEW user, NEW options, AllFlags(op, user, options)
      PROVE  EInv'
    BY <1>1, <1>5 DEF AllFlags
<1>6. CASE NextFlag
    <2>1. UNCHANGED evaluated /\ (UNCHANGED stack \/ stack' = <<Frame(Head(todo))>>)
        BY <1>6 DEF NextFlag
    <2>2. CASE stack' = <<Frame(Head(todo))>>
        <3>1. Working(stack')
            BY <1>6, <2>2, NextFlagStored, StartsWork
        <3> QED
            BY <1>2, <2>1, <3>1
    <2> QED
        BY <1>1, <2>1, <2>2
<1>7. CASE FinishAllFlags
    BY <1>1, <1>7 DEF FinishAllFlags
<1>8. CASE Sections
    <2>1. Working(stack')
        BY <1>8, SectionsShape, StepsWork DEF IInv, EInv
    <2>2. UNCHANGED evaluated
        BY <1>8 DEF Sections, ReturnToPrerequisites, SectionOn, NoPrerequisite,
                    ReadPrerequisite, SectionTargets, SectionRules, NoSegmentLeft,
                    ReadSegment, Local, Reads
    <2> QED
        BY <1>2, <2>1, <2>2
<1>9. CASE Return
    <2>1. /\ Depth = 1 /\ Top.at = "done" /\ stack' = <<>>
          /\ evaluated' = Append(evaluated, [flag |-> Top.flag, result |-> Top.result,
                                             events |-> Top.events, reads |-> reads])
        BY <1>9 DEF Return
    <2>2. stack # <<>>
        <3>1. Len(stack) # Len(<<>>)
            BY <2>1, EmptyIsSeq DEF Depth
        <3> QED
            BY <3>1
    <2>3. GoodFrame(Top) /\ Work(Top)
        BY <2>2, TopWorks DEF IInv, EInv
    <2>4. PICK e : e = [flag |-> Top.flag, result |-> Top.result,
                        events |-> Top.events, reads |-> reads]
        OBVIOUS
    <2>5. ExplainedEvaluation(e)
        BY <2>1, <2>3, <2>4 DEF ExplainedEvaluation, GoodFrame, Work
    <2>6. /\ IsSeq(evaluated) /\ IsSeq(evaluated') /\ Len(evaluated) \in Nat
          /\ Len(evaluated') = Len(evaluated) + 1 /\ evaluated'[Len(evaluated) + 1] = e
          /\ \A i \in 1..Len(evaluated) : evaluated'[i] = evaluated[i]
        BY <2>1, <2>4, AppendIsSeq, IsSeqLen DEF EInv
    <2>7. \A i \in 1..Len(evaluated') : ExplainedEvaluation(evaluated'[i])
        <3> SUFFICES ASSUME NEW i \in 1..Len(evaluated')
                     PROVE  ExplainedEvaluation(evaluated'[i])
            OBVIOUS
        <3>1. CASE i = Len(evaluated) + 1
            BY <2>5, <2>6, <3>1
        <3>2. CASE i # Len(evaluated) + 1
            <4>1. i \in 1..Len(evaluated)
                BY <2>6, <3>2
            <4> QED
                BY <2>6, <4>1 DEF EInv
        <3> QED
            BY <3>1, <3>2
    <2>8. Working(stack')
        BY <2>1, EmptyIsSeq DEF Working
    <2> QED
        BY <2>6, <2>7, <2>8 DEF EInv
<1>10. CASE UNCHANGED vars
    BY <1>1, <1>10 DEF vars, callVars
<1> QED
    BY <1>3, <1>4, <1>5, <1>6, <1>7, <1>8, <1>9, <1>10 DEF Next, Step, Sections

-----------------------------------------------------------------------------
(* Reads that found a flag and the evaluations on the stack.                  *)

FoundIn(rs) ==
    UNION {{<<k, i>> : i \in {n \in DOMAIN rs[k] : rs[k][n] # Null}} : k \in Flags}

\* An evaluation that is under way is a frame, place 0; one that is over is an
\* event of the frame that required it.
Places(s) == UNION {{<<d, j>> : j \in 0..Len(s[d].events)} : d \in 1..Len(s)}

KeyAt(s, p) == IF p[2] = 0 THEN s[p[1]].flag.key ELSE s[p[1]].events[p[2]].key

VersionAt(s, p) ==
    IF p[2] = 0 THEN s[p[1]].flag.version ELSE s[p[1]].events[p[2]].version

Pairs(at, R, P) ==
    /\ at \in [R -> P]
    /\ \A a, b \in R : at[a] = at[b] => a = b
    /\ \A p \in P : \E r \in R : at[r] = p

\* Each read that found a flag belongs to one evaluation, the first read of the
\* top-level flag to its own.
Matches(at, s, rs) ==
    /\ Pairs(at, FoundIn(rs), Places(s))
    /\ <<s[1].flag.key, 1>> \in FoundIn(rs)
    /\ at[<<s[1].flag.key, 1>>] = <<1, 0>>
    /\ \A r \in FoundIn(rs) :
         KeyAt(s, at[r]) = r[1] /\ VersionAt(s, at[r]) = rs[r[1]][r[2]].version

Matched(s, rs) == \E at : Matches(at, s, rs)

LEMMA FoundMember ==
    ASSUME NEW rs, NEW r
    PROVE  r \in FoundIn(rs) <=>
             \E k \in Flags : \E i \in DOMAIN rs[k] : rs[k][i] # Null /\ r = <<k, i>>
BY DEF FoundIn

LEMMA PlaceMember ==
    ASSUME NEW s, NEW p
    PROVE  p \in Places(s) <=>
             \E d \in 1..Len(s) : \E j \in 0..Len(s[d].events) : p = <<d, j>>
BY DEF Places

LEMMA PairsExtend ==
    ASSUME NEW at, NEW R, NEW P, Pairs(at, R, P), NEW r0, NEW p0, r0 \notin R, p0 \notin P,
           NEW new, new = [r \in R \cup {r0} |-> IF r = r0 THEN p0 ELSE at[r]]
    PROVE  Pairs(new, R \cup {r0}, P \cup {p0})
BY DEF Pairs

LEMMA PairsMove ==
    ASSUME NEW at, NEW R, NEW P, Pairs(at, R, P), NEW move, NEW Q, Pairs(move, P, Q),
           NEW new, new = [r \in R |-> move[at[r]]]
    PROVE  Pairs(new, R, Q)
<1>1. new \in [R -> Q] /\ \A r \in R : new[r] = move[at[r]]
    BY DEF Pairs
<1>2. \A a, b \in R : new[a] = new[b] => a = b
    BY <1>1 DEF Pairs
<1>3. ASSUME NEW q \in Q PROVE \E r \in R : new[r] = q
    <2>1. PICK p \in P : move[p] = q
        BY DEF Pairs
    <2>2. PICK r \in R : at[r] = p
        BY DEF Pairs
    <2> QED
        BY <1>1, <2>1, <2>2
<1> QED
    BY <1>1, <1>2, <1>3 DEF Pairs

LEMMA PairsBijection ==
    ASSUME NEW at, NEW R, NEW P, Pairs(at, R, P)
    PROVE  at \in Bijection(R, P)
BY DEF Pairs, Bijection, Injection, Surjection, IsInjective

Labelled(S, R, label, c) == S \subseteq R /\ \A r \in R : r \in S <=> label[r] = c

\* Paired sets have as many elements with a given label.
LEMMA SameCount ==
    ASSUME NEW at, NEW R, NEW n \in Nat, Pairs(at, R, 1..n), NEW of, NEW label,
           \A r \in R : of[r] = label[at[r]], NEW c,
           NEW S, Labelled(S, R, of, c), NEW T, Labelled(T, 1..n, label, c)
    PROVE  Cardinality(S) = Cardinality(T)
<1>0. /\ S \subseteq R /\ \A r \in R : r \in S <=> label[at[r]] = c
      /\ T \subseteq 1..n /\ \A i \in 1..n : i \in T <=> label[i] = c
    BY DEF Labelled
<1> USE <1>0
<1> DEFINE b == [r \in S |-> at[r]]
<1>1. Pairs(b, S, T)
    <2>1. b \in [S -> T] /\ \A r \in S : r \in R /\ b[r] = at[r]
        BY DEF Pairs
    <2>2. ASSUME NEW i \in T PROVE \E r \in S : b[r] = i
        <3>1. PICK r \in R : at[r] = i
            BY DEF Pairs
        <3> QED
            BY <2>1, <3>1
    <2> HIDE DEF b
    <2>3. \A x, y \in S : b[x] = b[y] => x = y
        BY <2>1 DEF Pairs
    <2> QED
        BY <2>1, <2>2, <2>3 DEF Pairs
<1>2. IsFiniteSet(T)
    <2>1. IsFiniteSet(1..n)
        BY FS_Interval
    <2> QED
        BY <2>1, FS_Subset
<1> HIDE DEF b
<1>3. b \in Injection(S, T) /\ b \in Surjection(S, T)
    BY <1>1, PairsBijection DEF Bijection
<1> QED
    BY <1>2, <1>3, FS_Injection

ReadsOK(rs) == DOMAIN rs = Keys /\ \A k \in Keys : IsSeq(rs[k])

LEMMA ReadOneKeeps ==
    ASSUME ReadsOK(reads), NEW k \in Keys, ReadOne(k)
    PROVE  /\ ReadsOK(reads') /\ Len(reads[k]) \in Nat
           /\ DOMAIN reads[k] = 1..Len(reads[k])
           /\ DOMAIN reads'[k] = 1..(Len(reads[k]) + 1)
           /\ \A j \in Keys : j # k => reads'[j] = reads[j]
           /\ \A i \in 1..Len(reads[k]) : reads'[k][i] = reads[k][i]
           /\ reads'[k][Len(reads[k]) + 1] = store[k]
<1>1. /\ reads'[k] = Append(reads[k], store[k]) /\ DOMAIN reads' = Keys
      /\ \A j \in Keys : j # k => reads'[j] = reads[j]
    BY DEF ReadOne, ReadsOK
<1>2. /\ IsSeq(Append(reads[k], store[k])) /\ Len(reads[k]) \in Nat
      /\ Len(Append(reads[k], store[k])) = Len(reads[k]) + 1
      /\ DOMAIN reads[k] = 1..Len(reads[k])
      /\ Append(reads[k], store[k])[Len(reads[k]) + 1] = store[k]
      /\ \A i \in 1..Len(reads[k]) : Append(reads[k], store[k])[i] = reads[k][i]
    BY AppendIsSeq, IsSeqLen DEF ReadsOK
<1>3. DOMAIN reads'[k] = 1..(Len(reads[k]) + 1)
    BY <1>1, <1>2, IsSeqLen
<1> QED
    BY <1>1, <1>2, <1>3 DEF ReadsOK

\* A read of a segment, or of a flag that is not there.
LEMMA NothingFound ==
    ASSUME ReadsOK(reads), NEW k \in Keys, ReadOne(k), k \notin Flags \/ store[k] = Null
    PROVE  /\ FoundIn(reads') = FoundIn(reads)
           /\ \A r \in FoundIn(reads) : reads'[r[1]][r[2]] = reads[r[1]][r[2]]
<1>1. /\ DOMAIN reads[k] = 1..Len(reads[k]) /\ Len(reads[k]) \in Nat
      /\ DOMAIN reads'[k] = 1..(Len(reads[k]) + 1)
      /\ \A j \in Keys : j # k => reads'[j] = reads[j]
      /\ \A i \in 1..Len(reads[k]) : reads'[k][i] = reads[k][i]
      /\ reads'[k][Len(reads[k]) + 1] = store[k]
    BY ReadOneKeeps
<1>2. ASSUME NEW j \in Flags, NEW i
      PROVE  /\ (i \in DOMAIN reads[j] /\ reads[j][i] # Null)
                  <=> (i \in DOMAIN reads'[j] /\ reads'[j][i] # Null)
             /\ i \in DOMAIN reads[j] => reads'[j][i] = reads[j][i]
    <2>1. CASE j # k
        BY <1>1, <2>1 DEF Keys
    <2>2. CASE j = k
        <3>1. store[k] = Null
            BY <2>2
        <3>2. i \in DOMAIN reads'[k] <=> i \in DOMAIN reads[k] \/ i = Len(reads[k]) + 1
            BY <1>1
        <3> QED
            BY <1>1, <2>2, <3>1, <3>2
    <2> QED
        BY <2>1, <2>2
<1>3. ASSUME NEW r PROVE r \in FoundIn(reads') <=> r \in FoundIn(reads)
    <2>1. r \in FoundIn(reads') <=>
            \E j \in Flags : \E i \in DOMAIN reads'[j] : reads'[j][i] # Null /\ r = <<j, i>>
        BY FoundMember
    <2>2. r \in FoundIn(reads) <=>
            \E j \in Flags : \E i \in DOMAIN reads[j] : reads[j][i] # Null /\ r = <<j, i>>
        BY FoundMember
    <2> QED
        BY <1>2, <2>1, <2>2
<1>4. ASSUME NEW r \in FoundIn(reads) PROVE reads'[r[1]][r[2]] = reads[r[1]][r[2]]
    <2>1. PICK j \in Flags : \E i \in DOMAIN reads[j] : r = <<j, i>>
        BY FoundMember
    <2>2. PICK i \in DOMAIN reads[j] : r = <<j, i>>
        BY <2>1
    <2> QED
        BY <1>2, <2>2
<1> QED
    BY <1>3, <1>4

LEMMA OneFound ==
    ASSUME ReadsOK(reads), NEW k \in Flags, ReadOne(k), store[k] # Null
    PROVE  LET r0 == <<k, Len(reads[k]) + 1>> IN
           /\ r0 \notin FoundIn(reads)
           /\ FoundIn(reads') = FoundIn(reads) \cup {r0}
           /\ \A r \in FoundIn(reads) : reads'[r[1]][r[2]] = reads[r[1]][r[2]]
           /\ reads'[r0[1]][r0[2]] = store[k]
<1> DEFINE n == Len(reads[k]) + 1
<1>0. k \in Keys
    BY DEF Keys
<1>1. /\ DOMAIN reads[k] = 1..Len(reads[k]) /\ Len(reads[k]) \in Nat
      /\ DOMAIN reads'[k] = 1..n
      /\ \A j \in Keys : j # k => reads'[j] = reads[j]
      /\ \A i \in 1..Len(reads[k]) : reads'[k][i] = reads[k][i]
      /\ reads'[k][n] = store[k]
    BY <1>0, ReadOneKeeps
<1>2. n \notin DOMAIN reads[k] /\ n \in DOMAIN reads'[k]
      /\ \A i : i \in DOMAIN reads'[k] <=> i \in DOMAIN reads[k] \/ i = n
    BY <1>1
<1> HIDE DEF n
<1>3. ASSUME NEW j \in Flags, NEW i
      PROVE  /\ (i \in DOMAIN reads'[j] /\ reads'[j][i] # Null)
                  <=> ((i \in DOMAIN reads[j] /\ reads[j][i] # Null) \/ (j = k /\ i = n))
             /\ i \in DOMAIN reads[j] => reads'[j][i] = reads[j][i]
    <2>1. CASE j # k
        BY <1>1, <2>1 DEF Keys
    <2>2. CASE j = k
        BY <1>1, <1>2, <2>2
    <2> QED
        BY <2>1, <2>2
<1>4. ASSUME NEW r PROVE r \in FoundIn(reads') <=> r \in FoundIn(reads) \cup {<<k, n>>}
    <2>1. r \in FoundIn(reads') <=>
            \E j \in Flags : \E i \in DOMAIN reads'[j] : reads'[j][i] # Null /\ r = <<j, i>>
        BY FoundMember
    <2>2. r \in FoundIn(reads) <=>
            \E j \in Flags : \E i \in DOMAIN reads[j] : reads[j][i] # Null /\ r = <<j, i>>
        BY FoundMember
    <2> QED
        BY <1>3, <2>1, <2>2
<1>5. ASSUME NEW r \in FoundIn(reads) PROVE reads'[r[1]][r[2]] = reads[r[1]][r[2]]
    <2>1. PICK j \in Flags : \E i \in DOMAIN reads[j] : r = <<j, i>>
        BY FoundMember
    <2>2. PICK i \in DOMAIN reads[j] : r = <<j, i>>
        BY <2>1
    <2> QED
        BY <1>3, <2>2
<1>6. <<k, n>> \notin FoundIn(reads)
    BY <1>2, FoundMember
<1>7. reads'[<<k, n>>[1]][<<k, n>>[2]] = store[k]
    BY <1>1
<1> QED
    BY <1>4, <1>5, <1>6, <1>7 DEF n

LEMMA AlikePlaces ==
    ASSUME NEW s, NEW t, Len(t) = Len(s),
           \A d \in 1..Len(s) : t[d].flag = s[d].flag /\ t[d].events = s[d].events
    PROVE  /\ Places(t) = Places(s)
           /\ \A p \in Places(s) : KeyAt(t, p) = KeyAt(s, p) /\ VersionAt(t, p) = VersionAt(s, p)
<1>1. ASSUME NEW p PROVE p \in Places(t) <=> p \in Places(s)
    <2>1. p \in Places(t) <=>
            \E d \in 1..Len(t) : \E j \in 0..Len(t[d].events) : p = <<d, j>>
        BY PlaceMember
    <2>2. p \in Places(s) <=>
            \E d \in 1..Len(s) : \E j \in 0..Len(s[d].events) : p = <<d, j>>
        BY PlaceMember
    <2> QED
        BY <2>1, <2>2
<1>2. ASSUME NEW p \in Places(s)
      PROVE  KeyAt(t, p) = KeyAt(s, p) /\ VersionAt(t, p) = VersionAt(s, p)
    <2>1. PICK d \in 1..Len(s) : \E j \in 0..Len(s[d].events) : p = <<d, j>>
        BY PlaceMember
    <2>2. p[1] = d
        BY <2>1
    <2> QED
        BY <2>2 DEF KeyAt, VersionAt
<1> QED
    BY <1>1, <1>2

LEMMA GoesOnMatched ==
    ASSUME GoodStack(stack), stack # <<>>, ReadsOK(reads), GoesOn, Matched(stack, reads)
    PROVE  Matched(stack', reads')
<1>1. PICK f : SetTop(f) /\ f.flag = Top.flag /\ f.events = Top.events
    BY DEF GoesOn
<1>2. /\ Len(stack) \in Nat \ {0} /\ Depth = Len(stack)
      /\ Len(stack') = Len(stack) /\ stack'[Len(stack)] = f
      /\ \A i \in 1..Len(stack) : i # Len(stack) => stack'[i] = stack[i]
    BY <1>1, GoesOnStack
<1>3. \A d \in 1..Len(stack) :
        stack'[d].flag = stack[d].flag /\ stack'[d].events = stack[d].events
    BY <1>1, <1>2 DEF Top
<1>4. /\ Places(stack') = Places(stack)
      /\ \A p \in Places(stack) : /\ KeyAt(stack', p) = KeyAt(stack, p)
                                  /\ VersionAt(stack', p) = VersionAt(stack, p)
    BY <1>2, <1>3, AlikePlaces
<1>5. stack'[1].flag = stack[1].flag
    BY <1>2, <1>3
<1>6. /\ FoundIn(reads') = FoundIn(reads)
      /\ \A r \in FoundIn(reads) : reads'[r[1]][r[2]] = reads[r[1]][r[2]]
    <2>1. CASE UNCHANGED reads
        BY <2>1
    <2>2. CASE \E k \in Keys : ReadOne(k) /\ (k \notin Flags \/ store[k] = Null)
        BY <2>2, NothingFound
    <2> QED
        BY <2>1, <2>2 DEF GoesOn
<1>7. PICK at : Matches(at, stack, reads)
    BY DEF Matched
<1>8. \A r \in FoundIn(reads) : at[r] \in Places(stack)
    BY <1>7 DEF Matches, Pairs
<1>9. Matches(at, stack', reads')
    BY <1>4, <1>5, <1>6, <1>7, <1>8 DEF Matches
<1> QED
    BY <1>9 DEF Matched

LEMMA DescendsMatched ==
    ASSUME GoodStack(stack), stack # <<>>, ReadsOK(reads), Stored(store), Descends,
           Matched(stack, reads)
    PROVE  Matched(stack', reads')
<1>1. PICK k \in Flags :
        store[k] # Null /\ stack' = Append(stack, Frame(store[k])) /\ ReadOne(k)
    BY DEF Descends
<1>2. PICK f : f = Frame(store[k])
    OBVIOUS
<1>3. f.flag = store[k] /\ f.events = <<>> /\ store[k].key = k
    <2>1. store[k].key = k
        BY <1>1 DEF Stored, StoredAt, Keys
    <2> QED
        BY <1>2, <2>1 DEF Frame
<1>4. PICK D \in Nat \ {0} :
        /\ D = Len(stack) /\ Len(stack') = D + 1 /\ stack'[D + 1] = f
        /\ \A i \in 1..D : stack'[i] = stack[i]
    BY <1>1, <1>2, DescendsStack
<1> DEFINE p0 == <<D + 1, 0>>
<1>5. Len(<<>>) = 0
    BY EmptyIsSeq
<1>6. ASSUME NEW p PROVE p \in Places(stack') <=> p \in Places(stack) \cup {p0}
    <2>1. p \in Places(stack') <=>
            \E d \in 1..(D + 1) : \E j \in 0..Len(stack'[d].events) : p = <<d, j>>
        BY <1>4, PlaceMember
    <2>2. p \in Places(stack) <=>
            \E d \in 1..D : \E j \in 0..Len(stack[d].events) : p = <<d, j>>
        BY <1>4, PlaceMember
    <2>3. \A j : j \in 0..Len(stack'[D + 1].events) <=> j = 0
        BY <1>3, <1>4, <1>5
    <2>4. \A d : d \in 1..(D + 1) <=> d \in 1..D \/ d = D + 1
        OBVIOUS
    <2> QED
        BY <1>4, <2>1, <2>2, <2>3, <2>4
<1>7. p0 \notin Places(stack)
    <2>1. p0 \in Places(stack) <=>
            \E d \in 1..D : \E j \in 0..Len(stack[d].events) : p0 = <<d, j>>
        BY <1>4, PlaceMember
    <2>2. \A d \in 1..D : d # D + 1
        OBVIOUS
    <2> QED
        BY <2>1, <2>2
<1>8. ASSUME NEW p \in Places(stack)
      PROVE  KeyAt(stack', p) = KeyAt(stack, p) /\ VersionAt(stack', p) = VersionAt(stack, p)
    <2>1. PICK d \in 1..D : \E j \in 0..Len(stack[d].events) : p = <<d, j>>
        BY <1>4, PlaceMember
    <2>2. p[1] = d
        BY <2>1
    <2> QED
        BY <1>4, <2>2 DEF KeyAt, VersionAt
<1>9. KeyAt(stack', p0) = k /\ VersionAt(stack', p0) = store[k].version
    <2>1. p0[1] = D + 1 /\ p0[2] = 0
        OBVIOUS
    <2> HIDE DEF p0
    <2> QED
        BY <1>3, <1>4, <2>1 DEF KeyAt, VersionAt
<1> DEFINE r0 == <<k, Len(reads[k]) + 1>>
<1>10. /\ r0 \notin FoundIn(reads)
       /\ FoundIn(reads') = FoundIn(reads) \cup {r0}
       /\ \A r \in FoundIn(reads) : reads'[r[1]][r[2]] = reads[r[1]][r[2]]
       /\ reads'[r0[1]][r0[2]] = store[k] /\ r0[1] = k
    BY <1>1, OneFound
<1> HIDE DEF p0, r0
<1>11. PICK at : Matches(at, stack, reads)
    BY DEF Matched
<1> DEFINE new == [r \in FoundIn(reads) \cup {r0} |-> IF r = r0 THEN p0 ELSE at[r]]
<1>12. Pairs(new, FoundIn(reads'), Places(stack'))
    <2>1. Pairs(new, FoundIn(reads) \cup {r0}, Places(stack) \cup {p0})
        BY <1>7, <1>10, <1>11, PairsExtend DEF Matches
    <2>2. Places(stack') = Places(stack) \cup {p0}
        BY <1>6
    <2> QED
        BY <1>10, <2>1, <2>2
<1>13. /\ new[r0] = p0
       /\ \A r \in FoundIn(reads) : new[r] = at[r] /\ at[r] \in Places(stack)
    BY <1>10, <1>11 DEF Matches, Pairs
<1> HIDE DEF new
<1>14. stack'[1] = stack[1]
    BY <1>4
<1>15. ASSUME NEW r \in FoundIn(reads')
       PROVE  /\ KeyAt(stack', new[r]) = r[1]
              /\ VersionAt(stack', new[r]) = reads'[r[1]][r[2]].version
    <2>1. CASE r = r0
        BY <1>9, <1>10, <1>13, <2>1
    <2>2. CASE r # r0
        <3>1. r \in FoundIn(reads)
            BY <1>10, <2>2
        <3> QED
            BY <1>8, <1>10, <1>11, <1>13, <3>1 DEF Matches
    <2> QED
        BY <2>1, <2>2
<1>16. /\ <<stack'[1].flag.key, 1>> \in FoundIn(reads')
       /\ new[<<stack'[1].flag.key, 1>>] = <<1, 0>>
    BY <1>10, <1>11, <1>13, <1>14 DEF Matches
<1> QED
    BY <1>12, <1>15, <1>16 DEF Matches, Matched

\* The frame of a prerequisite becomes the last event of the frame below, behind
\* the events of its own evaluation.
Lowered(s, t, m, event) ==
    /\ Len(s) = m + 1 /\ Len(t) = m
    /\ \A i \in 1..(m - 1) : t[i] = s[i] /\ Len(s[i].events) \in Nat
    /\ IsSeq(s[m].events) /\ IsSeq(s[m + 1].events)
    /\ t[m].events = AppendEvents(s[m].events, s[m + 1].events, event)
    /\ t[m].flag = s[m].flag
    /\ event.key = s[m + 1].flag.key /\ event.version = s[m + 1].flag.version

Carries(move, s, t) ==
    /\ Pairs(move, Places(s), Places(t)) /\ move[<<1, 0>>] = <<1, 0>>
    /\ \A p \in Places(s) :
         KeyAt(t, move[p]) = KeyAt(s, p) /\ VersionAt(t, move[p]) = VersionAt(s, p)

LEMMA AscendsPlaces ==
    ASSUME NEW s, NEW t, NEW m \in Nat \ {0}, NEW event, Lowered(s, t, m, event)
    PROVE  \E move : Carries(move, s, t)
<1>0. /\ Len(s) = m + 1 /\ Len(t) = m
      /\ \A i \in 1..(m - 1) : t[i] = s[i] /\ Len(s[i].events) \in Nat
      /\ IsSeq(s[m].events) /\ IsSeq(s[m + 1].events)
      /\ t[m].events = AppendEvents(s[m].events, s[m + 1].events, event)
      /\ t[m].flag = s[m].flag
      /\ event.key = s[m + 1].flag.key /\ event.version = s[m + 1].flag.version
    BY DEF Lowered
<1> USE <1>0
<1>1. PICK a \in Nat, b \in Nat : a = Len(s[m].events) /\ b = Len(s[m + 1].events)
    BY AppendEventsParts
<1>2. /\ Len(t[m].events) = a + b + 1
      /\ \A i \in 1..a : t[m].events[i] = s[m].events[i]
      /\ \A i \in 1..b : t[m].events[a + i] = s[m + 1].events[i]
      /\ t[m].events[a + b + 1] = event
    <2>1. PICK new, old, sub :
            new = t[m].events /\ old = s[m].events /\ sub = s[m + 1].events
        OBVIOUS
    <2>2. IsSeq(old) /\ IsSeq(sub) /\ new = AppendEvents(old, sub, event)
        BY <2>1
    <2>3. /\ Len(new) = Len(old) + Len(sub) + 1
          /\ \A i \in 1..Len(old) : new[i] = old[i]
          /\ \A i \in 1..Len(sub) : new[Len(old) + i] = sub[i]
          /\ new[Len(old) + Len(sub) + 1] = event
        BY <2>2, AppendEventsParts
    <2> QED
        BY <1>1, <2>1, <2>3
<1> DEFINE to(d, j) == IF d = m + 1 THEN <<m, IF j = 0 THEN a + b + 1 ELSE a + j>>
                       ELSE <<d, j>>
           move == [p \in Places(s) |-> to(p[1], p[2])]
           size(d) == IF d = m + 1 THEN b ELSE IF d = m THEN a ELSE Len(s[d].events)
<1>3. \A d \in 1..(m + 1) : size(d) = Len(s[d].events) /\ size(d) \in Nat
    <2>1. \A d \in 1..(m + 1) : d = m + 1 \/ d = m \/ d \in 1..(m - 1)
        OBVIOUS
    <2> QED
        BY <1>1, <2>1
<1>4. ASSUME NEW p
      PROVE  p \in Places(s) <=> \E d \in 1..(m + 1) : \E j \in 0..size(d) : p = <<d, j>>
    <2> HIDE DEF size
    <2>1. p \in Places(s) <=>
            \E d \in 1..(m + 1) : \E j \in 0..Len(s[d].events) : p = <<d, j>>
        BY PlaceMember
    <2> QED
        BY <1>3, <2>1
<1>5. ASSUME NEW d \in 1..(m + 1), NEW j \in 0..size(d)
      PROVE  <<d, j>> \in Places(s) /\ move[<<d, j>>] = to(d, j) /\ j \in Nat
    <2>1. <<d, j>> \in Places(s)
        BY <1>4
    <2>2. <<d, j>>[1] = d /\ <<d, j>>[2] = j
        OBVIOUS
    <2>3. j \in Nat
        BY <1>3
    <2> HIDE DEF to
    <2> QED
        BY <2>1, <2>2, <2>3
<1>6. ASSUME NEW d \in 1..(m + 1), NEW j \in 0..size(d)
      PROVE  /\ to(d, j) \in Places(t)
             /\ KeyAt(t, to(d, j)) = KeyAt(s, <<d, j>>)
             /\ VersionAt(t, to(d, j)) = VersionAt(s, <<d, j>>)
    <2>0. j \in Nat
        BY <1>3
    <2>1. ASSUME NEW e \in 1..m, NEW i \in Nat, i <= Len(t[e].events)
          PROVE  <<e, i>> \in Places(t)
        <3>1. Len(t[e].events) \in Nat
            <4>1. CASE e = m
                BY <1>2, <4>1
            <4>2. CASE e \in 1..(m - 1)
                BY <4>2
            <4> QED
                BY <4>1, <4>2
        <3>2. i \in 0..Len(t[e].events)
            BY <2>1, <3>1
        <3> QED
            BY <3>2, PlaceMember
    <2>2. CASE d = m + 1 /\ j = 0
        <3>1. to(d, j) = <<m, a + b + 1>> /\ a + b + 1 # 0 /\ a + b + 1 \in Nat
            BY <2>2
        <3>2. <<m, a + b + 1>> \in Places(t)
            BY <1>2, <2>1, <3>1
        <3> HIDE DEF to
        <3> QED
            BY <1>2, <2>2, <3>1, <3>2 DEF KeyAt, VersionAt
    <2>3. CASE d = m + 1 /\ j # 0
        <3>1. to(d, j) = <<m, a + j>> /\ a + j # 0 /\ a + j \in Nat /\ a + j <= a + b + 1
              /\ j \in 1..b
            BY <2>0, <2>3
        <3>2. <<m, a + j>> \in Places(t)
            BY <1>2, <2>1, <3>1
        <3>3. t[m].events[a + j] = s[m + 1].events[j]
            BY <1>2, <3>1
        <3> HIDE DEF to
        <3> QED
            BY <2>3, <3>1, <3>2, <3>3 DEF KeyAt, VersionAt
    <2>4. CASE d = m
        <3>1. to(d, j) = <<m, j>> /\ j <= a + b + 1 /\ j \in 0..a
            BY <2>0, <2>4
        <3>2. <<m, j>> \in Places(t)
            BY <1>2, <2>0, <2>1, <3>1
        <3>3. j # 0 => t[m].events[j] = s[m].events[j]
            BY <1>2, <3>1
        <3> HIDE DEF to
        <3> QED
            BY <2>4, <3>1, <3>2, <3>3 DEF KeyAt, VersionAt
    <2>5. CASE d \in 1..(m - 1)
        <3>1. to(d, j) = <<d, j>> /\ d \in 1..m /\ t[d] = s[d] /\ j <= Len(s[d].events)
            BY <2>0, <2>5
        <3>2. <<d, j>> \in Places(t)
            BY <2>0, <2>1, <3>1
        <3> HIDE DEF to
        <3> QED
            BY <3>1, <3>2 DEF KeyAt, VersionAt
    <2>6. d = m + 1 \/ d = m \/ d \in 1..(m - 1)
        OBVIOUS
    <2> QED
        BY <2>2, <2>3, <2>4, <2>5, <2>6
<1>7. ASSUME NEW d \in 1..(m + 1), NEW j \in 0..size(d),
             NEW e \in 1..(m + 1), NEW i \in 0..size(e), to(d, j) = to(e, i)
      PROVE  <<d, j>> = <<e, i>>
    <2>1. j \in Nat /\ i \in Nat
        BY <1>3
    <2>2. \A x, y, u, v : <<x, y>> = <<u, v>> => x = u /\ y = v
        OBVIOUS
    <2>3. (d = m => j <= a) /\ (e = m => i <= a) /\ (d = m + 1 => j <= b)
          /\ (e = m + 1 => i <= b)
        BY <2>1
    <2> HIDE DEF size
    <2>4. CASE d = m + 1 /\ e = m + 1
        <3>1. (IF j = 0 THEN a + b + 1 ELSE a + j) = (IF i = 0 THEN a + b + 1 ELSE a + i)
            BY <1>7, <2>2, <2>4
        <3> QED
            BY <2>1, <2>3, <2>4, <3>1
    <2>5. CASE d = m + 1 /\ e # m + 1
        <3>1. m = e /\ (IF j = 0 THEN a + b + 1 ELSE a + j) = i
            BY <1>7, <2>2, <2>5
        <3> QED
            BY <2>1, <2>3, <2>5, <3>1
    <2>6. CASE d # m + 1 /\ e = m + 1
        <3>1. m = d /\ (IF i = 0 THEN a + b + 1 ELSE a + i) = j
            BY <1>7, <2>2, <2>6
        <3> QED
            BY <2>1, <2>3, <2>6, <3>1
    <2>7. CASE d # m + 1 /\ e # m + 1
        BY <1>7, <2>7
    <2> QED
        BY <2>4, <2>5, <2>6, <2>7
<1>8. ASSUME NEW q \in Places(t)
      PROVE  \E d \in 1..(m + 1) : \E j \in 0..size(d) : to(d, j) = q
    <2>1. PICK e \in 1..m : \E i \in 0..Len(t[e].events) : q = <<e, i>>
        BY PlaceMember
    <2>2. PICK i \in 0..Len(t[e].events) : q = <<e, i>>
        BY <2>1
    <2>3. e = m \/ e \in 1..(m - 1)
        OBVIOUS
    <2>4. CASE e \in 1..(m - 1)
        <3>1. e \in 1..(m + 1) /\ i \in 0..size(e) /\ to(e, i) = q
            BY <2>2, <2>4
        <3> QED
            BY <3>1
    <2>5. CASE e = m /\ i <= a
        <3>1. i \in 0..(a + b + 1)
            BY <1>2, <2>5
        <3>2. e \in 1..(m + 1) /\ i \in 0..size(e) /\ to(e, i) = q
            BY <2>2, <2>5, <3>1
        <3> QED
            BY <3>2
    <2>6. CASE e = m /\ i > a
        <3>1. i \in 0..(a + b + 1) /\ m + 1 \in 1..(m + 1)
            BY <1>2, <2>6
        <3>2. CASE i = a + b + 1
            <4>1. 0 \in 0..size(m + 1) /\ to(m + 1, 0) = q
                BY <2>2, <2>6, <3>2
            <4> QED
                BY <3>1, <4>1
        <3>3. CASE i # a + b + 1
            <4>1. PICK j \in 1..b : i = a + j
                <5>1. i - a \in 1..b /\ i = a + (i - a)
                    BY <2>6, <3>1, <3>3
                <5> QED
                    BY <5>1
            <4>2. j \in 0..size(m + 1) /\ to(m + 1, j) = q
                BY <2>2, <2>6, <4>1
            <4> QED
                BY <3>1, <4>2
        <3> QED
            BY <3>2, <3>3
    <2>7. i \in Int
        OBVIOUS
    <2> QED
        BY <2>3, <2>4, <2>5, <2>6, <2>7
<1>9. move[<<1, 0>>] = <<1, 0>>
    <2>1. 1 \in 1..(m + 1) /\ 0 \in 0..size(1) /\ 1 # m + 1
        BY <1>3
    <2>2. to(1, 0) = <<1, 0>>
        BY <2>1
    <2> QED
        BY <1>5, <2>1, <2>2
<1>10. \A p \in Places(s) : \E d \in 1..(m + 1) : \E j \in 0..size(d) : p = <<d, j>>
    BY <1>4
<1> HIDE DEF size, to
<1>11. \A p \in Places(s) : move[p] \in Places(t)
    BY <1>5, <1>6, <1>10
<1>12. Pairs(move, Places(s), Places(t))
    <2>1. move \in [Places(s) -> Places(t)]
        BY <1>11
    <2> HIDE DEF move
    <2>2. \A p, q \in Places(s) : move[p] = move[q] => p = q
        <3> SUFFICES ASSUME NEW p \in Places(s), NEW q \in Places(s), move[p] = move[q]
                     PROVE  p = q
            OBVIOUS
        <3>1. PICK d \in 1..(m + 1) : \E j \in 0..size(d) : p = <<d, j>>
            BY <1>10
        <3>2. PICK j \in 0..size(d) : p = <<d, j>>
            BY <3>1
        <3>3. PICK e \in 1..(m + 1) : \E i \in 0..size(e) : q = <<e, i>>
            BY <1>10
        <3>4. PICK i \in 0..size(e) : q = <<e, i>>
            BY <3>3
        <3>5. to(d, j) = to(e, i)
            BY <1>5, <3>2, <3>4
        <3> QED
            BY <1>7, <3>2, <3>4, <3>5
    <2>3. \A q \in Places(t) : \E p \in Places(s) : move[p] = q
        BY <1>5, <1>8
    <2> QED
        BY <2>1, <2>2, <2>3 DEF Pairs
<1> HIDE DEF move
<1>13. \A p \in Places(s) : /\ KeyAt(t, move[p]) = KeyAt(s, p)
                            /\ VersionAt(t, move[p]) = VersionAt(s, p)
    BY <1>5, <1>6, <1>10
<1> QED
    BY <1>9, <1>12, <1>13 DEF Carries

LEMMA AscendsMatched ==
    ASSUME GoodStack(stack), Ascends, Matched(stack, reads), ~Failed(Top')
    PROVE  Matched(stack', reads')
<1>1. PICK f : /\ stack' = [SubSeq(stack, 1, Depth - 1) EXCEPT ![Depth - 1] = f]
               /\ Depth > 1 /\ UNCHANGED reads
               /\ Failed(f) \/ Counted(stack[Depth - 1], Top, f)
    BY DEF Ascends
<1>2. /\ Len(stack) \in Nat \ {0, 1} /\ Depth = Len(stack)
      /\ Len(stack') = Len(stack) - 1 /\ stack'[Len(stack) - 1] = f
      /\ \A i \in 1..(Len(stack) - 2) : stack'[i] = stack[i]
    BY <1>1, AscendsStack
<1>3. PICK m \in Nat \ {0} : m = Len(stack) - 1
    BY <1>2
<1>4. /\ Len(stack) = m + 1 /\ Depth = m + 1 /\ Depth - 1 = m /\ Len(stack') = m
      /\ stack'[m] = f /\ m - 1 = Len(stack) - 2 /\ m \in 1..Len(stack)
      /\ m + 1 \in 1..Len(stack) /\ \A i \in 1..(m - 1) : i \in 1..Len(stack)
    BY <1>2, <1>3
<1>5. Top' = f
    BY <1>4 DEF Top, Depth
<1>6. PICK event :
        /\ event.key = stack[m + 1].flag.key /\ event.version = stack[m + 1].flag.version
        /\ f.events = AppendEvents(stack[m].events, stack[m + 1].events, event)
        /\ f.flag = stack[m].flag
    BY <1>1, <1>4, <1>5 DEF Counted, Top
<1>7. \A i \in 1..Len(stack) : IsSeq(stack[i].events) /\ Len(stack[i].events) \in Nat
    BY IsSeqLen DEF GoodStack, GoodFrame
<1>8. PICK t : t = stack'
    OBVIOUS
<1>9. PICK move : Carries(move, stack, t)
    <2>1. /\ Len(t) = m /\ \A i \in 1..(m - 1) : t[i] = stack[i] /\ Len(stack[i].events) \in Nat
        BY <1>2, <1>4, <1>7, <1>8
    <2>2. /\ IsSeq(stack[m].events) /\ IsSeq(stack[m + 1].events)
          /\ t[m].events = AppendEvents(stack[m].events, stack[m + 1].events, event)
          /\ t[m].flag = stack[m].flag
        BY <1>4, <1>6, <1>7, <1>8
    <2>3. Lowered(stack, t, m, event)
        BY <1>4, <1>6, <2>1, <2>2 DEF Lowered
    <2> QED
        BY <2>3, AscendsPlaces
<1>10. PICK at : Matches(at, stack, reads)
    BY DEF Matched
<1> DEFINE new == [r \in FoundIn(reads) |-> move[at[r]]]
<1>11. Pairs(new, FoundIn(reads), Places(t))
    BY <1>9, <1>10, PairsMove DEF Matches, Carries
<1>12. \A r \in FoundIn(reads) : new[r] = move[at[r]] /\ at[r] \in Places(stack)
    BY <1>10 DEF Matches, Pairs
<1> HIDE DEF new
<1>13. t[1].flag = stack[1].flag
    <2>1. 1 = m \/ 1 \in 1..(m - 1)
        OBVIOUS
    <2> QED
        BY <1>2, <1>4, <1>6, <1>8, <2>1
<1>14. Matches(new, t, reads)
    BY <1>9, <1>10, <1>11, <1>12, <1>13 DEF Matches, Carries
<1> QED
    BY <1>1, <1>8, <1>14 DEF Matched

\* An evaluation begins with the read of its flag.
LEMMA StartMatched ==
    ASSUME NEW flag, flag # Null, NEW key \in Flags, flag.key = key,
           NEW s, s = <<Frame(flag)>>,
           NEW rs, rs = [k \in Keys |-> IF k = key THEN <<flag>> ELSE <<>>]
    PROVE  Matched(s, rs) /\ ReadsOK(rs)
<1>1. PICK f : f = Frame(flag)
    OBVIOUS
<1>2. f.flag = flag /\ f.events = <<>>
    BY <1>1 DEF Frame
<1>3. Len(s) = 1 /\ s[1] = f
    BY <1>1, OneIsSeq
<1>4. /\ rs[key] = <<flag>> /\ DOMAIN rs = Keys
      /\ \A k \in Flags : k # key => rs[k] = <<>>
      /\ \A k \in Keys : rs[k] \in {<<flag>>, <<>>}
    BY DEF Keys
<1>5. IsSeq(<<flag>>) /\ IsSeq(<<>>) /\ DOMAIN <<flag>> = 1..1 /\ DOMAIN <<>> = 1..0
      /\ <<flag>>[1] = flag /\ Len(<<>>) = 0
    BY OneIsSeq, EmptyIsSeq, IsSeqLen
<1>6. ReadsOK(rs)
    BY <1>4, <1>5 DEF ReadsOK
<1>7. ASSUME NEW r PROVE r \in FoundIn(rs) <=> r = <<key, 1>>
    <2>1. PICK q : q = rs
        OBVIOUS
    <2>2. r \in FoundIn(q) <=>
            \E k \in Flags : \E i \in DOMAIN q[k] : q[k][i] # Null /\ r = <<k, i>>
        BY FoundMember
    <2>3. \A k \in Flags : \A i \in DOMAIN q[k] : k = key /\ i = 1
        BY <1>4, <1>5, <2>1
    <2>4. 1 \in DOMAIN q[key] /\ q[key][1] # Null
        BY <1>4, <1>5, <2>1
    <2>5. r \in FoundIn(q) <=> r = <<key, 1>>
        BY <2>2, <2>3, <2>4
    <2> QED
        BY <2>1, <2>5
<1>8. ASSUME NEW p PROVE p \in Places(s) <=> p = <<1, 0>>
    <2>1. p \in Places(s) <=>
            \E d \in 1..1 : \E j \in 0..Len(s[d].events) : p = <<d, j>>
        BY <1>3, PlaceMember
    <2>2. \A d : d \in 1..1 <=> d = 1
        OBVIOUS
    <2>3. \A j : j \in 0..Len(s[1].events) <=> j = 0
        BY <1>2, <1>3, <1>5
    <2> QED
        BY <2>1, <2>2, <2>3
<1>9. PICK r0, p0 : r0 = <<key, 1>> /\ p0 = <<1, 0>> /\ r0[1] = key /\ r0[2] = 1
                    /\ p0[1] = 1 /\ p0[2] = 0
    <2>1. /\ <<key, 1>>[1] = key /\ <<key, 1>>[2] = 1
          /\ <<1, 0>>[1] = 1 /\ <<1, 0>>[2] = 0
        OBVIOUS
    <2> QED
        BY <2>1, Zenon
<1>10. FoundIn(rs) = {r0} /\ Places(s) = {p0}
    BY <1>7, <1>8, <1>9
<1> DEFINE at == [r \in {r0} |-> p0]
<1>11. Pairs(at, {r0}, {p0}) /\ at[r0] = p0
    BY DEF Pairs
<1> HIDE DEF at
<1>12. KeyAt(s, p0) = key /\ VersionAt(s, p0) = flag.version
    BY <1>2, <1>3, <1>9 DEF KeyAt, VersionAt
<1>13. <<s[1].flag.key, 1>> = r0 /\ rs[r0[1]][r0[2]] = flag
    BY <1>2, <1>3, <1>4, <1>5, <1>9
<1>14. Matches(at, s, rs)
    BY <1>9, <1>10, <1>11, <1>12, <1>13 DEF Matches
<1> QED
    BY <1>6, <1>14 DEF Matched

-----------------------------------------------------------------------------
(* The counters of the summary.                                               *)

LEMMA EmptyPlus ==
    ASSUME NEW bag, IsABag(bag)
    PROVE  EmptyBag (+) bag = bag
<1>1. DOMAIN EmptyBag = {}
    BY DEF EmptyBag, SetToBag
<1>2. bag \in [DOMAIN bag -> Nat]
    BY DEF IsABag
<1>3. EmptyBag (+) bag = [c \in DOMAIN bag |-> 0 + bag[c]]
    BY <1>1 DEF (+)
<1>4. \A c \in DOMAIN bag : 0 + bag[c] = bag[c]
    BY <1>2
<1> QED
    BY <1>2, <1>3, <1>4

LEMMA OccurrencesOfOne ==
    ASSUME NEW event
    PROVE  /\ IsSeq(<<event>> \o <<>>)
           /\ Occurrences(<<event>> \o <<>>) = SetToBag({LDi_makeSummaryKey(event)})
<1>1. PICK events : events = <<event>> \o <<>>
    OBVIOUS
<1>2. IsSeq(events) /\ Len(events) = 1 /\ events[1] = event
    <2>1. PICK one : one = <<event>> /\ IsSeq(one) /\ Len(one) = 1 /\ one[1] = event
        BY OneIsSeq
    <2>2. PICK none : none = <<>> /\ IsSeq(none) /\ Len(none) = 0
        BY EmptyIsSeq
    <2>3. /\ IsSeq(one \o none) /\ Len(one \o none) = Len(one) + Len(none)
          /\ \A i \in 1..Len(one) : (one \o none)[i] = one[i]
        BY <2>1, <2>2, ConcatElements
    <2> QED
        BY <1>1, <2>1, <2>2, <2>3
<1>3. DOMAIN events = {1}
    BY <1>2, IsSeqLen
<1> DEFINE c0 == LDi_makeSummaryKey(event)
<1>4. {LDi_makeSummaryKey(events[i]) : i \in DOMAIN events} = {c0}
    BY <1>2, <1>3
<1>5. {i \in DOMAIN events : LDi_makeSummaryKey(events[i]) = c0} = {1}
    BY <1>2, <1>3
<1>6. Cardinality({1}) = 1
    BY FS_Singleton
<1> HIDE DEF c0
<1>7. Occurrences(events) = [c \in {c0} |-> 1]
    BY <1>4, <1>5, <1>6 DEF Occurrences
<1> QED
    BY <1>1, <1>2, <1>7 DEF SetToBag, c0

\* What a variation call counts, when it has counted nothing before.
LEMMA FinishCounts ==
    ASSUME NEW flag, NEW result, NEW sub, IsSeq(sub), counters = EmptyBag, SendEvents,
           FinishVariation(flag, result, sub),
           NEW event,
           event = LDi_newFeatureEvent(call'.key, flag, DetailsOf(result), Null)
    PROVE  \/ /\ NoFeatureEvent(flag, DetailsOf(result)) \/ result.status = "MEM"
              /\ counters' = EmptyBag
           \/ /\ ~NoFeatureEvent(flag, DetailsOf(result))
              /\ result.status = "SCHEMA" \/ sub = <<>>
              /\ counters' = SetToBag({LDi_makeSummaryKey(event)})
           \/ /\ ~NoFeatureEvent(flag, DetailsOf(result))
              /\ result.status \notin {"MEM", "SCHEMA"}
              /\ counters' = Occurrences(<<event>> \o sub)
<1>1. IF result.status = "MEM" \/ ~SendEvents
      THEN UNCHANGED counters
      ELSE LDEventProcessor_ProcessEvaluation(call'.key, flag, DetailsOf(result),
               IF result.status = "SCHEMA" THEN <<>> ELSE sub)
    BY DEF FinishVariation
<1>2. ASSUME NEW all, IsSeq(all) PROVE LDi_summarizeEvent(EmptyBag, all) = Occurrences(all)
    BY <1>2, BagOfOccurrences, EmptyPlus DEF LDi_summarizeEvent
<1>3. CASE result.status = "MEM"
    BY <1>1, <1>3
<1>4. CASE result.status \notin {"MEM"}
    <2>1. PICK events : events = IF result.status = "SCHEMA" THEN <<>> ELSE sub
        OBVIOUS
    <2>2. LDEventProcessor_ProcessEvaluation(call'.key, flag, DetailsOf(result), events)
        BY <1>1, <1>4, <2>1
    <2>3. counters' = IF NoFeatureEvent(flag, DetailsOf(result)) THEN counters
                      ELSE LDi_summarizeEvent(counters, <<event>> \o events)
        BY <2>2 DEF LDEventProcessor_ProcessEvaluation
    <2>4. IsSeq(events)
        BY <2>1, EmptyIsSeq
    <2>5. IsSeq(<<event>> \o events)
        BY <2>4, OneIsSeq, ConcatIsSeq
    <2>6. LDi_summarizeEvent(EmptyBag, <<event>> \o events) = Occurrences(<<event>> \o events)
        BY <1>2, <2>5
    <2>7. Occurrences(<<event>> \o <<>>) = SetToBag({LDi_makeSummaryKey(event)})
        BY OccurrencesOfOne
    <2>8. events = <<>> => Occurrences(<<event>> \o events) = SetToBag({LDi_makeSummaryKey(event)})
        BY <2>7
    <2> QED
        BY <1>4, <2>1, <2>3, <2>6, <2>8
<1> QED
    BY <1>3, <1>4

\* The evaluations of one call of LDi_evaluate, as found in its reads, are dealt
\* out to the counters.
Dealt(of, rs, key, variation, bag) ==
    /\ of \in [FoundIn(rs) -> BagToSet(bag)]
    /\ <<key, 1>> \in FoundIn(rs)
    /\ of[<<key, 1>>].variation = variation
    /\ \A r \in FoundIn(rs) :
         of[r].key = r[1] /\ of[r].version = rs[r[1]][r[2]].version
    /\ \A c \in BagToSet(bag) : Cardinality({r \in FoundIn(rs) : of[r] = c}) = bag[c]

LEMMA AllDealt ==
    ASSUME NEW s, Len(s) = 1, NEW f, f = s[1], IsSeq(f.events), NEW rs, Matched(s, rs),
           NEW event, event.key = f.flag.key, event.version = f.flag.version
    PROVE  \E of : Dealt(of, rs, f.flag.key, event.variation,
                         Occurrences(<<event>> \o f.events))
<1>1. PICK n \in Nat : n = Len(f.events)
    BY IsSeqLen
<1>2. PICK all : all = <<event>> \o f.events
    OBVIOUS
<1>3. /\ IsSeq(all) /\ Len(all) = n + 1 /\ all[1] = event
      /\ \A i \in 1..n : all[1 + i] = f.events[i]
    <2>1. PICK one : one = <<event>> /\ IsSeq(one) /\ Len(one) = 1 /\ one[1] = event
        BY OneIsSeq
    <2>2. PICK sub : sub = f.events
        OBVIOUS
    <2>3. /\ IsSeq(one \o sub) /\ Len(one \o sub) = Len(one) + Len(sub)
          /\ \A i \in 1..Len(one) : (one \o sub)[i] = one[i]
          /\ \A i \in 1..Len(sub) : (one \o sub)[Len(one) + i] = sub[i]
        BY <2>1, <2>2, ConcatElements
    <2> QED
        BY <1>1, <1>2, <2>1, <2>2, <2>3
<1>4. DOMAIN all = 1..(n + 1)
    BY <1>3, IsSeqLen
<1>5. PICK at : Matches(at, s, rs)
    BY DEF Matched
<1> DEFINE R == FoundIn(rs)
<1>6. ASSUME NEW p PROVE p \in Places(s) <=> \E j \in 0..n : p = <<1, j>>
    <2>1. PICK t : t = s
        OBVIOUS
    <2>2. p \in Places(t) <=>
            \E d \in 1..Len(t) : \E j \in 0..Len(t[d].events) : p = <<d, j>>
        BY PlaceMember
    <2>3. \A d : d \in 1..Len(t) <=> d = 1
        <3>1. Len(t) = 1
            BY <2>1
        <3>2. \A d : d \in 1..1 <=> d = 1
            OBVIOUS
        <3> QED
            BY <3>1, <3>2
    <2>4. t[1].events = f.events
        BY <2>1
    <2> QED
        BY <1>1, <2>1, <2>2, <2>3, <2>4
\* The position of the event of an evaluation.
<1> DEFINE nth == [r \in R |-> at[r][2] + 1]
<1>7. ASSUME NEW r \in R
      PROVE  \E j \in 0..n : at[r] = <<1, j>> /\ at[r][2] = j /\ nth[r] = j + 1
    <2>1. at[r] \in Places(s)
        BY <1>5 DEF Matches, Pairs
    <2>2. PICK j \in 0..n : at[r] = <<1, j>>
        BY <1>6, <2>1
    <2>3. at[r][2] = j
        BY <2>2
    <2> QED
        BY <2>2, <2>3
<1>8. Pairs(nth, R, 1..(n + 1))
    <2>1. nth = [r \in R |-> nth[r]] /\ \A r \in R : nth[r] \in 1..(n + 1)
        BY <1>7
    <2> HIDE DEF nth
    <2>2. nth \in [R -> 1..(n + 1)]
        BY <2>1
    <2>3. ASSUME NEW a \in R, NEW b \in R, nth[a] = nth[b] PROVE a = b
        <3>1. at[a] = at[b]
            BY <1>7, <2>3
        <3> QED
            BY <1>5, <3>1 DEF Matches, Pairs
    <2>4. ASSUME NEW i \in 1..(n + 1) PROVE \E r \in R : nth[r] = i
        <3>1. PICK j \in 0..n : i = j + 1
            <4>1. i - 1 \in 0..n /\ i = (i - 1) + 1
                OBVIOUS
            <4> QED
                BY <4>1
        <3>2. <<1, j>> \in Places(s)
            BY <1>6
        <3>3. PICK r \in R : at[r] = <<1, j>>
            BY <1>5, <3>2 DEF Matches, Pairs
        <3>4. at[r][2] = j
            BY <3>3
        <3> QED
            BY <1>7, <3>1, <3>3, <3>4
    <2> QED
        BY <2>2, <2>3, <2>4 DEF Pairs
<1> DEFINE label == [i \in 1..(n + 1) |-> LDi_makeSummaryKey(all[i])]
           of == [r \in R |-> label[nth[r]]]
           bag == Occurrences(all)
<1>9. \A r \in R : nth[r] \in 1..(n + 1) /\ of[r] = LDi_makeSummaryKey(all[nth[r]])
    BY <1>7
<1> HIDE DEF nth
<1>10. BagToSet(bag) = {LDi_makeSummaryKey(all[i]) : i \in 1..(n + 1)}
    BY <1>4 DEF BagToSet, Occurrences
<1>11. of \in [R -> BagToSet(bag)]
    BY <1>9, <1>10
<1>12. ASSUME NEW c \in BagToSet(bag) PROVE Cardinality({r \in R : of[r] = c}) = bag[c]
    <2>1. bag[c] = Cardinality({i \in 1..(n + 1) : LDi_makeSummaryKey(all[i]) = c})
        BY <1>4, <1>10 DEF Occurrences
    <2> DEFINE S == {r \in R : of[r] = c}
               T == {i \in 1..(n + 1) : LDi_makeSummaryKey(all[i]) = c}
    <2>2. Labelled(S, R, of, c) /\ \A r \in R : of[r] = label[nth[r]]
        BY DEF Labelled
    <2>3. Labelled(T, 1..(n + 1), label, c)
        BY DEF Labelled
    <2> HIDE DEF label, of, bag, R, S, T
    <2>4. PICK m \in Nat : m = n + 1
        OBVIOUS
    <2>5. Pairs(nth, R, 1..m) /\ Labelled(T, 1..m, label, c)
        BY <1>8, <2>3, <2>4
    <2>6. Cardinality(S) = Cardinality(T)
        BY <2>2, <2>5, SameCount
    <2> QED
        BY <2>1, <2>6 DEF S, T
<1>13. ASSUME NEW r \in R
       PROVE  of[r].key = r[1] /\ of[r].version = rs[r[1]][r[2]].version
    <2>1. PICK j \in 0..n : at[r] = <<1, j>> /\ at[r][2] = j /\ nth[r] = j + 1
        BY <1>7
    <2>2. at[r][1] = 1
        BY <2>1
    <2>3. KeyAt(s, at[r]) = r[1] /\ VersionAt(s, at[r]) = rs[r[1]][r[2]].version
        BY <1>5 DEF Matches
    <2>4. all[j + 1].key = KeyAt(s, at[r]) /\ all[j + 1].version = VersionAt(s, at[r])
        <3>1. CASE j = 0
            BY <1>3, <2>1, <2>2, <3>1 DEF KeyAt, VersionAt
        <3>2. CASE j # 0
            <4>1. j \in 1..n /\ j + 1 = 1 + j
                BY <3>2
            <4>2. all[j + 1] = f.events[j]
                BY <1>3, <4>1
            <4> QED
                BY <2>1, <2>2, <3>2, <4>2 DEF KeyAt, VersionAt
        <3> QED
            BY <3>1, <3>2
    <2>5. of[r] = LDi_makeSummaryKey(all[j + 1])
        BY <1>9, <2>1
    <2> HIDE DEF of
    <2> QED
        BY <2>3, <2>4, <2>5 DEF LDi_makeSummaryKey
<1>14. /\ <<f.flag.key, 1>> \in R
       /\ of[<<f.flag.key, 1>>].variation = event.variation
    <2>1. PICK r \in R : r = <<f.flag.key, 1>> /\ at[r] = <<1, 0>>
        BY <1>5 DEF Matches
    <2>2. at[r][2] = 0
        BY <2>1
    <2>3. nth[r] = 1
        BY <1>7, <2>2
    <2>4. of[r] = LDi_makeSummaryKey(event)
        BY <1>3, <1>9, <2>3
    <2> HIDE DEF of
    <2> QED
        BY <2>1, <2>4 DEF LDi_makeSummaryKey
<1> HIDE DEF of, bag, label
<1>15. Dealt(of, rs, f.flag.key, event.variation, bag)
    BY <1>11, <1>12, <1>13, <1>14 DEF Dealt
<1> QED
    BY <1>2, <1>15 DEF bag

\* The event of a flag.
LEMMA FlagEvent ==
    ASSUME NEW key, NEW flag, flag # Null, NEW details, NEW event,
           event = LDi_newFeatureEvent(key, flag, details, Null)
    PROVE  /\ event.key = key /\ event.version = flag.version
           /\ event.variation = details.variation
           /\ details.reason = "UNKNOWN" => NoFeatureEvent(flag, details)
           /\ Bad \in EventFields(flag) =>
                NoFeatureEvent(flag, details)
           /\ (/\ Bad \notin EventFields(flag)
               /\ details.reason \notin {"UNKNOWN", "ERROR"}) =>
                ~NoFeatureEvent(flag, details)
BY DEF LDi_newFeatureEvent, NoFeatureEvent, LDReasonToJSON

\* The outcome that CountsEvaluations asks for after an evaluation.
EvaluationCounted(e) ==
    IF Bad \in EventFields(e.flag)
    THEN counters = EmptyBag
    ELSE IF LDi_isEvalError(e.result.status)
    THEN \A c \in BagToSet(counters) : c.key = call.key /\ counters = SetToBag({c})
    ELSE \E of : Dealt(of, e.reads, call.key, e.result.details.variation, counters)

LEMMA NothingCounted ==
    ASSUME counters = EmptyBag
    PROVE  BagToSet(counters) = {}
BY DEF BagToSet, EmptyBag, SetToBag

LEMMA ReturnCounts ==
    ASSUME IInv, Return, call.op = "variation", Work(Top), Len(stack) = 1,
           ~Failed(Top) => Matched(stack, reads),
           counters = EmptyBag, SendEvents,
           NEW e, e = [flag |-> Top.flag, result |-> Top.result, events |-> Top.events,
                       reads |-> reads]
    PROVE  EvaluationCounted(e)'
<1>1. PICK f : f = Top
    OBVIOUS
<1>2. stack # <<>> /\ f = stack[1] /\ f.at = "done"
    <2>1. Len(stack) # Len(<<>>)
        BY EmptyIsSeq
    <2> QED
        BY <1>1, <2>1 DEF Return, Top, Depth
<1>3. GoodFrame(f) /\ Work(f) /\ IsSeq(f.events)
    BY <1>1, <1>2, TopIsGood DEF IInv, GoodFrame
<1>4. f.flag # Null /\ Reasoned(f.result)
    BY <1>2, <1>3 DEF Work
<1>5. Running /\ UNCHANGED call /\ FinishVariation(f.flag, f.result, f.events)
    BY <1>1 DEF Return
<1>6. f.flag.key = call.key /\ call'.key = call.key
    BY <1>2, <1>5 DEF IInv, EvaluatesOne
<1>7. PICK event : event = LDi_newFeatureEvent(call'.key, f.flag, DetailsOf(f.result), Null)
    OBVIOUS
<1>8. \/ /\ NoFeatureEvent(f.flag, DetailsOf(f.result)) \/ f.result.status = "MEM"
         /\ counters' = EmptyBag
      \/ /\ ~NoFeatureEvent(f.flag, DetailsOf(f.result))
         /\ f.result.status = "SCHEMA" \/ f.events = <<>>
         /\ counters' = SetToBag({LDi_makeSummaryKey(event)})
      \/ /\ ~NoFeatureEvent(f.flag, DetailsOf(f.result))
         /\ f.result.status \notin {"MEM", "SCHEMA"}
         /\ counters' = Occurrences(<<event>> \o f.events)
    BY <1>3, <1>5, <1>7, FinishCounts
<1>9. e.flag = f.flag /\ e.result = f.result /\ e.reads = reads
    BY <1>1
<1> DEFINE Unfit == Bad \in EventFields(f.flag)
<1>10. /\ event.key = call'.key /\ event.version = f.flag.version
       /\ event.variation = DetailsOf(f.result).variation
       /\ DetailsOf(f.result).reason = "UNKNOWN" => NoFeatureEvent(f.flag, DetailsOf(f.result))
       /\ Unfit => NoFeatureEvent(f.flag, DetailsOf(f.result))
       /\ (~Unfit /\ DetailsOf(f.result).reason \notin {"UNKNOWN", "ERROR"}) =>
            ~NoFeatureEvent(f.flag, DetailsOf(f.result))
    BY <1>4, <1>7, FlagEvent
<1>11. CASE Unfit
    <2>1. counters' = EmptyBag
        BY <1>8, <1>10, <1>11
    <2> QED
        BY <1>9, <1>11, <2>1 DEF EvaluationCounted
<1>12. CASE ~Unfit /\ LDi_isEvalError(f.result.status)
    <2>1. \A c \in BagToSet(counters') : c.key = call'.key /\ counters' = SetToBag({c})
        <3>1. CASE counters' = EmptyBag
            BY <3>1 DEF BagToSet, EmptyBag, SetToBag
        <3>2. CASE counters' = SetToBag({LDi_makeSummaryKey(event)})
            <4>1. PICK c0 : c0 = LDi_makeSummaryKey(event)
                OBVIOUS
            <4>2. c0.key = call'.key
                BY <1>10, <3>2, <4>1 DEF LDi_makeSummaryKey
            <4>3. BagToSet(counters') = {c0} /\ counters' = SetToBag({c0})
                BY <3>2, <4>1 DEF BagToSet, SetToBag
            <4> QED
                BY <4>2, <4>3
        <3>3. CASE /\ ~NoFeatureEvent(f.flag, DetailsOf(f.result))
                   /\ f.result.status \notin {"MEM", "SCHEMA"}
            <4>1. f.result.status = "STORE"
                BY <1>12, <3>3 DEF LDi_isEvalError
            <4>2. DetailsOf(f.result) = NoDetails /\ NoDetails.reason = "UNKNOWN"
                BY <1>4, <4>1, NoDetailsShape DEF DetailsOf, Reasoned
            <4> QED
                BY <1>10, <3>3, <4>2
        <3> QED
            BY <1>8, <3>1, <3>2, <3>3
    <2> QED
        BY <1>9, <1>12, <2>1 DEF EvaluationCounted
<1>13. CASE ~Unfit /\ ~LDi_isEvalError(f.result.status)
    <2>1. f.result.status \notin {"MEM", "SCHEMA", "STORE"}
        BY <1>13 DEF LDi_isEvalError
    <2>2. DetailsOf(f.result) = f.result.details
        BY <2>1 DEF DetailsOf
    <2>3. f.result.details.reason \notin {"UNKNOWN", "ERROR"}
        BY <1>4, <1>13 DEF Reasoned
    <2>4. /\ event.key = f.flag.key /\ event.version = f.flag.version
          /\ event.variation = f.result.details.variation
        BY <1>6, <1>10, <2>2
    <2>5. counters' = Occurrences(<<event>> \o f.events)
        <3>1. ~NoFeatureEvent(f.flag, DetailsOf(f.result))
            BY <1>10, <1>13, <2>2, <2>3
        <3>2. f.events = <<>> =>
                SetToBag({LDi_makeSummaryKey(event)}) = Occurrences(<<event>> \o f.events)
            BY OccurrencesOfOne
        <3> QED
            BY <1>8, <2>1, <3>1, <3>2
    <2>6. Matched(stack, reads)
        BY <1>1, <1>13 DEF Failed
    <2>7. PICK of : Dealt(of, reads, f.flag.key, event.variation,
                          Occurrences(<<event>> \o f.events))
        BY <1>2, <1>3, <2>4, <2>6, AllDealt
    <2>8. Dealt(of, e.reads, call'.key, e.result.details.variation, counters')
        BY <1>6, <1>9, <2>4, <2>5, <2>7
    <2> QED
        BY <1>9, <1>13, <2>8 DEF EvaluationCounted
<1> QED
    BY <1>11, <1>12, <1>13

-----------------------------------------------------------------------------
(* Every evaluation is counted.                                               *)

\* Unless the evaluation has failed, reads and evaluations are matched.
MatchedInv == (stack # <<>> /\ ~Failed(Top)) => Matched(stack, reads)

CInv ==
    /\ (call = Null \/ call.op # "variation" \/ stack # <<>>) => counters = EmptyBag
    /\ (call = Null \/ (call.op = "variation" /\ stack # <<>>)) => evaluated = <<>>
    /\ call = Null => reads = [k \in Keys |-> <<>>]
    /\ ReadsOK(reads)
    /\ MatchedInv
    /\ CountsEvaluations

\* EvaluationCounted is the part of CountsEvaluations about a variation call
\* that has evaluated its flag.
LEMMA CountedShown ==
    (call.op = "variation" /\ evaluated # <<>> /\ EvaluationCounted(evaluated[1]))
        => CountsEvaluations
<1> SUFFICES ASSUME call.op = "variation", evaluated # <<>>, EvaluationCounted(evaluated[1])
             PROVE  CountsEvaluations
    OBVIOUS
<1> DEFINE e == evaluated[1]
           Unfit == Bad \in EventFields(e.flag)
           keys == BagToSet(counters)
           alone == \A c \in keys : c.key = call.key /\ counters = SetToBag({c})
           dealt == \E of \in [Found(e) -> keys] :
                      /\ <<call.key, 1>> \in Found(e)
                      /\ of[<<call.key, 1>>].variation = e.result.details.variation
                      /\ \A r \in Found(e) :
                           /\ of[r].key = r[1]
                           /\ of[r].version = e.reads[r[1]][r[2]].version
                      /\ \A c \in keys :
                           Cardinality({r \in Found(e) : of[r] = c}) = counters[c]
<1>1. CountsEvaluations <=>
        ((answer # Null /\ SendEvents) =>
           IF Unfit THEN counters = EmptyBag
           ELSE IF LDi_isEvalError(e.result.status) THEN alone ELSE dealt)
    BY DEF CountsEvaluations
<1>2. Found(e) = FoundIn(e.reads)
    BY DEF Found, FoundIn
<1>3. IF Unfit THEN counters = EmptyBag
      ELSE IF LDi_isEvalError(e.result.status) THEN alone
      ELSE \E of : Dealt(of, e.reads, call.key, e.result.details.variation, counters)
    BY DEF EvaluationCounted
<1>4. ASSUME NEW of, Dealt(of, e.reads, call.key, e.result.details.variation, counters)
      PROVE  dealt
    <2> HIDE DEF e, keys
    <2>1. /\ of \in [Found(e) -> keys] /\ <<call.key, 1>> \in Found(e)
          /\ of[<<call.key, 1>>].variation = e.result.details.variation
          /\ \A r \in Found(e) :
               of[r].key = r[1] /\ of[r].version = e.reads[r[1]][r[2]].version
        BY <1>2, <1>4 DEF Dealt, keys
    <2>2. \A c \in keys : Cardinality({r \in FoundIn(e.reads) : of[r] = c}) = counters[c]
        BY <1>4 DEF Dealt, keys
    <2>3. ASSUME NEW c \in keys
          PROVE  Cardinality({r \in Found(e) : of[r] = c}) = counters[c]
        <3>1. {r \in Found(e) : of[r] = c} = {r \in FoundIn(e.reads) : of[r] = c}
            BY <1>2
        <3> QED
            BY <2>2, <3>1
    <2> QED
        BY <2>1, <2>3
<1> HIDE DEF e, Unfit, alone, dealt
<1> QED
    BY <1>1, <1>3, <1>4

LEMMA InitCounts == Init => CInv
<1> SUFFICES ASSUME Init PROVE CInv
    OBVIOUS
<1>1. ReadsOK(reads)
    <2>1. DOMAIN reads = Keys /\ \A k \in Keys : reads[k] = <<>>
        BY DEF Init
    <2> QED
        BY <2>1, EmptyIsSeq DEF ReadsOK
<1> QED
    BY <1>1 DEF Init, CInv, MatchedInv, Running, CountsEvaluations

\* A step that leaves the evaluation and the counters alone.
LEMMA StandsCounts ==
    ASSUME CInv, UNCHANGED <<call, answer, counters, stack, reads, evaluated>>
    PROVE  CInv'
<1>1. MatchedInv'
    BY DEF CInv, MatchedInv, Top, Depth
<1>2. CountsEvaluations'
    BY DEF CInv, CountsEvaluations
<1> QED
    BY <1>1, <1>2 DEF CInv, Running

\* A step during a call that does not end it.
LEMMA RunsCounts ==
    ASSUME CInv, call' # Null, answer' = Null, counters' = EmptyBag,
           call'.op = "variation" => evaluated' = <<>>, ReadsOK(reads'), MatchedInv'
    PROVE  CInv'
BY DEF CInv, CountsEvaluations

LEMMA SectionsCount ==
    ASSUME IInv, EInv, CInv, Sections
    PROVE  CInv'
<1>1. /\ GoodStack(stack) /\ Working(stack) /\ Stored(store)
    BY DEF IInv, EInv
<1>2. stack # <<>> /\ (GoesOn \/ Descends \/ Ascends)
    BY <1>1, SectionsShape
<1>3. UNCHANGED <<call, answer, counters, evaluated>>
    BY DEF Sections, ReturnToPrerequisites, SectionOn, NoPrerequisite, ReadPrerequisite,
           SectionTargets, SectionRules, NoSegmentLeft, ReadSegment, Local, Reads
<1>4. Running /\ ReadsOK(reads)
    BY <1>2 DEF IInv, CInv
<1>5. ReadsOK(reads')
    <2>1. UNCHANGED reads \/ \E k \in Keys : ReadOne(k)
        BY <1>2 DEF GoesOn, Descends, Ascends, Keys
    <2> QED
        BY <1>4, <2>1, ReadOneKeeps
<1>6. MatchedInv'
    <2> SUFFICES ASSUME ~Failed(Top') PROVE Matched(stack', reads')
        BY DEF MatchedInv
    <2>1. CASE GoesOn
        <3>1. ~Failed(Top)
            BY <2>1 DEF GoesOn, Failed
        <3>2. Matched(stack, reads)
            BY <1>2, <3>1 DEF CInv, MatchedInv
        <3> QED
            BY <1>1, <1>2, <1>4, <2>1, <3>2, GoesOnMatched
    <2>2. CASE Descends
        <3>1. ~Failed(Top)
            BY <2>2 DEF Descends, Failed
        <3>2. Matched(stack, reads)
            BY <1>2, <3>1 DEF CInv, MatchedInv
        <3> QED
            BY <1>1, <1>2, <1>4, <2>2, <3>2, DescendsMatched
    <2>3. CASE Ascends
        <3>1. PICK f : /\ stack' = [SubSeq(stack, 1, Depth - 1) EXCEPT ![Depth - 1] = f]
                       /\ Depth > 1
                       /\ Failed(f) \/ ~Failed(Top)
            BY <2>3 DEF Ascends
        <3>2. /\ Len(stack') = Len(stack) - 1 /\ stack'[Len(stack) - 1] = f
            BY <1>1, <3>1, AscendsStack
        <3>3. Top' = f
            BY <3>2 DEF Top, Depth
        <3>4. ~Failed(Top)
            BY <3>1, <3>3
        <3>5. Matched(stack, reads)
            BY <1>2, <3>4 DEF CInv, MatchedInv
        <3> QED
            BY <1>1, <2>3, <3>5, AscendsMatched
    <2> QED
        BY <1>2, <2>1, <2>2, <2>3
<1> QED
    BY <1>2, <1>3, <1>4, <1>5, <1>6, RunsCounts DEF Running, CInv

LEMMA VariationCounts ==
    ASSUME IInv, CInv, NEW user \in Users, NEW key \in Flags, NEW want \in Wanted,
           Variation(user, key, want)
    PROVE  CInv'
<1>1. /\ call = Null /\ UNCHANGED evaluated
      /\ call' = [op |-> "variation", user |-> user, key |-> key, want |-> want]
    BY DEF Variation
<1>2. call'.op = "variation" /\ call'.key = key
    BY <1>1
<1>3. stack = <<>> /\ answer = Null /\ counters = EmptyBag /\ evaluated' = <<>>
      /\ reads = [k \in Keys |-> <<>>] /\ ReadsOK(reads)
    BY <1>1, BeforeCall DEF CInv
<1>4. call' # Null
    <2>1. call' \in Calls
        BY <1>1 DEF Calls
    <2> QED
        BY <2>1, NullAssumption
<1> DEFINE c0 == [key |-> key, variation |-> Null, version |-> Null]
<1>5. ASSUME UNCHANGED <<stack, reads>>, counters' \in {EmptyBag, SetToBag({c0})}
      PROVE  CInv'
    <2>1. CountsEvaluations'
        BY <1>2, <1>3, <1>5 DEF CountsEvaluations
    <2>2. MatchedInv' /\ stack' = <<>>
        BY <1>3, <1>5 DEF MatchedInv
    <2> QED
        BY <1>2, <1>3, <1>4, <1>5, <2>1, <2>2 DEF CInv
<1>6. CASE UNCHANGED <<stack, counters, reads>>
    BY <1>3, <1>5, <1>6
<1>7. CASE /\ FinishVariation(Null, Result("MISS", Null, ErrorDetails("FLAG_NOT_FOUND")), <<>>)
           /\ UNCHANGED <<stack, reads>>
    <2>1. PICK result : result = Result("MISS", Null, ErrorDetails("FLAG_NOT_FOUND"))
        OBVIOUS
    <2>2. result.status = "MISS" /\ result.details = ErrorDetails("FLAG_NOT_FOUND")
        BY <2>1 DEF Result
    <2>3. DetailsOf(result).variation = Null
        BY <2>2, ErrorVariation DEF DetailsOf
    <2>4. PICK event : event = LDi_newFeatureEvent(call'.key, Null, DetailsOf(result), Null)
        OBVIOUS
    <2>5. LDi_makeSummaryKey(event) = c0
        BY <1>2, <2>3, <2>4 DEF LDi_newFeatureEvent, LDi_makeSummaryKey
    <2>6. counters' \in {EmptyBag, SetToBag({LDi_makeSummaryKey(event)})}
        <3>1. SendEvents \/ UNCHANGED counters
            BY <1>7 DEF FinishVariation
        <3>2. ASSUME SendEvents
              PROVE  \/ counters' = EmptyBag
                     \/ counters' = SetToBag({LDi_makeSummaryKey(event)})
                     \/ counters' = Occurrences(<<event>> \o <<>>)
            BY <1>3, <1>7, <2>1, <2>4, <3>2, EmptyIsSeq, FinishCounts
        <3> QED
            BY <1>3, <3>1, <3>2, OccurrencesOfOne
    <2> QED
        BY <1>5, <1>7, <2>5, <2>6
<1>8. CASE /\ store[key] # Null /\ stack' = <<Frame(store[key])>> /\ ReadOne(key)
           /\ UNCHANGED <<answer, counters>>
    <2>1. store[key].key = key
        BY <1>8 DEF IInv, Stored, StoredAt, Keys
    <2>2. reads' = [k \in Keys |-> IF k = key THEN <<store[key]>> ELSE <<>>]
        <3>1. key \in Keys /\ reads' = [reads EXCEPT ![key] = Append(reads[key], store[key])]
            BY <1>8 DEF ReadOne, Keys
        <3>2. Append(<<>>, store[key]) = <<store[key]>>
            OBVIOUS
        <3>3. reads[key] = <<>>
            BY <1>3, <3>1
        <3>4. reads' = [reads EXCEPT ![key] = <<store[key]>>]
            BY <3>1, <3>2, <3>3
        <3> QED
            BY <1>3, <3>1, <3>4
    <2>3. Matched(stack', reads') /\ ReadsOK(reads')
        BY <1>8, <2>1, <2>2, StartMatched
    <2> QED
        BY <1>3, <1>4, <1>8, <2>3, RunsCounts DEF MatchedInv
<1> QED
    BY <1>6, <1>7, <1>8 DEF Variation

LEMMA AllFlagsCounts ==
    ASSUME IInv, CInv, NEW op \in {"allFlags", "allFlagsState"}, NEW user,
           NEW options, AllFlags(op, user, options)
    PROVE  CInv'
<1>1. /\ call = Null /\ call'.op # "variation"
      /\ UNCHANGED <<stack, counters, reads, evaluated>>
    BY DEF AllFlags
<1>2. stack = <<>> /\ counters = EmptyBag /\ ReadsOK(reads) /\ evaluated = <<>>
      /\ reads = [k \in Keys |-> <<>>]
    BY <1>1, BeforeCall DEF CInv
<1>3. MatchedInv' /\ CountsEvaluations'
    BY <1>1, <1>2 DEF MatchedInv, CountsEvaluations
<1> QED
    BY <1>1, <1>2, <1>3 DEF CInv

LEMMA NextFlagCounts ==
    ASSUME IInv, CInv, NextFlag
    PROVE  CInv'
<1>1. /\ Running /\ stack = <<>> /\ call.op # "variation"
      /\ UNCHANGED <<call, answer, counters, evaluated>>
    BY NextFlagStored DEF NextFlag
<1>2. counters = EmptyBag
    BY <1>1 DEF CInv
<1>3. CASE UNCHANGED <<stack, reads>>
    BY <1>1, <1>3, StandsCounts
<1>4. CASE /\ stack' = <<Frame(Head(todo))>>
           /\ reads' = [k \in Keys |-> IF k = Head(todo).key THEN <<Head(todo)>> ELSE <<>>]
    <2>1. PICK flag : flag = Head(todo) /\ flag # Null /\ flag.key \in Flags
        BY NextFlagStored
    <2>2. PICK key \in Flags : key = flag.key
        BY <2>1
    <2>3. stack' = <<Frame(flag)>>
          /\ reads' = [k \in Keys |-> IF k = key THEN <<flag>> ELSE <<>>]
        BY <1>4, <2>1, <2>2
    <2>4. Matched(stack', reads') /\ ReadsOK(reads')
        BY <2>1, <2>2, <2>3, StartMatched
    <2> QED
        BY <1>1, <1>2, <2>4, RunsCounts DEF MatchedInv, Running
<1> QED
    BY <1>3, <1>4 DEF NextFlag

LEMMA FinishAllFlagsCounts ==
    ASSUME IInv, CInv, FinishAllFlags
    PROVE  CInv'
<1>1. /\ Running /\ stack = <<>> /\ call.op # "variation"
      /\ UNCHANGED <<call, stack, counters, reads, evaluated>>
    BY DEF FinishAllFlags
<1>2. MatchedInv' /\ CountsEvaluations'
    BY <1>1 DEF MatchedInv, CountsEvaluations, CInv
<1> QED
    BY <1>1, <1>2 DEF CInv

\* LDi_evaluate returns to variation or to the loop of LDAllFlags.
LEMMA ReturnCInv ==
    ASSUME IInv, EInv, CInv, Return
    PROVE  CInv'
<1>1. /\ Running /\ Depth = 1 /\ stack' = <<>> /\ UNCHANGED <<call, reads>>
      /\ evaluated' = Append(evaluated, [flag |-> Top.flag, result |-> Top.result,
                                         events |-> Top.events, reads |-> reads])
    BY DEF Return
<1>2. Len(stack) = 1 /\ stack # <<>>
    <2>1. Len(stack) = 1 /\ Len(stack) # Len(<<>>)
        BY <1>1, EmptyIsSeq DEF Depth
    <2> QED
        BY <2>1
<1>3. counters = EmptyBag /\ ReadsOK(reads) /\ call # Null
    BY <1>1, <1>2 DEF CInv, Running
<1>4. MatchedInv'
    BY <1>1 DEF MatchedInv
<1>5. CASE call.op # "variation"
    <2>1. UNCHANGED counters
        BY <1>5 DEF Return
    <2>2. CountsEvaluations'
        BY <1>1, <1>3, <1>5, <2>1 DEF CountsEvaluations
    <2> QED
        BY <1>1, <1>3, <1>4, <1>5, <2>1, <2>2 DEF CInv
<1>6. CASE call.op = "variation"
    <2>1. PICK e : e = [flag |-> Top.flag, result |-> Top.result, events |-> Top.events,
                        reads |-> reads]
        OBVIOUS
    <2>2. evaluated = <<>>
        BY <1>2, <1>6 DEF CInv
    <2>3. evaluated' # <<>> /\ evaluated'[1] = e
        <3>1. evaluated' = Append(<<>>, e)
            BY <1>1, <2>1, <2>2
        <3> QED
            BY <3>1
    <2>4. CountsEvaluations'
        <3>1. CASE SendEvents
            <4>1. GoodStack(stack) /\ Working(stack)
                BY DEF IInv, EInv
            <4>2. Work(Top)
                BY <1>2, <4>1, TopWorks
            <4>3. ~Failed(Top) => Matched(stack, reads)
                BY <1>2 DEF CInv, MatchedInv
            <4>4. EvaluationCounted(e)'
                BY <1>2, <1>3, <1>6, <2>1, <3>1, <4>2, <4>3, ReturnCounts
            <4>5. EvaluationCounted(evaluated[1])'
                BY <2>3, <4>4 DEF EvaluationCounted
            <4>6. (call.op = "variation" /\ evaluated # <<>>)'
                BY <1>1, <1>6, <2>3
            <4> QED
                BY <4>5, <4>6, CountedShown, PTL
        <3>2. CASE ~SendEvents
            BY <3>2 DEF CountsEvaluations
        <3> QED
            BY <3>1, <3>2
    <2> QED
        BY <1>1, <1>3, <1>4, <1>6, <2>4 DEF CInv
<1> QED
    BY <1>5, <1>6

LEMMA NextCounts == IInv /\ EInv /\ CInv /\ [Next]_vars => CInv'
<1> SUFFICES ASSUME IInv, EInv, CInv, [Next]_vars PROVE CInv'
    OBVIOUS
<1>1. CASE Feed
    <2>1. UNCHANGED <<call, answer, counters, stack, reads, evaluated>>
        BY <1>1 DEF Feed, Put, Change, callVars
    <2> QED
        BY <2>1, StandsCounts
<1>2. ASSUME NEW user \in Users, NEW key \in Flags, NEW want \in Wanted,
             Variation(user, key, want)
      PROVE  CInv'
    BY <1>2, VariationCounts
<1>3. ASSUME NEW op \in {"allFlags", "allFlagsState"}, NEW user \in Users, NEW options,
             AllFlags(op, user, options)
      PROVE  CInv'
    BY <1>3, AllFlagsCounts
<1>4. CASE Step
    BY <1>4, NextFlagCounts, FinishAllFlagsCounts, SectionsCount, ReturnCInv
       DEF Step, Sections
<1>5. CASE UNCHANGED vars
    <2>1. UNCHANGED <<call, answer, counters, stack, reads, evaluated>>
        BY <1>5 DEF vars, callVars
    <2> QED
        BY <2>1, StandsCounts
<1> QED
    BY <1>1, <1>2, <1>3, <1>4, <1>5 DEF Next

-----------------------------------------------------------------------------
(* Least elements and induction over the natural numbers, with sets.         *)

LEMMA LeastNat ==
    ASSUME NEW S \in SUBSET Nat, S # {}
    PROVE  \E x \in S : \A y \in S : x <= y
<1> DEFINE R == {ss \in Nat \X Nat : ss[1] < ss[2]}
<1>1. IsWellFoundedOn(R, Nat)
    BY NatLessThanWellFounded DEF OpToRel
<1> HIDE DEF R
<1>2. PICK x \in S : \A y \in S : <<y, x>> \notin R
    BY <1>1, WFMin
<1>3. ASSUME NEW y \in S PROVE x <= y
    <2>1. <<y, x>> \notin R
        BY <1>2
    <2> QED
        BY <2>1 DEF R
<1> QED
    BY <1>3

LEMMA MinIsLeast ==
    ASSUME NEW S \in SUBSET Nat, S # {}
    PROVE  Min(S) \in S /\ \A y \in S : Min(S) <= y
BY LeastNat DEF Min

LEMMA MinIn ==
    ASSUME NEW n \in Nat, NEW S, S \subseteq 1..n, S # {}
    PROVE  Min(S) \in S /\ Min(S) \in 1..n
<1>1. S \in SUBSET Nat
    OBVIOUS
<1> QED
    BY <1>1, MinIsLeast

\* The least element is known when it is seen.
LEMMA MinIs ==
    ASSUME NEW S \in SUBSET Nat, NEW x \in S, \A y \in S : x <= y
    PROVE  Min(S) = x
<1>1. PICK m : m = Min(S)
    OBVIOUS
<1>2. m \in S /\ m <= x
    BY <1>1, MinIsLeast
<1>3. m \in Nat /\ x \in Nat /\ x <= m
    BY <1>2
<1> QED
    BY <1>1, <1>2, <1>3

LEMMA Induction ==
    ASSUME NEW S, 0 \in S, \A n \in Nat : n \in S => n + 1 \in S
    PROVE  Nat \subseteq S
<1> SUFFICES ASSUME Nat \ S # {} PROVE FALSE
    OBVIOUS
<1>1. PICK x \in Nat \ S : \A y \in Nat \ S : x <= y
    BY LeastNat
<1>2. x # 0 /\ x - 1 \in Nat
    BY <1>1
<1>3. x - 1 \in S
    BY <1>1, <1>2
<1> QED
    BY <1>1, <1>2, <1>3

-----------------------------------------------------------------------------
(* Clauses, segments and rollouts do what they mean.                         *)

Verdict(holds) == IF holds THEN "MATCH" ELSE "MISS"

LEMMA Negates ==
    ASSUME NEW clause, clause.negate # Bad, NEW holds \in BOOLEAN
    PROVE  maybeNegate(clause, Verdict(holds)) = Verdict(holds # (clause.negate = TRUE))
BY DEF maybeNegate, Verdict, LDi_isEvalError

LEMMA AnyMatches ==
    ASSUME NEW op, NEW v, NEW values
    PROVE  matchAny(op, v, values) = Verdict(\E c \in Range(values) : Holds(op, v, c))
BY DEF matchAny, Verdict, Range

\* The search through an array stops at the first element that matches or is
\* a collection.
LEMMA ArrayVerdict ==
    ASSUME NEW clause, clause.negate # Bad, NEW v, v.type = "array", IsSeq(v.elements)
    PROVE  LET hits == {i \in DOMAIN v.elements :
                           \E c \in Range(clause.values) : Holds(clause.op, v.elements[i], c)}
               nested == {i \in DOMAIN v.elements : Nested(v.elements[i])}
           IN  ArrayMatches(clause, v.elements) =
                 Verdict(/\ \A j \in nested : \E i \in hits : i < j
                         /\ (hits # {}) # (clause.negate = TRUE))
<1> DEFINE hits == {i \in DOMAIN v.elements :
                       \E c \in Range(clause.values) : Holds(clause.op, v.elements[i], c)}
           nested == {i \in DOMAIN v.elements : Nested(v.elements[i])}
           stops == {i \in 1..Len(v.elements) :
                       Nested(v.elements[i])
                       \/ matchAny(clause.op, v.elements[i], clause.values) = "MATCH"}
           first == \A j \in nested : \E i \in hits : i < j
           some == (hits # {}) # (clause.negate = TRUE)
<1>0. Len(v.elements) \in Nat /\ DOMAIN v.elements = 1..Len(v.elements)
    BY IsSeqLen
<1>1. stops = hits \cup nested
    <2>1. \A i : (matchAny(clause.op, v.elements[i], clause.values) = "MATCH")
                 <=> \E c \in Range(clause.values) : Holds(clause.op, v.elements[i], c)
        BY AnyMatches DEF Verdict
    <2> QED
        BY <1>0, <2>1
<1>2. stops \in SUBSET Nat
    BY <1>0
<1>3. ArrayMatches(clause, v.elements) =
        IF stops = {} THEN maybeNegate(clause, "MISS")
        ELSE IF Nested(v.elements[Min(stops)]) THEN "MISS"
        ELSE maybeNegate(clause, "MATCH")
    <2>1. SelectInSeq(v.elements, LAMBDA w :
              Nested(w) \/ matchAny(clause.op, w, clause.values) = "MATCH")
            = IF stops # {} THEN Min(stops) ELSE 0
        BY DEF SelectInSeq
    <2>2. stops # {} => Min(stops) # 0
        <3>1. ASSUME stops # {} PROVE Min(stops) \in 1..Len(v.elements)
            BY <1>2, <3>1, MinIsLeast
        <3> QED
            BY <1>0, <3>1
    <2> QED
        BY <2>1, <2>2 DEF ArrayMatches
<1> HIDE DEF stops
<1>4. CASE stops = {}
    <2>1. hits = {} /\ nested = {}
        BY <1>1, <1>4
    <2>2. maybeNegate(clause, "MISS") = Verdict(FALSE # (clause.negate = TRUE))
        BY Negates DEF Verdict
    <2>3. (first /\ some) <=> (FALSE # (clause.negate = TRUE))
        BY <2>1
    <2> QED
        BY <1>3, <1>4, <2>2, <2>3 DEF Verdict
<1>5. CASE stops # {}
    <2>1. PICK m : m = Min(stops)
        OBVIOUS
    <2>2. m \in stops /\ \A y \in stops : m <= y
        BY <1>2, <1>5, <2>1, MinIsLeast
    <2>3. hits \subseteq Nat /\ nested \subseteq Nat /\ m \in Nat
        BY <1>1, <1>2, <2>2
    <2>4. CASE Nested(v.elements[m])
        <3>1. m \in nested
            BY <1>0, <1>1, <2>2, <2>4
        <3>2. \A i \in hits : ~(i < m)
            BY <1>1, <2>2, <2>3
        <3>3. ~first
            BY <3>1, <3>2
        <3> QED
            BY <1>3, <1>5, <2>1, <2>4, <3>3 DEF Verdict
    <2>5. CASE ~Nested(v.elements[m])
        <3>1. m \in hits
            BY <1>1, <2>2, <2>5
        <3>2. \A j \in nested : m < j
            <4>1. \A j \in nested : m <= j /\ m # j
                BY <1>1, <2>2, <2>5
            <4> QED
                BY <2>3, <4>1
        <3>3. first
            BY <3>1, <3>2
        <3>4. maybeNegate(clause, "MATCH") = Verdict(TRUE # (clause.negate = TRUE))
            BY Negates DEF Verdict
        <3>5. (first /\ some) <=> (TRUE # (clause.negate = TRUE))
            BY <3>1, <3>3
        <3> QED
            BY <1>3, <1>5, <2>1, <2>5, <3>4, <3>5 DEF Verdict
    <2> QED
        BY <2>4, <2>5
<1> QED
    BY <1>4, <1>5

\* The user's attributes that are arrays are sequences.
LEMMA AttributeOK ==
    ASSUME NEW user \in Users, NEW a, NEW v, v = LDi_valueOfAttribute(user, a),
           v # Null, v.type = "array"
    PROVE  IsSeq(v.elements)
BY UsersAssumption DEF LDi_valueOfAttribute

\* A clause, with its operator, its negation and the search through arrays,
\* matches exactly when it holds.
LEMMA ClauseVerdict ==
    ASSUME NEW user \in Users, NEW clause, ClauseOK(clause)
    PROVE  LDi_clauseMatchesUserNoSegments(clause, user) = Verdict(ClauseHolds(clause, user))
<1>0. /\ clause # Bad /\ clause.op # Bad /\ clause.attribute # Bad
      /\ clause.negate # Bad /\ clause.values # Bad
    BY DEF ClauseOK
<1>1. PICK v : v = LDi_valueOfAttribute(user, clause.attribute)
    OBVIOUS
<1>2. CASE ~LDi_lookupOperation(clause.op) \/ v = Null
    <2>1. LDi_clauseMatchesUserNoSegments(clause, user) = "MISS"
        BY <1>0, <1>1, <1>2 DEF LDi_clauseMatchesUserNoSegments
    <2>2. ~ClauseHolds(clause, user)
        BY <1>1, <1>2 DEF ClauseHolds
    <2> QED
        BY <2>1, <2>2 DEF Verdict
<1>3. CASE LDi_lookupOperation(clause.op) /\ v # Null /\ v.type = "array"
    <2>1. LDi_clauseMatchesUserNoSegments(clause, user) = ArrayMatches(clause, v.elements)
        BY <1>0, <1>1, <1>3 DEF LDi_clauseMatchesUserNoSegments
    <2>2. IsSeq(v.elements)
        BY <1>1, <1>3, AttributeOK
    <2> DEFINE hits == {i \in DOMAIN v.elements :
                       \E c \in Range(clause.values) : Holds(clause.op, v.elements[i], c)}
               nested == {i \in DOMAIN v.elements : Nested(v.elements[i])}
               some == (hits # {}) # (clause.negate = TRUE)
    <2>3. ArrayMatches(clause, v.elements) =
            Verdict((\A j \in nested : \E i \in hits : i < j) /\ some)
        BY <1>0, <1>3, <2>2, ArrayVerdict
    <2>4. Elements(v) = v.elements
        BY <1>3 DEF Elements
    <2>5. ClauseHolds(clause, user) = ((\A j \in nested : \E i \in hits : i < j) /\ some)
        BY <1>1, <1>3, <2>4 DEF ClauseHolds
    <2> QED
        BY <2>1, <2>3, <2>5
<1>4. CASE LDi_lookupOperation(clause.op) /\ v # Null /\ v.type # "array"
    <2> DEFINE any == \E c \in Range(clause.values) : Holds(clause.op, v, c)
    <2>1. LDi_clauseMatchesUserNoSegments(clause, user) =
            maybeNegate(clause, matchAny(clause.op, v, clause.values))
        BY <1>0, <1>1, <1>4 DEF LDi_clauseMatchesUserNoSegments
    <2>2. matchAny(clause.op, v, clause.values) = Verdict(any)
        BY AnyMatches
    <2>3. maybeNegate(clause, Verdict(any)) = Verdict(any # (clause.negate = TRUE))
        BY <1>0, Negates
    <2>4. Elements(v) = <<v>> /\ DOMAIN Elements(v) = {1} /\ Elements(v)[1] = v
        BY <1>4 DEF Elements
    <2>5. ({i \in DOMAIN Elements(v) :
               \E c \in Range(clause.values) : Holds(clause.op, Elements(v)[i], c)} # {}) = any
        BY <2>4
    <2>6. {i \in DOMAIN Elements(v) : v.type = "array" /\ Nested(Elements(v)[i])} = {}
        BY <1>4
    <2>7. ClauseHolds(clause, user) = (any # (clause.negate = TRUE))
        BY <1>1, <1>4, <2>5, <2>6 DEF ClauseHolds
    <2> QED
        BY <2>1, <2>2, <2>3, <2>7
<1> QED
    BY <1>2, <1>3, <1>4

\* The first clause that does not match decides.
LEMMA ClausesVerdict ==
    ASSUME NEW user \in Users, NEW clauses, ClausesOK(clauses)
    PROVE  AllMatch([i \in DOMAIN clauses |->
               LDi_clauseMatchesUserNoSegments(clauses[i], user)])
             = Verdict(\A clause \in Range(clauses) : ClauseHolds(clause, user))
<1> DEFINE statuses == [i \in DOMAIN clauses |->
                           LDi_clauseMatchesUserNoSegments(clauses[i], user)]
           misses == {i \in 1..Len(statuses) : statuses[i] # "MATCH"}
           all == \A clause \in Range(clauses) : ClauseHolds(clause, user)
<1>0. IsSeq(clauses) /\ Len(clauses) \in Nat /\ DOMAIN clauses = 1..Len(clauses)
    BY IsSeqLen DEF ClausesOK
<1>1. \A i \in DOMAIN clauses : statuses[i] = Verdict(ClauseHolds(clauses[i], user))
    <2> SUFFICES ASSUME NEW i \in DOMAIN clauses
                 PROVE  statuses[i] = Verdict(ClauseHolds(clauses[i], user))
        OBVIOUS
    <2>1. ClauseOK(clauses[i])
        BY DEF ClausesOK, Range
    <2> QED
        BY <2>1, ClauseVerdict
<1>2. Len(statuses) = Len(clauses)
    BY <1>0
<1>3. misses \subseteq 1..Len(clauses)
    BY <1>2
<1>4. AllMatch(statuses) = IF misses = {} THEN "MATCH" ELSE statuses[Min(misses)]
    <2>1. SelectInSeq(statuses, LAMBDA s : s # "MATCH")
            = IF misses # {} THEN Min(misses) ELSE 0
        BY DEF SelectInSeq
    <2>2. ASSUME misses # {} PROVE Min(misses) \in 1..Len(clauses)
        <3> HIDE DEF misses
        <3> QED
            BY <1>0, <1>2, <1>3, <2>2, MinIn
    <2> HIDE DEF misses, statuses
    <2> QED
        BY <1>0, <2>1, <2>2 DEF AllMatch
<1> HIDE DEF statuses
<1>5. CASE misses = {}
    <2>1. all
        BY <1>0, <1>1, <1>2, <1>5 DEF Range, Verdict
    <2> QED
        BY <1>4, <1>5, <2>1 DEF Verdict, statuses
<1>6. CASE misses # {}
    <2>1. PICK m : m = Min(misses)
        OBVIOUS
    <2>2. m \in misses
        <3> HIDE DEF misses
        <3> QED
            BY <1>0, <1>3, <1>6, <2>1, MinIn
    <2>3. m \in DOMAIN clauses /\ statuses[m] = "MISS" /\ ~ClauseHolds(clauses[m], user)
        BY <1>0, <1>1, <1>2, <2>2 DEF Verdict
    <2>4. ~all
        BY <2>3 DEF Range
    <2> QED
        BY <1>4, <1>6, <2>1, <2>3, <2>4 DEF Verdict, statuses
<1> QED
    BY <1>5, <1>6

\* A rule of a segment: its clauses and its share of the users.
SegmentRuleHas(rule, key, user) ==
    /\ \A clause \in Range(rule.clauses) : ClauseHolds(clause, user)
    /\ \/ rule.weight = Null
       \/ LDi_bucketUser(user, LDi_getBucketAttribute(rule), key) < rule.weight

LEMMA SegmentRuleVerdict ==
    ASSUME NEW user \in Users, NEW rule, NEW key,
           ClausesOK(rule.clauses), Bad \notin {rule.weight, rule.bucketBy}
    PROVE  LDi_segmentRuleMatchUser(rule, key, user) = Verdict(SegmentRuleHas(rule, key, user))
<1> DEFINE all == \A clause \in Range(rule.clauses) : ClauseHolds(clause, user)
           status == AllMatch([i \in DOMAIN rule.clauses |->
                         LDi_clauseMatchesUserNoSegments(rule.clauses[i], user)])
<1>1. status = Verdict(all)
    BY ClausesVerdict
<1>2. rule.clauses # Bad /\ rule.weight # Bad /\ LDi_getBucketAttribute(rule) # Bad
    BY AbsentAssumption DEF ClausesOK, LDi_getBucketAttribute
<1>3. LDi_segmentRuleMatchUser(rule, key, user) =
        IF status # "MATCH" THEN status
        ELSE IF rule.weight = Null THEN "MATCH"
        ELSE IF LDi_bucketUser(user, LDi_getBucketAttribute(rule), key) < rule.weight
        THEN "MATCH"
        ELSE "MISS"
    BY <1>2 DEF LDi_segmentRuleMatchUser
<1> HIDE DEF status, all
<1>4. SegmentRuleHas(rule, key, user) =
        (all /\ (\/ rule.weight = Null
                 \/ LDi_bucketUser(user, LDi_getBucketAttribute(rule), key) < rule.weight))
    BY DEF SegmentRuleHas, all
<1> QED
    BY <1>1, <1>3, <1>4 DEF Verdict

\* A segment has the users it includes and, of those it does not exclude, the
\* ones that one of its rules has.
LEMMA SegmentVerdict ==
    ASSUME NEW user \in Users, NEW segment, SegmentOK(segment)
    PROVE  LDi_segmentMatchesUser(segment, user) = Verdict(SegmentHas(segment, user))
<1>0. /\ segment.included # Bad /\ segment.excluded # Bad /\ segment.rules # Bad
      /\ segment.salt \notin {Null, Bad}
    BY DEF SegmentOK
<1>1. CASE user.key \in segment.included
    BY <1>0, <1>1 DEF LDi_segmentMatchesUser, SegmentHas, Verdict
<1>2. CASE user.key \notin segment.included
           /\ (user.key \in segment.excluded \/ segment.rules = Null)
    BY <1>0, <1>2 DEF LDi_segmentMatchesUser, SegmentHas, Verdict
<1>3. CASE user.key \notin segment.included
           /\ user.key \notin segment.excluded /\ segment.rules # Null
    <2> DEFINE of(rule) == IF rule = Bad THEN "SCHEMA"
                           ELSE LDi_segmentRuleMatchUser(rule, segment.key, user)
               stops == {i \in 1..Len(segment.rules) : of(segment.rules[i]) # "MISS"}
               some == \E rule \in Range(segment.rules) :
                           SegmentRuleHas(rule, segment.key, user)
    <2>1. IsSeq(segment.rules)
        BY <1>3 DEF SegmentOK
    <2>2. Len(segment.rules) \in Nat /\ DOMAIN segment.rules = 1..Len(segment.rules)
        BY <2>1, IsSeqLen
    <2>3. ASSUME NEW i \in DOMAIN segment.rules
          PROVE  of(segment.rules[i]) = Verdict(SegmentRuleHas(segment.rules[i], segment.key, user))
        <3>1. PICK r : r = segment.rules[i]
            OBVIOUS
        <3>2. r \in Range(segment.rules)
            BY <3>1 DEF Range
        <3>3. r # Bad /\ ClausesOK(r.clauses) /\ Bad \notin {r.weight, r.bucketBy}
            BY <1>3, <3>2 DEF SegmentOK
        <3>4. of(r) = LDi_segmentRuleMatchUser(r, segment.key, user)
            BY <3>3
        <3> QED
            BY <3>1, <3>3, <3>4, SegmentRuleVerdict
    <2>4. LDi_segmentMatchesUser(segment, user) =
            IF stops = {} THEN "MISS" ELSE of(segment.rules[Min(stops)])
        <3>1. SelectInSeq(segment.rules, LAMBDA rule : of(rule) # "MISS")
                = IF stops # {} THEN Min(stops) ELSE 0
            BY DEF SelectInSeq
        <3>2. ASSUME stops # {} PROVE Min(stops) \in 1..Len(segment.rules)
            <4>1. stops \subseteq 1..Len(segment.rules)
                OBVIOUS
            <4> HIDE DEF stops
            <4> QED
                BY <2>2, <3>2, <4>1, MinIn
        <3>3. LDi_segmentMatchesUser(segment, user) =
                LET i == SelectInSeq(segment.rules, LAMBDA rule : of(rule) # "MISS")
                IN  IF i = 0 THEN "MISS" ELSE of(segment.rules[i])
            BY <1>0, <1>3 DEF LDi_segmentMatchesUser
        <3> HIDE DEF stops, of
        <3> QED
            BY <2>2, <3>1, <3>2, <3>3
    <2>5. SegmentHas(segment, user) = some
        BY <1>3 DEF SegmentHas, SegmentRuleHas
    <2> HIDE DEF of
    <2>6. CASE stops = {}
        <3>1. ~some
            BY <2>2, <2>3, <2>6 DEF Range, Verdict
        <3> QED
            BY <2>4, <2>5, <2>6, <3>1 DEF Verdict
    <2>7. CASE stops # {}
        <3>1. PICK m : m = Min(stops)
            OBVIOUS
        <3>2. m \in stops
            <4>1. stops \subseteq 1..Len(segment.rules)
                OBVIOUS
            <4> HIDE DEF stops
            <4> QED
                BY <2>2, <2>7, <3>1, <4>1, MinIn
        <3>3. m \in DOMAIN segment.rules /\ of(segment.rules[m]) = "MATCH"
              /\ SegmentRuleHas(segment.rules[m], segment.key, user)
            BY <2>2, <2>3, <3>2 DEF Verdict
        <3>4. some
            BY <3>3 DEF Range
        <3> QED
            BY <2>4, <2>5, <2>7, <3>1, <3>3, <3>4 DEF Verdict
    <2> QED
        BY <2>6, <2>7
<1> QED
    BY <1>1, <1>2, <1>3

-----------------------------------------------------------------------------
(* Sums of weights.                                                          *)

\* f sums up the first n of the weights.
IsSum(f, weights, n) ==
    f = [i \in 0..n |-> IF i = 0 THEN 0 ELSE f[i - 1] + weights[i].weight]

LEMMA SumSteps ==
    ASSUME NEW f, NEW weights, NEW n \in Nat, IsSum(f, weights, n)
    PROVE  f[0] = 0 /\ \A i \in 1..n : f[i] = f[i - 1] + weights[i].weight
BY DEF IsSum

LEMMA SumExists ==
    ASSUME NEW weights, NEW n \in Nat, \A i \in 1..n : weights[i].weight \in Nat
    PROVE  \E f \in [0..n -> Nat] : IsSum(f, weights, n)
<1> DEFINE S == {m \in Nat : m <= n => \E f \in [0..m -> Nat] : IsSum(f, weights, m)}
<1>1. 0 \in S
    <2>1. PICK f : f = [i \in 0..0 |-> 0]
        OBVIOUS
    <2>2. f \in [0..0 -> Nat] /\ IsSum(f, weights, 0)
        BY <2>1 DEF IsSum
    <2> QED
        BY <2>2
<1>2. ASSUME NEW m \in Nat, m \in S PROVE m + 1 \in S
    <2> SUFFICES ASSUME m + 1 <= n PROVE \E f \in [0..(m + 1) -> Nat] : IsSum(f, weights, m + 1)
        OBVIOUS
    <2>1. PICK f \in [0..m -> Nat] : IsSum(f, weights, m)
        BY <1>2
    <2>2. PICK g : g = [i \in 0..(m + 1) |->
                          IF i = m + 1 THEN f[m] + weights[m + 1].weight ELSE f[i]]
        OBVIOUS
    <2>3. weights[m + 1].weight \in Nat
        OBVIOUS
    <2>4. g \in [0..(m + 1) -> Nat]
        BY <2>1, <2>2, <2>3
    <2>5. \A i \in 0..(m + 1) : g[i] = IF i = 0 THEN 0 ELSE g[i - 1] + weights[i].weight
        <3> SUFFICES ASSUME NEW i \in 0..(m + 1)
                     PROVE  g[i] = IF i = 0 THEN 0 ELSE g[i - 1] + weights[i].weight
            OBVIOUS
        <3>1. CASE i = m + 1
            BY <2>2, <3>1
        <3>2. CASE i # m + 1
            <4>1. i \in 0..m /\ (i # 0 => i - 1 \in 0..m)
                BY <3>2
            <4>2. f[i] = IF i = 0 THEN 0 ELSE f[i - 1] + weights[i].weight
                BY <2>1, <4>1 DEF IsSum
            <4> QED
                BY <2>2, <4>1, <4>2
        <3> QED
            BY <3>1, <3>2
    <2>6. IsSum(g, weights, m + 1)
        BY <2>4, <2>5 DEF IsSum
    <2> QED
        BY <2>4, <2>6
<1>3. n \in S
    <2> HIDE DEF S
    <2> QED
        BY <1>1, <1>2, Induction
<1> QED
    BY <1>3

\* Sums are sums of natural numbers and do not decrease.
LEMMA SumGrows ==
    ASSUME NEW weights, NEW n \in Nat, \A i \in 1..n : weights[i].weight \in Nat,
           NEW f, IsSum(f, weights, n)
    PROVE  /\ \A i \in 0..n : f[i] \in Nat
           /\ \A i, j \in 0..n : i <= j => f[i] <= f[j]
<1>0. /\ f[0] = 0
      /\ \A i \in 1..n : f[i] = f[i - 1] + weights[i].weight
    BY SumSteps
<1> DEFINE S == {m \in Nat : m <= n => \A i \in 0..m : f[i] \in Nat /\ f[i] <= f[m]}
<1>1. 0 \in S
    BY <1>0
<1>2. ASSUME NEW m \in Nat, m \in S PROVE m + 1 \in S
    <2> SUFFICES ASSUME m + 1 <= n, NEW i \in 0..(m + 1)
                 PROVE  f[i] \in Nat /\ f[i] <= f[m + 1]
        OBVIOUS
    <2>1. \A l \in 0..m : f[l] \in Nat /\ f[l] <= f[m]
        BY <1>2
    <2>2. f[m + 1] = f[m] + weights[m + 1].weight /\ weights[m + 1].weight \in Nat
        BY <1>0
    <2>3. f[m] \in Nat /\ f[m + 1] \in Nat /\ f[m] <= f[m + 1]
        BY <2>1, <2>2
    <2>4. CASE i = m + 1
        BY <2>3, <2>4
    <2>5. CASE i # m + 1
        <3>1. f[i] \in Nat /\ f[i] <= f[m]
            BY <2>1, <2>5
        <3> QED
            BY <2>3, <3>1
    <2> QED
        BY <2>4, <2>5
<1>3. \A m \in 0..n : m \in S
    <2> HIDE DEF S
    <2> QED
        BY <1>1, <1>2, Induction
<1> QED
    BY <1>3

\* There is one sum.
LEMMA SumUnique ==
    ASSUME NEW weights, NEW n \in Nat,
           NEW f, IsSum(f, weights, n), NEW g, IsSum(g, weights, n)
    PROVE  f = g
<1>0. /\ f[0] = 0 /\ \A i \in 1..n : f[i] = f[i - 1] + weights[i].weight
      /\ g[0] = 0 /\ \A i \in 1..n : g[i] = g[i - 1] + weights[i].weight
    BY SumSteps
<1> DEFINE S == {m \in Nat : m <= n => f[m] = g[m]}
<1>1. 0 \in S
    BY <1>0
<1>2. ASSUME NEW m \in Nat, m \in S PROVE m + 1 \in S
    BY <1>0, <1>2
<1>3. \A m \in 0..n : m \in S
    <2> HIDE DEF S
    <2> QED
        BY <1>1, <1>2, Induction
<1>4. \A m \in 0..n : f[m] = g[m]
    BY <1>3
<1>5. /\ f = [i \in 0..n |-> f[i]] /\ g = [i \in 0..n |-> g[i]]
    BY DEF IsSum
<1> QED
    BY <1>4, <1>5

\* What PickWeighted gives, with the sums of the weights.
Picked(f, variations, bucket, experiment) ==
    LET hits == {i \in DOMAIN variations : variations[i] = Bad \/ bucket < f[i]}
        i == IF hits = {} THEN Len(variations) ELSE Min(hits)
    IN  IF variations[i] = Bad THEN SchemaError
        ELSE [ok |-> TRUE, index |-> variations[i].variation,
              inExperiment |-> experiment /\ variations[i].untracked # TRUE]

LEMMA PickUnfolds ==
    ASSUME NEW variations, NEW bucket, NEW experiment, Len(variations) \in Nat,
           \A i \in 1..Len(variations) : variations[i] # Bad /\ variations[i].weight \in Nat
    PROVE  \E f : /\ IsSum(f, variations, Len(variations))
                  /\ PickWeighted(variations, bucket, experiment) =
                       Picked(f, variations, bucket, experiment)
<1> DEFINE n == Len(variations)
           P(f) == f = [i \in 0..n |-> IF i = 0 THEN 0
                           ELSE IF variations[i] = Bad THEN f[i - 1]
                           ELSE f[i - 1] + variations[i].weight]
           up == CHOOSE f : P(f)
<1>1. \A f : P(f) <=> IsSum(f, variations, n)
    <2> SUFFICES ASSUME NEW f PROVE P(f) <=> IsSum(f, variations, n)
        OBVIOUS
    <2>1. [i \in 0..n |-> IF i = 0 THEN 0
                           ELSE IF variations[i] = Bad THEN f[i - 1]
                           ELSE f[i - 1] + variations[i].weight]
          = [i \in 0..n |-> IF i = 0 THEN 0 ELSE f[i - 1] + variations[i].weight]
        OBVIOUS
    <2> QED
        BY <2>1 DEF IsSum
<1>2. \E f : P(f)
    <2>1. \E f : IsSum(f, variations, n)
        BY SumExists
    <2> HIDE DEF P
    <2> QED
        BY <1>1, <2>1
<1>3. P(up)
    <2> HIDE DEF P
    <2> QED
        BY <1>2
<1>4. PickWeighted(variations, bucket, experiment) =
        Picked(up, variations, bucket, experiment)
    BY DEF PickWeighted, Picked
<1>5. IsSum(up, variations, n)
    <2> HIDE DEF P, up
    <2> QED
        BY <1>1, <1>3
<1> HIDE DEF up
<1> QED
    BY <1>4, <1>5
LEMMA ShareUnfolds ==
    ASSUME NEW rollout, NEW bucket, Len(rollout.variations) \in Nat,
           \A i \in 1..Len(rollout.variations) : rollout.variations[i].weight \in Nat
    PROVE  \E f : /\ IsSum(f, rollout.variations, Len(rollout.variations))
                  /\ Share(rollout, bucket) =
                       CHOOSE i \in 1..Len(rollout.variations) :
                          \/ f[i - 1] <= bucket /\ bucket < f[i]
                          \/ /\ i = Len(rollout.variations)
                             /\ f[Len(rollout.variations)] <= bucket
<1> DEFINE n == Len(rollout.variations)
           P(f) == f = [i \in 0..n |-> IF i = 0 THEN 0
                                      ELSE f[i - 1] + rollout.variations[i].weight]
           end == CHOOSE f : P(f)
<1>1. \A f : P(f) <=> IsSum(f, rollout.variations, n)
    BY DEF IsSum
<1>2. \E f : IsSum(f, rollout.variations, n)
    BY SumExists
<1>3. IsSum(end, rollout.variations, n)
    <2> HIDE DEF P
    <2> QED
        BY <1>1, <1>2
<1>4. Share(rollout, bucket) =
        CHOOSE i \in 1..n : \/ end[i - 1] <= bucket /\ bucket < end[i]
                            \/ i = n /\ end[n] <= bucket
    BY DEF Share
<1> HIDE DEF end
<1> QED
    BY <1>3, <1>4

\* The loop over the shares stops at the share that holds the bucket.
LEMMA PickVerdict ==
    ASSUME NEW rollout, NEW bucket \in Nat, NEW experiment,
           IsSeq(rollout.variations), rollout.variations # <<>>,
           \A w \in Range(rollout.variations) : w # Bad /\ w.weight \in Nat
    PROVE  /\ Share(rollout, bucket) \in DOMAIN rollout.variations
           /\ \E in : PickWeighted(rollout.variations, bucket, experiment) =
                    [ok |-> TRUE, inExperiment |-> in,
                     index |-> rollout.variations[Share(rollout, bucket)].variation]
<1>1. PICK ws : ws = rollout.variations
    OBVIOUS
<1>2. PICK n : n = Len(ws)
    OBVIOUS
<1>3. n \in Nat /\ n >= 1 /\ DOMAIN ws = 1..n
    BY <1>1, <1>2, IsSeqLen, NonEmpty
<1>4. \A i \in 1..n : ws[i] # Bad /\ ws[i].weight \in Nat
    BY <1>1, <1>3 DEF Range
<1>5. PICK f : /\ IsSum(f, ws, n)
               /\ PickWeighted(ws, bucket, experiment) = Picked(f, ws, bucket, experiment)
    BY <1>2, <1>3, <1>4, PickUnfolds
<1> DEFINE Holder(i) == (f[i - 1] <= bucket /\ bucket < f[i]) \/ (i = n /\ f[n] <= bucket)
<1>6. Share(rollout, bucket) = CHOOSE i \in 1..n : Holder(i)
    <2>1. PICK g : /\ IsSum(g, ws, n)
                   /\ Share(rollout, bucket) =
                       CHOOSE i \in 1..n : \/ g[i - 1] <= bucket /\ bucket < g[i]
                                           \/ i = n /\ g[n] <= bucket
        BY <1>1, <1>2, <1>3, <1>4, ShareUnfolds
    <2>2. g = f
        BY <1>3, <1>5, <2>1, SumUnique
    <2> QED
        BY <2>1, <2>2
<1>7. /\ f[0] = 0
      /\ \A i \in 0..n : f[i] \in Nat
      /\ \A i, j \in 0..n : i <= j => f[i] <= f[j]
    <2>1. f[0] = 0
        BY <1>3, <1>5, SumSteps
    <2> QED
        BY <1>3, <1>4, <1>5, <2>1, SumGrows
<1> DEFINE hits == {i \in 1..n : bucket < f[i]}
<1>8. {i \in DOMAIN ws : ws[i] = Bad \/ bucket < f[i]} = hits
    BY <1>3, <1>4
<1>9. PICK m : m = IF hits = {} THEN n ELSE Min(hits)
    OBVIOUS
<1>10. m \in 1..n /\ Holder(m) /\ \A i \in 1..n : Holder(i) => i = m
    <2>1. CASE hits = {}
        <3>1. m = n /\ ~(bucket < f[n])
            BY <1>3, <1>9, <2>1
        <3>2. f[n] <= bucket
            BY <1>3, <1>7, <3>1
        <3> QED
            BY <1>3, <2>1, <3>1, <3>2
    <2>2. CASE hits # {}
        <3>1. hits \in SUBSET Nat /\ hits \subseteq 1..n
            OBVIOUS
        <3>2. m \in hits /\ \A y \in hits : m <= y
            BY <1>9, <2>2, <3>1, MinIsLeast
        <3>3. m \in 1..n /\ bucket < f[m] /\ m - 1 \in 0..n
            BY <1>3, <3>2
        <3>4. f[m - 1] <= bucket
            <4>1. CASE m = 1
                BY <1>7, <4>1
            <4>2. CASE m # 1
                <5>1. m - 1 \in 1..n /\ m - 1 \notin hits
                    BY <1>3, <3>2, <3>3, <4>2
                <5> QED
                    BY <1>7, <3>3, <5>1
            <4> QED
                BY <4>1, <4>2
        <3>5. ASSUME NEW i \in 1..n, Holder(i) PROVE i = m
            <4>1. i \in 0..n /\ i - 1 \in 0..n /\ m \in 0..n
                BY <1>3, <3>3
            <4>2. f[m] <= f[n]
                BY <1>3, <1>7, <3>3
            <4>3. ~(f[n] <= bucket)
                BY <1>3, <1>7, <3>3, <4>1, <4>2
            <4>4. f[i - 1] <= bucket /\ bucket < f[i]
                BY <3>5, <4>3
            <4>5. m <= i
                BY <3>2, <4>4
            <4>6. ~(m <= i - 1)
                <5>1. ASSUME m <= i - 1 PROVE FALSE
                    <6>1. f[m] <= f[i - 1]
                        BY <1>7, <4>1, <5>1
                    <6> QED
                        BY <1>7, <3>3, <4>1, <4>4, <6>1
                <5> QED
                    BY <5>1
            <4> QED
                BY <4>1, <4>5, <4>6
        <3> QED
            BY <3>3, <3>4, <3>5
    <2> QED
        BY <2>1, <2>2
<1>11. Share(rollout, bucket) = m
    <2> HIDE DEF Holder
    <2> QED
        BY <1>6, <1>10
<1>12. PickWeighted(ws, bucket, experiment) =
         IF ws[m] = Bad THEN SchemaError
         ELSE [ok |-> TRUE, index |-> ws[m].variation,
               inExperiment |-> experiment /\ ws[m].untracked # TRUE]
    BY <1>2, <1>5, <1>8, <1>9 DEF Picked
<1> QED
    BY <1>1, <1>3, <1>4, <1>10, <1>11, <1>12

\* A user's bucket is a number.
LEMMA BucketOK ==
    ASSUME NEW user \in Users, NEW attribute, NEW id \in HashIds
    PROVE  LDi_bucketUser(user, attribute, id) \in Nat
<1>1. CASE attribute \in DOMAIN user.attrs
    <2>1. Hash[<<user.key, attribute, id>>] \in 0..Scale
        BY <1>1, HashAssumption
    <2> QED
        <3>1. PICK h : h = Hash[<<user.key, attribute, id>>]
            OBVIOUS
        <3>2. h \in Nat
            <4>1. h \in 0..Scale
                BY <2>1, <3>1
            <4> QED
                BY <4>1 DEF Scale
        <3>3. LDi_bucketUser(user, attribute, id) \in {h, 0}
            BY <3>1 DEF LDi_bucketUser
        <3> QED
            BY <3>2, <3>3
<1>2. CASE attribute \notin DOMAIN user.attrs
    BY <1>2 DEF LDi_bucketUser, LDi_valueOfAttribute
<1> QED
    BY <1>1, <1>2

\* What is served, by a variation or a rollout, is a variation of the flag.
LEMMA ServeVerdict ==
    ASSUME NEW user \in Users, NEW flag, flag.key \in Flags, FlagOK(flag),
           NEW serve, ServeOK(flag, serve)
    PROVE  /\ LDi_getIndexForVariationOrRollout(flag, serve, user).ok = TRUE
           /\ LDi_getIndexForVariationOrRollout(flag, serve, user).index
                = Served(serve, flag, user)
           /\ Served(serve, flag, user) \in 0..(Len(flag.variations) - 1)
<1>0. PICK pick : pick = LDi_getIndexForVariationOrRollout(flag, serve, user)
    OBVIOUS
<1>1. pick = LDi_variationIndexForUser(serve, user, flag.key)
    BY <1>0 DEF LDi_getIndexForVariationOrRollout, FlagOK
<1>2. Len(flag.variations) \in Nat
    BY IsSeqLen DEF FlagOK
<1>3. CASE serve.variation # Null
    <2>1. serve.variation \in 0..(Len(flag.variations) - 1)
        BY <1>3 DEF ServeOK
    <2>2. serve.variation # Bad
        BY <1>2, <2>1, AbsentAssumption
    <2> QED
        BY <1>0, <1>1, <1>3, <2>1, <2>2 DEF LDi_variationIndexForUser, Served
<1>4. CASE serve.variation = Null
    <2>1. PICK rollout : rollout = serve.rollout
        OBVIOUS
    <2>2. /\ rollout \notin {Null, Bad} /\ rollout.kind # Bad /\ rollout.seed # Bad
          /\ rollout.bucketBy # Bad
          /\ rollout.variations \notin {Null, Bad, <<>>} /\ IsSeq(rollout.variations)
          /\ rollout.seed \in {Null} \cup HashIds
          /\ \A w \in Range(rollout.variations) :
                w # Bad /\ w.variation \in 0..(Len(flag.variations) - 1) /\ w.weight \in Nat
        BY <1>4, <2>1 DEF ServeOK
    <2>3. LDi_getBucketAttribute(rollout) # Bad
        BY <2>2, AbsentAssumption DEF LDi_getBucketAttribute
    <2>4. PICK id : id = IF rollout.seed # Null THEN rollout.seed ELSE flag.key
        OBVIOUS
    <2>5. id \in HashIds
        BY <2>2, <2>4, HashAssumption DEF Keys
    <2>6. PICK bucket : bucket = LDi_bucketUser(user, LDi_getBucketAttribute(rollout), id)
        OBVIOUS
    <2>7. bucket \in Nat
        BY <2>5, <2>6, BucketOK
    <2>8. pick = PickWeighted(rollout.variations, bucket, rollout.kind = "experiment")
        BY <1>1, <1>4, <2>1, <2>2, <2>3, <2>4, <2>6, AbsentAssumption
           DEF LDi_variationIndexForUser
    <2>9. PICK i : i = Share(rollout, bucket)
        OBVIOUS
    <2>10. /\ i \in DOMAIN rollout.variations
           /\ pick.ok = TRUE /\ pick.index = rollout.variations[i].variation
        <3>1. \A w \in Range(rollout.variations) : w # Bad /\ w.weight \in Nat
            BY <2>2
        <3>2. i \in DOMAIN rollout.variations
            BY <2>2, <2>7, <2>9, <3>1, PickVerdict
        <3>3. \E in : pick = [ok |-> TRUE, inExperiment |-> in,
                              index |-> rollout.variations[i].variation]
            <4>1. PICK e : e = (rollout.kind = "experiment")
                OBVIOUS
            <4>2. \E in : PickWeighted(rollout.variations, bucket, e) =
                    [ok |-> TRUE, inExperiment |-> in,
                     index |-> rollout.variations[Share(rollout, bucket)].variation]
                BY <2>2, <2>7, <3>1, PickVerdict
            <4> QED
                BY <2>8, <2>9, <4>1, <4>2
        <3> QED
            BY <3>2, <3>3
    <2>11. Served(serve, flag, user) = rollout.variations[i].variation
        BY <1>4, <2>1, <2>4, <2>6, <2>9 DEF Served
    <2>12. rollout.variations[i] \in Range(rollout.variations)
        BY <2>10 DEF Range
    <2> QED
        BY <1>0, <2>2, <2>10, <2>11, <2>12
<1> QED
    BY <1>3, <1>4

-----------------------------------------------------------------------------
(* The recursion of Meaning.                                                 *)

Most == Cardinality(Flags)

\* f has the outcomes for the chains of prerequisites up to each length.
IsLevels(f, c, u, n) ==
    f = [i \in 0..n |-> IF i = 0 THEN [k \in Flags |-> Unknown]
                        ELSE Deeper(c, Flags, u, f[i - 1])]

Levels(c, u) == CHOOSE f : IsLevels(f, c, u, Most)
Meant(c, u) == Levels(c, u)[Most]

LEMMA MostIsNat == Most \in Nat
BY DataAssumption, FS_CardinalityType DEF Most

LEMMA LevelsExist ==
    ASSUME NEW c, NEW u, NEW n \in Nat
    PROVE  \E f : IsLevels(f, c, u, n)
<1> DEFINE S == {m \in Nat : \E f : IsLevels(f, c, u, m)}
<1>1. 0 \in S
    <2>1. PICK f : f = [i \in 0..0 |-> [k \in Flags |-> Unknown]]
        OBVIOUS
    <2>2. IsLevels(f, c, u, 0)
        BY <2>1 DEF IsLevels
    <2> QED
        BY <2>2
<1>2. ASSUME NEW m \in Nat, m \in S PROVE m + 1 \in S
    <2>1. PICK f : IsLevels(f, c, u, m)
        BY <1>2
    <2>2. PICK g : g = [i \in 0..(m + 1) |->
                          IF i = m + 1 THEN Deeper(c, Flags, u, f[m]) ELSE f[i]]
        OBVIOUS
    <2>3. \A i \in 0..(m + 1) : g[i] = IF i = 0 THEN [k \in Flags |-> Unknown]
                                       ELSE Deeper(c, Flags, u, g[i - 1])
        <3> SUFFICES ASSUME NEW i \in 0..(m + 1)
                     PROVE  g[i] = IF i = 0 THEN [k \in Flags |-> Unknown]
                                   ELSE Deeper(c, Flags, u, g[i - 1])
            OBVIOUS
        <3>1. CASE i = m + 1
            <4>1. g[i] = Deeper(c, Flags, u, f[m]) /\ g[i - 1] = f[m] /\ i # 0
                BY <2>2, <3>1
            <4> QED
                BY <4>1
        <3>2. CASE i # m + 1
            <4>1. i \in 0..m /\ (i # 0 => i - 1 \in 0..m)
                BY <3>2
            <4>2. f[i] = IF i = 0 THEN [k \in Flags |-> Unknown]
                         ELSE Deeper(c, Flags, u, f[i - 1])
                BY <2>1, <4>1 DEF IsLevels
            <4>3. g[i] = f[i] /\ (i # 0 => g[i - 1] = f[i - 1])
                BY <2>2, <3>2, <4>1
            <4> QED
                BY <4>2, <4>3
        <3> QED
            BY <3>1, <3>2
    <2>4. g = [i \in 0..(m + 1) |-> g[i]]
        BY <2>2
    <2>5. IsLevels(g, c, u, m + 1)
        BY <2>3, <2>4 DEF IsLevels
    <2> QED
        BY <2>5
<1>3. n \in S
    <2> HIDE DEF S
    <2> QED
        BY <1>1, <1>2, Induction
<1> QED
    BY <1>3

\* Each level decides the flags by the level below, and the last one is meant.
LEMMA LevelsStep ==
    ASSUME NEW c, NEW u
    PROVE  /\ Meaning(c, Flags, u) = Meant(c, u)
           /\ \A n \in 1..Most : \A k \in Flags : c[k] # Null =>
                 Levels(c, u)[n][k] = Decided(c, u, c[k], Levels(c, u)[n - 1])
<1>1. IsLevels(Levels(c, u), c, u, Most)
    BY LevelsExist, MostIsNat DEF Levels
<1>2. Meaning(c, Flags, u) = Meant(c, u)
    BY DEF Meaning, Meant, Levels, IsLevels, Most
<1>3. ASSUME NEW n \in 1..Most, NEW k \in Flags, c[k] # Null
      PROVE  Levels(c, u)[n][k] = Decided(c, u, c[k], Levels(c, u)[n - 1])
    <2>1. PICK f : f = Levels(c, u)
        OBVIOUS
    <2>2. n \in 0..Most /\ n # 0
        BY MostIsNat
    <2>3. f[n] = Deeper(c, Flags, u, f[n - 1])
        BY <1>1, <2>1, <2>2 DEF IsLevels
    <2>4. Deeper(c, Flags, u, f[n - 1])[k] = Decided(c, u, c[k], f[n - 1])
        BY <1>3 DEF Deeper
    <2> QED
        BY <2>1, <2>3, <2>4
<1> QED
    BY <1>2, <1>3

\* The outcomes of the flags in R are the same from level m on, and each is
\* decided by those that are meant.
Settled(c, u, R, m) ==
    /\ R \subseteq Flags /\ m \in Nat /\ m <= Cardinality(R)
    /\ \A k \in R :
         /\ \A n \in m..Most : Levels(c, u)[n][k] = Meant(c, u)[k]
         /\ Meant(c, u)[k] = Decided(c, u, c[k], Meant(c, u))

LEMMA NothingSettled ==
    ASSUME NEW c, NEW u
    PROVE  Settled(c, u, {}, 0)
BY FS_EmptySet DEF Settled

LEMMA SettledRange ==
    ASSUME NEW c, NEW u, NEW R, NEW m, Settled(c, u, R, m)
    PROVE  m \in Nat /\ m <= Most /\ IsFiniteSet(R) /\ Cardinality(R) \in Nat
<1>1. IsFiniteSet(Flags) /\ R \subseteq Flags
    BY DataAssumption DEF Settled
<1>2. IsFiniteSet(R) /\ Cardinality(R) <= Most
    BY <1>1, FS_Subset DEF Most
<1>3. Cardinality(R) \in Nat
    BY <1>2, FS_CardinalityType
<1> QED
    BY <1>2, <1>3, MostIsNat DEF Settled

\* A flag that all settled levels decide alike is settled too.
LEMMA Settles ==
    ASSUME NEW c, NEW u, NEW R, NEW m, Settled(c, u, R, m),
           NEW k \in Flags, c[k] # Null, NEW o,
           \A n \in m..Most : Decided(c, u, c[k], Levels(c, u)[n]) = o
    PROVE  /\ Meant(c, u)[k] = o
           /\ \E m2 : Settled(c, u, R \cup {k}, m2)
<1>0. m \in Nat /\ m <= Most /\ IsFiniteSet(R) /\ Most \in Nat /\ Cardinality(R) \in Nat
    BY SettledRange, MostIsNat
<1>1. Decided(c, u, c[k], Meant(c, u)) = o
    BY <1>0 DEF Meant
<1>2. CASE k \in R
    <2>1. R \cup {k} = R /\ Meant(c, u)[k] = o
        BY <1>1, <1>2 DEF Settled
    <2> QED
        BY <2>1
<1>3. CASE k \notin R
    <2>1. Cardinality(R \cup {k}) = Cardinality(R) + 1
        BY <1>0, <1>3, FS_AddElement
    <2>2. R \cup {k} \subseteq Flags
        BY DEF Settled
    <2>3. Cardinality(R \cup {k}) <= Most
        BY <2>2, DataAssumption, FS_Subset DEF Most
    <2>4. m + 1 \in Nat /\ m + 1 <= Cardinality(R \cup {k}) /\ m + 1 <= Most
        <3>1. m <= Cardinality(R)
            BY DEF Settled
        <3> QED
            BY <1>0, <2>1, <2>3, <3>1
    <2>5. ASSUME NEW n \in (m + 1)..Most PROVE Levels(c, u)[n][k] = o
        <3>1. n \in 1..Most /\ n - 1 \in m..Most
            BY <1>0
        <3>2. Levels(c, u)[n][k] = Decided(c, u, c[k], Levels(c, u)[n - 1])
            BY <3>1, LevelsStep
        <3> QED
            BY <3>1, <3>2
    <2>6. Meant(c, u)[k] = o
        BY <1>0, <2>4, <2>5 DEF Meant
    <2>7. Settled(c, u, R \cup {k}, m + 1)
        <3>1. ASSUME NEW j \in R \cup {k}
              PROVE  /\ \A n \in (m + 1)..Most : Levels(c, u)[n][j] = Meant(c, u)[j]
                     /\ Meant(c, u)[j] = Decided(c, u, c[j], Meant(c, u))
            <4>1. CASE j = k
                BY <1>1, <2>5, <2>6, <4>1
            <4>2. CASE j \in R
                <5>1. \A n \in (m + 1)..Most : n \in m..Most
                    BY <1>0
                <5> QED
                    BY <4>2, <5>1 DEF Settled
            <4> QED
                BY <4>1, <4>2
        <3> QED
            BY <2>2, <2>4, <3>1 DEF Settled
    <2> QED
        BY <2>6, <2>7
<1> QED
    BY <1>2, <1>3

\* A prerequisite that is settled is unmet at all settled levels or at none.
LEMMA UnmetAlike ==
    ASSUME NEW c, NEW u, NEW R, NEW m, Settled(c, u, R, m), NEW flag,
           NEW i \in DOMAIN flag.prerequisites, flag.prerequisites[i].key \in R,
           NEW n \in m..Most
    PROVE  i \in Unmet(c, flag, Levels(c, u)[n]) <=> i \in Unmet(c, flag, Meant(c, u))
<1>1. PICK k : k = flag.prerequisites[i].key
    OBVIOUS
<1>2. Levels(c, u)[n][k] = Meant(c, u)[k]
    BY <1>1 DEF Settled
<1> QED
    BY <1>1, <1>2 DEF Unmet

-----------------------------------------------------------------------------
(* The sections of LDi_evaluate decide what flags mean.                      *)

Reasons == {"OFF", "PREREQUISITE_FAILED", "TARGET_MATCH", "RULE_MATCH", "FALLTHROUGH"}

\* The result of an evaluation tells the outcome.
Shown(r, o) ==
    /\ r.status \in {"MISS", "MATCH"}
    /\ r.details.reason \in Reasons
    /\ o = Outcome(r.details.reason, r.details.extra, r.details.variation)
    /\ r.status = "MISS" <=> r.details.reason \in {"OFF", "PREREQUISITE_FAILED"}

Fitting(status, reason) ==
    /\ status \in {"MISS", "MATCH"} /\ reason \in Reasons
    /\ status = "MISS" <=> reason \in {"OFF", "PREREQUISITE_FAILED"}

Valid(flag) == 0..(Len(flag.variations) - 1)

LEMMA ValueFound ==
    ASSUME NEW flag, FlagOK(flag), NEW index \in Valid(flag)
    PROVE  getValue(flag, index) # Null
<1>1. /\ flag.variations \notin {Null, Bad} /\ IsSeq(flag.variations)
      /\ Null \notin Range(flag.variations)
    BY DEF FlagOK
<1>2. Len(flag.variations) \in Nat /\ DOMAIN flag.variations = 1..Len(flag.variations)
    BY <1>1, IsSeqLen
<1>3. index \in Nat /\ index \notin {Null, Bad} /\ ~(index < 0)
      /\ ~(index >= Len(flag.variations)) /\ index + 1 \in DOMAIN flag.variations
    BY <1>2, AbsentAssumption DEF Valid
<1>4. getValue(flag, index) = flag.variations[index + 1]
    BY <1>1, <1>3 DEF getValue
<1>5. flag.variations[index + 1] \in Range(flag.variations)
    BY <1>3 DEF Range
<1> QED
    BY <1>1, <1>4, <1>5

LEMMA AddValueShown ==
    ASSUME NEW flag, FlagOK(flag), NEW index \in Valid(flag), NEW status, NEW reason,
           Fitting(status, reason), NEW extra, NEW id, NEW in, NEW details,
           details = [reason |-> reason, extra |-> extra, ruleId |-> id,
                      inExperiment |-> in, variation |-> Null]
    PROVE  /\ addValue(flag, details, index, status) =
                [status |-> status, value |-> getValue(flag, index),
                 details |-> [reason |-> reason, extra |-> extra, ruleId |-> id,
                              inExperiment |-> in, variation |-> index]]
           /\ Shown(addValue(flag, details, index, status), Outcome(reason, extra, index))
<1>1. getValue(flag, index) # Null
    BY ValueFound
<1>2. status \in {"MISS", "MATCH"} /\ reason \notin {"UNKNOWN", "ERROR"}
    BY DEF Fitting, Reasons
<1>3. PICK r : r = addValue(flag, details, index, status)
    OBVIOUS
<1>4. PICK with : with = [reason |-> reason, extra |-> extra, ruleId |-> id,
                          inExperiment |-> in, variation |-> index]
    OBVIOUS
<1>5. r = Result(status, getValue(flag, index), with)
    BY <1>1, <1>2, <1>3, <1>4, AddValueSound
<1>6. with.reason = reason /\ with.extra = extra /\ with.variation = index
    BY <1>4
<1>7. r.status = status /\ r.details = with
    BY <1>5 DEF Result
<1>8. Shown(r, Outcome(reason, extra, index))
    BY <1>6, <1>7 DEF Shown, Fitting
<1>9. r = [status |-> status, value |-> getValue(flag, index), details |-> with]
    BY <1>5 DEF Result
<1> QED
    BY <1>3, <1>4, <1>8, <1>9

LEMMA UndecidedStatus == Undecided.status = "UNDECIDED"
BY DEF Undecided, Result

LEMMA OnShown ==
    ASSUME NEW flag, FlagOK(flag)
    PROVE  /\ flag.on = TRUE => EvaluateOn(flag) = Undecided
           /\ flag.on # TRUE =>
                Shown(EvaluateOn(flag), Outcome("OFF", Null, flag.offVariation))
<1>0. PICK no : NoDetails = [reason |-> "UNKNOWN", extra |-> Null, ruleId |-> Null,
                             inExperiment |-> no, variation |-> Null]
    BY NoDetailsShape
<1>1. PICK off : off = [NoDetails EXCEPT !.reason = "OFF"]
    OBVIOUS
<1>2. off = [reason |-> "OFF", extra |-> Null, ruleId |-> Null,
             inExperiment |-> no, variation |-> Null]
    BY <1>0, <1>1
<1>3. flag.on # Bad /\ (flag.offVariation \in Valid(flag) \/ flag.offVariation = Null)
    BY DEF FlagOK, Valid
<1>4. EvaluateOn(flag) =
        IF flag.on = TRUE THEN Undecided
        ELSE IF flag.offVariation = Null THEN Result("MISS", Null, off)
        ELSE addValue(flag, off, flag.offVariation, "MISS")
    BY <1>1, <1>3 DEF EvaluateOn
<1>5. Fitting("MISS", "OFF")
    BY DEF Fitting, Reasons
<1>6. ASSUME flag.offVariation \in Valid(flag)
      PROVE  Shown(addValue(flag, off, flag.offVariation, "MISS"),
                   Outcome("OFF", Null, flag.offVariation))
    BY <1>2, <1>5, <1>6, AddValueShown
<1>7. Shown(Result("MISS", Null, off), Outcome("OFF", Null, Null))
    <2>1. off.reason = "OFF" /\ off.extra = Null /\ off.variation = Null
        BY <1>2
    <2>2. PICK r : r = Result("MISS", Null, off)
        OBVIOUS
    <2>3. r.status = "MISS" /\ r.details = off
        BY <2>2 DEF Result
    <2>4. Shown(r, Outcome("OFF", Null, Null))
        BY <2>1, <2>3 DEF Shown, Reasons
    <2> QED
        BY <2>2, <2>4
<1> QED
    BY <1>3, <1>4, <1>6, <1>7

LEMMA FailedPrerequisiteShown ==
    ASSUME NEW flag, FlagOK(flag), flag.prerequisites # <<>>, NEW key
    PROVE  Shown(EvaluateFailedPrerequisite(flag, key),
                 Outcome("PREREQUISITE_FAILED", key, flag.offVariation))
<1>0. PICK no : NoDetails = [reason |-> "UNKNOWN", extra |-> Null, ruleId |-> Null,
                             inExperiment |-> no, variation |-> Null]
    BY NoDetailsShape
<1>1. PICK failed : failed = [NoDetails EXCEPT !.reason = "PREREQUISITE_FAILED", !.extra = key]
    OBVIOUS
<1>2. failed = [reason |-> "PREREQUISITE_FAILED", extra |-> key, ruleId |-> Null,
                inExperiment |-> no, variation |-> Null]
    <2>1. [NoDetails EXCEPT !.reason = "PREREQUISITE_FAILED"]
            = [reason |-> "PREREQUISITE_FAILED", extra |-> Null, ruleId |-> Null,
               inExperiment |-> no, variation |-> Null]
        BY <1>0
    <2>2. failed = [[NoDetails EXCEPT !.reason = "PREREQUISITE_FAILED"] EXCEPT !.extra = key]
        BY <1>1
    <2> QED
        BY <2>1, <2>2
<1>3. flag.offVariation \in Valid(flag)
    BY DEF FlagOK, Valid
<1>4. Fitting("MISS", "PREREQUISITE_FAILED")
    BY DEF Fitting, Reasons
<1>5. EvaluateFailedPrerequisite(flag, key) = addValue(flag, failed, flag.offVariation, "MISS")
    BY <1>1 DEF EvaluateFailedPrerequisite
<1> QED
    BY <1>2, <1>3, <1>4, <1>5, AddValueShown

LEMMA TargetsShown ==
    ASSUME NEW flag, FlagOK(flag), NEW user
    PROVE  LET targets == Targeted(flag, user) IN
           /\ targets = {} => EvaluateTargets(flag, user) = Undecided
           /\ targets # {} =>
                Shown(EvaluateTargets(flag, user),
                      Outcome("TARGET_MATCH", Null, flag.targets[Min(targets)].variation))
<1>0. PICK no : NoDetails = [reason |-> "UNKNOWN", extra |-> Null, ruleId |-> Null,
                             inExperiment |-> no, variation |-> Null]
    BY NoDetailsShape
<1>1. PICK hit : hit = [NoDetails EXCEPT !.reason = "TARGET_MATCH"]
    OBVIOUS
<1>2. hit = [reason |-> "TARGET_MATCH", extra |-> Null, ruleId |-> Null,
             inExperiment |-> no, variation |-> Null]
    BY <1>0, <1>1
<1>3. /\ flag.targets # Bad /\ IsSeq(flag.targets)
      /\ \A t \in Range(flag.targets) : t # Bad /\ t.variation \in Valid(flag)
    BY DEF FlagOK, Valid
<1>4. Len(flag.targets) \in Nat /\ DOMAIN flag.targets = 1..Len(flag.targets)
    BY <1>3, IsSeqLen
<1>5. \A i \in DOMAIN flag.targets : flag.targets[i] # Bad
                                     /\ flag.targets[i].variation \in Valid(flag)
    BY <1>3 DEF Range
<1> DEFINE targets == Targeted(flag, user)
           hits == {i \in 1..Len(flag.targets) :
                       flag.targets[i] = Bad \/ user.key \in flag.targets[i].values}
<1>6. hits = targets
    BY <1>4, <1>5 DEF Targeted
<1>7. SelectInSeq(flag.targets, LAMBDA t : t = Bad \/ user.key \in t.values)
        = IF hits # {} THEN Min(hits) ELSE 0
    BY DEF SelectInSeq
<1>8. PICK i : i = IF targets # {} THEN Min(targets) ELSE 0
    OBVIOUS
<1>9. EvaluateTargets(flag, user) =
        IF i = 0 THEN Undecided
        ELSE IF flag.targets[i] = Bad \/ flag.targets[i].variation = Bad
        THEN Result("SCHEMA", Null, NoDetails)
        ELSE addValue(flag, hit, flag.targets[i].variation, "MATCH")
    BY <1>1, <1>3, <1>6, <1>7, <1>8 DEF EvaluateTargets
<1>10. targets \subseteq 1..Len(flag.targets)
    BY <1>4 DEF Targeted
<1> HIDE DEF targets, hits
<1>11. CASE targets = {}
    BY <1>8, <1>9, <1>11 DEF targets
<1>12. CASE targets # {}
    <2>1. i = Min(targets) /\ i \in 1..Len(flag.targets)
        BY <1>4, <1>8, <1>10, <1>12, MinIn
    <2>2. i # 0 /\ i \in DOMAIN flag.targets
        BY <1>4, <2>1
    <2>3. PICK index : index = flag.targets[i].variation
        OBVIOUS
    <2>4. flag.targets[i] # Bad /\ index \in Valid(flag)
        BY <1>5, <2>2, <2>3
    <2>5. index # Bad
        <3>1. Len(flag.variations) \in Nat
            BY IsSeqLen DEF FlagOK
        <3> QED
            BY <2>4, <3>1, AbsentAssumption DEF Valid
    <2>6. EvaluateTargets(flag, user) = addValue(flag, hit, index, "MATCH")
        BY <1>9, <2>2, <2>3, <2>4, <2>5
    <2>7. Fitting("MATCH", "TARGET_MATCH")
        BY DEF Fitting, Reasons
    <2>8. Shown(addValue(flag, hit, index, "MATCH"), Outcome("TARGET_MATCH", Null, index))
        BY <1>2, <2>4, <2>7, AddValueShown
    <2> QED
        BY <1>12, <2>1, <2>3, <2>6, <2>8 DEF targets
<1> QED
    BY <1>11, <1>12

LEMMA FallthroughShown ==
    ASSUME NEW flag, FlagOK(flag), flag.key \in Flags, NEW user \in Users
    PROVE  Shown(EvaluateFallthrough(flag, user),
                 Outcome("FALLTHROUGH", Null, Served(flag.fallthrough, flag, user)))
<1>0. PICK no : NoDetails = [reason |-> "UNKNOWN", extra |-> Null, ruleId |-> Null,
                             inExperiment |-> no, variation |-> Null]
    BY NoDetailsShape
<1>1. PICK fall : fall = [NoDetails EXCEPT !.reason = "FALLTHROUGH"]
    OBVIOUS
<1>2. fall = [reason |-> "FALLTHROUGH", extra |-> Null, ruleId |-> Null,
              inExperiment |-> no, variation |-> Null]
    BY <1>0, <1>1
<1>3. PICK pick : pick = LDi_getIndexForVariationOrRollout(flag, flag.fallthrough, user)
    OBVIOUS
<1>4. PICK with : with = [fall EXCEPT !.inExperiment = pick.inExperiment]
    OBVIOUS
<1>5. EvaluateFallthrough(flag, user) =
        IF pick.ok THEN addValue(flag, with, pick.index, "MATCH")
        ELSE Result("SCHEMA", Null, fall)
    BY <1>1, <1>3, <1>4 DEF EvaluateFallthrough
<1>6. with = [reason |-> "FALLTHROUGH", extra |-> Null, ruleId |-> Null,
              inExperiment |-> pick.inExperiment, variation |-> Null]
    BY <1>2, <1>4
<1>7. ServeOK(flag, flag.fallthrough)
    BY DEF FlagOK
<1>8. /\ pick.ok = TRUE /\ pick.index = Served(flag.fallthrough, flag, user)
      /\ pick.index \in Valid(flag)
    BY <1>3, <1>7, ServeVerdict DEF Valid
<1>9. Fitting("MATCH", "FALLTHROUGH")
    BY DEF Fitting, Reasons
<1>10. Shown(addValue(flag, with, pick.index, "MATCH"), Outcome("FALLTHROUGH", Null, pick.index))
    BY <1>6, <1>8, <1>9, AddValueShown
<1> QED
    BY <1>5, <1>8, <1>10

LEMMA RuleShown ==
    ASSUME NEW flag, FlagOK(flag), flag.key \in Flags, NEW user \in Users,
           NEW i \in DOMAIN flag.rules
    PROVE  Shown(EvaluateRule(flag, i, user),
                 Outcome("RULE_MATCH", i - 1, Served(flag.rules[i].serve, flag, user)))
<1>0. PICK no : NoDetails = [reason |-> "UNKNOWN", extra |-> Null, ruleId |-> Null,
                             inExperiment |-> no, variation |-> Null]
    BY NoDetailsShape
<1>1. PICK rule : rule = flag.rules[i]
    OBVIOUS
<1>2. rule # Bad /\ ServeOK(flag, rule.serve) /\ rule.id # Bad
    BY <1>1 DEF FlagOK, Range
<1>3. PICK n : n = i - 1
    OBVIOUS
<1>4. PICK matched : matched = [NoDetails EXCEPT !.reason = "RULE_MATCH", !.extra = n]
    OBVIOUS
<1>5. matched = [reason |-> "RULE_MATCH", extra |-> n, ruleId |-> Null,
                 inExperiment |-> no, variation |-> Null]
    <2>1. [NoDetails EXCEPT !.reason = "RULE_MATCH"]
            = [reason |-> "RULE_MATCH", extra |-> Null, ruleId |-> Null,
               inExperiment |-> no, variation |-> Null]
        BY <1>0
    <2>2. matched = [[NoDetails EXCEPT !.reason = "RULE_MATCH"] EXCEPT !.extra = n]
        BY <1>4
    <2> QED
        BY <2>1, <2>2
<1>6. PICK pick : pick = LDi_getIndexForVariationOrRollout(flag, rule.serve, user)
    OBVIOUS
<1>7. PICK with : with = [matched EXCEPT !.inExperiment = pick.inExperiment]
    OBVIOUS
<1>8. with = [reason |-> "RULE_MATCH", extra |-> n, ruleId |-> Null,
              inExperiment |-> pick.inExperiment, variation |-> Null]
    BY <1>5, <1>7
<1>9. PICK result : result = addValue(flag, with, pick.index, "MATCH")
    OBVIOUS
<1>10. /\ pick.ok = TRUE /\ pick.index = Served(rule.serve, flag, user)
       /\ pick.index \in Valid(flag)
    BY <1>2, <1>6, ServeVerdict DEF Valid
<1>11. Fitting("MATCH", "RULE_MATCH")
    BY DEF Fitting, Reasons
<1>12. PICK value, details :
         /\ details = [reason |-> "RULE_MATCH", extra |-> n, ruleId |-> Null,
                       inExperiment |-> pick.inExperiment, variation |-> pick.index]
         /\ result = [status |-> "MATCH", value |-> value, details |-> details]
    <2>1. result = [status |-> "MATCH", value |-> getValue(flag, pick.index),
                    details |-> [reason |-> "RULE_MATCH", extra |-> n, ruleId |-> Null,
                                 inExperiment |-> pick.inExperiment, variation |-> pick.index]]
        <3>1. PICK in : in = pick.inExperiment
            OBVIOUS
        <3>2. with = [reason |-> "RULE_MATCH", extra |-> n, ruleId |-> Null,
                      inExperiment |-> in, variation |-> Null]
            BY <1>8, <3>1
        <3>3. result = [status |-> "MATCH", value |-> getValue(flag, pick.index),
                        details |-> [reason |-> "RULE_MATCH", extra |-> n, ruleId |-> Null,
                                     inExperiment |-> in, variation |-> pick.index]]
            BY <3>2, <1>9, <1>10, <1>11, AddValueShown
        <3> QED
            BY <3>1, <3>3
    <2> QED
        BY <2>1
<1>13. ~LDi_isEvalError(result.status)
    BY <1>12 DEF LDi_isEvalError
<1>14. PICK r : r = [result EXCEPT !.details.ruleId = rule.id]
    OBVIOUS
<1>15. EvaluateRule(flag, i, user) = r
    BY <1>1, <1>2, <1>3, <1>4, <1>6, <1>7, <1>9, <1>10, <1>13, <1>14 DEF EvaluateRule
<1>16. r = [status |-> "MATCH", value |-> value, details |-> [details EXCEPT !.ruleId = rule.id]]
    BY <1>12, <1>14
<1>17. PICK named : named = [details EXCEPT !.ruleId = rule.id]
    OBVIOUS
<1>18. named.reason = "RULE_MATCH" /\ named.extra = n /\ named.variation = pick.index
    BY <1>12, <1>17
<1>19. r.status = "MATCH" /\ r.details = named
    BY <1>16, <1>17
<1>20. Shown(r, Outcome("RULE_MATCH", n, pick.index))
    BY <1>18, <1>19 DEF Shown, Reasons
<1> QED
    BY <1>1, <1>3, <1>10, <1>15, <1>20

-----------------------------------------------------------------------------
(* A frame follows what flags mean.                                          *)

\* A content of well-formed flags and segments, each at its key.
WellFormed(c) == \A k \in Keys : BodyOK(c[k]) /\ (c[k] # Null => c[k].key = k)

\* Whatever was read is in the content.
Agrees(c, rs) == \A k \in Keys : \A i \in 1..Len(rs[k]) : rs[k][i] = c[k]

Here(c, flag) == flag # Null /\ flag.key \in Flags /\ flag = c[flag.key]

Resolved(c, u, R) == \E m : Settled(c, u, R, m)

Met(c, u, R, flag, i) ==
    flag.prerequisites[i].key \in R /\ i \notin Unmet(c, flag, Meant(c, u))

Right(c, u, R, flag, r) == flag.key \in R /\ Shown(r, Meant(c, u)[flag.key])

SegmentTrue(c, u, k) == c[k] # Null /\ SegmentHas(c[k], u)

ClauseTrue(c, u, clause) ==
    IF clause.op = "segmentMatch"
    THEN (\E k \in Range(clause.values) : SegmentTrue(c, u, k)) # (clause.negate = TRUE)
    ELSE ClauseHolds(clause, u)

\* The loops of the rules have come to a segment of a clause of a rule.
Reached(c, u, f) ==
    /\ Targeted(f.flag, u) = {}
    /\ \A i \in 1..(f.rule - 1) : ~RuleHolds(c, f.flag.rules[i], u)
    /\ \A j \in 1..(f.clause - 1) : ClauseTrue(c, u, f.flag.rules[f.rule].clauses[j])
    /\ \A j \in 1..(f.segment - 1) :
         ~SegmentTrue(c, u, f.flag.rules[f.rule].clauses[f.clause].values[j])

FrameFollows(c, u, R, f) ==
    /\ Here(c, f.flag)
    /\ (f.at = "done" /\ f.result.status # "STORE") => Right(c, u, R, f.flag, f.result)
    /\ f.at # "done" => \A i \in 1..(f.prerequisite - 1) : Met(c, u, R, f.flag, i)
    /\ f.at \notin {"on", "done"} => f.flag.on = TRUE
    /\ f.at \in {"on", "prerequisites", "targets"} => f.rule = 1 /\ f.clause = 1 /\ f.segment = 1
    /\ f.at = "rules" => Reached(c, u, f)

\* What a frame becomes follows too, perhaps with more flags resolved.
Leads(c, u, f, g) ==
    \A R : (Resolved(c, u, R) /\ FrameFollows(c, u, R, f)) =>
        \E S : R \subseteq S /\ Resolved(c, u, S) /\ FrameFollows(c, u, S, g)

LEMMA HereOK ==
    ASSUME NEW c, NEW flag, WellFormed(c), Here(c, flag)
    PROVE  FlagOK(flag)
BY DEF WellFormed, Here, BodyOK, Keys

LEMMA SegmentHereOK ==
    ASSUME NEW c, NEW k \in Keys \ Flags, WellFormed(c), c[k] # Null
    PROVE  SegmentOK(c[k])
BY DEF WellFormed, BodyOK

LEMMA RuleOfClauses ==
    ASSUME NEW c, NEW u, NEW rule
    PROVE  RuleHolds(c, rule, u) <=> \A clause \in Range(rule.clauses) : ClauseTrue(c, u, clause)
BY DEF RuleHolds, ClauseTrue, SegmentTrue

LEMMA MoreFollows ==
    ASSUME NEW c, NEW u, NEW R, NEW S, R \subseteq S, NEW f, FrameFollows(c, u, R, f)
    PROVE  FrameFollows(c, u, S, f)
BY DEF FrameFollows, Right, Met

\* The prerequisites of well-formed flags.
LEMMA PrerequisitesOK ==
    ASSUME NEW flag, FlagOK(flag)
    PROVE  /\ flag.prerequisites # Bad /\ IsSeq(flag.prerequisites)
           /\ Len(flag.prerequisites) \in Nat
           /\ DOMAIN flag.prerequisites = 1..Len(flag.prerequisites)
           /\ \A i \in DOMAIN flag.prerequisites : flag.prerequisites[i] # Bad
<1>1. /\ flag.prerequisites # Bad /\ IsSeq(flag.prerequisites)
      /\ Bad \notin Range(flag.prerequisites)
    BY DEF FlagOK
<1> QED
    BY <1>1, IsSeqLen DEF Range

\* The prerequisites ahead of the p-th are met.
UpTo(c, u, R, flag, p) ==
    /\ FlagOK(flag) /\ flag.on = TRUE
    /\ p \in DOMAIN flag.prerequisites
    /\ \A i \in 1..(p - 1) : Met(c, u, R, flag, i)

\* The first prerequisite that is unmet decides at every settled level.
LEMMA DecidedFailed ==
    ASSUME NEW c, NEW u, NEW R, NEW m, Settled(c, u, R, m), NEW flag, NEW p,
           UpTo(c, u, R, flag, p), NEW n \in m..Most, p \in Unmet(c, flag, Levels(c, u)[n])
    PROVE  Decided(c, u, flag, Levels(c, u)[n]) =
             Outcome("PREREQUISITE_FAILED", flag.prerequisites[p].key, flag.offVariation)
<1>0. /\ FlagOK(flag) /\ flag.on = TRUE /\ p \in DOMAIN flag.prerequisites
      /\ \A i \in 1..(p - 1) : Met(c, u, R, flag, i)
    BY DEF UpTo
<1>1. PICK unmet : unmet = Unmet(c, flag, Levels(c, u)[n])
    OBVIOUS
<1>2. /\ Len(flag.prerequisites) \in Nat
      /\ DOMAIN flag.prerequisites = 1..Len(flag.prerequisites)
    BY <1>0, PrerequisitesOK
<1>3. unmet \subseteq DOMAIN flag.prerequisites
    BY <1>1 DEF Unmet
<1>4. unmet \in SUBSET Nat /\ p \in unmet
    BY <1>1, <1>2, <1>3
<1>5. ASSUME NEW y \in unmet PROVE p <= y
    <2>1. SUFFICES ASSUME ~(p <= y) PROVE FALSE
        OBVIOUS
    <2>2. y \in DOMAIN flag.prerequisites /\ y \in 1..(p - 1)
        BY <1>0, <1>2, <1>3, <2>1
    <2>3. Met(c, u, R, flag, y)
        BY <1>0, <2>2
    <2>4. y \notin Unmet(c, flag, Levels(c, u)[n])
        BY <2>2, <2>3, UnmetAlike DEF Met
    <2> QED
        BY <1>1, <2>4
<1>6. Min(unmet) = p
    BY <1>4, <1>5, MinIs
<1>7. unmet # {}
    BY <1>4
<1> QED
    BY <1>0, <1>1, <1>6, <1>7 DEF Decided

LEMMA NoneUnmet ==
    ASSUME NEW c, NEW u, NEW R, NEW m, Settled(c, u, R, m), NEW flag, FlagOK(flag),
           \A i \in 1..Len(flag.prerequisites) : Met(c, u, R, flag, i),
           NEW n \in m..Most
    PROVE  Unmet(c, flag, Levels(c, u)[n]) = {}
<1> SUFFICES ASSUME NEW i \in Unmet(c, flag, Levels(c, u)[n]) PROVE FALSE
    OBVIOUS
<1>1. i \in DOMAIN flag.prerequisites
    BY DEF Unmet
<1>2. Met(c, u, R, flag, i)
    BY <1>1, PrerequisitesOK
<1> QED
    BY <1>1, <1>2, UnmetAlike DEF Met

LEMMA DecidedTarget ==
    ASSUME NEW c, NEW u, NEW flag, NEW l, flag.on = TRUE, Unmet(c, flag, l) = {},
           Targeted(flag, u) # {}
    PROVE  Decided(c, u, flag, l) =
             Outcome("TARGET_MATCH", Null, flag.targets[Min(Targeted(flag, u))].variation)
BY DEF Decided

\* The i-th rule is the first that holds.
FirstRule(c, u, flag, i) ==
    /\ FlagOK(flag) /\ i \in DOMAIN flag.rules
    /\ RuleHolds(c, flag.rules[i], u)
    /\ \A j \in 1..(i - 1) : ~RuleHolds(c, flag.rules[j], u)

LEMMA DecidedRule ==
    ASSUME NEW c, NEW u, NEW flag, NEW l, flag.on = TRUE, Unmet(c, flag, l) = {},
           Targeted(flag, u) = {}, NEW i, FirstRule(c, u, flag, i),
           NEW o, o = Outcome("RULE_MATCH", i - 1, Served(flag.rules[i].serve, flag, u))
    PROVE  Decided(c, u, flag, l) = o
<1>0. /\ FlagOK(flag) /\ i \in DOMAIN flag.rules /\ RuleHolds(c, flag.rules[i], u)
      /\ \A j \in 1..(i - 1) : ~RuleHolds(c, flag.rules[j], u)
    BY DEF FirstRule
<1>1. Len(flag.rules) \in Nat /\ DOMAIN flag.rules = 1..Len(flag.rules)
    BY <1>0, IsSeqLen DEF FlagOK
<1>2. PICK rules : rules = Ruled(c, flag, u)
    OBVIOUS
<1>3. rules \in SUBSET Nat /\ i \in rules
    BY <1>0, <1>1, <1>2 DEF Ruled
<1>4. \A y \in rules : i <= y
    BY <1>0, <1>1, <1>2 DEF Ruled
<1>5. Min(rules) = i /\ rules # {}
    BY <1>3, <1>4, MinIs
<1> QED
    BY <1>2, <1>5 DEF Decided

LEMMA DecidedFallthrough ==
    ASSUME NEW c, NEW u, NEW flag, NEW l, flag.on = TRUE, Unmet(c, flag, l) = {},
           Targeted(flag, u) = {}, Ruled(c, flag, u) = {}
    PROVE  Decided(c, u, flag, l) =
             Outcome("FALLTHROUGH", Null, Served(flag.fallthrough, flag, u))
BY DEF Decided

\* A flag that every settled level decides alike is resolved, and a result that
\* tells this outcome is right.
LEMMA Resolves ==
    ASSUME NEW c, NEW u, NEW R, Resolved(c, u, R), NEW flag, Here(c, flag), NEW o, NEW r,
           \A m : Settled(c, u, R, m) =>
               \A n \in m..Most : Decided(c, u, flag, Levels(c, u)[n]) = o,
           Shown(r, o)
    PROVE  \E S : R \subseteq S /\ Resolved(c, u, S) /\ Right(c, u, S, flag, r)
<1>1. PICK m : Settled(c, u, R, m)
    BY DEF Resolved
<1>2. PICK k : k = flag.key
    OBVIOUS
<1>3. k \in Flags /\ c[k] # Null /\ flag = c[k]
    BY <1>2 DEF Here
<1>4. \A n \in m..Most : Decided(c, u, c[k], Levels(c, u)[n]) = o
    BY <1>1, <1>3
<1>5. Meant(c, u)[k] = o /\ \E m2 : Settled(c, u, R \cup {k}, m2)
    BY <1>1, <1>3, <1>4, Settles
<1>6. PICK S : S = R \cup {k}
    OBVIOUS
<1>7. Resolved(c, u, S)
    BY <1>5, <1>6 DEF Resolved
<1>8. Right(c, u, S, flag, r)
    BY <1>2, <1>5, <1>6 DEF Right
<1>9. R \subseteq S
    BY <1>6
<1> QED
    BY <1>7, <1>8, <1>9

LEMMA FrameResolves ==
    ASSUME NEW c, NEW u, NEW R, Resolved(c, u, R), NEW f, GoodFrame(f), Here(c, f.flag),
           NEW o, NEW r,
           \A m : Settled(c, u, R, m) =>
               \A n \in m..Most : Decided(c, u, f.flag, Levels(c, u)[n]) = o,
           Shown(r, o), NEW g, g.flag = f.flag, g.at = "done", g.result = r
    PROVE  \E S : R \subseteq S /\ Resolved(c, u, S) /\ FrameFollows(c, u, S, g)
<1>1. PICK S : R \subseteq S /\ Resolved(c, u, S) /\ Right(c, u, S, f.flag, r)
    BY Resolves
<1>2. FrameFollows(c, u, S, g)
    BY <1>1 DEF FrameFollows
<1> QED
    BY <1>1, <1>2

LEMMA DoneFields ==
    ASSUME NEW f, GoodFrame(f), NEW r
    PROVE  Done(f, r).flag = f.flag /\ Done(f, r).at = "done" /\ Done(f, r).result = r
<1>1. Done(f, r) = Changed(f, "done", f.prerequisite, f.events, r)
    BY DoneChanges
<1> QED
    BY <1>1, ChangedFields

\* A store that fails decides nothing.
LEMMA StoreFollows ==
    ASSUME NEW c, NEW u, NEW R, NEW f, GoodFrame(f), Here(c, f.flag),
           NEW g, g.flag = f.flag, g.at = "done", g.result.status = "STORE"
    PROVE  FrameFollows(c, u, R, g)
BY DEF FrameFollows

-----------------------------------------------------------------------------
(* The sections lead from frames that follow to frames that follow.          *)

LEMMA AtFields ==
    ASSUME NEW f, GoodFrame(f), NEW a
    PROVE  [f EXCEPT !.at = a] = Changed(f, a, f.prerequisite, f.events, f.result)
<1>1. PICK b, a0, p, n0, c0, s0, e0, r0 :
        f = [flag |-> b, at |-> a0, prerequisite |-> p, rule |-> n0, clause |-> c0,
             segment |-> s0, events |-> e0, result |-> r0]
    BY DEF GoodFrame, IsFrame
<1>2. [f EXCEPT !.at = a] = [flag |-> b, at |-> a, prerequisite |-> p, rule |-> n0,
                             clause |-> c0, segment |-> s0, events |-> e0, result |-> r0]
    BY <1>1
<1> QED
    BY <1>1, <1>2 DEF Changed

\* The same frame at another place of the rules.
Moved(f, g, n, c, s) ==
    /\ g.flag = f.flag /\ g.at = f.at /\ g.prerequisite = f.prerequisite
    /\ g.rule = n /\ g.clause = c /\ g.segment = s

LEMMA RuleMoves ==
    ASSUME NEW f, GoodFrame(f), Work(f)
    PROVE  /\ Moved(f, [f EXCEPT !.segment = @ + 1], f.rule, f.clause, f.segment + 1)
           /\ Moved(f, [f EXCEPT !.clause = @ + 1, !.segment = 1], f.rule, f.clause + 1, 1)
           /\ Moved(f, [f EXCEPT !.rule = @ + 1, !.clause = 1, !.segment = 1], f.rule + 1, 1, 1)
<1>1. PICK b, a0, p, n0, c0, s0, e0, r0 :
        f = [flag |-> b, at |-> a0, prerequisite |-> p, rule |-> n0, clause |-> c0,
             segment |-> s0, events |-> e0, result |-> r0]
    BY DEF GoodFrame, IsFrame
<1> DEFINE Made(m, d, s) ==
             [flag |-> b, at |-> a0, prerequisite |-> p, rule |-> m, clause |-> d,
              segment |-> s, events |-> e0, result |-> r0]
<1>2. ASSUME NEW m, NEW d, NEW s
      PROVE  Moved(f, Made(m, d, s), m, d, s)
    BY <1>1 DEF Moved
<1>3. PICK n, c, s : n = n0 + 1 /\ c = c0 + 1 /\ s = s0 + 1
    OBVIOUS
<1>4. f.rule + 1 = n /\ f.clause + 1 = c /\ f.segment + 1 = s
      /\ f.rule = n0 /\ f.clause = c0
    BY <1>1, <1>3
<1>5. [f EXCEPT !.segment = s] = Made(n0, c0, s)
    BY <1>1
<1>6. [f EXCEPT !.clause = c, !.segment = 1] = Made(n0, c, 1)
    <2> DEFINE g == [f EXCEPT !.clause = c]
    <2>1. g = Made(n0, c, s0)
        BY <1>1
    <2>2. [f EXCEPT !.clause = c, !.segment = 1] = [g EXCEPT !.segment = 1]
        OBVIOUS
    <2> HIDE DEF g
    <2> QED
        BY <2>1, <2>2
<1>7. [f EXCEPT !.rule = n, !.clause = 1, !.segment = 1] = Made(n, 1, 1)
    <2> DEFINE g == [f EXCEPT !.rule = n]
               h == [g EXCEPT !.clause = 1]
    <2>1. g = Made(n, c0, s0)
        BY <1>1
    <2>2. [f EXCEPT !.rule = n, !.clause = 1, !.segment = 1] = [h EXCEPT !.segment = 1]
        OBVIOUS
    <2> HIDE DEF g
    <2>3. h = Made(n, 1, s0)
        BY <2>1
    <2> HIDE DEF h
    <2> QED
        BY <2>2, <2>3
<1> HIDE DEF Made
<1>8. Moved(f, [f EXCEPT !.segment = s], n0, c0, s)
    BY <1>2, <1>5
<1>9. Moved(f, [f EXCEPT !.clause = c, !.segment = 1], n0, c, 1)
    BY <1>2, <1>6
<1>10. Moved(f, [f EXCEPT !.rule = n, !.clause = 1, !.segment = 1], n, 1, 1)
    BY <1>2, <1>7
<1> QED
    BY <1>4, <1>8, <1>9, <1>10

\* The on field.
LEMMA OnLeads ==
    ASSUME NEW c, WellFormed(c), NEW u, NEW f, GoodFrame(f), Work(f), f.at = "on", NEW g,
           g = IF EvaluateOn(f.flag) # Undecided THEN Done(f, EvaluateOn(f.flag))
               ELSE [f EXCEPT !.at = "prerequisites"]
    PROVE  Leads(c, u, f, g)
<1> SUFFICES ASSUME NEW R, Resolved(c, u, R), FrameFollows(c, u, R, f)
             PROVE  \E S : R \subseteq S /\ Resolved(c, u, S) /\ FrameFollows(c, u, S, g)
    BY DEF Leads
<1>1. Here(c, f.flag) /\ FlagOK(f.flag)
    BY HereOK DEF FrameFollows
<1>2. CASE f.flag.on = TRUE
    <2>1. g = [f EXCEPT !.at = "prerequisites"]
        BY <1>1, <1>2, OnShown
    <2>2. g = Changed(f, "prerequisites", f.prerequisite, f.events, f.result)
        BY <2>1, AtFields
    <2>3. /\ g.flag = f.flag /\ g.at = "prerequisites" /\ g.prerequisite = f.prerequisite
          /\ g.rule = f.rule /\ g.clause = f.clause /\ g.segment = f.segment
        BY <2>2, ChangedFields
    <2>4. FrameFollows(c, u, R, g)
        BY <1>2, <2>3 DEF FrameFollows
    <2> QED
        BY <2>4
<1>3. CASE f.flag.on # TRUE
    <2>1. PICK r : r = EvaluateOn(f.flag)
        OBVIOUS
    <2>2. PICK o : o = Outcome("OFF", Null, f.flag.offVariation)
        OBVIOUS
    <2>3. Shown(r, o)
        BY <1>1, <1>3, <2>1, <2>2, OnShown
    <2>4. r # Undecided
        BY <2>3, UndecidedStatus DEF Shown
    <2>5. g = Done(f, r)
        BY <2>1, <2>4
    <2>6. g.flag = f.flag /\ g.at = "done" /\ g.result = r
        <3>1. /\ Done(f, r).flag = f.flag /\ Done(f, r).at = "done"
              /\ Done(f, r).result = r
            BY DoneFields
        <3> QED
            BY <2>5, <3>1
    <2>7. \A m : Settled(c, u, R, m) =>
            \A n \in m..Most : Decided(c, u, f.flag, Levels(c, u)[n]) = o
        BY <1>3, <2>2 DEF Decided
    <2> QED
        BY <1>1, <2>3, <2>6, <2>7, FrameResolves
<1> QED
    BY <1>2, <1>3

\* Past the last prerequisite.
LEMMA PastLeads ==
    ASSUME NEW c, WellFormed(c), NEW u, NEW f, GoodFrame(f), Work(f), f.at = "prerequisites",
           NEW g, g = [f EXCEPT !.at = "targets"]
    PROVE  Leads(c, u, f, g)
<1> SUFFICES ASSUME NEW R, Resolved(c, u, R), FrameFollows(c, u, R, f)
             PROVE  \E S : R \subseteq S /\ Resolved(c, u, S) /\ FrameFollows(c, u, S, g)
    BY DEF Leads
<1>1. g = Changed(f, "targets", f.prerequisite, f.events, f.result)
    BY AtFields
<1>2. /\ g.flag = f.flag /\ g.at = "targets" /\ g.prerequisite = f.prerequisite
      /\ g.rule = f.rule /\ g.clause = f.clause /\ g.segment = f.segment
    BY <1>1, ChangedFields
<1>3. FrameFollows(c, u, R, g)
    BY <1>2 DEF FrameFollows
<1> QED
    BY <1>3

\* Well-formed flags do not fail like this.
LEMMA MalformedLeads ==
    ASSUME NEW c, WellFormed(c), NEW u, NEW f, NEW g, Here(c, f.flag) => ~FlagOK(f.flag)
    PROVE  Leads(c, u, f, g)
BY HereOK DEF Leads, FrameFollows

LEMMA StoreLeads ==
    ASSUME NEW c, NEW u, NEW f, GoodFrame(f), NEW g, g = Done(f, Result("STORE", Null, NoDetails))
    PROVE  Leads(c, u, f, g)
<1> SUFFICES ASSUME NEW R, Resolved(c, u, R), FrameFollows(c, u, R, f)
             PROVE  \E S : R \subseteq S /\ Resolved(c, u, S) /\ FrameFollows(c, u, S, g)
    BY DEF Leads
<1>1. PICK r : r = Result("STORE", Null, NoDetails)
    OBVIOUS
<1>2. r.status = "STORE"
    BY <1>1 DEF Result
<1>3. g.flag = f.flag /\ g.at = "done" /\ g.result = r
    BY <1>1, DoneFields
<1>4. Here(c, f.flag)
    BY DEF FrameFollows
<1>5. FrameFollows(c, u, R, g)
    BY <1>2, <1>3, <1>4, StoreFollows
<1> QED
    BY <1>5

\* A prerequisite that fails.
LEMMA FailsFollow ==
    ASSUME NEW c, WellFormed(c), NEW u, NEW R, Resolved(c, u, R), NEW f, GoodFrame(f),
           FrameFollows(c, u, R, f), f.at = "prerequisites",
           f.prerequisite \in DOMAIN f.flag.prerequisites,
           \A m : Settled(c, u, R, m) =>
               \A n \in m..Most : f.prerequisite \in Unmet(c, f.flag, Levels(c, u)[n]),
           NEW g, g.flag = f.flag, g.at = "done",
           g.result = EvaluateFailedPrerequisite(f.flag,
                          f.flag.prerequisites[f.prerequisite].key)
    PROVE  \E S : R \subseteq S /\ Resolved(c, u, S) /\ FrameFollows(c, u, S, g)
<1>1. Here(c, f.flag) /\ FlagOK(f.flag) /\ f.flag.on = TRUE
    BY HereOK DEF FrameFollows
<1>2. PICK p : p = f.prerequisite
    OBVIOUS
<1>3. PICK key : key = f.flag.prerequisites[p].key
    OBVIOUS
<1>4. PICK o : o = Outcome("PREREQUISITE_FAILED", key, f.flag.offVariation)
    OBVIOUS
<1>5. f.flag.prerequisites # <<>>
    BY <1>1, PrerequisitesOK, EmptyIsSeq
<1>6. Shown(g.result, o)
    BY <1>1, <1>2, <1>3, <1>4, <1>5, FailedPrerequisiteShown
<1>7. ASSUME NEW m, Settled(c, u, R, m), NEW n \in m..Most
      PROVE  Decided(c, u, f.flag, Levels(c, u)[n]) = o
    <2>1. \A i \in 1..(p - 1) : Met(c, u, R, f.flag, i)
        BY <1>2 DEF FrameFollows
    <2>2. p \in Unmet(c, f.flag, Levels(c, u)[n])
        BY <1>2, <1>7
    <2>3. PICK flag : flag = f.flag
        OBVIOUS
    <2>4. UpTo(c, u, R, flag, p) /\ p \in Unmet(c, flag, Levels(c, u)[n])
        BY <1>1, <1>2, <2>1, <2>2, <2>3 DEF UpTo
    <2>5. Decided(c, u, flag, Levels(c, u)[n]) =
            Outcome("PREREQUISITE_FAILED", flag.prerequisites[p].key, flag.offVariation)
        BY <1>7, <2>4, DecidedFailed
    <2> QED
        BY <1>3, <1>4, <2>3, <2>5
<1> QED
    BY <1>1, <1>6, <1>7, FrameResolves

\* A prerequisite that is not in the store.
LEMMA MissingLeads ==
    ASSUME NEW c, WellFormed(c), NEW u, NEW f, GoodFrame(f), f.at = "prerequisites",
           f.prerequisite \in DOMAIN f.flag.prerequisites,
           NEW key, key = f.flag.prerequisites[f.prerequisite].key, c[key] = Null,
           NEW g, g = Done(f, EvaluateFailedPrerequisite(f.flag, key))
    PROVE  Leads(c, u, f, g)
<1> SUFFICES ASSUME NEW R, Resolved(c, u, R), FrameFollows(c, u, R, f)
             PROVE  \E S : R \subseteq S /\ Resolved(c, u, S) /\ FrameFollows(c, u, S, g)
    BY DEF Leads
<1>1. PICK r : r = EvaluateFailedPrerequisite(f.flag, key)
    OBVIOUS
<1>2. g.flag = f.flag /\ g.at = "done" /\ g.result = r
    BY <1>1, DoneFields
<1>3. \A n : f.prerequisite \in Unmet(c, f.flag, Levels(c, u)[n])
    BY DEF Unmet
<1> QED
    BY <1>1, <1>2, <1>3, FailsFollow

\* The prerequisite is not what is wanted of it.
Refuses(child, wanted) ==
    \/ child.result.status = "MISS"
    \/ child.flag.on # TRUE
    \/ child.result.details.variation # wanted.variation

\* How LDi_checkPrerequisites goes on when a prerequisite is evaluated.
LEMMA AfterShape ==
    ASSUME NEW parent, NEW child, GoodFrame(parent), GoodFrame(child),
           NEW g, g = AfterPrerequisite(parent, child),
           NEW wanted, wanted = parent.flag.prerequisites[parent.prerequisite],
           ~LDi_isEvalError(child.result.status),
           ~NoFeatureEvent(child.flag, child.result.details)
    PROVE  /\ g.flag = parent.flag
           /\ Refuses(child, wanted) =>
                /\ g.at = "done"
                /\ g.result = EvaluateFailedPrerequisite(parent.flag, wanted.key)
           /\ ~Refuses(child, wanted) =>
                /\ g.at = parent.at /\ g.prerequisite = parent.prerequisite + 1
                /\ g.rule = parent.rule /\ g.clause = parent.clause
                /\ g.segment = parent.segment
<1>0. PICK r : r = child.result
    OBVIOUS
<1>1. PICK event : event = LDi_newFeatureEvent(wanted.key, child.flag, r.details,
                                               parent.flag.key)
    OBVIOUS
<1>2. PICK events : events = AppendEvents(parent.events, child.events, event)
    OBVIOUS
<1>3. PICK failed : failed = EvaluateFailedPrerequisite(parent.flag, wanted.key)
    OBVIOUS
<1>4. IsSeq(events)
    BY <1>2, AppendEventsParts DEF GoodFrame
<1> DEFINE counted == [parent EXCEPT !.events = events]
<1>5. g = IF Refuses(child, wanted) THEN Done(counted, failed)
          ELSE [counted EXCEPT !.prerequisite = @ + 1]
    BY <1>0, <1>1, <1>2, <1>3 DEF AfterPrerequisite, Refuses
<1>6. Done(counted, failed) = Changed(parent, "done", parent.prerequisite, events, failed)
    BY <1>4, CountedDone
<1>7. [counted EXCEPT !.prerequisite = @ + 1]
        = Changed(parent, parent.at, parent.prerequisite + 1, events, parent.result)
    BY <1>4, CountedNext
<1> HIDE DEF counted
<1>8. CASE Refuses(child, wanted)
    <2>1. g = Changed(parent, "done", parent.prerequisite, events, failed)
        BY <1>5, <1>6, <1>8
    <2>2. g.flag = parent.flag /\ g.at = "done" /\ g.result = failed
        BY <2>1, ChangedFields
    <2> QED
        BY <1>3, <1>8, <2>2
<1>9. CASE ~Refuses(child, wanted)
    <2>1. PICK n : n = parent.prerequisite + 1
        OBVIOUS
    <2>2. g = Changed(parent, parent.at, n, events, parent.result)
        BY <1>5, <1>7, <1>9, <2>1
    <2>3. /\ g.flag = parent.flag /\ g.at = parent.at /\ g.prerequisite = n
          /\ g.rule = parent.rule /\ g.clause = parent.clause /\ g.segment = parent.segment
        BY <2>2, ChangedFields
    <2> QED
        BY <1>9, <2>1, <2>3
<1> QED
    BY <1>8, <1>9

\* The evaluation of the prerequisite of a frame is over.
LEMMA ReturnFollows ==
    ASSUME NEW c, WellFormed(c), NEW u, NEW R, Resolved(c, u, R),
           NEW parent, NEW child, GoodFrame(parent), GoodFrame(child),
           FrameFollows(c, u, R, parent), FrameFollows(c, u, R, child),
           parent.at = "prerequisites", child.at = "done",
           parent.prerequisite \in DOMAIN parent.flag.prerequisites,
           parent.flag.prerequisites[parent.prerequisite].key = child.flag.key,
           NEW g, g = AfterPrerequisite(parent, child)
    PROVE  \E S : R \subseteq S /\ Resolved(c, u, S) /\ FrameFollows(c, u, S, g)
<1>1. PICK r : r = child.result
    OBVIOUS
<1>2. PICK wanted : wanted = parent.flag.prerequisites[parent.prerequisite]
    OBVIOUS
<1>3. /\ Here(c, parent.flag) /\ Here(c, child.flag) /\ FlagOK(child.flag)
      /\ FlagOK(parent.flag)
    BY HereOK DEF FrameFollows
<1>4. CASE r.status = "STORE"
    <2>1. LDi_isEvalError(r.status)
        BY <1>4 DEF LDi_isEvalError
    <2>2. g = Done(parent, Result(r.status, Null, NoDetails))
        BY <1>1, <2>1 DEF AfterPrerequisite
    <2>3. Leads(c, u, parent, g)
        BY <1>4, <2>2, StoreLeads
    <2> QED
        BY <2>3 DEF Leads
<1>5. CASE r.status # "STORE"
    <2>1. PICK k : k = child.flag.key
        OBVIOUS
    <2>2. PICK o : o = Meant(c, u)[k]
        OBVIOUS
    <2>3. k \in R /\ Shown(r, o)
        BY <1>1, <1>5, <2>1, <2>2 DEF FrameFollows, Right
    <2>4. /\ r.status \in {"MISS", "MATCH"} /\ r.details.reason \in Reasons
          /\ o.reason = r.details.reason /\ o.variation = r.details.variation
          /\ r.status = "MISS" <=> r.details.reason \in {"OFF", "PREREQUISITE_FAILED"}
        BY <2>3 DEF Shown, Outcome
    <2>5. ~LDi_isEvalError(r.status)
        BY <2>4 DEF LDi_isEvalError
    <2>6. ~NoFeatureEvent(child.flag, r.details)
        <3>1. LDReasonToJSON(r.details)
            BY <2>4 DEF LDReasonToJSON, Reasons
        <3>2. Bad \notin EventFields(child.flag)
            BY <1>3 DEF FlagOK, EventFields
        <3> QED
            BY <3>1, <3>2 DEF NoFeatureEvent
    <2>7. child.flag.on # TRUE => o.reason = "OFF"
        <3>1. PICK m : Settled(c, u, R, m)
            BY DEF Resolved
        <3>2. o = Decided(c, u, c[k], Meant(c, u))
            BY <2>2, <2>3, <3>1 DEF Settled
        <3>3. c[k] = child.flag
            BY <1>3, <2>1 DEF Here
        <3> QED
            BY <3>2, <3>3 DEF Decided, Outcome
    <2>8. wanted.key = k /\ c[k] # Null
        BY <1>2, <1>3, <2>1 DEF Here
    <2>9. parent.prerequisite \in Unmet(c, parent.flag, Meant(c, u)) <=> Refuses(child, wanted)
        BY <1>1, <1>2, <2>2, <2>4, <2>7, <2>8 DEF Unmet, Refuses
    <2>10. CASE Refuses(child, wanted)
        <3>1. /\ g.flag = parent.flag /\ g.at = "done"
              /\ g.result = EvaluateFailedPrerequisite(parent.flag, wanted.key)
            BY <1>1, <1>2, <2>5, <2>6, <2>10, AfterShape
        <3>2. ASSUME NEW m, Settled(c, u, R, m), NEW n \in m..Most
              PROVE  parent.prerequisite \in Unmet(c, parent.flag, Levels(c, u)[n])
            <4>1. PICK flag, p : flag = parent.flag /\ p = parent.prerequisite
                OBVIOUS
            <4>2. p \in DOMAIN flag.prerequisites /\ flag.prerequisites[p].key \in R
                BY <1>2, <2>3, <2>8, <4>1
            <4>3. p \in Unmet(c, flag, Meant(c, u))
                BY <2>9, <2>10, <4>1
            <4>4. p \in Unmet(c, flag, Levels(c, u)[n])
                BY <3>2, <4>2, <4>3, UnmetAlike
            <4> QED
                BY <4>1, <4>4
        <3> QED
            BY <1>2, <3>1, <3>2, FailsFollow
    <2>11. CASE ~Refuses(child, wanted)
        <3>1. /\ g.flag = parent.flag /\ g.at = "prerequisites"
              /\ g.prerequisite = parent.prerequisite + 1
              /\ g.rule = parent.rule /\ g.clause = parent.clause
              /\ g.segment = parent.segment
            BY <1>1, <1>2, <2>5, <2>6, <2>11, AfterShape
        <3>2. Met(c, u, R, parent.flag, parent.prerequisite)
            BY <1>2, <2>3, <2>8, <2>9, <2>11 DEF Met
        <3>3. ASSUME NEW i \in 1..(g.prerequisite - 1) PROVE Met(c, u, R, g.flag, i)
            <4>1. parent.prerequisite \in Nat
                BY DEF GoodFrame
            <4>2. i = parent.prerequisite \/ i \in 1..(parent.prerequisite - 1)
                BY <3>1, <4>1
            <4>3. \A j \in 1..(parent.prerequisite - 1) : Met(c, u, R, parent.flag, j)
                BY DEF FrameFollows
            <4> QED
                BY <3>1, <3>2, <4>2, <4>3
        <3>4. FrameFollows(c, u, R, g)
            BY <3>1, <3>3 DEF FrameFollows
        <3> QED
            BY <3>4
    <2> QED
        BY <2>10, <2>11
<1> QED
    BY <1>4, <1>5

\* Past the prerequisites none of them is unmet.
LEMMA PastNoneUnmet ==
    ASSUME NEW c, WellFormed(c), NEW u, NEW R, NEW f, GoodFrame(f), Work(f),
           f.at \in {"targets", "rules"}, FrameFollows(c, u, R, f),
           NEW m, Settled(c, u, R, m), NEW n \in m..Most
    PROVE  Unmet(c, f.flag, Levels(c, u)[n]) = {}
<1>1. FlagOK(f.flag)
    BY HereOK DEF FrameFollows
<1>2. f.prerequisite = Len(f.flag.prerequisites) + 1 /\ f.at # "done"
    BY DEF Work
<1>3. f.prerequisite - 1 = Len(f.flag.prerequisites)
    BY <1>1, <1>2, PrerequisitesOK
<1>4. \A i \in 1..Len(f.flag.prerequisites) : Met(c, u, R, f.flag, i)
    BY <1>2, <1>3 DEF FrameFollows
<1> QED
    BY <1>1, <1>4, NoneUnmet

LEMMA TargetsLead ==
    ASSUME NEW c, WellFormed(c), NEW u, NEW f, GoodFrame(f), Work(f), f.at = "targets", NEW g,
           g = IF EvaluateTargets(f.flag, u) # Undecided
               THEN Done(f, EvaluateTargets(f.flag, u))
               ELSE [f EXCEPT !.at = "rules"]
    PROVE  Leads(c, u, f, g)
<1> SUFFICES ASSUME NEW R, Resolved(c, u, R), FrameFollows(c, u, R, f)
             PROVE  \E S : R \subseteq S /\ Resolved(c, u, S) /\ FrameFollows(c, u, S, g)
    BY DEF Leads
<1>1. Here(c, f.flag) /\ FlagOK(f.flag) /\ f.flag.on = TRUE
    BY HereOK DEF FrameFollows
<1>2. CASE Targeted(f.flag, u) = {}
    <2>1. g = [f EXCEPT !.at = "rules"]
        BY <1>1, <1>2, TargetsShown
    <2>2. g = Changed(f, "rules", f.prerequisite, f.events, f.result)
        BY <2>1, AtFields
    <2>3. /\ g.flag = f.flag /\ g.at = "rules" /\ g.prerequisite = f.prerequisite
          /\ g.rule = f.rule /\ g.clause = f.clause /\ g.segment = f.segment
        BY <2>2, ChangedFields
    <2>4. g.rule = 1 /\ g.clause = 1 /\ g.segment = 1
        BY <2>3 DEF FrameFollows
    <2>5. Reached(c, u, g)
        <3>1. 1..(g.rule - 1) = {} /\ 1..(g.clause - 1) = {} /\ 1..(g.segment - 1) = {}
            BY <2>4
        <3> QED
            BY <1>2, <2>3, <3>1 DEF Reached
    <2>6. FrameFollows(c, u, R, g)
        BY <1>1, <2>3, <2>5 DEF FrameFollows
    <2> QED
        BY <2>6
<1>3. CASE Targeted(f.flag, u) # {}
    <2>1. PICK r : r = EvaluateTargets(f.flag, u)
        OBVIOUS
    <2>2. PICK o : o = Outcome("TARGET_MATCH", Null,
                               f.flag.targets[Min(Targeted(f.flag, u))].variation)
        OBVIOUS
    <2>3. Shown(r, o)
        BY <1>1, <1>3, <2>1, <2>2, TargetsShown
    <2>4. r # Undecided
        BY <2>3, UndecidedStatus DEF Shown
    <2>5. g.flag = f.flag /\ g.at = "done" /\ g.result = r
        <3>1. /\ Done(f, r).flag = f.flag /\ Done(f, r).at = "done"
              /\ Done(f, r).result = r
            BY DoneFields
        <3>2. g = Done(f, r)
            BY <2>1, <2>4
        <3> QED
            BY <3>1, <3>2
    <2>6. ASSUME NEW m, Settled(c, u, R, m), NEW n \in m..Most
          PROVE  Decided(c, u, f.flag, Levels(c, u)[n]) = o
        <3>1. Unmet(c, f.flag, Levels(c, u)[n]) = {}
            BY <2>6, PastNoneUnmet
        <3> QED
            BY <1>1, <1>3, <2>2, <3>1, DecidedTarget
    <2> QED
        BY <1>1, <2>3, <2>5, <2>6, FrameResolves
<1> QED
    BY <1>2, <1>3

LEMMA RuleOK ==
    ASSUME NEW flag, FlagOK(flag), NEW i \in DOMAIN flag.rules
    PROVE  /\ flag.rules[i] # Bad /\ ClausesOK(flag.rules[i].clauses)
           /\ \A j \in DOMAIN flag.rules[i].clauses : ClauseOK(flag.rules[i].clauses[j])
<1>1. flag.rules[i] # Bad /\ ClausesOK(flag.rules[i].clauses)
    BY DEF FlagOK, Range
<1> QED
    BY <1>1 DEF ClausesOK, Range

LEMMA FallthroughLeads ==
    ASSUME NEW c, WellFormed(c), NEW u \in Users, NEW f, GoodFrame(f), Work(f), f.at = "rules",
           f.flag.rules # Bad, ~(f.rule <= Len(f.flag.rules)),
           NEW g, g = Done(f, EvaluateFallthrough(f.flag, u))
    PROVE  Leads(c, u, f, g)
<1> SUFFICES ASSUME NEW R, Resolved(c, u, R), FrameFollows(c, u, R, f)
             PROVE  \E S : R \subseteq S /\ Resolved(c, u, S) /\ FrameFollows(c, u, S, g)
    BY DEF Leads
<1>1. Here(c, f.flag) /\ FlagOK(f.flag) /\ f.flag.on = TRUE /\ Reached(c, u, f)
    BY HereOK DEF FrameFollows
<1>2. f.flag.key \in Flags
    BY <1>1 DEF Here
<1>3. PICK r : r = EvaluateFallthrough(f.flag, u)
    OBVIOUS
<1>4. PICK o : o = Outcome("FALLTHROUGH", Null, Served(f.flag.fallthrough, f.flag, u))
    OBVIOUS
<1>5. Shown(r, o)
    BY <1>1, <1>2, <1>3, <1>4, FallthroughShown
<1>6. g.flag = f.flag /\ g.at = "done" /\ g.result = r
    BY <1>3, DoneFields
<1>7. Targeted(f.flag, u) = {} /\ Ruled(c, f.flag, u) = {}
    <2>1. Len(f.flag.rules) \in Nat /\ DOMAIN f.flag.rules = 1..Len(f.flag.rules)
        BY <1>1, IsSeqLen DEF FlagOK
    <2>2. f.rule \in Nat
        BY DEF GoodFrame
    <2>3. \A i \in DOMAIN f.flag.rules : i \in 1..(f.rule - 1)
        BY <2>1, <2>2
    <2> QED
        BY <1>1, <2>3 DEF Reached, Ruled
<1>8. ASSUME NEW m, Settled(c, u, R, m), NEW n \in m..Most
      PROVE  Decided(c, u, f.flag, Levels(c, u)[n]) = o
    <2>1. Unmet(c, f.flag, Levels(c, u)[n]) = {}
        BY <1>8, PastNoneUnmet
    <2> QED
        BY <1>1, <1>4, <1>7, <2>1, DecidedFallthrough
<1> QED
    BY <1>1, <1>5, <1>6, <1>8, FrameResolves

LEMMA RuleLeads ==
    ASSUME NEW c, WellFormed(c), NEW u \in Users, NEW f, GoodFrame(f), Work(f), f.at = "rules",
           f.rule \in DOMAIN f.flag.rules,
           ~(f.clause <= Len(f.flag.rules[f.rule].clauses)),
           NEW g, g = Done(f, EvaluateRule(f.flag, f.rule, u))
    PROVE  Leads(c, u, f, g)
<1> SUFFICES ASSUME NEW R, Resolved(c, u, R), FrameFollows(c, u, R, f)
             PROVE  \E S : R \subseteq S /\ Resolved(c, u, S) /\ FrameFollows(c, u, S, g)
    BY DEF Leads
<1>1. Here(c, f.flag) /\ FlagOK(f.flag) /\ f.flag.on = TRUE /\ Reached(c, u, f)
    BY HereOK DEF FrameFollows
<1>2. f.flag.key \in Flags
    BY <1>1 DEF Here
<1>3. PICK i : i = f.rule
    OBVIOUS
<1>4. PICK rule : rule = f.flag.rules[i]
    OBVIOUS
<1>5. PICK r : r = EvaluateRule(f.flag, i, u)
    OBVIOUS
<1>6. PICK o : o = Outcome("RULE_MATCH", i - 1, Served(rule.serve, f.flag, u))
    OBVIOUS
<1>7. Shown(r, o)
    BY <1>1, <1>2, <1>3, <1>4, <1>5, <1>6, RuleShown
<1>8. g.flag = f.flag /\ g.at = "done" /\ g.result = r
    BY <1>3, <1>5, DoneFields
<1>9. RuleHolds(c, rule, u)
    <2>1. IsSeq(rule.clauses)
        BY <1>1, <1>3, <1>4, RuleOK DEF ClausesOK
    <2>2. Len(rule.clauses) \in Nat /\ DOMAIN rule.clauses = 1..Len(rule.clauses)
        BY <2>1, IsSeqLen
    <2>3. f.clause \in Nat /\ ~(f.clause <= Len(rule.clauses))
        BY <1>3, <1>4 DEF Work
    <2>4. \A j \in DOMAIN rule.clauses : j \in 1..(f.clause - 1)
        BY <2>2, <2>3
    <2>5. \A j \in DOMAIN rule.clauses : ClauseTrue(c, u, rule.clauses[j])
        BY <1>1, <1>3, <1>4, <2>4 DEF Reached
    <2>6. \A clause \in Range(rule.clauses) : ClauseTrue(c, u, clause)
        BY <2>5 DEF Range
    <2> QED
        BY <2>6, RuleOfClauses
<1>10. Targeted(f.flag, u) = {} /\ \A j \in 1..(i - 1) : ~RuleHolds(c, f.flag.rules[j], u)
    BY <1>1, <1>3 DEF Reached
<1>11. ASSUME NEW m, Settled(c, u, R, m), NEW n \in m..Most
       PROVE  Decided(c, u, f.flag, Levels(c, u)[n]) = o
    <2>1. Unmet(c, f.flag, Levels(c, u)[n]) = {}
        BY <1>11, PastNoneUnmet
    <2>2. PICK flag, l : flag = f.flag /\ l = Levels(c, u)[n]
        OBVIOUS
    <2>3. /\ flag.on = TRUE /\ Unmet(c, flag, l) = {} /\ Targeted(flag, u) = {}
          /\ FirstRule(c, u, flag, i)
        BY <1>1, <1>3, <1>4, <1>9, <1>10, <2>1, <2>2 DEF FirstRule
    <2>4. o = Outcome("RULE_MATCH", i - 1, Served(flag.rules[i].serve, flag, u))
        BY <1>4, <1>6, <2>2
    <2>5. Decided(c, u, flag, l) = o
        BY <2>3, <2>4, DecidedRule
    <2> QED
        BY <2>2, <2>5
<1> QED
    BY <1>1, <1>7, <1>8, <1>11, FrameResolves

\* A frame that moves on in the rules follows if the place it comes to does.
LEMMA MovedFollows ==
    ASSUME NEW c, NEW u, NEW R, NEW f, FrameFollows(c, u, R, f), f.at = "rules",
           NEW n, NEW d, NEW s, NEW g, Moved(f, g, n, d, s),
           \A i \in 1..(n - 1) : ~RuleHolds(c, f.flag.rules[i], u),
           \A j \in 1..(d - 1) : ClauseTrue(c, u, f.flag.rules[n].clauses[j]),
           \A j \in 1..(s - 1) : ~SegmentTrue(c, u, f.flag.rules[n].clauses[d].values[j])
    PROVE  FrameFollows(c, u, R, g)
<1>1. Targeted(g.flag, u) = {}
    BY DEF FrameFollows, Reached, Moved
<1>2. Reached(c, u, g)
    BY <1>1 DEF Reached, Moved
<1> QED
    BY <1>2 DEF FrameFollows, Moved

LEMMA NothingBefore == 1..(1 - 1) = {}
OBVIOUS

\* The clause that the rule has come to is decided.
LEMMA ClauseFollows ==
    ASSUME NEW c, WellFormed(c), NEW u, NEW R, NEW f, GoodFrame(f), Work(f),
           FrameFollows(c, u, R, f), f.at = "rules", NEW rule, rule = f.flag.rules[f.rule],
           f.clause \in DOMAIN rule.clauses,
           NEW g, IF ClauseTrue(c, u, rule.clauses[f.clause])
                  THEN Moved(f, g, f.rule, f.clause + 1, 1)
                  ELSE Moved(f, g, f.rule + 1, 1, 1)
    PROVE  FrameFollows(c, u, R, g)
<1>1. f.rule \in Nat \ {0} /\ f.clause \in Nat \ {0} /\ f.segment \in Nat \ {0}
    BY DEF GoodFrame, Work
<1>2. Reached(c, u, f)
    BY DEF FrameFollows
<1>3. CASE ClauseTrue(c, u, rule.clauses[f.clause])
    <2>1. PICK d : d = f.clause + 1
        OBVIOUS
    <2>2. \A j \in 1..(d - 1) : j \in 1..(f.clause - 1) \/ j = f.clause
        BY <1>1, <2>1
    <2>3. \A j \in 1..(d - 1) : ClauseTrue(c, u, f.flag.rules[f.rule].clauses[j])
        BY <1>2, <1>3, <2>2 DEF Reached
    <2>4. \A i \in 1..(f.rule - 1) : ~RuleHolds(c, f.flag.rules[i], u)
        BY <1>2 DEF Reached
    <2>5. Moved(f, g, f.rule, d, 1)
        BY <1>3, <2>1
    <2> QED
        BY <2>3, <2>4, <2>5, NothingBefore, MovedFollows
<1>4. CASE ~ClauseTrue(c, u, rule.clauses[f.clause])
    <2>1. PICK n : n = f.rule + 1
        OBVIOUS
    <2>2. ~RuleHolds(c, rule, u)
        BY <1>4, RuleOfClauses DEF Range
    <2>3. \A i \in 1..(n - 1) : i \in 1..(f.rule - 1) \/ i = f.rule
        BY <1>1, <2>1
    <2>4. \A i \in 1..(n - 1) : ~RuleHolds(c, f.flag.rules[i], u)
        BY <1>2, <2>2, <2>3 DEF Reached
    <2>5. Moved(f, g, n, 1, 1)
        BY <1>4, <2>1
    <2> QED
        BY <2>4, <2>5, NothingBefore, MovedFollows
<1> QED
    BY <1>3, <1>4

\* The segment that the clause has come to does not have the user.
LEMMA SegmentFollows ==
    ASSUME NEW c, NEW u, NEW R, NEW f, GoodFrame(f), Work(f),
           FrameFollows(c, u, R, f), f.at = "rules",
           ~SegmentTrue(c, u, f.flag.rules[f.rule].clauses[f.clause].values[f.segment]),
           NEW g, Moved(f, g, f.rule, f.clause, f.segment + 1)
    PROVE  FrameFollows(c, u, R, g)
<1>1. f.segment \in Nat \ {0}
    BY DEF Work
<1>2. Reached(c, u, f)
    BY DEF FrameFollows
<1>3. PICK s : s = f.segment + 1
    OBVIOUS
<1>4. \A j \in 1..(s - 1) : j \in 1..(f.segment - 1) \/ j = f.segment
    BY <1>1, <1>3
<1>5. \A j \in 1..(s - 1) :
        ~SegmentTrue(c, u, f.flag.rules[f.rule].clauses[f.clause].values[j])
    BY <1>2, <1>4 DEF Reached
<1>6. /\ \A i \in 1..(f.rule - 1) : ~RuleHolds(c, f.flag.rules[i], u)
      /\ \A j \in 1..(f.clause - 1) : ClauseTrue(c, u, f.flag.rules[f.rule].clauses[j])
    BY <1>2 DEF Reached
<1>7. Moved(f, g, f.rule, f.clause, s)
    BY <1>3
<1> QED
    BY <1>5, <1>6, <1>7, MovedFollows

-----------------------------------------------------------------------------
(* The stack follows what flags mean.                                        *)

\* For every well-formed content that agrees with what was read, the frames
\* follow what flags mean there.
Follows(s, rs, u) ==
    \A c : (WellFormed(c) /\ Agrees(c, rs)) =>
        \E R : Resolved(c, u, R) /\ \A i \in 1..Len(s) : FrameFollows(c, u, R, s[i])

ReadsMore == UNCHANGED reads \/ \E k \in Keys : ReadOne(k)

LEMMA ReadAgrees ==
    ASSUME ReadsOK(reads), NEW k \in Keys, ReadOne(k), NEW c, Agrees(c, reads')
    PROVE  c[k] = store[k] /\ Agrees(c, reads)
<1>1. /\ ReadsOK(reads') /\ Len(reads[k]) \in Nat
      /\ DOMAIN reads'[k] = 1..(Len(reads[k]) + 1)
      /\ \A j \in Keys : j # k => reads'[j] = reads[j]
      /\ \A i \in 1..Len(reads[k]) : reads'[k][i] = reads[k][i]
      /\ reads'[k][Len(reads[k]) + 1] = store[k]
    BY ReadOneKeeps
<1>2. Len(reads'[k]) = Len(reads[k]) + 1
    <2>1. DOMAIN reads'[k] = 1..Len(reads'[k]) /\ Len(reads'[k]) \in Nat
        BY <1>1, IsSeqLen DEF ReadsOK
    <2>2. Len(reads[k]) + 1 \in 1..Len(reads'[k])
        BY <1>1, <2>1
    <2>3. Len(reads[k]) + 2 \notin 1..Len(reads'[k])
        BY <1>1, <2>1
    <2> QED
        BY <1>1, <2>1, <2>2, <2>3
<1>3. c[k] = store[k]
    BY <1>1, <1>2 DEF Agrees
<1>4. ASSUME NEW j \in Keys, NEW i \in 1..Len(reads[j]) PROVE reads[j][i] = c[j]
    <2>1. CASE j # k
        <3>1. reads'[j] = reads[j]
            BY <1>1, <2>1
        <3> QED
            BY <3>1 DEF Agrees
    <2>2. CASE j = k
        <3>1. i \in 1..Len(reads'[k]) /\ reads'[k][i] = reads[k][i]
            BY <1>1, <1>2, <2>2
        <3> QED
            BY <2>2, <3>1 DEF Agrees
    <2> QED
        BY <2>1, <2>2
<1> QED
    BY <1>3, <1>4 DEF Agrees

LEMMA MoreAgrees ==
    ASSUME ReadsOK(reads), ReadsMore, NEW c, Agrees(c, reads')
    PROVE  Agrees(c, reads)
<1>1. CASE UNCHANGED reads
    BY <1>1
<1>2. CASE \E k \in Keys : ReadOne(k)
    BY <1>2, ReadAgrees
<1> QED
    BY <1>1, <1>2 DEF ReadsMore

\* The innermost frame goes on.
LEMMA GoesOnFollows ==
    ASSUME GoodStack(stack), stack # <<>>, ReadsOK(reads), ReadsMore, NEW u,
           Follows(stack, reads, u), NEW g, SetTop(g),
           \A c : (WellFormed(c) /\ Agrees(c, reads')) => Leads(c, u, Top, g)
    PROVE  Follows(stack', reads', u)
<1>1. /\ Len(stack) \in Nat \ {0} /\ Depth = Len(stack)
      /\ Len(stack') = Len(stack) /\ stack'[Len(stack)] = g
      /\ \A i \in 1..Len(stack) : i # Len(stack) => stack'[i] = stack[i]
    BY GoesOnStack
<1> SUFFICES ASSUME NEW c, WellFormed(c), Agrees(c, reads')
             PROVE  \E R : /\ Resolved(c, u, R)
                           /\ \A i \in 1..Len(stack') : FrameFollows(c, u, R, stack'[i])
    BY DEF Follows
<1>2. Agrees(c, reads)
    BY MoreAgrees
<1>3. PICK R : Resolved(c, u, R) /\ \A i \in 1..Len(stack) : FrameFollows(c, u, R, stack[i])
    BY <1>2 DEF Follows
<1>4. FrameFollows(c, u, R, Top)
    BY <1>1, <1>3 DEF Top
<1>5. PICK S : R \subseteq S /\ Resolved(c, u, S) /\ FrameFollows(c, u, S, g)
    BY <1>3, <1>4 DEF Leads
<1>6. ASSUME NEW i \in 1..Len(stack') PROVE FrameFollows(c, u, S, stack'[i])
    <2>1. CASE i = Len(stack)
        BY <1>1, <1>5, <2>1
    <2>2. CASE i # Len(stack)
        <3>1. i \in 1..Len(stack) /\ stack'[i] = stack[i]
            BY <1>1, <2>2
        <3>2. FrameFollows(c, u, R, stack[i])
            BY <1>3, <3>1
        <3>3. FrameFollows(c, u, S, stack[i])
            BY <1>5, <3>2, MoreFollows
        <3> QED
            BY <3>1, <3>3
    <2> QED
        BY <2>1, <2>2
<1> QED
    BY <1>5, <1>6

LEMMA FrameStarts ==
    ASSUME NEW c, NEW u, NEW R, NEW flag, Here(c, flag)
    PROVE  FrameFollows(c, u, R, Frame(flag))
<1>1. PICK f : f = Frame(flag)
    OBVIOUS
<1>2. /\ f.flag = flag /\ f.at = "on" /\ f.prerequisite = 1 /\ f.rule = 1
      /\ f.clause = 1 /\ f.segment = 1
    BY <1>1 DEF Frame
<1>3. 1..(f.prerequisite - 1) = {}
    BY <1>2
<1>4. FrameFollows(c, u, R, f)
    BY <1>2, <1>3 DEF FrameFollows
<1> QED
    BY <1>1, <1>4

\* A prerequisite is read and its evaluation begins.
LEMMA DescendsFollows ==
    ASSUME GoodStack(stack), stack # <<>>, ReadsOK(reads), Stored(store), NEW u,
           Follows(stack, reads, u), NEW k \in Flags, ReadOne(k), store[k] # Null,
           stack' = Append(stack, Frame(store[k]))
    PROVE  Follows(stack', reads', u)
<1>0. PICK g : g = Frame(store[k])
    OBVIOUS
<1>1. /\ Len(stack) \in Nat \ {0} /\ Len(stack') = Len(stack) + 1
      /\ stack'[Len(stack) + 1] = g
      /\ \A i \in 1..Len(stack) : stack'[i] = stack[i]
    BY <1>0, DescendsStack
<1> SUFFICES ASSUME NEW c, WellFormed(c), Agrees(c, reads')
             PROVE  \E R : /\ Resolved(c, u, R)
                           /\ \A i \in 1..Len(stack') : FrameFollows(c, u, R, stack'[i])
    BY DEF Follows
<1>2. k \in Keys
    BY DEF Keys
<1>3. Agrees(c, reads) /\ c[k] = store[k]
    BY <1>2, ReadAgrees
<1>4. PICK R : Resolved(c, u, R) /\ \A i \in 1..Len(stack) : FrameFollows(c, u, R, stack[i])
    BY <1>3 DEF Follows
<1>5. Here(c, store[k])
    BY <1>2, <1>3 DEF Here, Stored, StoredAt
<1>6. FrameFollows(c, u, R, g)
    BY <1>0, <1>5, FrameStarts
<1>7. ASSUME NEW i \in 1..Len(stack') PROVE FrameFollows(c, u, R, stack'[i])
    <2>1. CASE i = Len(stack) + 1
        BY <1>1, <1>6, <2>1
    <2>2. CASE i # Len(stack) + 1
        <3>1. i \in 1..Len(stack)
            BY <1>1, <2>2
        <3> QED
            BY <1>1, <1>4, <3>1
    <2> QED
        BY <2>1, <2>2
<1> QED
    BY <1>4, <1>7

\* The evaluation of a prerequisite returns.
LEMMA AscendsFollows ==
    ASSUME GoodStack(stack), Working(stack), NEW u, Follows(stack, reads, u),
           ReturnToPrerequisites
    PROVE  Follows(stack', reads', u)
<1>1. Depth > 1 /\ Len(stack) \in Nat /\ Depth = Len(stack) /\ Top.at = "done"
      /\ UNCHANGED reads
    BY IsSeqLen DEF ReturnToPrerequisites, GoodStack, Depth, Local
<1>2. /\ Depth - 1 \in 1..Len(stack) /\ Depth - 1 < Len(stack) /\ Depth \in 1..Len(stack)
      /\ Depth - 1 \in 1..(Depth - 1) /\ (Depth - 1) + 1 = Depth
    BY <1>1
<1>3. SubSeq(stack, 1, Depth - 1)[Depth - 1] = stack[Depth - 1]
    BY <1>2, ShorterIsSeq DEF GoodStack
<1>4. PICK parent, child : parent = stack[Depth - 1] /\ child = Top
    OBVIOUS
<1>5. PICK g : g = AfterPrerequisite(parent, child)
    OBVIOUS
<1>6. stack' = [SubSeq(stack, 1, Depth - 1) EXCEPT ![Depth - 1] = g]
    BY <1>3, <1>4, <1>5 DEF ReturnToPrerequisites
<1>7. /\ GoodFrame(parent) /\ GoodFrame(child) /\ Waiting(parent)
      /\ parent.at = "prerequisites" /\ child.at = "done"
      /\ parent.flag.prerequisites[parent.prerequisite].key = child.flag.key
    BY <1>1, <1>2, <1>4 DEF GoodStack, Working, Linked, Top
<1>8. parent.prerequisite \in DOMAIN parent.flag.prerequisites
    <2>1. /\ parent.flag.prerequisites # Bad
          /\ parent.prerequisite <= Len(parent.flag.prerequisites)
        BY <1>7 DEF Waiting
    <2>2. IsSeq(parent.flag.prerequisites) /\ parent.prerequisite \in Nat \ {0}
        BY <1>7, <2>1 DEF GoodFrame, ListsOK, NamesFlags
    <2> QED
        BY <2>1, <2>2, IsSeqLen
<1>9. /\ Len(stack) \in Nat \ {0, 1}
      /\ Len(stack') = Len(stack) - 1 /\ stack'[Len(stack) - 1] = g
      /\ \A i \in 1..(Len(stack) - 2) : stack'[i] = stack[i]
    BY <1>1, <1>6, AscendsStack
<1> SUFFICES ASSUME NEW c, WellFormed(c), Agrees(c, reads')
             PROVE  \E R : /\ Resolved(c, u, R)
                           /\ \A i \in 1..Len(stack') : FrameFollows(c, u, R, stack'[i])
    BY DEF Follows
<1>10. PICK R : Resolved(c, u, R) /\ \A i \in 1..Len(stack) : FrameFollows(c, u, R, stack[i])
    BY <1>1 DEF Follows
<1>11. FrameFollows(c, u, R, parent) /\ FrameFollows(c, u, R, child)
    BY <1>2, <1>4, <1>10 DEF Top
<1>12. PICK S : R \subseteq S /\ Resolved(c, u, S) /\ FrameFollows(c, u, S, g)
    BY <1>5, <1>7, <1>8, <1>10, <1>11, ReturnFollows
<1>13. ASSUME NEW i \in 1..Len(stack') PROVE FrameFollows(c, u, S, stack'[i])
    <2>1. CASE i = Len(stack) - 1
        BY <1>9, <1>12, <2>1
    <2>2. CASE i # Len(stack) - 1
        <3>1. i \in 1..(Len(stack) - 2) /\ i \in 1..Len(stack)
            BY <1>9, <2>2
        <3>2. FrameFollows(c, u, R, stack[i])
            BY <1>10, <3>1
        <3>3. FrameFollows(c, u, S, stack[i])
            BY <1>12, <3>2, MoreFollows
        <3> QED
            BY <1>9, <3>1, <3>3
    <2> QED
        BY <2>1, <2>2
<1> QED
    BY <1>12, <1>13

-----------------------------------------------------------------------------
(* The steps of LDi_evaluate keep the stack following.                       *)

Standing(u) ==
    /\ GoodStack(stack) /\ Working(stack) /\ Stored(store) /\ ReadsOK(reads)
    /\ stack # <<>> /\ u \in Users /\ u = call.user /\ Follows(stack, reads, u)

LEMMA StandingTop ==
    ASSUME NEW u, Standing(u)
    PROVE  GoodFrame(Top) /\ Work(Top)
BY TopWorks DEF Standing

LEMMA SectionOnFollows ==
    ASSUME NEW u, Standing(u), SectionOn
    PROVE  Follows(stack', reads', u)
<1>1. Top.at = "on" /\ UNCHANGED reads
    BY DEF SectionOn, At, Local
<1>2. PICK g : g = IF EvaluateOn(Top.flag) # Undecided THEN Done(Top, EvaluateOn(Top.flag))
                   ELSE [Top EXCEPT !.at = "prerequisites"]
    OBVIOUS
<1>3. SetTop(g)
    BY <1>2 DEF SectionOn, Decide
<1>4. \A c : (WellFormed(c) /\ Agrees(c, reads')) => Leads(c, u, Top, g)
    BY <1>1, <1>2, StandingTop, OnLeads
<1> QED
    BY <1>1, <1>3, <1>4, GoesOnFollows DEF Standing, ReadsMore

LEMMA NoPrerequisiteFollows ==
    ASSUME NEW u, Standing(u), NoPrerequisite
    PROVE  Follows(stack', reads', u)
<1>0. GoodFrame(Top) /\ Work(Top)
    BY StandingTop
<1>1. Top.at = "prerequisites" /\ ReadsMore
    BY DEF NoPrerequisite, At, Local, ReadsMore
<1>2. CASE /\ Fail("SCHEMA")
           /\ \/ Top.flag.prerequisites = Bad
              \/ /\ Top.flag.prerequisites # Bad
                 /\ Top.prerequisite <= Len(Top.flag.prerequisites)
                 /\ Top.flag.prerequisites[Top.prerequisite] = Bad
    <2>1. PICK g : g = Done(Top, Result("SCHEMA", Null, NoDetails))
        OBVIOUS
    <2>2. SetTop(g)
        BY <1>2, <2>1 DEF Fail, Decide
    <2>3. ~FlagOK(Top.flag)
        <3> SUFFICES ASSUME FlagOK(Top.flag) PROVE FALSE
            OBVIOUS
        <3>1. Top.prerequisite \in Nat \ {0}
            BY <1>0 DEF GoodFrame
        <3> QED
            BY <1>2, <3>1, PrerequisitesOK
    <2>4. \A c : (WellFormed(c) /\ Agrees(c, reads')) => Leads(c, u, Top, g)
        BY <2>3, MalformedLeads
    <2> QED
        BY <1>1, <2>2, <2>4, GoesOnFollows DEF Standing
<1>3. CASE SetTop([Top EXCEPT !.at = "targets"])
    <2>1. PICK g : g = [Top EXCEPT !.at = "targets"]
        OBVIOUS
    <2>2. SetTop(g)
        BY <1>3, <2>1
    <2>3. \A c : (WellFormed(c) /\ Agrees(c, reads')) => Leads(c, u, Top, g)
        BY <1>0, <1>1, <2>1, PastLeads
    <2> QED
        BY <1>1, <2>2, <2>3, GoesOnFollows DEF Standing
<1> QED
    BY <1>2, <1>3 DEF NoPrerequisite

\* A read that fails.
LEMMA FailedReadFollows ==
    ASSUME NEW u, Standing(u), Fail("STORE"), UNCHANGED reads
    PROVE  Follows(stack', reads', u)
<1>1. PICK g : g = Done(Top, Result("STORE", Null, NoDetails))
    OBVIOUS
<1>2. SetTop(g)
    BY <1>1 DEF Fail, Decide
<1>3. \A c : (WellFormed(c) /\ Agrees(c, reads')) => Leads(c, u, Top, g)
    BY <1>1, StandingTop, StoreLeads
<1> QED
    BY <1>2, <1>3, GoesOnFollows DEF Standing, ReadsMore

LEMMA ReadPrerequisiteFollows ==
    ASSUME NEW u, Standing(u), ReadPrerequisite
    PROVE  Follows(stack', reads', u)
<1>0. GoodFrame(Top) /\ Work(Top)
    BY StandingTop
<1>1. /\ Top.at = "prerequisites" /\ Top.flag.prerequisites # Bad
      /\ Top.prerequisite <= Len(Top.flag.prerequisites)
      /\ Top.flag.prerequisites[Top.prerequisite] # Bad
    BY DEF ReadPrerequisite, At, Prerequisite
<1>2. PICK key : key = Prerequisite.key
    OBVIOUS
<1>3. /\ Top.prerequisite \in DOMAIN Top.flag.prerequisites /\ key \in Flags
      /\ key = Top.flag.prerequisites[Top.prerequisite].key /\ key \in Keys
    BY <1>0, <1>1, <1>2, PrerequisiteNamed DEF Prerequisite, Keys
<1>4. CASE Fail("STORE") /\ UNCHANGED reads
    BY <1>4, FailedReadFollows
<1>5. CASE /\ store[key] = Null /\ ReadOne(key)
           /\ Decide(EvaluateFailedPrerequisite(Top.flag, key))
    <2>1. PICK g : g = Done(Top, EvaluateFailedPrerequisite(Top.flag, key))
        OBVIOUS
    <2>2. SetTop(g)
        BY <1>5, <2>1 DEF Decide
    <2>3. ASSUME NEW c, WellFormed(c), Agrees(c, reads') PROVE Leads(c, u, Top, g)
        <3>1. c[key] = Null
            BY <1>3, <1>5, <2>3, ReadAgrees DEF Standing
        <3> QED
            BY <1>0, <1>1, <1>3, <2>1, <2>3, <3>1, MissingLeads
    <2>4. ReadsMore
        BY <1>3, <1>5 DEF ReadsMore
    <2> QED
        BY <2>2, <2>3, <2>4, GoesOnFollows DEF Standing
<1>6. CASE /\ store[key] # Null /\ ReadOne(key)
           /\ stack' = Append(stack, Frame(store[key]))
    BY <1>3, <1>6, DescendsFollows DEF Standing
<1> QED
    BY <1>2, <1>4, <1>5, <1>6 DEF ReadPrerequisite

LEMMA SectionTargetsFollows ==
    ASSUME NEW u, Standing(u), SectionTargets
    PROVE  Follows(stack', reads', u)
<1>1. Top.at = "targets" /\ UNCHANGED reads /\ u = call.user
    BY DEF SectionTargets, At, Local, Standing
<1>2. PICK g : g = IF EvaluateTargets(Top.flag, u) # Undecided
                   THEN Done(Top, EvaluateTargets(Top.flag, u))
                   ELSE [Top EXCEPT !.at = "rules"]
    OBVIOUS
<1>3. SetTop(g)
    BY <1>1, <1>2 DEF SectionTargets, Decide
<1>4. \A c : (WellFormed(c) /\ Agrees(c, reads')) => Leads(c, u, Top, g)
    BY <1>1, <1>2, StandingTop, TargetsLead
<1> QED
    BY <1>1, <1>3, <1>4, GoesOnFollows DEF Standing, ReadsMore

\* The place in the rules that the innermost frame has come to.
LEMMA PlaceOK ==
    ASSUME NEW u, Standing(u), RulesLeft
    PROVE  /\ Top.rule \in DOMAIN Top.flag.rules
           /\ (ClausesLeft => Top.clause \in DOMAIN Rule.clauses /\ NamesSegments(Clause))
<1>1. GoodFrame(Top) /\ Work(Top) /\ Top.flag.rules # Bad /\ Top.rule <= Len(Top.flag.rules)
    BY StandingTop DEF RulesLeft
<1>2. /\ IsSeq(Top.flag.rules) /\ ClausesAreLists(Top.flag.rules)
      /\ Top.rule \in Nat \ {0} /\ Top.clause \in Nat \ {0}
    BY <1>1 DEF GoodFrame, ListsOK, Work
<1>3. Top.rule \in DOMAIN Top.flag.rules
    BY <1>1, <1>2, IsSeqLen
<1>4. ASSUME ClausesLeft PROVE Top.clause \in DOMAIN Rule.clauses /\ NamesSegments(Clause)
    <2>1. Rule # Bad /\ Rule.clauses # Bad /\ Top.clause <= Len(Rule.clauses)
        BY <1>4 DEF ClausesLeft
    <2>2. IsSeq(Rule.clauses) /\ \A j \in DOMAIN Rule.clauses : NamesSegments(Rule.clauses[j])
        BY <1>2, <1>3, <2>1 DEF ClausesAreLists, Rule
    <2>3. Top.clause \in DOMAIN Rule.clauses
        BY <1>2, <2>1, <2>2, IsSeqLen
    <2> QED
        BY <2>2, <2>3 DEF Clause
<1> QED
    BY <1>3, <1>4

\* The status of a clause tells whether it holds.
Tells(c, u, status) ==
    \A R : FrameFollows(c, u, R, Top) => status = Verdict(ClauseTrue(c, u, Clause))

LEMMA AfterClauseFollows ==
    ASSUME NEW u, Standing(u), Top.at = "rules", ClausesLeft, ReadsMore,
           NEW status, AfterClause(status),
           \A c : (WellFormed(c) /\ Agrees(c, reads')) => Tells(c, u, status)
    PROVE  Follows(stack', reads', u)
<1>0. GoodFrame(Top) /\ Work(Top)
    BY StandingTop
<1>1. PICK next : next = [Top EXCEPT !.clause = @ + 1, !.segment = 1]
    OBVIOUS
<1>2. PICK rest : rest = [Top EXCEPT !.rule = @ + 1, !.clause = 1, !.segment = 1]
    OBVIOUS
<1>3. /\ Moved(Top, next, Top.rule, Top.clause + 1, 1)
      /\ Moved(Top, rest, Top.rule + 1, 1, 1)
    BY <1>0, <1>1, <1>2, RuleMoves
<1>4. PICK g : g = IF LDi_isEvalError(status) THEN Done(Top, Result(status, Null, NoDetails))
                   ELSE IF status = "MATCH" THEN next ELSE rest
    OBVIOUS
<1>5. SetTop(g)
    BY <1>1, <1>2, <1>4 DEF AfterClause, Fail, Decide
<1>6. RulesLeft
    BY DEF ClausesLeft
<1>7. PICK rule : rule = Top.flag.rules[Top.rule] /\ Rule = rule
    BY DEF Rule
<1>8. Top.clause \in DOMAIN rule.clauses /\ Clause = rule.clauses[Top.clause]
    BY <1>6, <1>7, PlaceOK DEF Clause
<1>9. ASSUME NEW c, WellFormed(c), Agrees(c, reads') PROVE Leads(c, u, Top, g)
    <2> SUFFICES ASSUME NEW R, Resolved(c, u, R), FrameFollows(c, u, R, Top)
                 PROVE  \E S : R \subseteq S /\ Resolved(c, u, S) /\ FrameFollows(c, u, S, g)
        BY DEF Leads
    <2>1. status = Verdict(ClauseTrue(c, u, Clause))
        BY <1>9 DEF Tells
    <2>2. g = IF ClauseTrue(c, u, Clause) THEN next ELSE rest
        BY <1>4, <2>1 DEF Verdict, LDi_isEvalError
    <2>3. IF ClauseTrue(c, u, rule.clauses[Top.clause])
          THEN Moved(Top, g, Top.rule, Top.clause + 1, 1)
          ELSE Moved(Top, g, Top.rule + 1, 1, 1)
        BY <1>3, <1>8, <2>2
    <2>4. FrameFollows(c, u, R, g)
        BY <1>0, <1>7, <1>8, <1>9, <2>3, ClauseFollows
    <2> QED
        BY <2>4
<1> QED
    BY <1>5, <1>9, GoesOnFollows DEF Standing

\* A clause without segments tells whether it holds.
LEMMA ClauseTells ==
    ASSUME NEW u \in Users, NEW c, WellFormed(c), Top.rule \in DOMAIN Top.flag.rules,
           Top.clause \in DOMAIN Rule.clauses, ~(Clause # Bad /\ Clause.op = "segmentMatch"),
           NEW status, status = LDi_clauseMatchesUserNoSegments(Clause, u)
    PROVE  Tells(c, u, status)
<1> SUFFICES ASSUME NEW R, FrameFollows(c, u, R, Top)
             PROVE  status = Verdict(ClauseTrue(c, u, Clause))
    BY DEF Tells
<1>1. PICK clause : clause = Clause
    OBVIOUS
<1>2. FlagOK(Top.flag)
    BY HereOK DEF FrameFollows
<1>3. ClauseOK(clause)
    BY <1>1, <1>2, RuleOK DEF Clause, Rule
<1>4. clause.op # "segmentMatch"
    BY <1>1, <1>3 DEF ClauseOK
<1>5. status = Verdict(ClauseHolds(clause, u))
    BY <1>1, <1>3, ClauseVerdict
<1>6. ClauseTrue(c, u, clause) <=> ClauseHolds(clause, u)
    BY <1>4 DEF ClauseTrue
<1>7. status = Verdict(ClauseTrue(c, u, clause))
    BY <1>5, <1>6 DEF Verdict
<1> QED
    BY <1>1, <1>7

LEMMA SectionRulesFollows ==
    ASSUME NEW u, Standing(u), SectionRules
    PROVE  Follows(stack', reads', u)
<1>0. GoodFrame(Top) /\ Work(Top) /\ u \in Users /\ u = call.user
    BY StandingTop DEF Standing
<1>1. Top.at = "rules" /\ ReadsMore /\ ~OnSegments
    BY DEF SectionRules, At, Local, ReadsMore
<1>2. CASE Top.flag.rules = Bad \/ (RulesLeft /\ (Rule = Bad \/ Rule.clauses = Bad))
    <2>1. Fail("SCHEMA")
        BY <1>2 DEF SectionRules, RulesLeft
    <2>2. PICK g : g = Done(Top, Result("SCHEMA", Null, NoDetails))
        OBVIOUS
    <2>3. SetTop(g)
        BY <2>1, <2>2 DEF Fail, Decide
    <2>4. ~FlagOK(Top.flag)
        <3> SUFFICES ASSUME FlagOK(Top.flag) PROVE FALSE
            OBVIOUS
        <3>1. Top.flag.rules # Bad
            BY DEF FlagOK
        <3>2. RulesLeft /\ (Rule = Bad \/ Rule.clauses = Bad)
            BY <1>2, <3>1
        <3>3. Top.rule \in DOMAIN Top.flag.rules
            BY <3>2, PlaceOK
        <3>4. Rule # Bad /\ ClausesOK(Rule.clauses)
            BY <3>3, RuleOK DEF Rule
        <3> QED
            BY <3>2, <3>4 DEF ClausesOK
    <2>5. \A c : (WellFormed(c) /\ Agrees(c, reads')) => Leads(c, u, Top, g)
        BY <2>4, MalformedLeads
    <2> QED
        BY <1>1, <2>3, <2>5, GoesOnFollows DEF Standing
<1>3. CASE Top.flag.rules # Bad /\ ~RulesLeft
    <2>1. Decide(EvaluateFallthrough(Top.flag, u))
        BY <1>0, <1>3 DEF SectionRules
    <2>2. PICK g : g = Done(Top, EvaluateFallthrough(Top.flag, u))
        OBVIOUS
    <2>3. SetTop(g)
        BY <2>1, <2>2 DEF Decide
    <2>4. ~(Top.rule <= Len(Top.flag.rules))
        BY <1>3 DEF RulesLeft
    <2>5. \A c : (WellFormed(c) /\ Agrees(c, reads')) => Leads(c, u, Top, g)
        BY <1>0, <1>1, <1>3, <2>2, <2>4, FallthroughLeads
    <2> QED
        BY <1>1, <2>3, <2>5, GoesOnFollows DEF Standing
<1>4. CASE RulesLeft /\ Rule # Bad /\ Rule.clauses # Bad /\ ~ClausesLeft
    <2>1. Decide(EvaluateRule(Top.flag, Top.rule, u))
        BY <1>0, <1>4 DEF SectionRules, RulesLeft
    <2>2. PICK g : g = Done(Top, EvaluateRule(Top.flag, Top.rule, u))
        OBVIOUS
    <2>3. SetTop(g)
        BY <2>1, <2>2 DEF Decide
    <2>4. ~(Top.clause <= Len(Top.flag.rules[Top.rule].clauses))
        BY <1>4 DEF ClausesLeft, Rule
    <2>5. Top.rule \in DOMAIN Top.flag.rules
        BY <1>4, PlaceOK
    <2>6. \A c : (WellFormed(c) /\ Agrees(c, reads')) => Leads(c, u, Top, g)
        BY <1>0, <1>1, <2>2, <2>4, <2>5, RuleLeads
    <2> QED
        BY <1>1, <2>3, <2>6, GoesOnFollows DEF Standing
<1>5. CASE ClausesLeft
    <2>1. PICK status : status = LDi_clauseMatchesUserNoSegments(Clause, u)
        OBVIOUS
    <2>2. RulesLeft /\ Rule # Bad /\ Rule.clauses # Bad /\ Top.flag.rules # Bad
        BY <1>5 DEF ClausesLeft, RulesLeft
    <2>3. AfterClause(status)
        BY <1>0, <1>5, <2>1, <2>2 DEF SectionRules
    <2>4. Top.rule \in DOMAIN Top.flag.rules /\ Top.clause \in DOMAIN Rule.clauses
        BY <1>5, <2>2, PlaceOK
    <2>5. ~(Clause # Bad /\ Clause.op = "segmentMatch")
        BY <1>1, <1>5 DEF OnSegments
    <2>6. \A c : (WellFormed(c) /\ Agrees(c, reads')) => Tells(c, u, status)
        BY <1>0, <2>1, <2>4, <2>5, ClauseTells
    <2> QED
        BY <1>1, <1>5, <2>3, <2>6, AfterClauseFollows
<1> QED
    BY <1>2, <1>3, <1>4, <1>5 DEF RulesLeft

\* A clause on segments that is well formed, and the place of the frame in it.
LEMMA SegmentClauseOK ==
    ASSUME NEW u, Standing(u), OnSegments, NEW c, WellFormed(c), NEW R,
           FrameFollows(c, u, R, Top)
    PROVE  /\ ClauseOK(Clause) /\ Clause.values \in Seq(Segments)
           /\ Clause.values # Bad /\ Clause.negate # Bad
<1>1. /\ RulesLeft /\ ClausesLeft /\ Clause # Bad /\ Clause.op = "segmentMatch"
    BY DEF OnSegments, ClausesLeft
<1>2. /\ Top.rule \in DOMAIN Top.flag.rules /\ Top.clause \in DOMAIN Rule.clauses
      /\ NamesSegments(Clause)
    BY <1>1, PlaceOK
<1>3. FlagOK(Top.flag)
    BY HereOK DEF FrameFollows
<1>4. ClauseOK(Clause)
    BY <1>2, <1>3, RuleOK DEF Clause, Rule
<1>5. Clause.values # Bad /\ Clause.negate # Bad
    BY <1>4 DEF ClauseOK
<1> QED
    BY <1>1, <1>2, <1>4, <1>5 DEF NamesSegments

LEMMA NoSegmentLeftFollows ==
    ASSUME NEW u, Standing(u), NoSegmentLeft
    PROVE  Follows(stack', reads', u)
<1>0. GoodFrame(Top) /\ Work(Top)
    BY StandingTop
<1>1. /\ Top.at = "rules" /\ ReadsMore /\ OnSegments /\ ~SegmentsLeft /\ ClausesLeft
      /\ Clause.op = "segmentMatch"
    BY DEF NoSegmentLeft, At, Local, ReadsMore, OnSegments
<1>2. PICK status : status = IF Clause.values = Bad THEN "SCHEMA" ELSE maybeNegate(Clause, "MISS")
    OBVIOUS
<1>3. AfterClause(status)
    BY <1>2 DEF NoSegmentLeft
<1>4. ASSUME NEW c, WellFormed(c), NEW R, FrameFollows(c, u, R, Top)
      PROVE  status = Verdict(ClauseTrue(c, u, Clause))
    <2>1. Clause.values \in Seq(Segments) /\ Clause.values # Bad /\ Clause.negate # Bad
        BY <1>1, <1>4, SegmentClauseOK
    <2>2. PICK clause : clause = Clause
        OBVIOUS
    <2>3. ~(Top.segment <= Len(clause.values)) /\ Top.segment \in Nat
        BY <1>0, <1>1, <2>1, <2>2 DEF SegmentsLeft, Work
    <2>4. Len(clause.values) \in Nat /\ DOMAIN clause.values = 1..Len(clause.values)
        BY <2>1, <2>2
    <2>5. \A j \in DOMAIN clause.values : j \in 1..(Top.segment - 1)
        BY <2>3, <2>4
    <2>6. \A j \in 1..(Top.segment - 1) : ~SegmentTrue(c, u, clause.values[j])
        BY <1>1, <1>4, <2>2 DEF FrameFollows, Reached, Clause, Rule
    <2>7. ~\E k \in Range(clause.values) : SegmentTrue(c, u, k)
        BY <2>5, <2>6 DEF Range
    <2>8. status = maybeNegate(clause, "MISS")
        BY <1>2, <2>1, <2>2
    <2>9. Verdict(FALSE) = "MISS" /\ clause.negate # Bad
        BY <2>1, <2>2 DEF Verdict
    <2>10. maybeNegate(clause, "MISS") = Verdict(FALSE # (clause.negate = TRUE))
        BY <2>9 DEF maybeNegate, Verdict, LDi_isEvalError
    <2>11. ClauseTrue(c, u, clause) <=> (FALSE # (clause.negate = TRUE))
        BY <1>1, <2>2, <2>7 DEF ClauseTrue
    <2>12. status = Verdict(ClauseTrue(c, u, clause))
        BY <2>8, <2>10, <2>11 DEF Verdict
    <2> QED
        BY <2>2, <2>12
<1>5. \A c : (WellFormed(c) /\ Agrees(c, reads')) => Tells(c, u, status)
    BY <1>4 DEF Tells
<1> QED
    BY <1>1, <1>3, <1>5, AfterClauseFollows

LEMMA ReadSegmentFollows ==
    ASSUME NEW u, Standing(u), ReadSegment
    PROVE  Follows(stack', reads', u)
<1>0. GoodFrame(Top) /\ Work(Top) /\ u \in Users /\ u = call.user
    BY StandingTop DEF Standing
<1>1. /\ Top.at = "rules" /\ OnSegments /\ SegmentsLeft /\ ClausesLeft
      /\ Clause.op = "segmentMatch"
    BY DEF ReadSegment, At, SegmentsLeft, OnSegments
<1>2. PICK key : key = Clause.values[Top.segment]
    OBVIOUS
<1>3. key \in Keys \ Flags
    BY <1>0, <1>1, <1>2, SegmentNamed
<1>4. PICK status : status = IF store[key] = Null THEN "MISS"
                             ELSE LDi_segmentMatchesUser(store[key], u)
    OBVIOUS
<1>5. CASE Fail("STORE") /\ UNCHANGED reads
    BY <1>5, FailedReadFollows
<1>6. CASE /\ ReadOne(key)
           /\ IF status = "MISS" THEN SetTop([Top EXCEPT !.segment = @ + 1])
              ELSE AfterClause(maybeNegate(Clause, status))
    <2>0. ReadsMore
        BY <1>3, <1>6 DEF ReadsMore
    <2>1. ASSUME NEW c, WellFormed(c), Agrees(c, reads')
          PROVE  status = Verdict(SegmentTrue(c, u, key))
        <3>1. c[key] = store[key]
            BY <1>3, <1>6, <2>1, ReadAgrees DEF Standing
        <3>2. CASE c[key] = Null
            BY <1>4, <3>1, <3>2 DEF SegmentTrue, Verdict
        <3>3. CASE c[key] # Null
            <4>1. PICK segment : segment = c[key]
                OBVIOUS
            <4>2. SegmentOK(segment)
                BY <1>3, <2>1, <3>3, <4>1, SegmentHereOK
            <4>3. status = Verdict(SegmentHas(segment, u))
                BY <1>0, <1>4, <3>1, <3>3, <4>1, <4>2, SegmentVerdict
            <4>4. SegmentTrue(c, u, key) <=> SegmentHas(segment, u)
                BY <3>3, <4>1 DEF SegmentTrue
            <4> QED
                BY <4>3, <4>4 DEF Verdict
        <3> QED
            BY <3>2, <3>3
    <2>2. CASE status = "MISS"
        <3>1. PICK g : g = [Top EXCEPT !.segment = @ + 1]
            OBVIOUS
        <3>2. SetTop(g)
            BY <1>6, <2>2, <3>1
        <3>3. Moved(Top, g, Top.rule, Top.clause, Top.segment + 1)
            BY <1>0, <3>1, RuleMoves
        <3>4. ASSUME NEW c, WellFormed(c), Agrees(c, reads') PROVE Leads(c, u, Top, g)
            <4> SUFFICES ASSUME NEW R, Resolved(c, u, R), FrameFollows(c, u, R, Top)
                         PROVE  \E S : R \subseteq S /\ Resolved(c, u, S) /\ FrameFollows(c, u, S, g)
                BY DEF Leads
            <4>1. ~SegmentTrue(c, u, key)
                BY <2>1, <2>2, <3>4 DEF Verdict
            <4>2. ~SegmentTrue(c, u, Top.flag.rules[Top.rule].clauses[Top.clause].values[Top.segment])
                BY <1>2, <4>1 DEF Clause, Rule
            <4>3. FrameFollows(c, u, R, g)
                BY <1>0, <1>1, <3>3, <4>2, SegmentFollows
            <4> QED
                BY <4>3
        <3> QED
            BY <2>0, <3>2, <3>4, GoesOnFollows DEF Standing
    <2>3. CASE status # "MISS"
        <3>1. PICK told : told = maybeNegate(Clause, status)
            OBVIOUS
        <3>2. AfterClause(told)
            BY <1>6, <2>3, <3>1
        <3>3. ASSUME NEW c, WellFormed(c), Agrees(c, reads'), NEW R, FrameFollows(c, u, R, Top)
              PROVE  told = Verdict(ClauseTrue(c, u, Clause))
            <4>1. PICK clause : clause = Clause
                OBVIOUS
            <4>2. SegmentTrue(c, u, key) /\ status = "MATCH"
                BY <2>1, <2>3, <3>3 DEF Verdict
            <4>3. clause.values \in Seq(Segments) /\ clause.values # Bad /\ clause.negate # Bad
                BY <1>1, <3>3, <4>1, SegmentClauseOK
            <4>4. Top.segment \in DOMAIN clause.values
                <5>1. Top.segment \in Nat \ {0} /\ Top.segment <= Len(clause.values)
                    BY <1>0, <1>1, <4>1 DEF Work, SegmentsLeft
                <5>2. Len(clause.values) \in Nat /\ DOMAIN clause.values = 1..Len(clause.values)
                    BY <4>3
                <5> QED
                    BY <5>1, <5>2
            <4>5. key \in Range(clause.values)
                BY <1>2, <4>1, <4>4 DEF Range
            <4>6. ClauseTrue(c, u, clause) <=> (TRUE # (clause.negate = TRUE))
                BY <1>1, <4>1, <4>2, <4>5 DEF ClauseTrue
            <4>7. told = Verdict(TRUE # (clause.negate = TRUE))
                BY <3>1, <4>1, <4>2, <4>3 DEF maybeNegate, Verdict, LDi_isEvalError
            <4>8. told = Verdict(ClauseTrue(c, u, clause))
                BY <4>6, <4>7 DEF Verdict
            <4> QED
                BY <4>1, <4>8
        <3>4. \A c : (WellFormed(c) /\ Agrees(c, reads')) => Tells(c, u, told)
            BY <3>3 DEF Tells
        <3> QED
            BY <1>1, <2>0, <3>2, <3>4, AfterClauseFollows
    <2> QED
        BY <2>2, <2>3
<1> QED
    BY <1>0, <1>2, <1>4, <1>5, <1>6 DEF ReadSegment

LEMMA SectionsFollow ==
    ASSUME NEW u, Standing(u), Sections
    PROVE  Follows(stack', reads', u)
<1>1. ASSUME ReturnToPrerequisites PROVE Follows(stack', reads', u)
    BY <1>1, AscendsFollows DEF Standing
<1> QED
    BY <1>1, SectionOnFollows, NoPrerequisiteFollows, ReadPrerequisiteFollows,
       SectionTargetsFollows, SectionRulesFollows, NoSegmentLeftFollows, ReadSegmentFollows
       DEF Sections

-----------------------------------------------------------------------------
(* FollowsMeaning is inductive with what the frames say.                     *)

\* FollowsMeaning of one evaluation.
MeansRight(e, u) ==
    (/\ Consistent(e) /\ e.result.status # "STORE"
     /\ \A k \in Keys : BodyOK(Content(e)[k])) =>
        /\ ~LDi_isEvalError(e.result.status)
        /\ Meaning(Content(e), Flags, u)[e.flag.key]
             = Outcome(e.result.details.reason, e.result.details.extra,
                       e.result.details.variation)

\* Whatever was read has the key that it was read with.
Keyed(rs) == \A k \in Keys : \A i \in 1..Len(rs[k]) : rs[k][i] # Null => rs[k][i].key = k

MInv ==
    /\ stack # <<>> => Follows(stack, reads, call.user)
    /\ Keyed(reads)
    /\ \A i \in 1..Len(evaluated) : MeansRight(evaluated[i], call.user)

\* The evaluation that ends with one frame, which is done, is right.
LEMMA DoneMeansRight ==
    ASSUME NEW f, NEW s, NEW rs, ReadsOK(rs), Keyed(rs), NEW u, Follows(s, rs, u),
           Len(s) = 1, s[1] = f, f.at = "done",
           NEW e, e.flag = f.flag, e.result = f.result, e.reads = rs
    PROVE  MeansRight(e, u)
<1> SUFFICES ASSUME Consistent(e), e.result.status # "STORE",
                    \A k \in Keys : BodyOK(Content(e)[k])
             PROVE  /\ ~LDi_isEvalError(e.result.status)
                    /\ Meaning(Content(e), Flags, u)[e.flag.key]
                         = Outcome(e.result.details.reason, e.result.details.extra,
                                   e.result.details.variation)
    BY DEF MeansRight
<1>1. PICK c : c = Content(e)
    OBVIOUS
<1>2. ASSUME NEW k \in Keys
      PROVE  /\ rs[k] = <<>> => c[k] = Null
             /\ rs[k] # <<>> => c[k] = rs[k][1] /\ 1 \in 1..Len(rs[k])
             /\ DOMAIN rs[k] = 1..Len(rs[k])
    <2>1. IsSeq(rs[k])
        BY DEF ReadsOK
    <2>2. Len(rs[k]) \in Nat /\ DOMAIN rs[k] = 1..Len(rs[k])
        BY <2>1, IsSeqLen
    <2>3. rs[k] # <<>> => Len(rs[k]) >= 1
        BY <2>1, <2>2, TailIsSeq
    <2> QED
        BY <1>1, <2>2, <2>3 DEF Content
<1>3. WellFormed(c)
    BY <1>1, <1>2 DEF WellFormed, Keyed
<1>4. ASSUME NEW k \in Keys, NEW i \in 1..Len(rs[k]) PROVE rs[k][i] = c[k]
    <2>1. i \in DOMAIN rs[k] /\ rs[k] # <<>>
        BY <1>2, EmptyIsSeq
    <2>2. rs[k][i] = rs[k][1]
        BY <2>1 DEF Consistent
    <2> QED
        BY <1>2, <2>1, <2>2
<1>5. Agrees(c, rs)
    BY <1>4 DEF Agrees
<1>6. PICK R : Resolved(c, u, R) /\ \A i \in 1..Len(s) : FrameFollows(c, u, R, s[i])
    BY <1>3, <1>5 DEF Follows
<1>7. FrameFollows(c, u, R, f)
    <2>1. 1 \in 1..Len(s)
        OBVIOUS
    <2> QED
        BY <1>6, <2>1
<1>8. Shown(f.result, Meant(c, u)[f.flag.key])
    BY <1>7 DEF FrameFollows, Right
<1>9. Meaning(c, Flags, u) = Meant(c, u)
    BY LevelsStep
<1> QED
    BY <1>1, <1>8, <1>9 DEF Shown, LDi_isEvalError

\* The evaluation of a flag begins.
LEMMA StartFollows ==
    ASSUME NEW flag, flag # Null, NEW key \in Flags, flag.key = key, ListsOK(flag),
           NEW s, s = <<Frame(flag)>>, NEW u,
           NEW rs, rs = [k \in Keys |-> IF k = key THEN <<flag>> ELSE <<>>]
    PROVE  Follows(s, rs, u) /\ Keyed(rs)
<1>0. key \in Keys /\ rs[key] = <<flag>>
    BY DEF Keys
<1>1. Len(s) = 1 /\ s[1] = Frame(flag)
    BY StartsWork
<1>2. Len(rs[key]) = 1 /\ rs[key][1] = flag
    BY <1>0, OneIsSeq
<1>3. Keyed(rs)
    <2> SUFFICES ASSUME NEW k \in Keys, NEW i \in 1..Len(rs[k]), rs[k][i] # Null
                 PROVE  rs[k][i].key = k
        BY DEF Keyed
    <2>1. CASE k = key
        BY <1>2, <2>1
    <2>2. CASE k # key
        <3>1. Len(rs[k]) = 0
            BY <2>2, EmptyIsSeq
        <3> QED
            BY <3>1
    <2> QED
        BY <2>1, <2>2
<1>4. ASSUME NEW c, WellFormed(c), Agrees(c, rs)
      PROVE  \E R : Resolved(c, u, R) /\ \A i \in 1..Len(s) : FrameFollows(c, u, R, s[i])
    <2>1. c[key] = flag
        BY <1>0, <1>2, <1>4 DEF Agrees
    <2>2. Here(c, flag)
        BY <2>1 DEF Here
    <2>3. Resolved(c, u, {})
        BY NothingSettled DEF Resolved
    <2>4. FrameFollows(c, u, {}, Frame(flag))
        BY <2>2, FrameStarts
    <2>5. \A i \in 1..Len(s) : FrameFollows(c, u, {}, s[i])
        BY <1>1, <2>4
    <2> QED
        BY <2>3, <2>5
<1> QED
    BY <1>3, <1>4 DEF Follows

LEMMA InitMeans == Init => MInv
<1> SUFFICES ASSUME Init PROVE MInv
    OBVIOUS
<1>1. Len(evaluated) = 0 /\ stack = <<>>
    BY EmptyIsSeq DEF Init
<1>2. \A k \in Keys : Len(reads[k]) = 0
    BY EmptyIsSeq DEF Init
<1> QED
    BY <1>1, <1>2 DEF MInv, Keyed

\* Before a call nothing is evaluated.
LEMMA BeforeMeans ==
    ASSUME IInv, CInv, call = Null
    PROVE  Len(evaluated) = 0 /\ stack = <<>>
BY BeforeCall, EmptyIsSeq DEF CInv

LEMMA VariationMeans ==
    ASSUME IInv, CInv, MInv, NEW user \in Users, NEW key \in Flags, NEW want \in Wanted,
           Variation(user, key, want)
    PROVE  MInv'
<1>1. call = Null /\ UNCHANGED evaluated
    BY DEF Variation
<1>2. Len(evaluated) = 0 /\ stack = <<>> /\ reads = [k \in Keys |-> <<>>]
    BY <1>1, BeforeMeans DEF CInv
<1>3. \A i \in 1..Len(evaluated') : MeansRight(evaluated'[i], call'.user)
    BY <1>1, <1>2
<1>4. CASE UNCHANGED <<stack, reads>>
    <2>1. Keyed(reads') /\ stack' = <<>>
        BY <1>2, <1>4 DEF MInv
    <2> QED
        BY <1>3, <2>1 DEF MInv
<1>5. CASE store[key] # Null /\ stack' = <<Frame(store[key])>> /\ ReadOne(key)
    <2>1. PICK flag : flag = store[key]
        OBVIOUS
    <2>2. flag # Null /\ flag.key = key /\ ListsOK(flag)
        BY <1>5, <2>1 DEF IInv, Stored, StoredAt, Keys
    <2>3. reads' = [k \in Keys |-> IF k = key THEN <<flag>> ELSE <<>>]
        <3>1. key \in Keys /\ reads' = [reads EXCEPT ![key] = Append(reads[key], flag)]
            BY <1>5, <2>1 DEF ReadOne, Keys
        <3>2. Append(<<>>, flag) = <<flag>>
            OBVIOUS
        <3>3. reads[key] = <<>>
            BY <1>2, <3>1
        <3>4. reads' = [reads EXCEPT ![key] = <<flag>>]
            BY <3>1, <3>2, <3>3
        <3> QED
            BY <1>2, <3>1, <3>4
    <2>4. PICK u : u = call'.user
        OBVIOUS
    <2>5. stack' = <<Frame(flag)>>
        BY <1>5, <2>1
    <2>6. Follows(stack', reads', u) /\ Keyed(reads')
        BY <2>2, <2>3, <2>5, StartFollows
    <2> QED
        BY <1>3, <2>4, <2>6 DEF MInv
<1> QED
    BY <1>4, <1>5 DEF Variation

LEMMA NextFlagMeans ==
    ASSUME IInv, CInv, MInv, NextFlag
    PROVE  MInv'
<1>1. UNCHANGED <<call, evaluated>> /\ stack = <<>>
    BY DEF NextFlag
<1>2. \A i \in 1..Len(evaluated') : MeansRight(evaluated'[i], call'.user)
    BY <1>1 DEF MInv
<1>3. CASE UNCHANGED <<stack, reads>>
    <2>1. Keyed(reads') /\ stack' = <<>>
        BY <1>1, <1>3 DEF MInv
    <2> QED
        BY <1>2, <2>1 DEF MInv
<1>4. CASE /\ stack' = <<Frame(Head(todo))>>
           /\ reads' = [k \in Keys |-> IF k = Head(todo).key THEN <<Head(todo)>> ELSE <<>>]
    <2>1. PICK flag : flag = Head(todo) /\ flag # Null /\ flag.key \in Flags /\ ListsOK(flag)
        BY NextFlagStored
    <2>2. PICK key \in Flags : key = flag.key
        BY <2>1
    <2>3. stack' = <<Frame(flag)>>
          /\ reads' = [k \in Keys |-> IF k = key THEN <<flag>> ELSE <<>>]
        BY <1>4, <2>1, <2>2
    <2>4. PICK u : u = call'.user
        OBVIOUS
    <2>5. Follows(stack', reads', u) /\ Keyed(reads')
        BY <2>1, <2>2, <2>3, StartFollows
    <2> QED
        BY <1>2, <2>4, <2>5 DEF MInv
<1> QED
    BY <1>3, <1>4 DEF NextFlag

\* What the store holds has its key.
LEMMA ReadsKeyed ==
    ASSUME ReadsOK(reads), Stored(store), Keyed(reads), ReadsMore
    PROVE  Keyed(reads')
<1>1. CASE UNCHANGED reads
    BY <1>1
<1>2. ASSUME NEW k \in Keys, ReadOne(k) PROVE Keyed(reads')
    <2>1. /\ ReadsOK(reads') /\ Len(reads[k]) \in Nat
          /\ DOMAIN reads'[k] = 1..(Len(reads[k]) + 1)
          /\ \A j \in Keys : j # k => reads'[j] = reads[j]
          /\ \A i \in 1..Len(reads[k]) : reads'[k][i] = reads[k][i]
          /\ reads'[k][Len(reads[k]) + 1] = store[k]
        BY <1>2, ReadOneKeeps
    <2> SUFFICES ASSUME NEW j \in Keys, NEW i \in 1..Len(reads'[j]), reads'[j][i] # Null
                 PROVE  reads'[j][i].key = j
        BY DEF Keyed
    <2>2. CASE j # k
        <3>1. reads'[j] = reads[j]
            BY <2>1, <2>2
        <3> QED
            BY <3>1 DEF Keyed
    <2>3. CASE j = k
        <3>1. DOMAIN reads'[k] = 1..Len(reads'[k])
            BY <2>1, IsSeqLen DEF ReadsOK
        <3>2. i \in 1..(Len(reads[k]) + 1)
            BY <2>1, <2>3, <3>1
        <3>3. CASE i = Len(reads[k]) + 1
            BY <2>1, <2>3, <3>3 DEF Stored, StoredAt
        <3>4. CASE i # Len(reads[k]) + 1
            <4>1. i \in 1..Len(reads[k])
                BY <2>1, <3>2, <3>4
            <4> QED
                BY <2>1, <2>3, <4>1 DEF Keyed
        <3> QED
            BY <3>3, <3>4
    <2> QED
        BY <2>2, <2>3
<1> QED
    BY <1>1, <1>2 DEF ReadsMore

LEMMA SectionsMean ==
    ASSUME IInv, EInv, CInv, MInv, Sections
    PROVE  MInv'
<1>1. GoodStack(stack) /\ Working(stack) /\ Stored(store) /\ ReadsOK(reads)
    BY DEF IInv, EInv, CInv
<1>2. stack # <<>> /\ (GoesOn \/ Descends \/ Ascends)
    BY <1>1, SectionsShape
<1>3. UNCHANGED <<call, evaluated>>
    BY DEF Sections, ReturnToPrerequisites, SectionOn, NoPrerequisite, ReadPrerequisite,
           SectionTargets, SectionRules, NoSegmentLeft, ReadSegment, Local, Reads
<1>4. ReadsMore
    BY <1>2 DEF GoesOn, Descends, Ascends, Keys, ReadsMore
<1>5. PICK u : u = call.user
    OBVIOUS
<1>6. u \in Users
    <2>1. call \in Calls
        BY <1>2 DEF IInv, CallShape, Running
    <2> QED
        BY <1>5, <2>1 DEF Calls
<1>7. Standing(u)
    BY <1>1, <1>2, <1>5, <1>6 DEF Standing, MInv
<1>8. Follows(stack', reads', u)
    BY <1>7, SectionsFollow
<1>9. Keyed(reads')
    BY <1>1, <1>4, ReadsKeyed DEF MInv
<1> QED
    BY <1>3, <1>5, <1>8, <1>9 DEF MInv

LEMMA ReturnMeans ==
    ASSUME IInv, EInv, CInv, MInv, Return
    PROVE  MInv'
<1>1. /\ Depth = 1 /\ Top.at = "done" /\ stack' = <<>> /\ UNCHANGED <<call, reads>>
      /\ evaluated' = Append(evaluated, [flag |-> Top.flag, result |-> Top.result,
                                         events |-> Top.events, reads |-> reads])
    BY DEF Return
<1>2. Len(stack) = 1 /\ stack # <<>> /\ Top = stack[1]
    <2>1. Len(stack) = 1 /\ Len(stack) # Len(<<>>) /\ Top = stack[1]
        BY <1>1, EmptyIsSeq DEF Depth, Top
    <2> QED
        BY <2>1
<1>3. PICK u : u = call.user
    OBVIOUS
<1>4. PICK e : e = [flag |-> Top.flag, result |-> Top.result, events |-> Top.events,
                    reads |-> reads]
    OBVIOUS
<1>5. e.flag = Top.flag /\ e.result = Top.result /\ e.reads = reads
    BY <1>4
<1>6. Follows(stack, reads, u) /\ Keyed(reads) /\ ReadsOK(reads)
    BY <1>2, <1>3 DEF MInv, CInv
<1>7. MeansRight(e, u)
    BY <1>1, <1>2, <1>5, <1>6, DoneMeansRight
<1>8. /\ Len(evaluated) \in Nat /\ Len(evaluated') = Len(evaluated) + 1
      /\ evaluated'[Len(evaluated) + 1] = e
      /\ \A i \in 1..Len(evaluated) : evaluated'[i] = evaluated[i]
    BY <1>1, <1>4, AppendIsSeq, IsSeqLen DEF EInv
<1>9. ASSUME NEW i \in 1..Len(evaluated') PROVE MeansRight(evaluated'[i], u)
    <2>1. CASE i = Len(evaluated) + 1
        BY <1>7, <1>8, <2>1
    <2>2. CASE i # Len(evaluated) + 1
        <3>1. i \in 1..Len(evaluated)
            BY <1>8, <2>2
        <3>2. MeansRight(evaluated[i], u)
            BY <1>3, <3>1 DEF MInv
        <3> QED
            BY <1>8, <3>1, <3>2
    <2> QED
        BY <2>1, <2>2
<1> QED
    BY <1>1, <1>3, <1>6, <1>9 DEF MInv

LEMMA NextMeans == IInv /\ EInv /\ CInv /\ MInv /\ [Next]_vars => MInv'
<1> SUFFICES ASSUME IInv, EInv, CInv, MInv, [Next]_vars PROVE MInv'
    OBVIOUS
<1>1. ASSUME UNCHANGED <<call, stack, reads, evaluated>> PROVE MInv'
    BY <1>1 DEF MInv
<1>2. CASE Feed
    <2>1. UNCHANGED <<call, stack, reads, evaluated>>
        BY <1>2 DEF Feed, Put, Change, callVars
    <2> QED
        BY <1>1, <2>1
<1>3. ASSUME NEW user \in Users, NEW key \in Flags, NEW want \in Wanted,
             Variation(user, key, want)
      PROVE  MInv'
    BY <1>3, VariationMeans
<1>4. ASSUME NEW op, NEW user, NEW options, AllFlags(op, user, options) PROVE MInv'
    <2>1. call = Null /\ UNCHANGED <<stack, reads, evaluated>>
        BY <1>4 DEF AllFlags
    <2>2. Len(evaluated) = 0 /\ stack = <<>>
        BY <2>1, BeforeMeans
    <2> QED
        BY <2>1, <2>2 DEF MInv
<1>5. CASE FinishAllFlags
    BY <1>1, <1>5 DEF FinishAllFlags
<1>6. CASE UNCHANGED vars
    BY <1>1, <1>6 DEF vars, callVars
<1> QED
    BY <1>2, <1>3, <1>4, <1>5, <1>6, NextFlagMeans, SectionsMean, ReturnMeans
       DEF Next, Step, Sections

-----------------------------------------------------------------------------
(* Theorems.                                                                 *)

LEMMA InvHolds == Spec => []IInv
BY InitInv, NextInv, PTL DEF Spec

\* Whatever the data source changes between the reads of the store and whichever
\* of them fail, the frames of LDi_evaluate are a chain of prerequisites: each
\* waits for the one it required, and the flag evaluated there has that key.
THEOREM TypeCorrect == Spec => []TypeOK
<1>1. IInv => TypeOK
    <2> SUFFICES ASSUME IInv PROVE TypeOK
        OBVIOUS
    <2>1. Len(stack) \in Nat /\ DOMAIN stack = 1..Len(stack)
        BY IsSeqLen DEF IInv, GoodStack
    <2>2. \A k \in Keys : store[k] = Null \/ store[k].key = k
        BY DEF IInv, Stored, StoredAt
    <2>3. \A i \in DOMAIN stack :
            /\ stack[i].at \in {"on", "prerequisites", "targets", "rules", "done"}
            /\ i < Depth => /\ stack[i].at = "prerequisites"
                            /\ stack[i].flag.prerequisites[stack[i].prerequisite].key
                                 = stack[i + 1].flag.key
        BY <2>1 DEF IInv, GoodStack, GoodFrame, Linked, Depth
    <2> QED
        BY <2>2, <2>3 DEF IInv, Counts, TypeOK
<1> QED
    BY <1>1, InvHolds, PTL

\* A variation call serves the fallback or a value of the wanted type that
\* belongs to the reported variation in a state the flag had during the call,
\* and reports an error with it only if a rule of the flag has an id that is no
\* text (variation of variations.c looks at the status after the value).
THEOREM ServesReported == Spec => []AnswersWithValue
<1>1. IInv => AnswersWithValue
    BY DEF IInv
<1> QED
    BY <1>1, InvHolds, PTL

\* LDAllFlagsState reports the flags of one moment, each with the version, the
\* variation and the value that belong together, for any number of flags,
\* changes during the loop and reads that fail.
THEOREM SnapshotShown == Spec => []OneSnapshot
<1>1. IInv => OneSnapshot
    BY DEF IInv
<1> QED
    BY <1>1, InvHolds, PTL

LEMMA EventsHold == Spec => []EInv
<1>1. Init => IInv /\ EInv
    BY InitInv, InitEvents
<1>2. (IInv /\ EInv) /\ [Next]_vars => (IInv /\ EInv)'
    BY NextInv, NextEvents
<1> QED
    BY <1>1, <1>2, PTL DEF Spec

\* Whatever the data source changes while LDi_checkPrerequisites recurs, and
\* whichever reads fail, the events of every evaluation explain it: those of all
\* prerequisites in their order when none failed, of those up to the failed one
\* otherwise, and each nested event before one of the flag that required it.
THEOREM EventsShown == Spec => []EventsExplain
<1>1. EInv => EventsExplain
    <2> SUFFICES ASSUME EInv, NEW i \in DOMAIN evaluated
                 PROVE  LET e == evaluated[i]
                            details == e.result.details
                            required == e.flag.prerequisites
                        IN  /\ details.reason = "OFF" => e.events = <<>>
                            /\ details.reason \in {"TARGET_MATCH", "RULE_MATCH", "FALLTHROUGH"} =>
                                 Explained(e.events, e.flag, Len(required), Len(required))
                            /\ details.reason = "PREREQUISITE_FAILED" =>
                                 \E n \in DOMAIN required :
                                    /\ required[n].key = details.extra
                                    /\ \/ Explained(e.events, e.flag, n - 1, n - 1)
                                       \/ Explained(e.events, e.flag, n, n - 1)
                            /\ \A j \in DOMAIN e.events : e.events[j].prereqOf # e.flag.key =>
                                 \E l \in (j + 1)..Len(e.events) :
                                    e.events[l].key = e.events[j].prereqOf
        BY DEF EventsExplain
    <2>1. DOMAIN evaluated = 1..Len(evaluated)
        BY IsSeqLen DEF EInv
    <2>2. PICK e : e = evaluated[i] /\ ExplainedEvaluation(e)
        BY <2>1 DEF EInv
    <2>3. DOMAIN e.events = 1..Len(e.events)
        BY <2>2, IsSeqLen DEF ExplainedEvaluation
    <2> QED
        BY <2>2, <2>3 DEF ExplainedEvaluation, Explains, RequirersFollow
<1> QED
    BY <1>1, EventsHold, PTL

\* A variation call counts its flag once, under the variation it gave, and each
\* prerequisite once for every time it was evaluated, under the version that was
\* read then; a failed evaluation counts its flag alone or nothing.  This holds
\* for any nesting of prerequisites, also when a flag is read several times and
\* changes in between (LDEventProcessor_ProcessEvaluation).
THEOREM CountsShown == Spec => []CountsEvaluations
<1>1. Init => IInv /\ EInv /\ CInv
    BY InitInv, InitEvents, InitCounts
<1>2. (IInv /\ EInv /\ CInv) /\ [Next]_vars => (IInv /\ EInv /\ CInv)'
    BY NextInv, NextEvents, NextCounts
<1>3. CInv => CountsEvaluations
    BY DEF CInv
<1> QED
    BY <1>1, <1>2, <1>3, PTL DEF Spec

\* Whatever the data source changes between the reads of the store, an evaluation
\* of LDi_evaluate that read well-formed data, each flag and segment in one
\* state, gives the variation and the reason that this data means: for any flags,
\* segments and users, prerequisites to any depth, and every schedule of reads
\* and changes.
THEOREM MeaningShown == Spec => []FollowsMeaning
<1>1. Init => IInv /\ EInv /\ CInv /\ MInv
    BY InitInv, InitEvents, InitCounts, InitMeans
<1>2. (IInv /\ EInv /\ CInv /\ MInv) /\ [Next]_vars => (IInv /\ EInv /\ CInv /\ MInv)'
    BY NextInv, NextEvents, NextCounts, NextMeans
<1>3. EInv /\ MInv => FollowsMeaning
    <2> SUFFICES ASSUME EInv, MInv PROVE FollowsMeaning
        OBVIOUS
    <2>1. DOMAIN evaluated = 1..Len(evaluated)
        BY IsSeqLen DEF EInv
    <2>2. \A i \in DOMAIN evaluated : MeansRight(evaluated[i], call.user)
        BY <2>1 DEF MInv
    <2> QED
        BY <2>2 DEF FollowsMeaning, MeansRight
<1> QED
    BY <1>1, <1>2, <1>3, PTL DEF Spec
=============================================================================
