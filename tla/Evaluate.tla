------------------------------ MODULE Evaluate ------------------------------
(***************************************************************************)
(* The parts of flag evaluation, src/evaluate.c and src/operator.c, that    *)
(* read nothing but the flag, a segment and the user.  The parts that read  *)
(* the store, prerequisites and the segments of a rule, are the steps of    *)
(* module Evaluation.                                                       *)
(*                                                                          *)
(* Flags and segments are JSON as the service sends them.  Null stands for  *)
(* a field that is absent or null, and Bad for one of an unexpected type,   *)
(* or for a thing that lacks a required field.  Lists that may be absent    *)
(* are empty sequences.  Of the value of a variation only its JSON type is  *)
(* kept: with the flag and the index of the variation it names the value.   *)
(* Memory is not exhausted.  LD_ASSERT aborts the process when evaluation   *)
(* reaches a fallthrough, a share of a rollout or a clause of a segment     *)
(* that is no object; such data is left out.                                *)
(***************************************************************************)
EXTENDS Integers, Sequences, SequencesExt

CONSTANTS
    Null,          \* an absent or null field; the pointer NULL
    Bad,           \* a field of an unexpected type
    Hash,          \* <<user key, attribute, flag, segment or seed>> to 0..Scale
    TextRelation,  \* text operator to the pairs of texts it holds for
    TimeOf,        \* text to the time it parses as, or Null
    SemVerOf       \* text to the rank of the version it parses as, or Null

Scale == 100000    \* weights and buckets are fractions of this

\* A list of anything.
IsSeq(s) == s \in Seq(Range(s))

\* EvalStatus.
LDi_isEvalError(status) == status \in {"MEM", "SCHEMA", "STORE"}

-----------------------------------------------------------------------------
(* Operators, src/operator.c.  A value has a type and an index n, for a      *)
(* number its value.                                                         *)

TextOps == {"startsWith", "endsWith", "matches", "contains"}
NumberOps == {"lessThan", "lessThanOrEqual", "greaterThan", "greaterThanOrEqual"}
TimeOps == {"before", "after"}
SemVerOps == {"semVerEqual", "semVerLessThan", "semVerGreaterThan"}

LDi_lookupOperation(op) ==
    op \in {"in"} \cup TextOps \cup NumberOps \cup TimeOps \cup SemVerOps

Compare(op, l, r) ==
    CASE op \in {"lessThan", "before", "semVerLessThan"} -> l < r
      [] op \in {"greaterThan", "after", "semVerGreaterThan"} -> l > r
      [] op = "lessThanOrEqual" -> l <= r
      [] op = "greaterThanOrEqual" -> l >= r
      [] op = "semVerEqual" -> l = r

LDi_parseTime(v) ==
    CASE v.type = "number" -> v.n
      [] v.type = "text" -> TimeOf[v.n]
      [] OTHER -> Null

compareTime(op, u, c) ==
    LET l == LDi_parseTime(u)
        r == LDi_parseTime(c)
    IN  l # Null /\ r # Null /\ Compare(op, l, r)

compareSemVer(op, u, c) ==
    /\ u.type = "text" /\ c.type = "text"
    /\ SemVerOf[u.n] # Null /\ SemVerOf[c.n] # Null
    /\ Compare(op, SemVerOf[u.n], SemVerOf[c.n])

\* The operator applied to the user's value and one value of the clause.
Holds(op, u, c) ==
    CASE op = "in" -> u = c
      [] op \in TextOps -> /\ u.type = "text" /\ c.type = "text"
                           /\ <<u.n, c.n>> \in TextRelation[op]
      [] op \in NumberOps -> /\ u.type = "number" /\ c.type = "number"
                             /\ Compare(op, u.n, c.n)
      [] op \in TimeOps -> compareTime(op, u, c)
      [] op \in SemVerOps -> compareSemVer(op, u, c)

-----------------------------------------------------------------------------
(* Clauses.                                                                  *)

\* A negation that turns matches into misses and leaves misses alone.
negateMatch(clause, status) ==
    IF clause.negate = TRUE /\ status = "MATCH" THEN "MISS" ELSE status

maybeNegate(clause, status) ==
    IF LDi_isEvalError(status) THEN status
    ELSE IF clause.negate = Bad THEN "SCHEMA"
    ELSE IF clause.negate = TRUE THEN IF status = "MATCH" THEN "MISS" ELSE "MATCH"
    ELSE status

matchAny(op, v, values) ==
    IF \E i \in DOMAIN values : Holds(op, v, values[i]) THEN "MATCH" ELSE "MISS"

Nested(v) == v.type \in {"object", "array"}

\* An array matches if one of its elements does; an element that is itself a
\* collection, and comes before the first match, ends the search.
ArrayMatches(clause, elements) ==
    LET stop == SelectInSeq(elements, LAMBDA v :
                    Nested(v) \/ matchAny(clause.op, v, clause.values) = "MATCH")
    IN  IF stop = 0 THEN maybeNegate(clause, "MISS")
        ELSE IF Nested(elements[stop]) THEN "MISS"
        ELSE maybeNegate(clause, "MATCH")

\* Built-in and custom attributes are one function; a custom null is Null too.
LDi_valueOfAttribute(user, attribute) ==
    IF attribute \in DOMAIN user.attrs THEN user.attrs[attribute] ELSE Null

\* An unknown operator and an attribute the user lacks are misses whether or
\* not the clause is negated.
LDi_clauseMatchesUserNoSegments(clause, user) ==
    IF clause = Bad \/ clause.op = Bad THEN "SCHEMA"
    ELSE IF ~LDi_lookupOperation(clause.op) THEN "MISS"
    ELSE IF clause.attribute = Bad \/ clause.values = Bad THEN "SCHEMA"
    ELSE LET v == LDi_valueOfAttribute(user, clause.attribute) IN
         IF v = Null THEN "MISS"
         ELSE IF v.type = "array" THEN ArrayMatches(clause, v.elements)
         ELSE maybeNegate(clause, matchAny(clause.op, v, clause.values))

-----------------------------------------------------------------------------
(* Buckets and rollouts.                                                     *)

LDi_getBucketAttribute(obj) == IF obj.bucketBy = Null THEN "key" ELSE obj.bucketBy

\* A user without the attribute, or with one that is neither text nor number,
\* is in bucket 0.  The hash is computed in floats and can round up to Scale.
LDi_bucketUser(user, attribute, id) ==
    LET v == LDi_valueOfAttribute(user, attribute) IN
    IF v # Null /\ v.type \in {"text", "number"}
    THEN Hash[<<user.key, attribute, id>>]
    ELSE 0

SchemaError == [ok |-> FALSE, index |-> Null, inExperiment |-> FALSE]

\* The weighted variations of a rollout: the first one that the weights up to
\* and including its own carry beyond the bucket, or else the last one.
PickWeighted(variations, bucket, experiment) ==
    LET upTo[i \in 0..Len(variations)] ==
            IF i = 0 THEN 0
            ELSE IF variations[i] = Bad THEN upTo[i - 1]
            ELSE upTo[i - 1] + variations[i].weight
        hits == {i \in DOMAIN variations :
                    variations[i] = Bad \/ bucket < upTo[i]}
        i == IF hits = {} THEN Len(variations) ELSE Min(hits)
    IN  IF variations[i] = Bad
        THEN SchemaError
        ELSE [ok |-> TRUE, index |-> variations[i].variation,
              inExperiment |-> experiment /\ variations[i].untracked # TRUE]

LDi_variationIndexForUser(varOrRoll, user, key) ==
    IF varOrRoll.variation = Bad THEN SchemaError
    ELSE IF varOrRoll.variation # Null
    THEN [ok |-> TRUE, index |-> varOrRoll.variation, inExperiment |-> FALSE]
    ELSE LET rollout == varOrRoll.rollout IN
         IF \/ rollout \in {Null, Bad}
            \/ rollout.kind = Bad
            \/ rollout.variations \in {Null, Bad, <<>>}
            \/ LDi_getBucketAttribute(rollout) = Bad
            \/ rollout.seed = Bad
         THEN SchemaError
         ELSE PickWeighted(rollout.variations,
                LDi_bucketUser(user, LDi_getBucketAttribute(rollout),
                    IF rollout.seed # Null THEN rollout.seed ELSE key),
                rollout.kind = "experiment")

\* key and salt of the flag are required only here.
LDi_getIndexForVariationOrRollout(flag, varOrRoll, user) ==
    IF flag.salt \in {Null, Bad} THEN SchemaError
    ELSE LDi_variationIndexForUser(varOrRoll, user, flag.key)

-----------------------------------------------------------------------------
(* Segments.                                                                 *)

\* The status of the first clause that does not match, or MATCH.
AllMatch(statuses) ==
    LET i == SelectInSeq(statuses, LAMBDA s : s # "MATCH")
    IN  IF i = 0 THEN "MATCH" ELSE statuses[i]

LDi_segmentRuleMatchUser(rule, key, user) ==
    IF rule.clauses = Bad THEN "SCHEMA"
    ELSE LET status == AllMatch([i \in DOMAIN rule.clauses |->
                 LDi_clauseMatchesUserNoSegments(rule.clauses[i], user)]) IN
         IF status # "MATCH" THEN status
         ELSE IF rule.weight = Null THEN "MATCH"
         ELSE IF rule.weight = Bad \/ LDi_getBucketAttribute(rule) = Bad THEN "SCHEMA"
         ELSE IF LDi_bucketUser(user, LDi_getBucketAttribute(rule), key) < rule.weight
         THEN "MATCH"
         ELSE "MISS"

\* Included before excluded before the rules, the first of which that matches
\* or fails decides.
LDi_segmentMatchesUser(segment, user) ==
    IF segment.included = Bad THEN "SCHEMA"
    ELSE IF user.key \in segment.included THEN "MATCH"
    ELSE IF segment.excluded = Bad THEN "SCHEMA"
    ELSE IF user.key \in segment.excluded THEN "MISS"
    ELSE IF segment.rules = Null THEN "MISS"
    ELSE IF segment.rules = Bad \/ segment.salt \in {Null, Bad} THEN "SCHEMA"
    ELSE LET of(rule) == IF rule = Bad THEN "SCHEMA"
                         ELSE LDi_segmentRuleMatchUser(rule, segment.key, user)
             i == SelectInSeq(segment.rules, LAMBDA rule : of(rule) # "MISS")
         IN  IF i = 0 THEN "MISS" ELSE of(segment.rules[i])

-----------------------------------------------------------------------------
(* Results.                                                                  *)

\* LDDetailsInit.  extra is the error kind, the key of the prerequisite or the
\* index of the rule.
NoDetails == [reason |-> "UNKNOWN", extra |-> Null, ruleId |-> Null,
              inExperiment |-> FALSE, variation |-> Null]

ErrorDetails(kind) == [NoDetails EXCEPT !.reason = "ERROR", !.extra = kind]

Result(status, value, details) ==
    [status |-> status, value |-> value, details |-> details]

getValue(flag, index) ==
    IF \/ index \in {Null, Bad} \/ index < 0
       \/ flag.variations \in {Null, Bad} \/ index >= Len(flag.variations)
    THEN Null
    ELSE flag.variations[index + 1]

addValue(flag, details, index, status) ==
    LET value == getValue(flag, index) IN
    IF value = Null
    THEN Result("SCHEMA", Null, ErrorDetails("MALFORMED_FLAG"))
    ELSE Result(status, value, [details EXCEPT !.variation = index])

-----------------------------------------------------------------------------
(* The sections of LDi_evaluate.                                             *)

\* The section does not decide, but the next one.
Undecided == Result("UNDECIDED", Null, NoDetails)

\* on: a flag that is off may well have no off variation.
EvaluateOn(flag) ==
    LET off == [NoDetails EXCEPT !.reason = "OFF"] IN
    IF flag.on = Bad THEN Result("SCHEMA", Null, NoDetails)
    ELSE IF flag.on = TRUE THEN Undecided
    ELSE IF flag.offVariation = Null THEN Result("MISS", Null, off)
    ELSE addValue(flag, off, flag.offVariation, "MISS")

EvaluateFailedPrerequisite(flag, failedKey) ==
    addValue(flag, [NoDetails EXCEPT !.reason = "PREREQUISITE_FAILED",
                                     !.extra = failedKey],
             flag.offVariation, "MISS")

EvaluateTargets(flag, user) ==
    IF flag.targets = Bad THEN Result("SCHEMA", Null, NoDetails)
    ELSE LET i == SelectInSeq(flag.targets, LAMBDA t :
                      t = Bad \/ user.key \in t.values)
         IN  IF i = 0 THEN Undecided
             ELSE IF flag.targets[i] = Bad \/ flag.targets[i].variation = Bad
             THEN Result("SCHEMA", Null, NoDetails)
             ELSE addValue(flag, [NoDetails EXCEPT !.reason = "TARGET_MATCH"],
                           flag.targets[i].variation, "MATCH")

\* The rule at position i has matched.  Its id is looked at last, when the
\* value has been set.
EvaluateRule(flag, i, user) ==
    LET rule == flag.rules[i]
        matched == [NoDetails EXCEPT !.reason = "RULE_MATCH", !.extra = i - 1]
        pick == LDi_getIndexForVariationOrRollout(flag, rule.serve, user)
        result == addValue(flag, [matched EXCEPT !.inExperiment = pick.inExperiment],
                           pick.index, "MATCH")
    IN  IF ~pick.ok THEN Result("SCHEMA", Null, matched)
        ELSE IF LDi_isEvalError(result.status) THEN result
        ELSE IF rule.id = Bad THEN [result EXCEPT !.status = "SCHEMA"]
        ELSE [result EXCEPT !.details.ruleId = rule.id]

EvaluateFallthrough(flag, user) ==
    LET fall == [NoDetails EXCEPT !.reason = "FALLTHROUGH"]
        pick == LDi_getIndexForVariationOrRollout(flag, flag.fallthrough, user)
    IN  IF pick.ok
        THEN addValue(flag, [fall EXCEPT !.inExperiment = pick.inExperiment],
                      pick.index, "MATCH")
        ELSE Result("SCHEMA", Null, fall)

\* LDi_evaluate of a flag without prerequisites and segments.
EvaluateAlone(flag, user) ==
    LET matches(rule) == AllMatch([i \in DOMAIN rule.clauses |->
                             LDi_clauseMatchesUserNoSegments(rule.clauses[i], user)])
        rule == SelectInSeq(flag.rules, LAMBDA r : matches(r) # "MISS")
    IN  IF EvaluateOn(flag) # Undecided THEN EvaluateOn(flag)
        ELSE IF EvaluateTargets(flag, user) # Undecided THEN EvaluateTargets(flag, user)
        ELSE IF rule = 0 THEN EvaluateFallthrough(flag, user)
        ELSE IF matches(flag.rules[rule]) # "MATCH"
        THEN Result(matches(flag.rules[rule]), Null, NoDetails)
        ELSE EvaluateRule(flag, rule, user)
=============================================================================
