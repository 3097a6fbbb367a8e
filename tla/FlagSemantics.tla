---------------------------- MODULE FlagSemantics ----------------------------
(***************************************************************************)
(* What a flag means: the variation it serves to a user, and why, stated    *)
(* over a fixed content of the store with sets and quantifiers, for data    *)
(* that is well formed.  src/evaluate.c computes it with loops and early    *)
(* returns while the store changes (modules Evaluate and Evaluation).       *)
(***************************************************************************)
EXTENDS Evaluate, FiniteSets

Elements(v) == IF v.type = "array" THEN v.elements ELSE <<v>>

\* Some value of the attribute is in the relation with some value of the
\* clause.  Without the attribute, or an operator that is known, no clause
\* holds, negated or not.
ClauseHolds(clause, user) ==
    LET v == LDi_valueOfAttribute(user, clause.attribute)
        hits == {i \in DOMAIN Elements(v) :
                    \E c \in Range(clause.values) : Holds(clause.op, Elements(v)[i], c)}
        nested == {i \in DOMAIN Elements(v) : v.type = "array" /\ Nested(Elements(v)[i])}
    IN  /\ LDi_lookupOperation(clause.op)
        /\ v # Null
        /\ \A j \in nested : \E i \in hits : i < j
        /\ (hits # {}) # (clause.negate = TRUE)

SegmentHas(segment, user) ==
    \/ user.key \in segment.included
    \/ /\ user.key \notin segment.excluded
       /\ segment.rules # Null
       /\ \E rule \in Range(segment.rules) :
            /\ \A clause \in Range(rule.clauses) : ClauseHolds(clause, user)
            /\ \/ rule.weight = Null
               \/ LDi_bucketUser(user, LDi_getBucketAttribute(rule), segment.key)
                    < rule.weight

RuleHolds(content, rule, user) ==
    \A clause \in Range(rule.clauses) :
        IF clause.op = "segmentMatch"
        THEN (\E k \in Range(clause.values) :
                 content[k] # Null /\ SegmentHas(content[k], user))
             # (clause.negate = TRUE)
        ELSE ClauseHolds(clause, user)

\* The share of a rollout that holds the user's bucket; the last share takes
\* the buckets beyond all shares.
Share(rollout, bucket) ==
    LET n == Len(rollout.variations)
        end[i \in 0..n] ==
            IF i = 0 THEN 0 ELSE end[i - 1] + rollout.variations[i].weight
    IN  CHOOSE i \in 1..n :
            \/ end[i - 1] <= bucket /\ bucket < end[i]
            \/ i = n /\ end[n] <= bucket

Served(serve, flag, user) ==
    IF serve.variation # Null THEN serve.variation
    ELSE serve.rollout.variations[Share(serve.rollout,
             LDi_bucketUser(user, LDi_getBucketAttribute(serve.rollout),
                 IF serve.rollout.seed # Null THEN serve.rollout.seed ELSE flag.key))
         ].variation

\* The prerequisites of a flag that do not hold, given the outcomes of others.
Unmet(content, flag, outcome) ==
    {i \in DOMAIN flag.prerequisites :
        LET p == flag.prerequisites[i] IN
        \/ content[p.key] = Null
        \/ outcome[p.key].reason \in {"OFF", "PREREQUISITE_FAILED"}
        \/ outcome[p.key].variation # p.variation}

Outcome(reason, extra, variation) ==
    [reason |-> reason, extra |-> extra, variation |-> variation]

Targeted(flag, user) == {i \in DOMAIN flag.targets : user.key \in flag.targets[i].values}
Ruled(content, flag, user) ==
    {i \in DOMAIN flag.rules : RuleHolds(content, flag.rules[i], user)}

\* The outcome of a flag, given the outcomes of others.
Decided(content, user, flag, outcome) ==
    LET unmet == Unmet(content, flag, outcome)
        targets == Targeted(flag, user)
        rules == Ruled(content, flag, user)
    IN  IF flag.on # TRUE THEN Outcome("OFF", Null, flag.offVariation)
        ELSE IF unmet # {}
        THEN Outcome("PREREQUISITE_FAILED",
                     flag.prerequisites[Min(unmet)].key, flag.offVariation)
        ELSE IF targets # {}
        THEN Outcome("TARGET_MATCH", Null, flag.targets[Min(targets)].variation)
        ELSE IF rules # {}
        THEN Outcome("RULE_MATCH", Min(rules) - 1,
                     Served(flag.rules[Min(rules)].serve, flag, user))
        ELSE Outcome("FALLTHROUGH", Null, Served(flag.fallthrough, flag, user))

\* The outcomes of all flags, given those for chains of prerequisites that are
\* shorter by one.
Unknown == Outcome("UNKNOWN", Null, Null)
Deeper(content, flags, user, outcome) ==
    [k \in flags |-> IF content[k] = Null THEN Unknown
                     ELSE Decided(content, user, content[k], outcome)]

\* No chain that ends is longer than there are flags.
Meaning(content, flags, user) ==
    LET upTo[n \in 0..Cardinality(flags)] ==
            IF n = 0 THEN [k \in flags |-> Unknown]
            ELSE Deeper(content, flags, user, upTo[n - 1])
    IN  upTo[Cardinality(flags)]

-----------------------------------------------------------------------------
(* Well-formed data: fields have their types and lists are lists.            *)

\* What users are hashed with: flags, segments and seeds.
HashIds == {t[3] : t \in DOMAIN Hash}

ClauseOK(clause) ==
    /\ clause # Bad
    /\ Bad \notin {clause.op, clause.attribute, clause.negate, clause.values}

ClausesOK(clauses) == clauses # Bad /\ IsSeq(clauses) /\ \A c \in Range(clauses) : ClauseOK(c)

ServeOK(flag, serve) ==
    LET valid == 0..(Len(flag.variations) - 1) IN
    /\ IF serve.variation # Null THEN serve.variation \in valid
       ELSE /\ serve.rollout \notin {Null, Bad}
            /\ Bad \notin {serve.rollout.kind, serve.rollout.bucketBy,
                           serve.rollout.seed, serve.rollout.variations}
            /\ serve.rollout.seed \in {Null} \cup HashIds
            /\ serve.rollout.variations \notin {Null, <<>>}
            /\ IsSeq(serve.rollout.variations)
            /\ \A w \in Range(serve.rollout.variations) :
                 w # Bad /\ w.variation \in valid /\ w.weight \in Nat

FlagOK(flag) ==
    LET valid == 0..(Len(flag.variations) - 1) IN
    /\ Bad \notin {flag.on, flag.variations, flag.prerequisites, flag.targets, flag.rules,
                   flag.salt, flag.version, flag.trackEvents, flag.trackEventsFallthrough,
                   flag.debugEventsUntilDate}
    /\ Null \notin {flag.salt, flag.variations}
    /\ IsSeq(flag.variations) /\ IsSeq(flag.prerequisites)
    /\ IsSeq(flag.targets) /\ IsSeq(flag.rules)
    /\ Null \notin Range(flag.variations)
    /\ \/ flag.offVariation \in valid
       \/ flag.offVariation = Null /\ flag.prerequisites = <<>>
    /\ Bad \notin Range(flag.prerequisites)
    /\ \A t \in Range(flag.targets) : t # Bad /\ t.variation \in valid
    /\ \A r \in Range(flag.rules) :
         r # Bad /\ ClausesOK(r.clauses) /\ ServeOK(flag, r.serve) /\ r.id # Bad
    /\ ServeOK(flag, flag.fallthrough)

SegmentOK(segment) ==
    /\ Bad \notin {segment.included, segment.excluded, segment.rules, segment.salt}
    /\ segment.salt # Null
    /\ segment.rules # Null =>
         /\ IsSeq(segment.rules)
         /\ \A r \in Range(segment.rules) :
              r # Bad /\ ClausesOK(r.clauses) /\ Bad \notin {r.weight, r.bucketBy}
=============================================================================
