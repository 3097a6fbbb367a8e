---------------------------- MODULE MCEvaluation ----------------------------
(***************************************************************************)
(* Instances of Evaluation: flag a requires b and c, b requires c, and      *)
(* rules look at segment s; a change may close a cycle of prerequisites.    *)
(***************************************************************************)
EXTENDS Evaluation

MCFlags == {"a", "b", "c"}
MCSegments == {"s"}

Text(n) == [type |-> "text", n |-> n]
Number(n) == [type |-> "number", n |-> n]
Array(s) == [type |-> "array", elements |-> s]

\* Text 1 and 2 are the user keys; text 3 is a time and text 4 a version.
User(key, n, group) == [key |-> key,
    attrs |-> [key |-> Text(IF key = "u" THEN 1 ELSE 2), n |-> n, group |-> group,
               seen |-> Number(20), app |-> Text(4), none |-> Null]]
MCUsers == {User("u", Number(7), Array(<<Text(2), Text(3)>>)),
            User("v", Null, Array(<<Text(2), Array(<<>>), Text(1)>>))}

MCTextRelation == [op \in TextOps |-> {<<1, 1>>, <<2, 1>>}]
MCTimeOf == <<Null, Null, 30, Null, Null>>
MCSemVerOf == <<Null, Null, Null, 1, 2>>

\* u is at the start, v at the end of a half, and the hash may round to 1.
MCHash == [h \in {"u", "v"} \X {"key", "n", "group", "seen", "app", "none"}
                     \X {"a", "b", "c", "s", "seed"} |->
    IF h[3] = "seed" THEN Scale
    ELSE IF h[1] = "u" THEN 50000
    ELSE 49999]

NewClause(op, attribute, values, negate) ==
    [op |-> op, attribute |-> attribute, values |-> values, negate |-> negate]
InSegment(negate) == NewClause("segmentMatch", "key", <<"s", "s">>, negate)

Just(n) == [variation |-> n, rollout |-> Null]
Roll(kind, first, second, by, seed) == [variation |-> Null, rollout |->
    [kind |-> kind, bucketBy |-> by, seed |-> seed, variations |->
        <<[weight |-> first, variation |-> 1, untracked |-> TRUE],
          [weight |-> second, variation |-> 0, untracked |-> Null]>>]]
Half == Roll("experiment", 50000, 50000, Null, Null)

NewRule(clauses, serve) == [clauses |-> clauses, serve |-> serve, id |-> Null]

Flag(k) == [key |-> k, version |-> 1, on |-> TRUE, offVariation |-> 0,
    variations |-> <<"boolean", "boolean">>, prerequisites |-> <<>>,
    targets |-> <<>>, rules |-> <<>>, fallthrough |-> Just(1), salt |-> "salt",
    trackEvents |-> Null, trackEventsFallthrough |-> Null,
    debugEventsUntilDate |-> Null,
    clientSide |-> Null, clientSideAvailability |-> Null]
Requires(k, n) == [key |-> k, variation |-> n]

\* A diamond of prerequisites, with a segment and targets at the top.
Diamond == [Flag("a") EXCEPT
    !.prerequisites = <<Requires("b", 1), Requires("c", 1)>>,
    !.targets = <<[values |-> {"v"}, variation |-> 0],
                  [values |-> {"v"}, variation |-> 1]>>,
    !.rules = <<NewRule(<<InSegment(Null)>>, Half)>>,
    !.trackEvents = TRUE]
Middle == [Flag("b") EXCEPT !.prerequisites = <<Requires("c", 1)>>,
    !.variations = <<"boolean", "text">>, !.clientSide = TRUE]
Leaf == [Flag("c") EXCEPT
    !.rules = <<NewRule(<<NewClause("in", "n", <<Number(7)>>, TRUE)>>, Just(0)),
                NewRule(<<InSegment(TRUE), NewClause("in", "key", <<Text(1)>>, Null)>>, Half)>>,
    !.debugEventsUntilDate = 50,
    !.clientSide = TRUE, !.clientSideAvailability = [usingEnvironmentId |-> FALSE]]

Segment(included, excluded, rules) ==
    [key |-> "s", version |-> 1, included |-> included, excluded |-> excluded,
     rules |-> rules, salt |-> "salt"]
SegmentRule(clauses, weight) ==
    [clauses |-> clauses, weight |-> weight, bucketBy |-> Null]
SomeUsers == Segment({"u"}, {"v"}, Null)
HalfOfUsers == Segment({}, {}, <<SegmentRule(<<NewClause("in", "key", <<Text(9)>>, Null)>>, Null),
                                 SegmentRule(<<>>, 50000)>>)

Store(a, b, c, s) == "a" :> a @@ "b" :> b @@ "c" :> c @@ "s" :> s

\* A leaf alone, once with each clause and rollout; a flag that requires it,
\* and each malformation.
Clauses == {
    NewClause("in", "group", <<Text(1), Text(3)>>, TRUE),
    NewClause("contains", "key", <<Text(1)>>, Null),
    NewClause("lessThanOrEqual", "n", <<Number(7)>>, FALSE),
    NewClause("greaterThan", "n", <<Number(7), Text(1)>>, Null),
    NewClause("after", "seen", <<Text(1), Text(3), Number(20)>>, Null),
    NewClause("before", "seen", <<Text(3)>>, Null),
    NewClause("semVerLessThan", "app", <<Text(5), Text(1)>>, Null),
    NewClause("unknown", "key", <<Text(1)>>, TRUE),
    NewClause("in", "none", <<Text(1)>>, TRUE),
    NewClause("in", "group", <<Text(1)>>, Null),
    NewClause("in", "key", Bad, Null),
    NewClause("in", "key", <<Text(1)>>, Bad)}

Leaves ==
    {[Flag("c") EXCEPT !.rules = <<NewRule(<<clause>>, Just(0))>>] : clause \in Clauses}
    \cup {[Flag("c") EXCEPT !.fallthrough = serve] : serve \in {
            Roll("experiment", 50000, 20000, "n", Null), Roll(Null, 60000, 40000, Null, "seed"),
            Roll("rollout", 0, 50000, "none", Null)}}
    \cup {[Flag("c") EXCEPT !.variations = <<"text", "null">>]}

Odd ==
    {[Flag("c") EXCEPT !.on = FALSE, !.offVariation = Null],
     [Flag("c") EXCEPT !.on = Bad], [Flag("c") EXCEPT !.prerequisites = Bad],
     [Flag("c") EXCEPT !.trackEvents = Bad],
     [Flag("c") EXCEPT !.fallthrough = Roll(Bad, 1, 1, Null, Null)],
     [Flag("c") EXCEPT !.rules = <<NewRule(<<NewClause("in", "key", Bad, Null)>>, Just(2))>>],
     [Flag("c") EXCEPT !.rules = <<[NewRule(<<>>, Just(0)) EXCEPT !.id = Bad]>>],
     [Flag("c") EXCEPT !.fallthrough = Just(2)]}

MCContents ==
    {Store(Diamond, Middle, Leaf, s) : s \in {SomeUsers, HalfOfUsers}}
    \cup {Store(Null, Null, c, Null) : c \in Leaves}
    \cup {Store([Flag("a") EXCEPT !.prerequisites = <<Requires("c", 1)>>], Null, c, Null) :
              c \in Odd}

MCPatches ==
    "a" :> {[Flag("a") EXCEPT !.prerequisites = <<Requires("b", 0)>>,
                              !.offVariation = Null]}
    @@ "b" :> {[Flag("b") EXCEPT !.on = FALSE],
               [Flag("b") EXCEPT !.prerequisites = <<Bad>>]}
    @@ "c" :> {Flag("c"), [Flag("c") EXCEPT !.variations = <<"text", "boolean">>,
                                  !.fallthrough = Just(0)],
               [Flag("c") EXCEPT !.prerequisites = <<Requires("a", 1)>>]}
    @@ "s" :> {Segment({}, {"u"}, Null), Segment({}, Bad, Null)}

MCWanted == {"boolean", "any"}
MCOptionSets == {{"CLIENT_SIDE_ONLY", "INCLUDE_REASON"},
                 {"DETAILS_ONLY_FOR_TRACKED_FLAGS"}}
=============================================================================
