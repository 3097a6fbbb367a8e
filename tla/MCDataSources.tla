---------------------------- MODULE MCDataSources ----------------------------
(***************************************************************************)
(* Instances of DataSources.                                                *)
(***************************************************************************)
EXTENDS DataSources, TLC

Text(n) == [type |-> "text", n |-> n]

\* The first user has two names, the second none that is known.
Names == [type |-> "array", elements |-> <<Text(7), Text(1)>>]
MCAppUsers == {[key |-> "u", attrs |-> [name |-> Names, key |-> Text(2)]],
               [key |-> "v", attrs |-> [name |-> Null, key |-> Text(3)]]}

Call(op, arg, boolean) == [op |-> op, arg |-> arg, boolean |-> boolean]
ForUser(user, n, boolean) ==
    [op |-> "user", user |-> user, arg |-> n, boolean |-> boolean]
NameIs(n, negate) == newFlagRuleBuilderClause("name", Text(n), negate)
KeyIs(n) == newFlagRuleBuilderClause("key", JSONArray(<<Text(n)>>), FALSE)

\* Complete uses of a builder: a rule is begun and finished in one.
RuleScripts ==
    {<<Call("if", NameIs(1, FALSE), FALSE), Call("then", 1, TRUE)>>,
     <<Call("if", NameIs(9, TRUE), FALSE), Call("and", KeyIs(2), FALSE),
       Call("then", 1, FALSE)>>,
     <<Call("if", KeyIs(3), FALSE), Call("then", 1, FALSE),
       Call("if", KeyIs(3), FALSE)>>}

Colours == Call("variations", JSONArray(<<Text(11), Text(12), Text(13)>>), FALSE)
OtherScripts ==
    {<<Call("on", FALSE, FALSE), Call("off", 0, TRUE)>>,
     <<Colours, Call("off", 2, FALSE), Call("on", FALSE, FALSE)>>,
     <<Colours, ForUser("u", 2, FALSE), ForUser("v", 1, FALSE)>>,
     <<ForUser("v", 1, FALSE), ForUser("u", 0, FALSE), ForUser("u", 1, TRUE),
       Call("fallthrough", 1, FALSE)>>,
     <<Call("fallthrough", 2, FALSE), Call("boolean", 0, TRUE)>>,
     <<Call("variations", JSONArray(TrueFalse), FALSE), Call("fallthrough", 1, FALSE),
       Call("boolean", 0, TRUE)>>,
     <<Call("value", Text(11), FALSE)>>,
     <<Call("value", JSONArray(<<Text(11), Text(12)>>), FALSE)>>,
     <<Call("on", FALSE, FALSE)>>,
     <<Call("all", 1, TRUE)>>}

MCScripts == [k \in {"a", "b"} |->
    IF k = "a" THEN RuleScripts \cup OtherScripts
    ELSE {<<Call("on", FALSE, FALSE)>>}]

\* Files.
Body(k, value) == [key |-> k, variations |-> <<value>>, on |-> TRUE, version |-> 7,
    salt |-> Null, offVariation |-> Null, targets |-> <<>>, rules |-> <<>>,
    fallthrough |-> [variation |-> 0, rollout |-> Null]]
File(flags, values) == [flags |-> flags, flagValues |-> values, segments |-> <<>>]
MCFileLists == {
    <<Null, File("a" :> Body("a", "one"), "a" :> "two"), Bad>>,
    <<File(<<>>, "a" :> "one" @@ "b" :> "two"), File("a" :> Body("a", "three"), <<>>)>>,
    <<File("b" :> Body("b", "one"), <<>>), File("a" :> Body("a", "two"), "b" :> "three")>>}

MCSymmetry == Permutations(Threads) \cup Permutations(Clients)
=============================================================================
