----------------------------- MODULE FlagBuilder -----------------------------
(***************************************************************************)
(* The flag builders of test data, src/integrations/test_data.c: each call  *)
(* of the builder API as an operator on the builder, and the flag that is   *)
(* built from one.  At the end, what a sequence of calls is meant to give.  *)
(*                                                                          *)
(* Two kinds of calls read freed memory and are left out: those that clear  *)
(* the targets and rules of a builder that has some (the builder keeps its  *)
(* pointers to them), and a copy of a builder whose rules were themselves   *)
(* copied (the copies share the values of their clauses, and the original   *)
(* is freed when a copy replaces it).                                       *)
(*                                                                          *)
(* A JSON value has a type; an array has elements, other values a number    *)
(* that tells them apart.                                                   *)
(***************************************************************************)
EXTENDS Evaluate

VariationForBoolean(value) == IF value THEN 0 ELSE 1
TrueFalse == <<[type |-> "boolean", n |-> 1], [type |-> "boolean", n |-> 0]>>
JSONArray(elements) == [type |-> "array", elements |-> elements]

\* An array is taken as it is, any other value becomes an array of one.
asJSONArray(value) == IF value.type = "array" THEN value.elements ELSE <<value>>

-----------------------------------------------------------------------------
(* The builder API.  b is the builder, without its key, which no call        *)
(* changes; borrowed counts its rules that share the values of their clauses *)
(* with the builder it was copied from, and dangling says that this builder  *)
(* is gone.                                                                  *)

LDi_isBooleanFlag(b) == b.variations = TrueFalse

LDFlagBuilderOn(b, on) == [b EXCEPT !.on = on]
LDFlagBuilderFallthroughVariation(b, n) == [b EXCEPT !.fallthroughVariation = n]
LDFlagBuilderOffVariation(b, n) == [b EXCEPT !.offVariation = n]
LDFlagBuilderVariations(b, variations) == [b EXCEPT !.variations = asJSONArray(variations)]

LDFlagBuilderBooleanFlag(b) ==
    IF LDi_isBooleanFlag(b) THEN b
    ELSE LDFlagBuilderOffVariation(
             LDFlagBuilderFallthroughVariation(
                 LDFlagBuilderVariations(b, JSONArray(TrueFalse)), 0), 1)

LDFlagBuilderVariationForAllUsers(b, n) ==
    LDFlagBuilderFallthroughVariation(
        LDFlagBuilderOn([b EXCEPT !.targets = <<>>, !.rules = <<>>], TRUE), n)

LDFlagBuilderValueForAllUsers(b, value) ==
    LDFlagBuilderVariationForAllUsers(LDFlagBuilderVariations(b, value), 0)

\* A user who has a variation already is left in its target too.
VariationForUserKeepingOthers(b, user, n) ==
    [b EXCEPT !.targets = Append(@, [variation |-> n, users |-> {user}])]

\* One target for each variation, in the order of their first use; a user is
\* in one of them at most.
LDFlagBuilderVariationForUser(b, user, n) ==
    LET targets == IF \E i \in DOMAIN b.targets : b.targets[i].variation = n
                   THEN b.targets
                   ELSE Append(b.targets, [variation |-> n, users |-> {}])
    IN  [b EXCEPT !.targets = [i \in DOMAIN targets |->
            [targets[i] EXCEPT !.users =
                IF targets[i].variation = n THEN @ \cup {user} ELSE @ \ {user}]]]

newFlagRuleBuilderClause(attribute, values, negate) ==
    [attribute |-> attribute, values |-> asJSONArray(values), negate |-> negate]

\* The newest rule is the first.
LDFlagBuilderIfMatch(b, clause) ==
    [b EXCEPT !.rules = <<[variation |-> 0, clauses |-> <<clause>>]>> \o @]
LDFlagRuleBuilderAndMatch(b, clause) ==
    [b EXCEPT !.rules[1].clauses = <<clause>> \o @]
LDFlagRuleBuilderThenReturn(b, n) == [b EXCEPT !.rules[1].variation = n]

\* One call.  boolean is TRUE for the ...Boolean variant, whose value is given
\* as the index that stands for it.
Apply(builder, call) ==
    LET b == IF call.boolean THEN LDFlagBuilderBooleanFlag(builder) ELSE builder IN
    CASE call.op = "boolean" -> b
      [] call.op = "on" -> LDFlagBuilderOn(b, call.arg)
      [] call.op = "fallthrough" -> LDFlagBuilderFallthroughVariation(b, call.arg)
      [] call.op = "off" -> LDFlagBuilderOffVariation(b, call.arg)
      [] call.op = "all" -> LDFlagBuilderVariationForAllUsers(b, call.arg)
      [] call.op = "value" -> LDFlagBuilderValueForAllUsers(b, call.arg)
      [] call.op = "user" -> LDFlagBuilderVariationForUser(b, call.user, call.arg)
      [] call.op = "variations" -> LDFlagBuilderVariations(b, call.arg)
      [] call.op = "if" -> LDFlagBuilderIfMatch(b, call.arg)
      [] call.op = "and" -> LDFlagRuleBuilderAndMatch(b, call.arg)
      [] call.op = "then" -> LDFlagRuleBuilderThenReturn(b, call.arg)

\* The calls that are defined: see above, and a rule must have been begun.
Defined(b, call) ==
    /\ call.op \in {"all", "value"} => b.targets = <<>> /\ b.rules = <<>>
    /\ call.op \in {"and", "then"} => Len(b.rules) > b.borrowed

\* The builder after each number of the calls.
Builders(b, calls) ==
    LET after[n \in 0..Len(calls)] == IF n = 0 THEN b ELSE Apply(after[n - 1], calls[n])
    IN  after

AllDefined(b, calls) == \A i \in DOMAIN calls : Defined(Builders(b, calls)[i - 1], calls[i])

-----------------------------------------------------------------------------
(* New builders, copies and flags.                                           *)

NewFlagBuilder ==
    LDFlagBuilderBooleanFlag(
        [on |-> TRUE, variations |-> <<>>, fallthroughVariation |-> 0,
         offVariation |-> 0, targets |-> <<>>, rules |-> <<>>,
         borrowed |-> 0, dangling |-> FALSE])

flagBuilderDuplicate(b) == [b EXCEPT !.borrowed = Len(b.rules)]

LDi_buildTargetsJSON(targets) ==
    [i \in DOMAIN targets |->
        [variation |-> targets[i].variation, values |-> targets[i].users]]

LDi_buildClauseJSON(clause) ==
    [op |-> "in", attribute |-> clause.attribute, values |-> clause.values,
     negate |-> clause.negate]

LDi_buildRulesJSON(rules) ==
    [i \in DOMAIN rules |->
        [id |-> i - 1,
         clauses |-> [j \in DOMAIN rules[i].clauses |->
                         LDi_buildClauseJSON(rules[i].clauses[j])],
         serve |-> [variation |-> rules[i].variation, rollout |-> Null]]]

LDFlagBuilderBuild(key, b, version) ==
    [key |-> key, salt |-> "salt", version |-> version, on |-> b.on,
     offVariation |-> b.offVariation, variations |-> b.variations,
     fallthrough |-> [variation |-> b.fallthroughVariation, rollout |-> Null],
     targets |-> LDi_buildTargetsJSON(b.targets),
     rules |-> LDi_buildRulesJSON(b.rules)]

-----------------------------------------------------------------------------
(* What a sequence of calls on a new builder is meant to give, as            *)
(* include/launchdarkly/integrations/test_data.h documents the calls.        *)

Of(calls, ops) == {i \in DOMAIN calls : calls[i].op \in ops}

\* The variations that a call sets: a value for all users, whatever its type,
\* becomes the only one.
Given(call) == IF call.op = "value" THEN <<call.arg>> ELSE asJSONArray(call.arg)

\* The variation that a call chooses, the only one for a value for all users.
Choice(call) == IF call.op = "value" THEN 0 ELSE call.arg

\* The calls that make the flag boolean although it was not: the first after
\* its variations were set to others than true and false.
Resets(calls) ==
    {i \in DOMAIN calls :
        /\ calls[i].boolean
        /\ \E j \in Of(calls, {"variations", "value"}) :
             /\ j < i /\ Given(calls[j]) # TrueFalse
             /\ \A l \in (j + 1)..(i - 1) :
                  ~calls[l].boolean /\ calls[l].op \notin {"variations", "value"}}

\* The choice of the last of the calls, or a default if there is none or the
\* flag was made boolean later.
Setting(calls, ops, default) ==
    LET last == Of(calls, ops)
    IN  IF last = {} \/ \E i \in Resets(calls) : i > Max(last) THEN default
        ELSE Choice(calls[Max(last)])

IntendedOn(calls) ==
    LET last == Of(calls, {"on", "all", "value"})
    IN  last = {} \/ calls[Max(last)].op # "on" \/ calls[Max(last)].arg

IntendedFallthrough(calls) == Setting(calls, {"fallthrough", "all", "value"}, 0)

\* A value for all users is served whether or not targeting is on.
IntendedOff(calls) == Setting(calls, {"off", "value"}, 1)

\* A rule is begun by an "if" and lasts until the next one.
RuleCalls(calls, i) ==
    {j \in DOMAIN calls : j >= i /\ \A l \in (i + 1)..j : calls[l].op # "if"}

\* An attribute with several values is an array.
ValuesOf(v) == IF v.type = "array" THEN Range(v.elements) ELSE {v}

IntendedRules(calls, user) ==
    {i \in Of(calls, {"if"}) :
        \A j \in RuleCalls(calls, i) : calls[j].op \in {"if", "and"} =>
            LET clause == calls[j].arg
                v == LDi_valueOfAttribute(user, clause.attribute)
            IN  v # Null /\ (ValuesOf(v) \cap Range(clause.values) # {}) # clause.negate}

IntendedVariation(calls, user) ==
    LET own == {i \in Of(calls, {"user"}) : calls[i].user = user.key}
        rules == IntendedRules(calls, user)
        then == Of(calls, {"then"}) \cap RuleCalls(calls, Max(rules))
    IN  IF ~IntendedOn(calls) THEN IntendedOff(calls)
        ELSE IF own # {} THEN calls[Max(own)].arg
        ELSE IF rules = {} THEN IntendedFallthrough(calls)
        ELSE IF then = {} THEN 0
        ELSE calls[Max(then)].arg

IntendedVariations(calls) ==
    LET last == Of(calls, {"variations", "value"})
    IN  IF last = {} \/ \E i \in Resets(calls) : i > Max(last) THEN TrueFalse
        ELSE Given(calls[Max(last)])

\* The value for a user; a variation that does not exist has no value.
Intended(calls, user) ==
    LET n == IntendedVariation(calls, user)
        variations == IntendedVariations(calls)
    IN  IF n \in 0..(Len(variations) - 1) THEN variations[n + 1] ELSE Null

-----------------------------------------------------------------------------
(* Where the code departs from this: LDFlagBuilderValueForAllUsers takes an  *)
(* array for the list of all variations, and leaves the off variation alone. *)

ArrayForAllUsers(calls) == \E i \in Of(calls, {"value"}) : calls[i].arg.type = "array"

\* Targeting is off, and a value for all users is what should be served then.
OffAfterValue(calls) ==
    LET last == Of(calls, {"off", "value"})
    IN  /\ ~IntendedOn(calls)
        /\ last # {} /\ calls[Max(last)].op = "value"
        /\ ~ \E i \in Resets(calls) : i > Max(last)
=============================================================================
