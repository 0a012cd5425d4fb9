----------------------------- MODULE Dimensions -----------------------------
(***************************************************************************)
(* The seven conformance dimensions of estamora-assertions: what each one   *)
(* makes of one observation of one call, and the status the vector gets.     *)
(*                                                                         *)
(* A dimension checks a list of assertions and a vector fails when any of    *)
(* them failed, so a dimension is given here by the condition under which     *)
(* all its assertions hold.  A profile and a vector are records, built the    *)
(* way the documents are (Profiles); an observation is                        *)
(*   [call, before, after, published],                                       *)
(* the call as observed, the world recorded before it, the world after it,    *)
(* and the methods the inspected interface declares.                          *)
(***************************************************************************)
EXTENDS Integers, Sequences, FiniteSets, Functions

CONSTANT MaxAmount   \* the largest value of the amount type (i128::MAX)

ASSUME AmountTypeAssumption == MaxAmount \in Nat

Dimension == {"interface", "behavior", "authorization", "event", "state", "invariant", "failure"}

\* A read the runner could not perform, or whose value it cannot carry.
Unavailable == "unavailable"

---------------------------------------------------------------------------
(* Expressions and predicates. *)

Literal(n)        == [kind |-> "literal", value |-> n]
Input(name)       == [kind |-> "input", name |-> name]
Actor(a)          == [kind |-> "actor", actor |-> a]
BalanceRead(who)  == [kind |-> "balance", of |-> who]
MetadataRead(m)   == [kind |-> "metadata", method |-> m]
SumOfBalances     == [kind |-> "sum"]

Account(e, v) == IF e.kind = "actor" THEN e.actor ELSE v.inputs[e.name]

ValueOf(e, world, v) ==
  CASE e.kind = "literal"  -> e.value
    [] e.kind = "input"    -> v.inputs[e.name]
    [] e.kind = "balance"  -> world.balance[Account(e.of, v)]
    [] e.kind = "metadata" -> world.metadata[e.method]
    [] e.kind = "sum"      -> FoldFunction(LAMBDA x, y : x + y, 0, world.balance)

\* Taking the sum of a resource set that leaves the amount type is an error.
Summable(world, v) == ValueOf(SumOfBalances, world, v) \in (-MaxAmount - 1)..MaxAmount

Greater(left, right)     == [kind |-> "greater_than", left |-> left, right |-> right]
Equal(left, right)       == [kind |-> "equal", left |-> left, right |-> right]
Unchanged(target)        == [kind |-> "unchanged", target |-> target]
Increase(target, by)     == [kind |-> "delta", target |-> target, sign |-> 1, by |-> by]
Decrease(target, by)     == [kind |-> "delta", target |-> target, sign |-> -1, by |-> by]

\* A stated magnitude is the requirement, direction included.
Holds(p, before, after, v) ==
  CASE p.kind = "greater_than" -> ValueOf(p.left, after, v) > ValueOf(p.right, after, v)
    [] p.kind = "equal"        -> ValueOf(p.left, after, v) = ValueOf(p.right, after, v)
    [] p.kind = "unchanged"    -> ValueOf(p.target, before, v) = ValueOf(p.target, after, v)
    [] p.kind = "delta"        -> ValueOf(p.target, after, v) - ValueOf(p.target, before, v)
                                    = p.sign * ValueOf(p.by, after, v)

\* A comparison of a value that could not be read is an error, never an answer.
Readable(p, world, v) ==
  p.kind = "equal" /\ p.left.kind = "metadata" => ValueOf(p.left, world, v) # Unavailable

---------------------------------------------------------------------------
(* The call. *)

Accepted(call)             == call.outcome = "returned"
RefusedCall(call)          == call.outcome = "refused"
RefusalIsUnambiguous(call) == RefusedCall(call) /\ call.verified

\* The places, in the list of what the call emitted, of the events of a name.
EventsNamed(call, name) == {i \in DOMAIN call.events : call.events[i].name = name}

\* The address arguments whose value is the account the contract demanded of.
CoveredArguments(call, v) ==
  {name \in v.addresses : v.inputs[name] \in call.auths}

---------------------------------------------------------------------------
(* Interface.  Presence: the signatures an exposed method is then compared by are those of  *)
(* the profile in every contract modelled.                                                  *)

InterfaceHolds(profile, published) ==
  profile.required \subseteq published /\ profile.forbidden \cap published = {}

---------------------------------------------------------------------------
(* Behaviour. *)

RulesFor(profile, v) == {r \in profile.behaviors : r.method = v.method}

\* A rule governs the vectors that construct its scenario; preconditions are about the
\* world the call started in.
Applicable(rule, v, before) ==
  /\ rule.kind = v.expects
  /\ rule.kind = "failure" /\ rule.failures # {} /\ v.failure # "none" => v.failure \in rule.failures
  /\ \A p \in rule.preconditions : Holds(p, before, before, v)

Governing(profile, v, o) == {r \in RulesFor(profile, v) : Applicable(r, v, o.before)}

RuleOutcomeHolds(rule, call) ==
  IF rule.kind = "success" THEN Accepted(call) ELSE RefusalIsUnambiguous(call)

ExpectedFailureHolds(rule, v, call) ==
  rule.failures # {} => /\ RefusalIsUnambiguous(call)
                        /\ IF v.failure = "none" THEN v.expects = "failure"
                                                 ELSE v.failure \in rule.failures

BehaviorHolds(profile, v, o) == \A rule \in Governing(profile, v, o) :
  /\ RuleOutcomeHolds(rule, o.call)
  /\ \A p \in rule.postconditions : Holds(p, o.before, o.after, v)
  /\ ExpectedFailureHolds(rule, v, o.call)

\* Some postcondition of a governing rule reads what cannot be read.
BehaviorUndecidable(profile, v, o) == \E rule \in Governing(profile, v, o) :
  \E p \in rule.postconditions : ~Readable(p, o.after, v)

---------------------------------------------------------------------------
(* Authorization. *)

Path(plan) == CASE plan.substitutedFor # {}                       -> "wrong_actor"
                [] plan.substitutedFor = {} /\ plan.actors = {}   -> "unauthorized"
                [] plan.substitutedFor = {} /\ plan.actors # {}   -> "authorized"

\* An accepted plan says who may sign, not that the call then succeeds.
PlanHolds(v, call) ==
  IF v.plan.expected = "rejected"
  THEN RefusalIsUnambiguous(call)
  ELSE Accepted(call) \/ (v.expects = "failure" /\ RefusalIsUnambiguous(call))

PrincipalHolds(rule, v, call) ==
  CASE rule.actor = "none"     -> call.auths = {}
    [] rule.actor = "invoker"  -> call.auths # {}
    [] rule.actor = "argument" -> v.inputs[rule.argument] \in call.auths

CoverageHolds(rule, v, call) ==
  LET covered == CoveredArguments(call, v)
  IN  CASE rule.coverage = "exact"    -> covered = rule.arguments
        [] rule.coverage = "at_least" -> rule.arguments \subseteq covered
        [] rule.coverage = "at_most"  -> covered \subseteq rule.arguments

EndsAs(outcome, call) ==
  IF outcome = "succeed" THEN Accepted(call) ELSE RefusalIsUnambiguous(call)

PathHolds(rule, v, call) ==
  /\ Path(v.plan) = "unauthorized" => EndsAs(rule.unauthorized, call)
  /\ Path(v.plan) = "wrong_actor" => EndsAs(rule.wrongActor, call)

\* What a refused call demanded is not observable and not held against it.
AuthorizationHolds(profile, v, call) ==
  /\ PlanHolds(v, call)
  /\ \A rule \in {r \in profile.authorizations : {v.method, "*"} \cap r.methods # {}} :
       /\ Accepted(call) => PrincipalHolds(rule, v, call) /\ CoverageHolds(rule, v, call)
       /\ PathHolds(rule, v, call)

---------------------------------------------------------------------------
(* Events. *)

\* Mutant: only the lower bound of an event's cardinality is checked.
CardinalityAtLeast(event, call) == Cardinality(EventsNamed(call, event.name)) >= event.min

CardinalityHolds(event, call) ==
  Cardinality(EventsNamed(call, event.name)) \in event.min..event.max

\* The expectation at one position of the list is compared with the event of that name at
\* the same position.
ValuesHold(expected, position, call) ==
  \E i \in EventsNamed(call, expected.name) :
     /\ Cardinality({j \in EventsNamed(call, expected.name) : j <= i}) = position
     /\ call.events[i] = expected

EventRuleHolds(profile, rule, call) ==
  /\ \A name \in rule.expectEvents : CardinalityHolds(profile.events[name], call)
  /\ \A name \in rule.forbidEvents : EventsNamed(call, name) = {}

EventsHold(profile, v, o) ==
  /\ \A i \in DOMAIN v.requiredEvents :
       /\ CardinalityHolds(profile.events[v.requiredEvents[i].name], o.call)
       /\ ValuesHold(v.requiredEvents[i], i, o.call)
  /\ \A name \in v.forbiddenEvents : EventsNamed(o.call, name) = {}
  /\ \A rule \in Governing(profile, v, o) : EventRuleHolds(profile, rule, o.call)

---------------------------------------------------------------------------
(* State, invariants and failures. *)

\* Some assertion takes a sum that cannot be represented.
StateUndecidable(v, o) ==
  /\ \E p \in v.stateAssertions : p = Unchanged(SumOfBalances)
  /\ ~(Summable(o.before, v) /\ Summable(o.after, v))

StateHolds(v, o) == \A p \in v.stateAssertions : Holds(p, o.before, o.after, v)

\* unchanged_pairs: the balances the fixture declares.
StateUnchanged(o) == o.before.balance = o.after.balance

InScope(invariant, v, call) ==
  /\ v.method \in invariant.methods
  /\ (IF Accepted(call) THEN "success" ELSE "failure") \in invariant.outcomes

\* Those in scope, and those the vector or a governing rule names, in scope or not.
ChosenInvariants(profile, v, o) ==
  {i \in profile.invariants :
     \/ InScope(i, v, o.call)
     \/ i.id \in v.invariants
     \/ \E rule \in Governing(profile, v, o) : i.id \in rule.invariants}

InvariantHolds(invariant, v, o) ==
  CASE invariant.kind = "conservation" ->
         ValueOf(SumOfBalances, o.before, v) = ValueOf(SumOfBalances, o.after, v)
    [] invariant.kind = "non_negative" -> \A a \in DOMAIN o.after.balance : o.after.balance[a] >= 0
    [] invariant.kind = "state_unchanged" -> StateUnchanged(o)

InvariantsUndecidable(profile, v, o) ==
  /\ \E i \in ChosenInvariants(profile, v, o) : i.kind = "conservation"
  /\ ~(Summable(o.before, v) /\ Summable(o.after, v))

InvariantsHold(profile, v, o) ==
  \A i \in ChosenInvariants(profile, v, o) : InvariantHolds(i, v, o)

FailureUndecidable(v, call) == v.expects = "failure" /\ call.outcome = "could_not_run"

\* The definition the vector names; one that names only a category gets the default.
FailureDefinition(profile, v) ==
  IF v.failure = "none" THEN [stateEffect |-> "reverted", eventsEmitted |-> "none"]
                        ELSE profile.failures[v.failure]

FailureHolds(profile, v, o) ==
  v.expects = "failure" =>
    /\ RefusalIsUnambiguous(o.call)
    /\ FailureDefinition(profile, v).stateEffect # "unspecified" => StateUnchanged(o)
    /\ FailureDefinition(profile, v).eventsEmitted = "none" => o.call.events = <<>>

---------------------------------------------------------------------------
(* The vector. *)

DimensionHolds(d, profile, v, o) ==
  CASE d = "interface"     -> InterfaceHolds(profile, o.published)
    [] d = "behavior"      -> BehaviorHolds(profile, v, o)
    [] d = "authorization" -> AuthorizationHolds(profile, v, o.call)
    [] d = "event"         -> EventsHold(profile, v, o)
    [] d = "state"         -> StateHolds(v, o)
    [] d = "invariant"     -> InvariantsHold(profile, v, o)
    [] d = "failure"       -> FailureHolds(profile, v, o)

\* The dimensions one of whose assertions failed.
Accused(profile, v, o) == {d \in Dimension : ~DimensionHolds(d, profile, v, o)}

\* An evaluation that cannot be completed reports no assertion at all.
Undecidable(profile, v, o) ==
  \/ BehaviorUndecidable(profile, v, o)
  \/ StateUndecidable(v, o)
  \/ InvariantsUndecidable(profile, v, o)
  \/ FailureUndecidable(v, o.call)

\* Mutant: the code of an evaluation that was unavailable stands where a status belongs.
StatusAsCode(profile, v, o) ==
  IF Undecidable(profile, v, o) THEN "evaluation-unavailable"
  ELSE IF Accused(profile, v, o) # {} THEN "failed" ELSE "passed"

StatusOf(profile, v, o) ==
  CASE Undecidable(profile, v, o)                                       -> "error"
    [] ~Undecidable(profile, v, o) /\ Accused(profile, v, o) # {}       -> "failed"
    [] ~Undecidable(profile, v, o) /\ Accused(profile, v, o) = {}       -> "passed"
=============================================================================
