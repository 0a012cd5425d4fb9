-------------------------------- MODULE Events --------------------------------
(***************************************************************************)
(* What a call announced, and what a profile and a vector say it announces       *)
(* (crates/estamora-assertions: dimensions/events.rs; crates/estamora-cli:        *)
(* engine/observe.rs; crates/estamora-soroban: events.rs).                       *)
(*                                                                         *)
(* A captured event is [topics, payload].  A payload is a sequence, a map, whose  *)
(* keys stand beside its items, or one value alone.  Which contract emitted it    *)
(* is recorded and asked by nobody.                                             *)
(***************************************************************************)
EXTENDS Bundles, Requirements

Payload(shape, keys, items) == [items |-> items, keys |-> keys, shape |-> shape]
Alone(v)                    == Payload("scalar", <<>>, <<v>>)

---------------------------------------------------------------------------
(* From the host to the evaluator. *)

NoName == 0   \* of an event without topics

Converted(items) == [i \in DOMAIN items |-> FromHost(items[i])]

\* CapturedEvent::name and event_of, where they panic: the first topic is taken for a symbol,
\* and every topic is converted; of a payload no more is, once an item cannot be carried.
Unreadable(event) ==
  \/ event.topics # <<>> /\ event.topics[1].type # "symbol"
  \/ \E i \in DOMAIN event.topics : FromHost(event.topics[i]) = Crash
  \/ LET items == Converted(event.payload.items) IN ~AllProduced(items) /\ Failure(items) = Crash

Carried(v) == IF HasFailed(v) THEN Absent ELSE v

\* observe::event_of.  A topic the runner cannot carry is absent, and so is a payload with
\* anything in it that it cannot.
EventOf(event) ==
  LET items == Converted(event.payload.items)
  IN [name    |-> IF event.topics = <<>> THEN NoName ELSE event.topics[1].n,
      topics  |-> [i \in DOMAIN event.topics |-> Carried(FromHost(event.topics[i]))],
      payload |-> IF AllProduced(items) THEN [event.payload EXCEPT !.items = items] ELSE Alone(Absent)]

---------------------------------------------------------------------------
(* The dimension. *)

\* ObservedCall::events_named.
EventsNamed(observed, name) == {i \in DOMAIN observed : observed[i].name = name}

InNumber(event, observed) ==
  Cardinality(EventsNamed(observed, event.name)) \in event.min..event.max

Check(check, owner, at, part) ==
  [kind |-> "event", check |-> check, owner |-> owner, at |-> at, part |-> part]

Matching(wanted, found) == IF HasFailed(wanted) THEN wanted ELSE Flag(SameValue(wanted, found))

\* The topics, by their position.
TopicResults(e, i, env, observed) ==
  {Statement(Check("topic", e.event, i, k),
             Matching(Compute(env, e.topics[k], NoMember),
                      IF k \in DOMAIN observed.topics THEN observed.topics[k] ELSE Absent)) :
     k \in DOMAIN e.topics}

\* Mutant: a map is read in the order of its keys, as a sequence is.
ItemsByPosition(field, k, payload) == payload.items[k]

\* The declared field at position k, where the payload has it: by name in a map, by position
\* in a sequence; a value alone is the first.
HasItem(field, k, payload) ==
  IF payload.shape = "map" THEN field.name \in ToSet(payload.keys) ELSE k \in DOMAIN payload.items

ItemOf(field, k, payload) ==
  IF payload.shape = "map"
  THEN payload.items[CHOOSE i \in DOMAIN payload.keys : payload.keys[i] = field.name]
  ELSE payload.items[k]

\* The fields that are compared: those stated; beside a value alone, every other one has to be
\* optional, stated or not.
Compared(event, e, payload) ==
  {k \in DOMAIN event.fields : k \in DOMAIN e.data \/ (payload.shape = "scalar" /\ k > 1)}

DataResults(event, e, i, env, observed) ==
  LET wanted  == [k \in DOMAIN e.data |-> Compute(env, e.data[k], NoMember)]
      payload == observed.payload
  IN IF ~AllProduced(wanted)
     THEN {Statement(Check("data", e.event, i, 0), Failure(wanted))}
     ELSE {Statement(Check("data", e.event, i, k),
                     Flag(IF HasItem(event.fields[k], k, payload)
                          THEN SameValue(wanted[k], ItemOf(event.fields[k], k, payload))
                          ELSE event.fields[k].optional)) : k \in Compared(event, e, payload)}

First(observed, name) ==
  IF EventsNamed(observed, name) = {} THEN 0 ELSE Min(EventsNamed(observed, name))

\* ordering_outcomes: the first of the one before the first of the other.
InOrder(event, other, observed) ==
  LET this == First(observed, event.name)
      that == First(observed, other.name)
  IN IF 0 \in {this, that} THEN other.id \notin event.strict ELSE this < that

\* Mutant: every expectation is compared with the first event of its name.
ExpectedAt(matched, i) == Min(matched)

\* The expectation at one position of the vector's list is compared with the event at the same
\* position among those of its own name.
CounterpartAt(matched, i) == Place(matched, i)

RequiredEvent(profile, e, i, env, observed) ==
  LET event   == Definition(profile.events, e.event)
      matched == EventsNamed(observed, event.name)
  IN IF ~Defined(profile.events, e.event)
     THEN {Statement(Check("required", e.event, i, 0), Failed("VectorError"))}
     ELSE {Statement(Check("cardinality", e.event, i, 0), Flag(InNumber(event, observed)))}
          \cup (IF i > Cardinality(matched)
                THEN {Statement(Check("values", e.event, i, 0), Flag(FALSE))}
                ELSE TopicResults(e, i, env, observed[CounterpartAt(matched, i)])
                     \cup DataResults(event, e, i, env, observed[CounterpartAt(matched, i)]))
          \cup {Statement(Check("ordering", e.event, i, 0),
                           Flag(InOrder(event, Definition(profile.events, other), observed))) :
                   other \in event.before \cap Ids(profile.events)}

Silent(profile, id, observed) ==
  IF Defined(profile.events, id)
  THEN Flag(EventsNamed(observed, Definition(profile.events, id).name) = {})
  ELSE Failed("VectorError")

\* events::evaluate.
EventResults(profile, v, env, observed) ==
  (UNION {RequiredEvent(profile, v.required[i], i, env, observed) : i \in DOMAIN v.required})
  \cup {Statement(Check("forbidden", id, 0, 0), Silent(profile, id, observed)) : id \in v.forbidden}

\* required_by_rule and forbidden_by_rule: an undeclared event is a failed assertion.
RuleEventResults(profile, rule, observed) ==
  {Statement(Check("rule", id, 0, 1),
             Flag(Defined(profile.events, id) /\ InNumber(Definition(profile.events, id), observed))) :
     id \in rule.expects}
  \cup {Statement(Check("rule", id, 0, 2),
                  Flag(Defined(profile.events, id) /\ Silent(profile, id, observed) = Flag(TRUE))) :
          id \in rule.forbids}
=============================================================================
