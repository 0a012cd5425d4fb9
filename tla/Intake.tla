-------------------------------- MODULE Intake --------------------------------
(***************************************************************************)
(* From documents on disk to one judged vector: the corpus is loaded and        *)
(* checked, a vector's arguments are resolved, the world it will be judged       *)
(* against is recorded, the call is made, and the requirements of the bundle     *)
(* and of the vector are evaluated over the record and the contract               *)
(* (crates/estamora-cli: engine/scenario.rs, record.rs, values.rs;               *)
(* crates/estamora-assertions: behavior.rs, state.rs, invariants.rs).            *)
(*                                                                         *)
(* What the contract does is no part of this module: the call may leave any     *)
(* quantities behind.  Scenario is about contracts and what the dimensions make  *)
(* of them; this module is about whether what is evaluated is what the           *)
(* documents say and what the contract answered.                                *)
(***************************************************************************)
EXTENDS Corpus, Events

CONSTANTS
  Openings,  \* the contracts a vector may find once its opening state is in place
  Aftermaths \* [balance, allowance, emitted, returned]: what a call may leave, and announce and
             \* return if it does return

\* What a host emits: a payload that is a map has each key once, with its item.
ASSUME AnnouncementsAssumption == \A after \in Aftermaths :
  /\ after.emitted \in Seq(ToSet(after.emitted))
  /\ \A event \in ToSet(after.emitted) :
       LET payload == event.payload
       IN /\ payload = Payload(payload.shape, payload.keys, payload.items)
          /\ payload.shape \in {"map", "vec", "scalar"}
          /\ payload.shape = "map" =>
               /\ payload.keys \in Seq(ToSet(payload.keys)) /\ DOMAIN payload.keys = DOMAIN payload.items
               /\ \A i, j \in DOMAIN payload.keys : payload.keys[i] = payload.keys[j] => i = j

VARIABLES
  vector,     \* the vector under test
  arguments,  \* its arguments, typed as the method declares them
  passed,     \* the same, as the host is given them
  contract,   \* the contract as it is
  before,     \* the RecordedWorld
  outcome,    \* how the call ended
  emitted,    \* the events captured of it
  results,    \* each statement evaluated, and what it evaluated to
  opening     \* history: the contract as it was when the world was recorded

execution == <<vector, arguments, passed, contract, before, outcome, emitted, results, opening>>
vars      == <<loader, execution>>

NoContract == [balance |-> <<>>, allowance |-> <<>>, names |-> <<>>, supply |-> Absent]
NoWorld    == RecordedWorld(<<>>, <<>>)
NoVector   == [id |-> "none"]

Init ==
  /\ LoadInit
  /\ vector = NoVector /\ arguments = <<>> /\ passed = <<>> /\ contract = NoContract
  /\ before = NoWorld /\ outcome = "none" /\ emitted = <<>> /\ results = {} /\ opening = NoContract

Method(v) == Definition(profile.methods, v.method)

LiveNow(v) == LiveWorld(contract, v.actors, v.allowances)

---------------------------------------------------------------------------
(* Before the call. *)

ErrorOf(values) == Failure(values).form

\* scenario::arguments, in the order the profile declares them.
Arguments(v) ==
  [i \in DOMAIN Method(v).args |->
     Argument(v.inputs[Method(v).args[i].name], Method(v).args[i].type, v.inputs)]

\* What follows a conversion: the next step, the error of the first value that could not be
\* made, or nothing at all.
Proceed(values, next, at) ==
  IF AllProduced(values) THEN pc' = next /\ UNCHANGED failure
  ELSE IF ErrorOf(values) = "crash" THEN pc' = "crashed" /\ UNCHANGED failure
  ELSE Fail(ErrorOf(values), at)

\* Each vector is executed in a host of its own, so any of them can be the one looked at.
Take(i) ==
  /\ pc = "admitted" /\ vector' = vectors[i].document
  /\ arguments' = Arguments(vector')
  /\ IF vector'.dated THEN Proceed(arguments', "record", "arguments")
                      ELSE Fail("VectorError", "arguments")
  /\ UNCHANGED <<disk, walk, corpus, passed, contract, before, outcome, emitted, results, opening>>

\* The reads a requirement of this vector could ask for: those of its own expectations, of
\* the rules for the method, and of every invariant.
Collected(p, v) ==
  UNION {ReadsOf(e) : e \in
    (UNION {OperandsOf(q) : q \in v.state \cup v.assertions})
    \cup Stated(v) \cup v.returns
    \cup (UNION {UNION {OperandsOf(q) : q \in ToSet(r.preconditions \o r.postconditions)} :
                 r \in BehaviorsFor(p, v.method)})
    \cup UNION {UNION {OperandsOf(q) : q \in ToSet(i.predicate)} : i \in ToSet(p.invariants)}}

\* What a document is, once more: it asks for finitely many reads, and lists what it declares.
ASSUME ReadsAssumption == \A d \in Disks : \A path \in DOMAIN d.files :
  LET v == d.files[path]
  IN /\ IsFiniteSet(Collected(d.profile, v))
     /\ v.actors \in Seq(ToSet(v.actors)) /\ v.allowances \in Seq(ToSet(v.allowances))

\* The predicates, and the expressions, that judging this vector can come to.
Predicates(p, v) ==
  v.state \cup v.assertions
  \cup (UNION {ToSet(r.preconditions) \cup ToSet(r.postconditions) : r \in ToSet(p.behaviors)})
  \cup UNION {ToSet(i.predicate) : i \in ToSet(p.invariants)}

Terms(p, v) ==
  (UNION {OperandsOf(q) : q \in Predicates(p, v)})
  \cup Stated(v) \cup v.returns \cup {v.inputs[name] : name \in DOMAIN v.inputs}

\* Each is of the format throughout, and nested no deeper than the parser of a document goes.
InFormat(p, v) ==
  /\ \A e \in Terms(p, v) : \A x \in Within(e) : IsExpression(x) /\ Parts(x) \subseteq Within(e)
  /\ \A q \in Predicates(p, v) : \A x \in Within(q) : IsPredicate(x) /\ Parts(x) \subseteq Within(q)
  /\ \A r \in ToSet(p.behaviors) : /\ r.preconditions \in Seq(ToSet(r.preconditions))
                                   /\ r.postconditions \in Seq(ToSet(r.postconditions))
  /\ p.invariants \in Seq(ToSet(p.invariants))
  /\ \A i \in ToSet(p.invariants) :
       /\ i.kind \in Families /\ i.direction \in {"none", "non_decreasing", "non_increasing"}
       /\ i.predicate \in Seq(ToSet(i.predicate))
  /\ \A e \in ToSet(v.required) : e.topics \in Seq(ToSet(e.topics))
  /\ v.sequence \in Nat /\ \A i \in DOMAIN v.allowances : v.allowances[i].expiry \in Nat

ASSUME FormatAssumption == \A d \in Disks : \A path \in DOMAIN d.files : InFormat(d.profile, d.files[path])

\* What a contract keeps of the actors of a fixture are amounts.
ASSUME OpeningsAssumption == \A c \in Openings :
  /\ c.supply.n \in Int
  /\ \A d \in Disks : \A path \in DOMAIN d.files : \A a, b \in ActorNames(d.files[path]) :
       c.balance[a] \in AmountType /\ c.allowance[<<a, b>>] \in AmountType

Resolvable(read, v) == AllProduced(ReadArguments(read, v.inputs))

\* The fixture's balances and allowances, in the order it declares them.
FixtureReads(v, world) ==
  [i \in DOMAIN v.actors |-> Performed(world, "balance", <<Address(v.actors[i])>>)]
  \o [i \in DOMAIN v.allowances |->
        Performed(world, "allowance", <<Address(v.allowances[i].from), Address(v.allowances[i].spender)>>)]

\* The supply, where the profile has an accessor of that name.
SupplyReads(p, world) ==
  IF \E m \in ToSet(p.methods) : m.name = "total_supply"
  THEN <<Performed(world, "total_supply", <<>>)>> ELSE <<>>

\* A read whose arguments cannot be resolved yet is recorded under none.
CollectedRead(read, v, world) ==
  IF Resolvable(read, v) THEN Performed(world, read.method, ReadArguments(read, v.inputs))
  ELSE Entry(read.method, <<>>, Failed("ExecutionError"))

\* Mutant: only what the fixtures declare is recorded.
CaptureOfFixtures(p, v, world) == RecordedWorld(Recording(FixtureReads(v, world)), v.allowances)

\* The reads collected are sorted by how they are written, which has those of a method that
\* take arguments come before one that takes none.
Asked(p, v) ==
  LET open == {r \in Collected(p, v) : ~Resolvable(r, v)}
  IN SetToSeq(open) \o SetToSeq(Collected(p, v) \ open)

\* record::capture.
ReadsMade(p, v, world) ==
  FixtureReads(v, world) \o SupplyReads(p, world)
  \o [i \in DOMAIN Asked(p, v) |-> CollectedRead(Asked(p, v)[i], v, world)]

Capture(p, v, world) == RecordedWorld(Recording(ReadsMade(p, v, world)), v.allowances)

\* Whatever a read answers is recorded, unless it ends the process.
Fatal(reads) == \E i \in DOMAIN reads : reads[i].value = Crash

Record(c) ==
  /\ pc = "record"
  /\ LET world == LiveWorld(c, vector.actors, vector.allowances)
     IN /\ before' = Capture(profile, vector, world)
        /\ pc' = IF Fatal(ReadsMade(profile, vector, world)) THEN "crashed" ELSE "convert"
  /\ contract' = c /\ opening' = c
  /\ UNCHANGED <<disk, walk, corpus, failure, vector, arguments, passed, outcome, emitted, results>>

\* scenario::host_arguments.
Convert ==
  /\ pc = "convert"
  /\ passed' = [i \in DOMAIN arguments |->
                  HostArgument(arguments[i], Method(vector).args[i].type, ActorNames(vector))]
  /\ Proceed(passed', "call", "convert")
  /\ UNCHANGED <<disk, walk, corpus, vector, arguments, contract, before, outcome, emitted, results, opening>>

\* The symbol of the call is made of the profile's name for the method.
Uncallable == Method(vector).name \in Unspellable

\* The contract, returning or refusing, leaves whatever it leaves.  What a refused call
\* announced is gone with it, and what the other returned is the first thing read.
CallReturns ==
  \E after \in Aftermaths :
    /\ contract' = [contract EXCEPT !.balance = after.balance, !.allowance = after.allowance]
    /\ \/ /\ outcome' = "success" /\ emitted' = after.emitted
          /\ pc' = IF FromHost(after.returned) = Crash THEN "crashed" ELSE "judge"
       \/ outcome' = "failure" /\ emitted' = <<>> /\ pc' = "judge"

\* apply_authorization and invoke.
Invoke ==
  /\ pc = "call"
  /\ \/ Uncallable /\ pc' = "crashed" /\ UNCHANGED <<contract, outcome, emitted>>
     \/ ~Uncallable /\ CallReturns
  /\ UNCHANGED <<disk, walk, corpus, failure, vector, arguments, passed, before, results, opening>>
---------------------------------------------------------------------------
(* Judging. *)

Environment(start, end) ==
  [before |-> start, after |-> end, inputs |-> vector.inputs, sequence |-> vector.sequence]

\* Behaviour.  A rule whose preconditions do not all hold says nothing; one that cannot be
\* evaluated is the vector's failure.
Describes(rule) ==
  /\ rule.kind = vector.outcome
  /\ rule.kind = "failure" /\ rule.failures # {} /\ vector.failure # "none" =>
       vector.failure \in rule.failures

Applicable(opened, required) ==
  LET broken == {s \in opened : HasFailed(s.value)}
  IN IF broken # {} THEN broken
     ELSE IF \E s \in opened : s.value = Flag(FALSE) THEN {} ELSE required

RuleResults(rule, start, end, observed) ==
  IF ~Describes(rule) THEN {}
  ELSE Applicable({Statement(p, Evaluate(start, p, NoMember)) : p \in ToSet(rule.preconditions)},
                  {Statement(p, Evaluate(end, p, NoMember)) : p \in ToSet(rule.postconditions)}
                  \cup RuleEventResults(profile, rule, observed))

Governing == BehaviorsFor(profile, MethodId(profile, vector.method))

\* state::unchanged_pairs: each declared balance and allowance, read through the profile's
\* own accessors.
DeclaredReads ==
  {<<Accessor(profile, "balance"), <<Address(a)>>>> : a \in vector.balances}
  \cup (IF Accessor(profile, "allowance") = "none" THEN {}
        ELSE {<<Accessor(profile, "allowance"),
                <<Address(vector.allowances[i].from), Address(vector.allowances[i].spender)>>>> :
              i \in DOMAIN vector.allowances})

Pair(start, end, method, args) ==
  LET both == <<WorldRead(start, method, args), WorldRead(end, method, args)>>
  IN Provided(both, Flag(SameValue(both[1], both[2])))

UnchangedResults(invariant, start, end) ==
  IF Accessor(profile, "balance") = "none" THEN {Statement(invariant, Failed("ProfileError"))}
  ELSE {Statement(invariant, Pair(start, end, read[1], read[2])) : read \in DeclaredReads}

Aggregates(invariant, start, end) ==
  <<Aggregate(start, invariant.resource), Aggregate(end, invariant.resource)>>

\* conservation and monotonic.
AggregateResult(invariant, start, end) ==
  LET sums == Aggregates(invariant, start, end)
  IN Provided(sums, Flag(CASE invariant.direction = "none"           -> SameValue(sums[1], sums[2])
                           [] invariant.direction = "non_decreasing" -> sums[2].n >= sums[1].n
                           [] invariant.direction = "non_increasing" -> sums[2].n <= sums[1].n))

\* evaluate_one, by the family of the invariant.
InvariantResults(invariant, start, end, env) ==
  CASE invariant.kind \in {"conservation", "monotonic"} ->
         {Statement(invariant, AggregateResult(invariant, start, end))}
    [] invariant.kind = "bounds" ->
         LET members == WorldMembers(end, invariant.resource)
         IN IF AllProduced(members)
            THEN {Statement(invariant, Evaluate(env, invariant.predicate[1], members[i])) :
                    i \in DOMAIN members}
            ELSE {Statement(invariant, Failure(members))}
    [] invariant.kind = "predicate" ->
         {Statement(invariant, Evaluate(env, invariant.predicate[1], NoMember))}
    [] invariant.kind = "state_unchanged" -> UnchangedResults(invariant, start, end)
    [] invariant.kind = "authorization_blocks_mutation" ->
         IF outcome = "success" THEN {} ELSE UnchangedResults(invariant, start, end)

\* The invariants of the method, whoever names them, and those the vector and the rules that
\* govern it ask for.
Selected == vector.invariants \cup UNION {r.invariants : r \in {g \in Governing : Describes(g)}}

Chosen == InvariantsFor(profile, MethodId(profile, vector.method), outcome)
          \cup {i \in ToSet(profile.invariants) : i.id \in Selected}

Results(start, end, observed) ==
  LET env  == Environment(start, end)
  IN (UNION {RuleResults(r, Environment(start, start), env, observed) : r \in Governing})
     \cup EventResults(profile, vector, env, observed)
     \cup {Statement(p, Evaluate(env, p, NoMember)) : p \in vector.state \cup vector.assertions}
     \cup UNION {InvariantResults(i, start, end, env) : i \in Chosen}

Observed == [i \in DOMAIN emitted |-> EventOf(emitted[i])]

\* A read the evaluation makes may end the process; but the evaluation itself ends with the
\* first statement that cannot be evaluated, and which one that is the set of results has lost.
Conclude(made) ==
  LET fatal == {s \in made : s.value = Crash}
      other == {s \in made : HasFailed(s.value) /\ s.value # Crash}
  IN \/ fatal # {} /\ pc' = "crashed" /\ UNCHANGED results
     \/ (fatal = {} \/ other # {}) /\ pc' = "judged" /\ results' = made \ fatal

\* The observation is made, and judged.  An event that cannot be read ends the process.
Judge ==
  /\ pc = "judge"
  /\ IF \E i \in DOMAIN emitted : Unreadable(emitted[i])
     THEN pc' = "crashed" /\ UNCHANGED results
     ELSE Conclude(Results(before, LiveNow(vector), Observed))
  /\ UNCHANGED <<disk, walk, corpus, failure, vector, arguments, passed, contract, before,
                 outcome, emitted, opening>>
---------------------------------------------------------------------------
Loading == Load /\ UNCHANGED execution

Next ==
  \/ Loading
  \/ (\E i \in DOMAIN vectors : Take(i)) \/ (\E c \in Openings : Record(c))
  \/ Convert \/ Invoke \/ Judge

\* One thread, which waits for nothing but the disk.  The steps after the load are taken once
\* each; only the walk could go on for ever.
Spec == Init /\ [][Next]_vars /\ WF_vars(Loading)
---------------------------------------------------------------------------
(* What could be wrong. *)

Judged == pc = "judged"

\* What is kept is what each step produces: no value that failed is ever passed on, and a
\* vector is under test only once the corpus is admitted.
TypeOK ==
  /\ pc \in {"load", "corpus", "walk", "read", "admitted", "record", "convert", "call", "judge",
             "judged", "failed", "crashed"}
  /\ failure.class \in {"none", "ProfileError", "VectorError", "ExecutionError"}
  /\ pc = "failed" <=> failure # NoFailure
  /\ vector = NoVector \/ vector \in {vectors[i].document : i \in DOMAIN vectors}
  /\ pc \in {"record", "convert", "call", "judge", "judged"} =>
       AllProduced(arguments) /\ (pc \in {"call", "judge", "judged"} => AllProduced(passed))
  /\ findings # {} => pc \in {"read", "failed"}
  /\ outcome \in {"none", "success", "failure"}

\* A definition is looked up by identifier wherever a call is judged, and a lookup that finds
\* nothing is an undecided vector at best and an accusation at worst (events.rs
\* required_by_rule reports a failed assertion).  No judged call rests on one: every
\* identifier the rules, the vector and the invariants of a judged call name is declared.
NothingJudgedIsUndeclared == Judged =>
  /\ Defined(profile.methods, vector.method)
  /\ \A r \in Governing : /\ r.expects \cup r.forbids \subseteq Ids(profile.events)
                          /\ r.invariants \subseteq Ids(profile.invariants)
                          /\ r.failures \subseteq Ids(profile.failures)
  /\ vector.invariants \subseteq Ids(profile.invariants)
  /\ Announced(vector) \cup vector.forbidden \subseteq Ids(profile.events)
  /\ vector.failure # "none" => vector.failure \in Ids(profile.failures)

\* The conditions the record is complete under.  No name of a method is the identifier of
\* another, so the rules collected from are the rules evaluated; the accessors are called
\* what the record calls them; and no read takes an argument that depends on the contract.
NamesDoNotCross == \A m, n \in ToSet(profile.methods) : m.name = n.id => m = n

AccessorsKeepTheirNames ==
  \A id \in {"balance", "allowance"} : Accessor(profile, id) \in {id, "none"}

ArgumentsAreKnown == \A r \in Collected(profile, vector) : Resolvable(r, vector)

\* Recording is done once, before the call, from a list of its own of what will be asked
\* (record.rs capture), and evaluation asks what it asks (behavior.rs, state.rs,
\* invariants.rs).  The two agree: under the three conditions above no requirement is left
\* undecided because nobody had read the state it compares with.
WhatIsAskedWasRecorded ==
  (Judged /\ NamesDoNotCross /\ AccessorsKeepTheirNames /\ ArgumentsAreKnown) =>
    \A s \in results : s.value # Unrecorded

\* Whether the members of a resource set are the same in the record as in the contract: each
\* allowance is granted once, and no expression reads a member the fixture does not declare.
GrantedOnce == \A i, j \in DOMAIN vector.allowances :
  /\ vector.allowances[i].from = vector.allowances[j].from
  /\ vector.allowances[i].spender = vector.allowances[j].spender => i = j

DeclaredMembers ==
  \A r \in Collected(profile, vector) : Resolvable(r, vector) =>
    LET args == ReadArguments(r, vector.inputs)
    IN /\ r.method = "balance" => \E a \in ActorNames(vector) : args = <<Address(a)>>
       /\ r.method = "allowance" => \E i \in DOMAIN vector.allowances :
            args = <<Address(vector.allowances[i].from), Address(vector.allowances[i].spender)>>

\* A read of a method under no arguments shares its place with those of the method whose
\* arguments are not known yet.
KeptApart(method, args) ==
  args # <<>> \/ \A r \in Collected(profile, vector) : r.method = method => Resolvable(r, vector)

\* The record, which nothing writes to again, answers as the contract did when it was taken:
\* every read collected, and the aggregates where the members are the same (record.rs
\* RecordedWorld, world.rs ContractWorld).
TheRecordIsThePast == pc \in {"convert", "call", "judge", "judged"} =>
  LET past == LiveWorld(opening, vector.actors, vector.allowances)
  IN /\ \A r \in Collected(profile, vector) : Resolvable(r, vector) =>
          LET args == ReadArguments(r, vector.inputs)
          IN KeptApart(r.method, args) =>
               RecordedRead(before, r.method, args) = LiveRead(past, r.method, args)
     /\ (GrantedOnce /\ DeclaredMembers /\ ArgumentsAreKnown) =>
          \A resource \in DOMAIN MemberReads : WorldMembers(past, resource) # <<>> =>
            Aggregate(before, resource) = Aggregate(past, resource)

\* What an expression amounts to once the call is made.
Wanted(expr) == Compute(Environment(before, LiveNow(vector)), expr, NoMember)

\* A statement that holds of a call that moved nothing.  A record, or a sequence, is on no scale
\* and so is never equal to itself.
HoldsStandingStill(p) ==
  \/ p.kind \in {"conservation", "monotonic", "state_unchanged", "authorization_blocks_mutation"}
  \/ p.kind = "unchanged" /\ Wanted(p.operands[1]).type \notin {"record", "sequence"}
  \/ p.kind = "delta" /\ Len(p.operands) = 1 /\ p.direction = "unchanged"
  \/ p.kind = "delta" /\ Len(p.operands) = 2 /\ Wanted(p.operands[2]).n = 0

\* A call that changed nothing is not accused of having moved something: a relative
\* requirement that a standstill satisfies holds or is undecided (eval.rs evaluate_delta
\* names the transfer of nothing).  The members of a set have to be the same on both sides.
AStandstillIsNotAccused ==
  (Judged /\ contract = opening /\ GrantedOnce /\ DeclaredMembers /\ ArgumentsAreKnown) =>
    \A s \in results : HoldsStandingStill(s.statement) => s.value # Flag(FALSE)

\* The conditions the event dimension acquits under: no two fields of an event have one name,
\* and no two events, which the profile's check of its references does not look at; a vector
\* requires one kind of event, and states every field the profile declares of it.
FieldsNamedOnce ==
  \A id \in Announced(vector) : \A j, k \in DOMAIN Definition(profile.events, id).fields :
    Definition(profile.events, id).fields[j].name = Definition(profile.events, id).fields[k].name => j = k

EventsNamedOnce ==
  \A i, j \in DOMAIN profile.events : profile.events[i].name = profile.events[j].name => i = j

OneKindRequired == Cardinality(Announced(vector)) <= 1

StatedInFull ==
  \A i \in DOMAIN vector.required :
    Len(vector.required[i].data) = Len(Definition(profile.events, vector.required[i].event).fields)

EventJudgements(observed) == EventResults(profile, vector, Environment(before, LiveNow(vector)), observed)
EventsDecided(observed)   == \A s \in EventJudgements(observed) : ~HasFailed(s.value)

\* What a payload says, field by field, whatever its shape.
Meaning(event, payload) ==
  CASE payload.shape = "map" -> {<<payload.keys[k], payload.items[k]>> : k \in DOMAIN payload.keys}
    [] payload.shape # "map" ->
         {<<event.fields[k].name, payload.items[k]>> : k \in DOMAIN event.fields \cap DOMAIN payload.items}

Conveys(event, e, o) ==
  /\ \A k \in DOMAIN e.topics :
       SameValue(Wanted(e.topics[k]), IF k \in DOMAIN o.topics THEN o.topics[k] ELSE Absent)
  /\ \A k \in DOMAIN e.data \cap DOMAIN event.fields :
       LET said == {m[2] : m \in {m \in Meaning(event, o.payload) : m[1] = event.fields[k].name}}
       IN IF said = {} THEN event.fields[k].optional ELSE \A v \in said : SameValue(Wanted(e.data[k]), v)

ExpectationsOf(id) == {i \in DOMAIN vector.required : vector.required[i].event = id}

\* What a call announced, in the order it did, has in it what the vector requires, in the
\* order it does; each kind of event is as frequent as the profile says, comes before those
\* it has to come before, and nothing forbidden was announced.
InOrderOf(m) == \A i, j \in DOMAIN m : i < j => m[i] < m[j]

AnnouncedAsRequired(observed) ==
  /\ \A id \in Announced(vector) :
       LET event == Definition(profile.events, id)
           said  == EventsNamed(observed, event.name)
           asked == ExpectationsOf(id)
       IN /\ Cardinality(said) >= event.min /\ Cardinality(said) <= event.max
          /\ \E m \in [asked -> said] :
               InOrderOf(m) /\ \A i \in asked : Conveys(event, vector.required[i], observed[m[i]])
          /\ \A other \in event.before :
               LET late == {j \in DOMAIN observed :
                              observed[j].name = Definition(profile.events, other).name}
               IN /\ other \in event.strict => late # {}
                  /\ \A j \in late : \E i \in 1..(j - 1) : observed[i].name = event.name
  /\ \A id \in vector.forbidden : \A i \in DOMAIN observed :
       observed[i].name # Definition(profile.events, id).name

\* No announcement is taken for another: what the event dimension acquits was announced as
\* required, and a call that announced what was required, and nothing more of that kind, is
\* acquitted, where the vector requires one kind of event (events.rs required_event).
AcquittedAsAnnounced == (Judged /\ FieldsNamedOnce /\ EventsDecided(Observed)) =>
  LET holds == \A s \in EventJudgements(Observed) : s.value = Flag(TRUE)
  IN /\ holds => AnnouncedAsRequired(Observed)
     /\ (/\ OneKindRequired /\ StatedInFull /\ AnnouncedAsRequired(Observed)
         /\ \A id \in Announced(vector) :
              Cardinality(EventsNamed(Observed, Definition(profile.events, id).name))
                = Cardinality(ExpectationsOf(id)))
        => holds

\* The same event with its payload as a sequence: a map whose keys are the first fields
\* declared, or a value alone.
Sequenced(observed) ==
  LET events == {i \in DOMAIN profile.events : profile.events[i].name = observed.name}
      fields == profile.events[Min(events)].fields
      keys   == [k \in DOMAIN observed.payload.keys |-> fields[k].name]
      items  == [k \in DOMAIN observed.payload.keys |->
                   observed.payload.items[CHOOSE i \in DOMAIN observed.payload.keys :
                                            observed.payload.keys[i] = keys[k]]]
  IN CASE events = {} \/ observed.payload.shape = "vec" -> observed
       [] events # {} /\ observed.payload.shape = "scalar" ->
            [observed EXCEPT !.payload = Payload("vec", <<>>, observed.payload.items)]
       [] events # {} /\ observed.payload.shape = "map" ->
            IF Len(observed.payload.keys) <= Len(fields) /\ ToSet(keys) = ToSet(observed.payload.keys)
            THEN [observed EXCEPT !.payload = Payload("vec", <<>>, items)] ELSE observed

\* The shape of a payload is the contract's own choice: a map, a sequence and, where all the
\* fields are stated, a value alone are judged alike when they say the same
\* (events.rs value_outcomes; SEP-41 permits each of them).
ShapeDoesNotMatter == (Judged /\ FieldsNamedOnce /\ EventsNamedOnce /\ StatedInFull) =>
  EventJudgements(Observed) = EventJudgements([i \in DOMAIN Observed |-> Sequenced(Observed[i])])


\* What an argument is declared as is what the host is given: a call is never refused for the
\* runner's own choice of type (values.rs host_argument).  A point in time, a duration and an
\* optional value are the exceptions: they are passed as whatever the value reads as.
HostType(type) == IF type = "muxed_address" THEN "address" ELSE type

PassedAsDeclared == pc \in {"call", "judge", "judged"} =>
  \A i \in DOMAIN passed :
    Method(vector).args[i].type \notin {"timepoint", "duration", "val", "option_u32"} =>
      passed[i].type = HostType(Method(vector).args[i].type)

\* The walk is bounded and no directory is listed twice, so the load comes to an end: with a
\* refusal, or with every declared vector read (loader.rs yaml_files, load).
LoadingEnds == <>(pc \notin {"load", "corpus", "walk", "read"})
=============================================================================
