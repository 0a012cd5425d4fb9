------------------------------ MODULE MCIntake ------------------------------
(* Intake over one small bundle and its libraries, each disk with one thing changed: in   *)
(* the profile, in the tree of vectors, or in one vector.                                 *)
EXTENDS Intake

Zero == Literal(Number(0))
One  == Literal(Number(1))

Balance(of)   == Read("balance", <<of>>)
Granted(a, b) == Read("allowance", <<a, b>>)
Supply        == Read("total_supply", <<>>)

MethodOf(id, args, readonly) ==
  [id |-> id, name |-> id, args |-> args, readonly |-> readonly, authorization |-> {},
   events |-> {}, failures |-> {}, behaviors |-> {}]

Arg(name, type) == [name |-> name, type |-> type]

Transfer == [MethodOf("transfer", <<Arg("from", "address"), Arg("amount", "i128")>>, FALSE)
  EXCEPT !.authorization = {"payer"}, !.events = {"moved"}, !.failures = {"short"},
         !.behaviors = {"moves", "refuses"}]

Accessors == <<
  MethodOf("balance", <<Arg("id", "address")>>, TRUE),
  MethodOf("allowance", <<Arg("from", "address"), Arg("spender", "address")>>, TRUE),
  MethodOf("total_supply", <<>>, TRUE)>>

Moves == [id |-> "moves", method |-> "transfer", kind |-> "success",
  preconditions |-> <<Comparison("greater_or_equal", Input("amount"), Zero)>>,
  postconditions |-> <<Delta(Balance(Input("from")), "decrease", <<Input("amount")>>),
                       Delta(Balance(Input("from")), "decrease", <<>>)>>,
  failures |-> {}, invariants |-> {"conserved"}, expects |-> {"moved"}, forbids |-> {}]

Refuses == [id |-> "refuses", method |-> "transfer", kind |-> "failure",
  preconditions |-> <<Not(Comparison("greater_or_equal", Balance(Input("from")), Input("amount")))>>,
  postconditions |-> <<AllOf(<<Unchanged(Balance(Input("from"))),
                               Delta(Supply, "unchanged", <<>>)>>)>>,
  failures |-> {"short"}, invariants |-> {}, expects |-> {}, forbids |-> {"moved"}]

Invariant(id, kind) == [id |-> id, kind |-> kind, methods |-> {"*"}, outcomes |-> {"success", "failure"},
  resource |-> "none", direction |-> "none", predicate |-> <<>>]

Invariants == <<
  [Invariant("conserved", "conservation") EXCEPT !.resource = "balances", !.methods = {"balance"}],
  [Invariant("falling", "monotonic") EXCEPT !.resource = "allowances", !.direction = "non_increasing"],
  [Invariant("positive", "bounds") EXCEPT !.resource = "balances",
     !.predicate = <<InRange(ResourceMember, Zero, Supply)>>],
  [Invariant("counted", "predicate") EXCEPT !.outcomes = {"success"},
     !.predicate = <<Comparison("equal", Sum("balances"), Supply)>>],
  [Invariant("blocked", "authorization_blocks_mutation") EXCEPT !.methods = {"transfer"}],
  [Invariant("standing", "state_unchanged") EXCEPT !.outcomes = {"failure"}]>>

Payer == [id |-> "payer", methods |-> {"transfer"}, exact |-> TRUE, covered |-> {"amount"},
          principal |-> {"from"}, failures |-> {"short"}]

\* Two kinds of event.  The first field a kind declares is not the first in alphabetical order.
Moved1 == [id |-> "moved", name |-> 7, topics |-> <<0, 1>>, min |-> 1, max |-> 1, requirement |-> "required",
           fields |-> <<[name |-> 2, optional |-> FALSE], [name |-> 1, optional |-> TRUE]>>,
           before |-> {}, strict |-> {}, correlations |-> {"conserved"}]

Noted == [Moved1 EXCEPT !.id = "noted", !.name = 8, !.min = 0, !.max = 2, !.requirement = "optional",
           !.fields = <<[name |-> 2, optional |-> FALSE], [name |-> 1, optional |-> FALSE]>>]

Short == [id |-> "short", methods |-> {"transfer"}, policy |-> "semantic_only", allowed |-> 0,
          authorization |-> FALSE, signal |-> "contract_error"]

Base == [id |-> "token", version |-> <<2>>, spec |-> <<1, 0>>, directory |-> <<2>>, parent |-> "token",
  entry |-> "parsed", files |-> [role \in Roles |-> "parsed"], methods |-> <<Transfer>> \o Accessors,
  authorization |-> <<Payer>>, events |-> <<Moved1, Noted>>, behaviors |-> <<Moves, Refuses>>,
  invariants |-> Invariants, failures |-> <<Short>>, vectors |-> <<<<1, 1>>>>, shared |-> <<<<2, 1>>>>]
---------------------------------------------------------------------------
(* The vectors. *)

Grant(from, spender, expiry) == [from |-> from, spender |-> spender, expiry |-> expiry]

Requires(event, topics, data) == [event |-> event, topics |-> topics, data |-> data]

Pays == [parses |-> TRUE, id |-> "pays", profile |-> "token", version |-> <<2>>, method |-> "transfer",
  dated |-> TRUE, actors |-> <<1, 2>>, balances |-> {1, 2}, allowances |-> <<Grant(1, 2, 1)>>,
  flags |-> {}, signers |-> {1}, substituted |-> {}, authorization |-> "required",
  inputs |-> [from |-> Actor(1), amount |-> One], outcome |-> "success", failure |-> "none",
  category |-> FALSE, invariants |-> {"counted"},
  required |-> <<Requires("moved", <<>>, <<Input("amount")>>)>>, forbidden |-> {},
  returns |-> {}, custom |-> {}, state |-> {Unchanged(Balance(Actor(2)))},
  assertions |-> {}, sequence |-> 1]

Rejected == [Pays EXCEPT !.id = "rejected", !.outcome = "failure", !.failure = "short", !.required = <<>>,
  !.inputs = [from |-> Actor(2), amount |-> Literal(Decimal(2))], !.forbidden = {"moved"},
  !.state = {Delta(Granted(Actor(1), Actor(2)), "unchanged", <<>>)}]

\* About a method whose argument the profile may declare as text.
Anyone == [Pays EXCEPT !.id = "anyone", !.profile = "*", !.version = <<1, 0>>, !.method = "balance",
  !.inputs = [id |-> Actor(1)], !.required = <<>>, !.state = {}]

Worded(v) == [Anyone EXCEPT !.inputs = [id |-> Literal(v)], !.profile = "token", !.version = <<2>>]

Elsewhere == [Anyone EXCEPT !.id = "elsewhere", !.method = "burn"]

\* The circle, and inputs that only a run finds out about.
Inputs == {
  [from |-> Actor(1), amount |-> Input("amount")],
  [from |-> Input("amount"), amount |-> Input("from")],
  [from |-> Actor(1), amount |-> Input("from")],
  [from |-> Actor(1), amount |-> Input("fee")],
  [from |-> Actor(1), amount |-> Balance(Actor(1))],
  [from |-> Actor(1), amount |-> Literal(FlagText(TRUE))],
  [from |-> Literal(Word(1)), amount |-> Zero],
  [from |-> Literal(Word(3)), amount |-> One],
  [from |-> Actor(3), amount |-> One],
  [from |-> Actor(1)]}

\* What a vector may assert of itself.
Assertions == {
  Unchanged(Supply), Delta(Supply, "unchanged", <<Zero>>), Delta(Supply, "decrease", <<Literal(Decimal(0))>>),
  Comparison("equal", Field(Supply, "total"), One), Comparison("less_than", Supply, Literal(Word(1))),
  AnyOf(<<OneOf(Balance(Actor(1)), <<Zero, One>>), Comparison("not_equal", Supply, Literal(Absent))>>),
  Comparison("less_or_equal", LedgerSequence, Expiry(Actor(1), Actor(2))),
  Comparison("greater_than", Arithmetic("/", <<Arithmetic("*", <<One, Supply>>), Balance(Actor(2))>>),
             Arithmetic("-", <<Zero, One>>)),
  Comparison("equal", Arithmetic("+", <<Literal(Number(2)), Balance(Actor(1))>>), One),
  Comparison("equal", Balance(Field(Supply, "total")), One),
  Comparison("equal", Granted(Actor(2), Actor(1)), Zero),
  Unchanged(Read("transfer", <<Actor(1), One>>)),
  Comparison("equal", ResourceMember, One), Comparison("equal", Read("burn", <<>>), One),
  Comparison("equal", Input("fee"), One),
  Comparison("equal", Read("total-supply", <<>>), One),
  Comparison("equal", Read("total-supply", <<Field(Supply, "total")>>), One)}

\* Of topics and of every field; twice; of two kinds; of a field alone; of the second of two; of
\* what cannot be known.
Demands == {
  <<Requires("moved", <<Literal(Word(7)), Actor(1)>>, <<Input("amount"), Zero>>)>>,
  <<Requires("noted", <<>>, <<One, Zero>>), Requires("noted", <<>>, <<Zero, One>>)>>,
  <<Requires("moved", <<>>, <<One, Zero>>), Requires("noted", <<>>, <<One, Zero>>)>>,
  <<Requires("noted", <<>>, <<One>>)>>, <<Requires("noted", <<>>, <<Zero, One>>)>>,
  <<Requires("moved", <<>>, <<Input("fee")>>)>>}

VectorVariants ==
  {[Pays EXCEPT !.required = required] : required \in Demands} \cup
  {[Pays EXCEPT !.inputs = inputs] : inputs \in Inputs}
  \cup {[Pays EXCEPT !.assertions = {p}] : p \in Assertions}
  \cup {[Pays EXCEPT !.allowances = grants] : grants \in
          {<<>>, <<Grant(1, 2, 0), Grant(1, 2, 1)>>, <<Grant(1, 2, 1), Grant(2, 1, 0)>>, <<Grant(1, 3, 1)>>}}
  \cup {[Pays EXCEPT !.parses = FALSE], [Pays EXCEPT !.profile = "other"], [Pays EXCEPT !.version = <<1>>],
        [Pays EXCEPT !.dated = FALSE], [Pays EXCEPT !.method = "burn"], [Pays EXCEPT !.actors = <<1, 1>>],
        [Pays EXCEPT !.category = TRUE], [Pays EXCEPT !.outcome = "failure"],
        [Pays EXCEPT !.failure = "lost"], [Pays EXCEPT !.invariants = {"lost"}],
        [Pays EXCEPT !.forbidden = {"lost"}], [Pays EXCEPT !.authorization = "not_required"],
        [Pays EXCEPT !.returns = {Balance(Actor(3))}], [Pays EXCEPT !.custom = {Read("burn", <<>>)}]}
---------------------------------------------------------------------------
(* The profiles. *)

WithAmount(type) ==
  [Base EXCEPT !.methods[1].args[2] = Arg("amount", type)]

Renamed(from, to) ==
  [Base EXCEPT !.methods = [i \in DOMAIN Base.methods |->
     IF Base.methods[i].id = from THEN [Base.methods[i] EXCEPT !.name = to] ELSE Base.methods[i]]]

\* A method called what another is identified by.
Crossing == [Base EXCEPT !.methods = Base.methods \o
  <<[MethodOf("burn", <<>>, FALSE) EXCEPT !.name = "transfer"]>>,
  !.methods[1].name = "send",
  !.behaviors = <<Moves, Refuses, [Moves EXCEPT !.id = "burns", !.method = "burn",
    !.postconditions = <<Unchanged(Balance(Actor(2))), Unchanged(Granted(Actor(2), Actor(1)))>>]>>]

ProfileVariants ==
  {WithAmount(type) : type \in {"u64", "i32", "timepoint", "option_u32", "string", "symbol", "bool",
                                "muxed_address", "vec", "bytes", "val"}}
  \cup {Renamed("balance", "funds"), Renamed("allowance", "limit"), Renamed("total_supply", "issued"),
        Renamed("transfer", "transfer-all"), Crossing}
  \cup {[Base EXCEPT !.entry = "malformed"], [Base EXCEPT !.spec = <<1, 1>>],
        [Base EXCEPT !.files["events"] = "outside"], [Base EXCEPT !.parent = "other"],
        [Base EXCEPT !.parent = "other", !.directory = <<9>>],
        [Base EXCEPT !.methods = Append(Base.methods, Transfer)],
        [Base EXCEPT !.methods[1].args[1].name = "amount"],
        [Base EXCEPT !.methods[1].events = {"lost"}], [Base EXCEPT !.methods[2].readonly = FALSE],
        [Base EXCEPT !.authorization[1].covered = {}], [Base EXCEPT !.authorization[1].principal = {"to"}],
        [Base EXCEPT !.events[1].topics = <<8>>], [Base EXCEPT !.events[1].min = 2],
        [Base EXCEPT !.events[1].requirement = "forbidden"], [Base EXCEPT !.events[1].before = {"moved"}], [Base EXCEPT !.events[1].before = {"noted"}],
        [Base EXCEPT !.events[1].before = {"noted"}, !.events[1].strict = {"noted"}],
        [Base EXCEPT !.behaviors[1].expects = {"lost"}], [Base EXCEPT !.behaviors[2].forbids = {"lost"}],
        [Base EXCEPT !.behaviors[1].invariants = {"lost"}], [Base EXCEPT !.behaviors[1].forbids = {"moved"}],
        [Base EXCEPT !.behaviors[1].failures = {"short"}], [Base EXCEPT !.behaviors[2].failures = {}],
        [Base EXCEPT !.invariants[1].resource = "none"], [Base EXCEPT !.invariants[1].direction = "non_increasing"],
        [Base EXCEPT !.invariants[4].predicate = <<>>], [Base EXCEPT !.failures[1].allowed = 1],
        [Base EXCEPT !.failures[1].policy = "exact_required"],
        [Base EXCEPT !.failures[1].authorization = TRUE, !.failures[1].signal = "host_error"]}
---------------------------------------------------------------------------
(* The disks. *)

Disk(prof, dirs, files) == [profile |-> prof, dirs |-> dirs, files |-> files, others |-> {<<1, 1, 3>>}]

Plain(prof, v) == Disk(prof, {<<1, 1>>, <<1, 1, 1>>, <<2, 1>>},
  <<1, 1, 2>> :> v @@ <<1, 1, 1, 1>> :> Rejected @@ <<2, 1, 1>> :> Anyone)

\* Two declarations of one tree, an empty directory inside it, and a family that does not apply.
Overlapping == Disk([Base EXCEPT !.vectors = <<<<1>>, <<1, 1>>>>, !.shared = <<<<2, 1>>>>],
  {<<1>>, <<1, 1>>, <<1, 1, 1>>, <<2, 1>>},
  <<1, 1, 2>> :> Pays @@ <<1, 1, 4>> :> Rejected @@ <<2, 1, 1>> :> Anyone @@ <<2, 1, 2>> :> Elsewhere)

\* A directory at the limit of the depth, and one below it.
Deep(dirs) == Disk(Base, {<<1, 1>>, <<2, 1>>} \cup dirs,
                   <<1, 1, 1, 1, 1>> :> Pays @@ <<2, 1, 1>> :> Elsewhere)

\* One vector too many in one tree.
Crowded == Disk(Base, {<<1, 1>>, <<1, 1, 1>>, <<2, 1>>},
  <<1, 1, 2>> :> Pays @@ <<1, 1, 1, 1>> :> Rejected @@ <<1, 1, 1, 2>> :> Anyone @@ <<2, 1, 1>> :> Elsewhere)

MCDisks ==
  {Plain(prof, Pays) : prof \in {Base} \cup ProfileVariants}
  \cup {Plain(Base, v) : v \in VectorVariants}
  \cup {Plain([Base EXCEPT !.methods[2].args[1].type = type], Worded(v)) :
          type \in {"symbol", "string"}, v \in {Word(5), Phrase(6), Decimal(1)}}
  \cup {Overlapping, Crowded, Deep({<<1, 1, 1>>, <<1, 1, 1, 1>>}),
        Deep({<<1, 1, 1>>, <<1, 1, 1, 1>>, <<1, 1, 1, 1, 2>>}),
        Disk(Base, {<<1, 1>>}, <<1, 1, 1>> :> Pays),
        Disk(Base, {<<1, 1>>, <<2, 1>>}, <<1, 1, 1>> :> Pays),
        Disk(Base, {<<1, 1>>, <<2, 1>>}, <<1, 1, 1>> :> Pays @@ <<2, 1, 1>> :> Pays)}
\* Those on which a name is no symbol: of the method a vector calls, or of one it reads.
MCMisnamedDisks ==
  {Plain(Renamed("transfer", "transfer-all"), Pays),
   Plain(Base, [Pays EXCEPT !.assertions = {Comparison("equal", Read("total-supply", <<>>), One)}])}
---------------------------------------------------------------------------
(* The contracts. *)

Published == [transfer |-> "none", balance |-> "balance", allowance |-> "allowance",
              total_supply |-> "supply"]

Grants(first, second) ==
  <<1, 2>> :> first @@ <<2, 1>> :> second @@ <<1, 1>> :> 0 @@ <<2, 2>> :> 0

Ledger(names, supply) ==
  [balance |-> <<1, 0>>, allowance |-> Grants(1, 0), names |-> names, supply |-> supply]

MCOpenings ==
  {Ledger(Published, supply) : supply \in
     {Value("i128", "none", 1), Value("map", "total", 1), Value("vec", "none", 1),
      Value("string", "decimal", 1), Value("void", "none", 0), Value("duration", "none", 1),
      Value("string", "garbled", 1)}}
  \cup {Ledger([funds |-> "balance", limit |-> "allowance", issued |-> "supply"], Value("u32", "none", 1))}
---------------------------------------------------------------------------
(* The announcements. *)

I(n) == Value("i128", "none", n)

Announce(name, payload) ==
  [topics |-> <<Value("symbol", "word", name), Value("address", "word", 1)>>, payload |-> payload]

InSequence(items) == Payload("vec", <<>>, items)
InMap(keys, items) == Payload("map", keys, items)

Announced1 == <<Announce(7, Alone(I(1)))>>

Emissions == {
  <<>>,
  Announced1, <<Announce(7, Alone(I(0)))>>,
  <<Announce(7, InSequence(<<I(1), I(0)>>))>>, <<Announce(7, InMap(<<1, 2>>, <<I(0), I(1)>>))>>,
  <<Announce(7, InMap(<<2>>, <<I(1)>>)), Announce(7, InSequence(<<I(1)>>))>>,
  <<Announce(7, InSequence(<<I(1), Value("duration", "none", 1)>>))>>,
  <<Announce(8, InSequence(<<I(1), I(0)>>)), Announce(7, Alone(I(1))), Announce(8, InMap(<<1, 2>>, <<I(1), I(0)>>))>>,
  <<Announce(7, Alone(I(1))), Announce(8, InSequence(<<I(1), I(0)>>))>>,
  <<[topics |-> <<>>, payload |-> Alone(I(1))], Announce(7, Alone(I(1))), Announce(8, Alone(I(1)))>>,
  <<[topics |-> <<Value("string", "word", 7)>>, payload |-> Alone(I(1))]>>,
  <<[topics |-> <<Value("symbol", "word", 7), Value("string", "garbled", 1)>>, payload |-> Alone(I(1))]>>,
  <<Announce(7, InSequence(<<I(1), Value("string", "garbled", 1)>>))>>,
  <<Announce(7, InSequence(<<Value("duration", "none", 1), Value("string", "garbled", 1)>>))>>}

Returning(balance, allowance, announced, value) ==
  [balance |-> balance, allowance |-> allowance, emitted |-> announced, returned |-> value]

After(balance, allowance, announced) == Returning(balance, allowance, announced, Value("void", "none", 0))

\* Anything in the balances and the allowances with the announcement the vectors require, and
\* any announcement with the movement they require; and a text that is not UTF-8, returned.
MCAftermaths ==
  {After(balance, allowance, Announced1) :
     balance \in {0, 1} \X {0, 1}, allowance \in {Grants(1, 0), Grants(0, 0), Grants(1, 1)}}
  \cup {After(<<0, 1>>, Grants(1, 0), announced) : announced \in Emissions}
  \cup {Returning(<<0, 1>>, Grants(1, 0), Announced1, Value("string", "garbled", 1))}
=============================================================================
