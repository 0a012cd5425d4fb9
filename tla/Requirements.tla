----------------------------- MODULE Requirements -----------------------------
(***************************************************************************)
(* What a document states about a call, and what it evaluates to: the          *)
(* expressions and predicates of crates/estamora-core (expr.rs), their           *)
(* evaluator (crates/estamora-assertions: eval.rs) and the runner's own           *)
(* resolution of arguments before the call (crates/estamora-cli:                *)
(* engine/values.rs).                                                          *)
(*                                                                         *)
(* An environment is [before, after, inputs, sequence]: the two worlds, the     *)
(* vector's inputs by name, and the ledger of the call.                         *)
(***************************************************************************)
EXTENDS Worlds

CONSTANTS
  MaxResolutionDepth, \* MAX_RESOLUTION_DEPTH
  MaxNesting          \* how deep a document may be nested, which is its parser's limit

ASSUME DepthAssumption == MaxResolutionDepth \in Nat /\ MaxNesting \in Nat

Literal(v)               == [kind |-> "literal", literal |-> v]
Actor(name)              == [kind |-> "actor", actor |-> name]
Input(name)              == [kind |-> "input", name |-> name]
Read(method, args)       == [kind |-> "read", method |-> method, args |-> args]
Sum(resource)            == [kind |-> "sum", over |-> resource]
Field(of, field)         == [kind |-> "field", of |-> of, field |-> field]
LedgerSequence           == [kind |-> "ledger_sequence"]
Expiry(from, spender)    == [kind |-> "allowance_expiry", args |-> <<from, spender>>]
ResourceMember           == [kind |-> "resource_member"]
Arithmetic(op, operands) == [kind |-> "arithmetic", op |-> op, args |-> operands]

\* A predicate's own expressions are its operands, in the order they are evaluated in.
Comparison(kind, left, right)   == [kind |-> kind, operands |-> <<left, right>>]
OneOf(value, allowed)           == [kind |-> "one_of", operands |-> <<value>> \o allowed]
InRange(value, min, max)        == [kind |-> "in_range", operands |-> <<value, min, max>>]
Delta(target, direction, by)    == [kind |-> "delta", direction |-> direction,
                                    operands |-> <<target>> \o by]
Unchanged(target)               == [kind |-> "unchanged", operands |-> <<target>>]
AllOf(predicates)               == [kind |-> "all_of", predicates |-> predicates]
AnyOf(predicates)               == [kind |-> "any_of", predicates |-> predicates]
Not(predicate)                  == [kind |-> "not", predicates |-> <<predicate>>]

Composed == {"all_of", "any_of", "not"}

\* What an expression, or a predicate, is made of, and all that is inside it, itself included.
Parts(x) == (IF "args" \in DOMAIN x THEN ToSet(x.args) ELSE {})
            \cup (IF x.kind = "field" THEN {x.of} ELSE {})
            \cup (IF x.kind \in Composed THEN ToSet(x.predicates) ELSE {})

Within(x) ==
  LET within[k \in 0..MaxNesting] ==
        IF k = 0 THEN {x} ELSE within[k - 1] \cup UNION {Parts(y) : y \in within[k - 1]}
  IN within[MaxNesting]

\* What was stated, and what it evaluated to.
Statement(p, value) == [statement |-> p, value |-> value]

---------------------------------------------------------------------------
(* The evaluator. *)

NoMember == Value("none", "none", 0)

\* apply_arithmetic, left to right; a step that leaves the amount type, or divides by zero,
\* is an error.  Division drops the fraction, towards zero.
Quotient(n, d) == IF (n < 0) = (d < 0) THEN (IF n < 0 THEN -n ELSE n) \div (IF d < 0 THEN -d ELSE d)
                  ELSE -((IF n < 0 THEN -n ELSE n) \div (IF d < 0 THEN -d ELSE d))

Step(op, total, quantity) ==
  LET result == CASE op = "+" -> total + quantity
                  [] op = "-" -> total - quantity
                  [] op = "*" -> total * quantity
                  [] op = "/" -> IF quantity = 0 THEN MaxAmount + 1 ELSE Quotient(total, quantity)
  IN IF result \in AmountType THEN Number(result) ELSE Failed("ExecutionError")

Accumulate(op, total, v) ==
  IF HasFailed(total) THEN total
  ELSE IF ~IsQuantity(v) THEN Failed("ExecutionError") ELSE Step(op, total.n, v.n)

Accumulated(op, first, operands) ==
  LET total[k \in 0..Len(operands)] ==
        IF k = 0 THEN first ELSE Accumulate(op, total[k - 1], operands[k])
  IN total[Len(operands)]

ApplyArithmetic(op, operands) ==
  IF operands = <<>> \/ \E i \in DOMAIN operands : ~IsQuantity(operands[i])
  THEN Failed("ExecutionError")
  ELSE Accumulated(op, Number(operands[1].n), Tail(operands))

Totalled(members) == Provided(members, Accumulated("+", Number(0), members))

\* The aggregate of a resource set, as the evaluator and the invariants both take it.
Aggregate(world, resource) == Totalled(WorldMembers(world, resource))

\* What else than its arguments an expression is computed from.
Source(env, e) == IF e.kind = "field" THEN e.of ELSE env.inputs[e.name]

\* An expression, given the values of its arguments and of what else it is computed from.
Applied(env, e, args, source, member) ==
  CASE e.kind = "literal"          -> e.literal
    [] e.kind = "actor"            -> Address(e.actor)
    [] e.kind = "input"            ->
         IF e.name \in DOMAIN env.inputs THEN source ELSE Failed("VectorError")
    [] e.kind = "read"             -> WorldRead(env.after, e.method, args)
    [] e.kind = "sum"              -> Aggregate(env.after, e.over)
    [] e.kind = "field"            ->
         IF HasFailed(source) THEN source
         ELSE IF source.type = "record" /\ source.form = e.field THEN Number(source.n)
         ELSE Failed("ExecutionError")
    [] e.kind = "ledger_sequence"  -> Number(env.sequence)
    [] e.kind = "allowance_expiry" ->
         IF args[1].type = "address" /\ args[2].type = "address"
         THEN AllowanceExpiry(env.after, args[1].n, args[2].n) ELSE Failed("ExecutionError")
    [] e.kind = "resource_member"  ->
         IF member = NoMember THEN Failed("VectorError") ELSE member
    [] e.kind = "arithmetic"       -> ApplyArithmetic(e.op, args)

\* An expression, given what every other one is worth.
Computed(env, e, member, worth) ==
  LET args == IF "args" \in DOMAIN e THEN [i \in DOMAIN e.args |-> worth[e.args[i]]] ELSE <<>>
  IN Provided(args, Applied(env, e, args, worth[Source(env, e)], member))

\* The expressions a value is computed from: those inside it, and inside the inputs.
Concerned(env, expr) ==
  Within(expr) \cup UNION {Within(env.inputs[name]) : name \in DOMAIN env.inputs}

\* compute.  Every step inside an expression, or from an input to its definition, is one
\* deeper, and so is each argument before the read it is for.
Compute(env, expr, member) ==
  LET worth[steps \in 0..(MaxResolutionDepth + 1)] ==
        IF steps = 0 THEN [e \in Concerned(env, expr) |-> Failed("VectorError")]
        ELSE [e \in Concerned(env, expr) |-> Computed(env, e, member, worth[steps - 1])]
  IN worth[MaxResolutionDepth + 1][expr]

AgainstBefore(env) == [env EXCEPT !.after = env.before]

\* Mutant: the direction is tested even where a magnitude is stated.
MovedDirected(from, to, direction, by) ==
  /\ direction = (IF to > from THEN "increase" ELSE IF to < from THEN "decrease" ELSE "unchanged")
  /\ by # <<>> => to - from = (IF direction = "decrease" THEN -by[1] ELSE by[1])

\* A stated magnitude is the requirement, direction included; a movement that cannot be
\* written down is not equal to one that was.
Moved(from, to, direction, by) ==
  IF by = <<>>
  THEN direction = (IF to > from THEN "increase" ELSE IF to < from THEN "decrease" ELSE "unchanged")
  ELSE /\ to - from \in AmountType /\ (direction = "decrease" => -by[1] \in AmountType)
       /\ to - from = (IF direction = "decrease" THEN -by[1] ELSE by[1])
       /\ direction = "unchanged" => by[1] = 0

\* The target is a quantity on both sides before a magnitude is looked at.
Movement(from, to, direction, by) ==
  IF AllProduced(<<from, to>>) /\ ~(IsQuantity(from) /\ IsQuantity(to)) THEN Failed("ExecutionError")
  ELSE Provided(<<from, to>> \o by,
                IF \E i \in DOMAIN by : ~IsQuantity(by[i]) THEN Failed("ExecutionError")
                ELSE Flag(Moved(from.n, to.n, direction, [i \in DOMAIN by |-> by[i].n])))

EvaluateDelta(env, p, member) ==
  Movement(Compute(AgainstBefore(env), p.operands[1], member), Compute(env, p.operands[1], member),
           p.direction, [i \in 1..(Len(p.operands) - 1) |-> Compute(env, p.operands[i + 1], member)])

\* What each comparison requires of how the two sides relate.
Admits == [kind \in {"equal", "not_equal", "less_than", "less_or_equal", "greater_than",
                     "greater_or_equal"} |->
  CASE kind = "equal"            -> {"equal"}
    [] kind = "not_equal"        -> {"less", "greater", "incomparable"}
    [] kind = "less_than"        -> {"less"}
    [] kind = "less_or_equal"    -> {"less", "equal"}
    [] kind = "greater_than"     -> {"greater"}
    [] kind = "greater_or_equal" -> {"greater", "equal"}]

\* An upper bound on another scale than the value bounds nothing.
Between(v, min, max) ==
  Compare(v, min) \in {"equal", "greater"} /\ Compare(v, max) # "greater"

Comparing(kind, values) ==
  Provided(values,
    Flag(CASE kind = "unchanged" -> SameValue(values[1], values[2])
           [] kind \in DOMAIN Admits -> Compare(values[1], values[2]) \in Admits[kind]
           [] kind = "one_of" -> \E i \in 2..Len(values) : SameValue(values[1], values[i])
           [] kind = "in_range" -> Between(values[1], values[2], values[3])))

\* A comparison, a membership or a movement: the operands in order, the target of an
\* unchanged one before the call first.
EvaluateBasic(env, p, member) ==
  LET start == IF p.kind = "unchanged"
               THEN <<Compute(AgainstBefore(env), p.operands[1], member)>> ELSE <<>>
  IN Comparing(p.kind, start \o [i \in DOMAIN p.operands |-> Compute(env, p.operands[i], member)])

\* A predicate that is composed of others, given what those hold.
Composition(q, inner) ==
  Provided(inner,
    Flag(CASE q.kind = "all_of" -> \A i \in DOMAIN inner : inner[i] = Flag(TRUE)
           [] q.kind = "any_of" -> \E i \in DOMAIN inner : inner[i] = Flag(TRUE)
           [] q.kind = "not"    -> inner[1] = Flag(FALSE)))

EvaluateSimple(env, q, member) ==
  IF q.kind = "delta" THEN EvaluateDelta(env, q, member) ELSE EvaluateBasic(env, q, member)

\* A predicate, given what every other one holds.
Held(env, q, member, others) ==
  IF q.kind \in Composed
  THEN Composition(q, [i \in DOMAIN q.predicates |-> others[q.predicates[i]]])
  ELSE EvaluateSimple(env, q, member)

\* evaluate.  The first predicate in the order of the document that cannot be evaluated is
\* the error of the whole, whatever the others hold.  None is nested deeper than a document is.
Evaluate(env, p, member) ==
  LET holds[steps \in 0..(MaxNesting + 1)] ==
        IF steps = 0 THEN [q \in Within(p) |-> Failed("VectorError")]
        ELSE [q \in Within(p) |-> Held(env, q, member, holds[steps - 1])]
  IN holds[MaxNesting + 1][p]
---------------------------------------------------------------------------
(* Arguments, before the call. *)

\* values::scalar, up to the last expression: an input is what it is defined as.  As many
\* steps as there are inputs leave every chain of definitions that has an end.
Followed(expr, inputs) ==
  LET Defined1(e) == IF e.kind = "input" /\ e.name \in DOMAIN inputs THEN inputs[e.name] ELSE e
      after[k \in 0..Cardinality(DOMAIN inputs)] ==
        IF k = 0 THEN expr ELSE Defined1(after[k - 1])
  IN after[Cardinality(DOMAIN inputs)]

\* values::scalar.  Only an input defined as itself is noticed; a longer circle is followed
\* until the process is out of stack.  An expression of another kind is refused.
Scalar(expr, inputs) ==
  LET last == Followed(expr, inputs)
  IN CASE last.kind = "literal" -> last.literal
       [] last.kind = "actor"   -> Address(last.actor)
       [] last.kind = "input" /\ last.name \in DOMAIN inputs /\ inputs[last.name] # last -> Crash
       [] OTHER -> Failed("VectorError")

Integral  == {"i128", "u128", "i64", "u64", "i32", "u32", "timepoint", "duration"}
Addresses == {"address", "muxed_address"}

\* The types a profile declares an argument of, "map" standing for every composed type that is
\* refused as one, and the types of the values an argument can be defined as.
ArgumentTypes == Integral \cup Addresses \cup
  {"bool", "void", "vec", "map", "symbol", "string", "bytes", "val", "option_u32"}
DocumentTypes == {"integer", "bool", "text", "address", "absent", "sequence", "record"}

\* values::typed.  An optional value, and a primitive of no reading of its own, is passed as
\* the document wrote it; a vector has no way to write any other composed value.
Typed(v, declared) ==
  CASE HasFailed(v) -> v
    [] ~HasFailed(v) /\ declared \in Integral ->
         IF IsQuantity(v) THEN Number(v.n) ELSE Failed("VectorError")
    [] ~HasFailed(v) /\ declared \in Addresses ->
         IF IsTextual(v) THEN Value("address", v.form, v.n) ELSE Failed("VectorError")
    [] ~HasFailed(v) /\ declared = "bool" ->
         IF IsFlag(v) THEN Flag(v.n = 1) ELSE Failed("VectorError")
    [] ~HasFailed(v) /\ declared \in {"void", "vec", "map"} -> Failed("VectorError")
    [] ~HasFailed(v) /\ declared \in {"symbol", "string", "bytes", "val", "option_u32"} -> v

\* values::argument, and the arguments of a read.
Argument(expr, declared, inputs) == Typed(Scalar(expr, inputs), declared)
ReadArguments(read, inputs) == [i \in DOMAIN read.args |-> Scalar(read.args[i], inputs)]

\* The quantities a host integer of the declared width can hold; the narrower types are
\* taken as half as wide as the amount type.
Width(declared) ==
  CASE declared \in {"i128", "timepoint", "duration"} -> AmountType
    [] declared = "u128"          -> 0..MaxAmount
    [] declared \in {"u64", "u32"} -> 0..(MaxAmount \div 2)
    [] declared \in {"i64", "i32"} -> (-(MaxAmount \div 2) - 1)..(MaxAmount \div 2)

\* Mutant: whatever the world makes of a value is passed.
HostArgumentUntyped(v, declared, actors) == ToHost(actors, v)

\* values::host_argument.  A point in time and a duration are passed as an amount, and an
\* optional value as whatever the world makes of it.  The SDK makes no symbol of a phrase: it
\* panics, and nothing above catches that.
HostArgument(v, declared, actors) ==
  CASE declared \in {"timepoint", "duration"} -> Value("i128", "none", v.n)
    [] declared \in Integral \ {"timepoint", "duration"} ->
         IF v.n \in Width(declared) THEN Value(declared, "none", v.n) ELSE Failed("VectorError")
    [] declared \in {"symbol", "string"} ->
         IF v.type # "text" THEN Failed("VectorError")
         ELSE IF declared = "symbol" /\ v.form = "phrase" THEN Crash
         ELSE Value(declared, v.form, v.n)
    [] declared = "bytes" -> Failed("VectorError")
    [] declared \in Addresses \cup {"bool", "val", "option_u32"} -> ToHost(actors, v)

---------------------------------------------------------------------------
(* The format. *)

\* A value, an expression and a predicate as a document can have one.
IsValue(v) == v.type \in DocumentTypes /\ v.n \in Int /\ (v.type = "absent" => v = Absent)

IsExpression(e) ==
  /\ e.kind \in {"literal", "actor", "input", "read", "sum", "field", "ledger_sequence",
                 "allowance_expiry", "resource_member", "arithmetic"}
  /\ "args" \in DOMAIN e <=> e.kind \in {"read", "allowance_expiry", "arithmetic"}
  /\ "args" \in DOMAIN e => e.args \in Seq(ToSet(e.args))
  /\ e.kind = "literal" => IsValue(e.literal)
  /\ e.kind = "actor"   => e.actor \in Int

IsPredicate(p) ==
  IF p.kind \in Composed THEN p.predicates \in Seq(ToSet(p.predicates))
  ELSE /\ p.kind \in DOMAIN Admits \cup {"one_of", "in_range", "delta", "unchanged"}
       /\ p.operands \in Seq(ToSet(p.operands)) /\ p.operands # <<>>

---------------------------------------------------------------------------
(* The reads a requirement performs. *)

\* collect_value: a read, and the reads among its arguments; a sum reads no method by name.
ReadsOf(expr) == {e \in Within(expr) : e.kind = "read"}

\* collect_predicate.
OperandsOf(p) ==
  UNION {ToSet(q.operands) : q \in {q \in Within(p) : q.kind \notin Composed}}
=============================================================================
