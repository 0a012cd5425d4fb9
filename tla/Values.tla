-------------------------------- MODULE Values --------------------------------
(***************************************************************************)
(* The values a requirement is about (crates/estamora-core: value.rs), and    *)
(* what becomes of them on the way into the host and back                     *)
(* (crates/estamora-soroban: world.rs).                                       *)
(*                                                                         *)
(* A value is [type, form, n].  A name is its place in alphabetical order;     *)
(* the form of a text says how it reads: as a number in canonical decimal      *)
(* digits, as "true" or "false", as a word a host symbol can be made of, or    *)
(* as a phrase, which is none of these.  A host's text, or what holds one, may   *)
(* also be garbled: bytes that are not UTF-8.  A record has one field, its       *)
(* form, and a sequence is known by what it holds only.  A value that could     *)
(* not be produced carries the class of the error instead.                      *)
(***************************************************************************)
EXTENDS Integers, Sequences, SequencesExt, Orders

CONSTANT MaxAmount   \* the largest value of the amount type (i128::MAX)

ASSUME AmountTypeAssumption == MaxAmount \in Nat

AmountType == (-MaxAmount - 1)..MaxAmount

Value(type, form, n) == [type |-> type, n |-> n, form |-> form]

Number(n)        == Value("integer", "none", n)
Flag(holds)      == Value("bool", "none", IF holds THEN 1 ELSE 0)
Address(name)    == Value("address", "word", name)
Decimal(n)       == Value("text", "decimal", n)
FlagText(holds)  == Value("text", "flag", IF holds THEN 1 ELSE 0)
Word(name)       == Value("text", "word", name)
Phrase(name)     == Value("text", "phrase", name)
Struct(field, n) == Value("record", field, n)
Absent           == Value("absent", "none", 0)

Failed(class) == Value("error", class, 0)

\* Not an error the runner returns: the process ends.
Crash == Failed("crash")

\* The failure of a read nobody performed before the call.
Unrecorded == Value("error", "ExecutionError", 1)

HasFailed(v) == v.type = "error"

\* The first failure decides what a computation ends with.
AllProduced(values) == \A i \in DOMAIN values : ~HasFailed(values[i])
Failure(values)     == values[Min({i \in DOMAIN values : HasFailed(values[i])})]

Provided(values, value) == IF AllProduced(values) THEN value ELSE Failure(values)

---------------------------------------------------------------------------
(* How values read and compare.  A reading that is not unambiguous is none. *)

AsInteger(v) ==
  IF v.type = "integer" \/ (v.type = "text" /\ v.form = "decimal") THEN {v.n} ELSE {}

AsBool(v) ==
  IF v.type = "bool" \/ (v.type = "text" /\ v.form = "flag") THEN {v.n} ELSE {}

IsQuantity(v) == AsInteger(v) # {}
IsFlag(v)     == AsBool(v) # {}
IsTextual(v)  == v.type \in {"text", "address"}

FromOrdering(left, right) ==
  CASE left < right -> "less" [] left = right -> "equal" [] left > right -> "greater"

\* Digits sort before letters.
TextRank(v) == IF v.form = "decimal" THEN 0 ELSE IF v.form = "flag" THEN 2 ELSE 1

CompareText(left, right) ==
  IF TextRank(left) = TextRank(right)
  THEN FromOrdering(left.n, right.n) ELSE FromOrdering(TextRank(left), TextRank(right))

\* Two records, or two sequences, are on no scale: not even one with itself.
Compare(left, right) ==
  CASE IsQuantity(left) /\ IsQuantity(right) -> FromOrdering(left.n, right.n)
    [] IsFlag(left) /\ IsFlag(right)         -> FromOrdering(left.n, right.n)
    [] /\ IsTextual(left) /\ IsTextual(right)
       /\ ~(IsQuantity(left) /\ IsQuantity(right)) /\ ~(IsFlag(left) /\ IsFlag(right)) ->
         CompareText(left, right)
    [] left = Absent /\ right = Absent       -> "equal"
    [] OTHER                                 -> "incomparable"

SameValue(left, right) == Compare(left, right) = "equal"

---------------------------------------------------------------------------
(* Into the host and back.  A host value is [type, form, n] with the type the host gives   *)
(* it, which is what a contract is called with.                                             *)

\* ContractWorld::to_host.  The only addresses are those of the fixture's actors, and nothing
\* stands for an absent value or a record.
ToHost(actors, v) ==
  CASE v.type = "integer" -> Value("i128", "none", v.n)
    [] v.type = "bool"    -> Value("bool", "none", v.n)
    [] v.type = "text"    -> Value("string", v.form, v.n)
    [] v.type = "address" -> IF v.form = "word" /\ v.n \in actors THEN v ELSE Failed("ExecutionError")
    [] v.type = "sequence" -> Value("vec", "none", v.n)
    [] OTHER              -> Failed("ExecutionError")

\* What is not UTF-8, or is a sequence or a map with such a text in it.
Garbled(host) == host.type \in {"string", "vec", "map"} /\ host.form = "garbled"

\* ContractWorld::from_host.  A type it does not try is one this runner cannot carry; a text
\* is taken for UTF-8, and the conversion of another panics.
FromHost(host) ==
  IF Garbled(host) THEN Crash ELSE
  CASE host.type = "void"                  -> Absent
    [] host.type \in {"i128", "u32", "u64"} -> Number(host.n)
    [] host.type = "bool"                  -> Value("bool", "none", host.n)
    [] host.type = "address"               -> Address(host.n)
    [] host.type \in {"symbol", "string"}   -> Value("text", host.form, host.n)
    [] host.type = "vec"                   -> Value("sequence", "none", host.n)
    [] host.type = "map"                   -> Struct(host.form, host.n)
    [] OTHER                               -> Failed("ExecutionError")
=============================================================================
