------------------------------ MODULE Profiles ------------------------------
(***************************************************************************)
(* The two profiles the repository ships (fixtures/profiles/conformance-     *)
(* token/1.0 and examples/custom-profile, whose id is token-reads) and the    *)
(* vectors written against them.  Every vector document of the repository     *)
(* is one member of a family below: the family ranges over all the opening    *)
(* balances, accounts and amounts with which the same document could have     *)
(* been written.                                                             *)
(***************************************************************************)
EXTENDS Dimensions

CONSTANTS Accounts,    \* the actors a vector's fixture declares
          Openings,    \* the balances a fixture opens an account with
          Quantities   \* the amounts a vector transfers

ASSUME ProfilesAssumption ==
  /\ IsFiniteSet(Accounts) /\ Cardinality(Accounts) > 1
  /\ Openings \subseteq 0..MaxAmount /\ Quantities \subseteq 0..MaxAmount

---------------------------------------------------------------------------
(* conformance-token *)

MovesTheExactAmount == [
  id |-> "transfer-moves-the-exact-amount", method |-> "transfer", kind |-> "success",
  preconditions |-> {Greater(Input("amount"), Literal(0))},
  postconditions |-> {Decrease(BalanceRead(Input("from")), Input("amount")),
                      Increase(BalanceRead(Input("to")), Input("amount"))},
  failures |-> {}, expectEvents |-> {"transfer"}, forbidEvents |-> {},
  invariants |-> {"balances-are-conserved-by-transfer", "balances-are-non-negative"}]

BeyondTheBalanceFails == [
  id |-> "transfer-beyond-the-balance-fails", method |-> "transfer", kind |-> "failure",
  preconditions |-> {Greater(Input("amount"), BalanceRead(Input("from")))},
  postconditions |-> {Unchanged(BalanceRead(Input("from"))), Unchanged(BalanceRead(Input("to")))},
  failures |-> {"insufficient-transfer-balance"}, expectEvents |-> {},
  forbidEvents |-> {"transfer"}, invariants |-> {"failed-transfer-cannot-mutate"}]

SenderAuthorizes == [
  methods |-> {"transfer"}, actor |-> "argument", argument |-> "from", coverage |-> "exact",
  arguments |-> {"from"}, unauthorized |-> "fail", wrongActor |-> "fail"]

NoAuthorization(methods) == [
  methods |-> methods, actor |-> "none", argument |-> "none", coverage |-> "at_most",
  arguments |-> {}, unauthorized |-> "succeed", wrongActor |-> "succeed"]

Emitted(name, min, max) == [name |-> name, min |-> min, max |-> max]

Invariant(id, kind, methods, outcomes) ==
  [id |-> id, kind |-> kind, methods |-> methods, outcomes |-> outcomes]

Both == {"success", "failure"}

TokenFailures == {"missing-transfer-authorization", "wrong-transfer-actor",
                  "insufficient-transfer-balance"}

ConformanceTokenProfile == [
  required |-> {"transfer", "balance"}, forbidden |-> {},
  behaviors |-> {MovesTheExactAmount, BeyondTheBalanceFails},
  authorizations |-> {SenderAuthorizes, NoAuthorization({"balance"})},
  events |-> [name \in {"transfer"} |-> Emitted(name, 1, 1)],
  invariants |->
    {Invariant("balances-are-conserved-by-transfer", "conservation", {"transfer"}, {"success"}),
     Invariant("balances-are-non-negative", "non_negative", {"transfer"}, Both),
     Invariant("failed-transfer-cannot-mutate", "state_unchanged", {"transfer"}, {"failure"})},
  failures |-> [id \in TokenFailures |-> [stateEffect |-> "unchanged", eventsEmitted |-> "none"]]]

---------------------------------------------------------------------------
(* token-reads *)

Reads == {"balance", "decimals", "name", "symbol"}

\* Both rules compare a read with itself.
ReadRule(id, method, read) == [
  id |-> id, method |-> method, kind |-> "success",
  preconditions |-> {}, postconditions |-> {Equal(read, read)},
  failures |-> {}, expectEvents |-> {}, forbidEvents |-> {},
  invariants |-> {"reads-are-repeatable"}]

TokenReadsProfile == [
  required |-> Reads, forbidden |-> {},
  behaviors |-> {ReadRule("a-read-does-not-write", "balance", BalanceRead(Input("address"))),
                 ReadRule("decimals-is-constant-within-a-run", "decimals", MetadataRead("decimals"))},
  authorizations |-> {NoAuthorization(Reads)},
  events |-> [name \in {"transfer", "approve", "burn"} |-> Emitted(name, 0, 0)],
  invariants |-> {Invariant("reads-are-repeatable", "state_unchanged", Reads, Both),
                  Invariant("balances-are-non-negative", "non_negative", {"balance"}, Both)},
  failures |-> [id \in {} |-> {}]]

ProfileOf(v) ==
  IF v.profile = "conformance-token" THEN ConformanceTokenProfile ELSE TokenReadsProfile

---------------------------------------------------------------------------
(* Vectors. *)

Opening == [Accounts -> Openings]

Plan(expected, actors, substitutedFor) ==
  [expected |-> expected, actors |-> actors, substitutedFor |-> substitutedFor]

\* A fixture with two distinct accounts and an amount to move between them.  To oneself the
\* rules of the profile cannot both hold: no account both gains and loses the amount.
Transfers ==
  {[opening |-> opening, from |-> from, to |-> to, amount |-> amount] :
     opening \in Opening, from \in Accounts, to \in Accounts, amount \in Quantities}

Proper == {t \in Transfers : t.from # t.to}

TransferVector(t, plan, expects, failure, assertions, required, forbidden, invariants) == [
  profile |-> "conformance-token", method |-> "transfer", opening |-> t.opening,
  inputs |-> [from |-> t.from, to |-> t.to, amount |-> t.amount], addresses |-> {"from", "to"},
  plan |-> plan, expects |-> expects, failure |-> failure, stateAssertions |-> assertions,
  requiredEvents |-> required, forbiddenEvents |-> forbidden, invariants |-> invariants,
  returns |-> "none"]

\* transfer-moves-the-exact-amount.yaml
MovesVector(t) == TransferVector(t, Plan("accepted", {t.from}, {}), "success", "none",
  {Equal(BalanceRead(Actor(t.from)), Literal(t.opening[t.from] - t.amount)),
   Equal(BalanceRead(Actor(t.to)), Literal(t.opening[t.to] + t.amount))},
  <<[name |-> "transfer", from |-> t.from, to |-> t.to, amount |-> t.amount]>>, {},
  {"balances-are-conserved-by-transfer", "balances-are-non-negative"})

RefusedVector(t, plan, failure, invariants) ==
  TransferVector(t, plan, "failure", failure,
    {Unchanged(BalanceRead(Actor(t.from))), Unchanged(BalanceRead(Actor(t.to)))},
    <<>>, {"transfer"}, invariants)

\* transfer-beyond-the-balance-fails.yaml
BeyondVector(t) == RefusedVector(t, Plan("accepted", {t.from}, {}),
  "insufficient-transfer-balance", {"failed-transfer-cannot-mutate", "balances-are-non-negative"})

\* transfer-without-authorization-fails.yaml
UnsignedVector(t) == RefusedVector(t, Plan("rejected", {}, {}),
  "missing-transfer-authorization", {"failed-transfer-cannot-mutate"})

\* The wrong-actor vector that document's description refers to: the recipient signs.
WrongActorVector(t) == RefusedVector(t, Plan("rejected", {t.to}, {t.from}),
  "wrong-transfer-actor", {"failed-transfer-cannot-mutate"})

ReadVector(profile, method, opening, inputs, assertions, forbidden, invariants, returns) == [
  profile |-> profile, method |-> method, opening |-> opening, inputs |-> inputs,
  addresses |-> DOMAIN inputs, plan |-> Plan("not_required", {}, {}), expects |-> "success",
  failure |-> "none", stateAssertions |-> assertions, requiredEvents |-> <<>>,
  forbiddenEvents |-> forbidden, invariants |-> invariants, returns |-> returns]

\* balance-is-reported.yaml and balance-is-reported-exactly.yaml
BalanceVector(profile, opening, who) ==
  ReadVector(profile, "balance", opening, [address |-> who],
    {Equal(BalanceRead(Actor(who)), Literal(opening[who]))},
    DOMAIN ProfileOf([profile |-> profile]).events,
    {"balances-are-non-negative"} \cup
      IF profile = "token-reads" THEN {"reads-are-repeatable"} ELSE {}, "stated")

\* decimals-reports-the-scale.yaml, and the same for another metadata accessor.
MetadataVector(method, opening) ==
  ReadVector("token-reads", method, opening, <<>>, {Unchanged(SumOfBalances)},
    {"transfer", "approve", "burn"}, {"reads-are-repeatable"}, "stated")

Vectors ==
  UNION {
    {MovesVector(t) : t \in {u \in Proper : /\ u.amount <= u.opening[u.from]
                                            /\ u.opening[u.to] + u.amount <= MaxAmount}},
    {BeyondVector(t) : t \in {u \in Proper : u.amount > u.opening[u.from]}},
    {UnsignedVector(t) : t \in Proper},
    {WrongActorVector(t) : t \in Proper},
    {BalanceVector(p, opening, who) :
       p \in {"conformance-token", "token-reads"}, opening \in Opening, who \in Accounts},
    {MetadataVector(m, opening) : m \in {"decimals", "name"}, opening \in Opening}}
=============================================================================
