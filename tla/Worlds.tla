-------------------------------- MODULE Worlds --------------------------------
(***************************************************************************)
(* The two worlds a requirement is evaluated against: the contract as it is    *)
(* now (crates/estamora-soroban: world.rs) and the record of what it answered  *)
(* before the call (crates/estamora-cli: engine/record.rs).                    *)
(*                                                                         *)
(* A contract is [names, balance, allowance, supply]: the methods it            *)
(* publishes, each with what it reads, the quantities it keeps, and the value    *)
(* its third accessor returns, or the reason it returns none.                   *)
(***************************************************************************)
EXTENDS Values

CONSTANT Unspellable  \* the names no symbol is made of: over 32 characters, or with one outside its alphabet

\* The runner asks for three methods by names of its own.
ASSUME NamesAssumption == {"balance", "allowance", "total_supply"} \cap Unspellable = {}

LiveWorld(contract, actors, allowances) ==
  [kind |-> "live", contract |-> contract, actors |-> actors, allowances |-> allowances]

RecordedWorld(reads, allowances) ==
  [kind |-> "recorded", reads |-> reads, allowances |-> allowances]

---------------------------------------------------------------------------
(* The contract. *)

\* A method is refused by the host when the contract does not have it, and by the contract
\* when the arguments are not its own.
Reply(contract, method, args) ==
  LET types == [i \in DOMAIN args |-> args[i].type]
      role  == IF method \in DOMAIN contract.names THEN contract.names[method] ELSE "none"
  IN CASE role = "balance" /\ types = <<"address">> ->
            Value("i128", "none", contract.balance[args[1].n])
       [] role = "allowance" /\ types = <<"address", "address">> ->
            Value("i128", "none", contract.allowance[<<args[1].n, args[2].n>>])
       [] role = "supply" /\ types = <<>> -> contract.supply
       [] OTHER -> Failed("ExecutionError")

\* ContractWorld::call.  The name comes from a document, which nothing checks for this: the
\* SDK makes a symbol of it first, and panics when it is none.
Call(contract, method, args) ==
  IF method \in Unspellable THEN Crash ELSE FromHost(Reply(contract, method, args))

\* ContractWorld::read.
LiveRead(world, method, args) ==
  LET hosts == [i \in DOMAIN args |-> ToHost(ToSet(world.actors), args[i])]
  IN Provided(hosts, Call(world.contract, method, hosts))

\* The members are the fixture's: a contract's storage cannot be walked.  A failure among
\* them is the failure of the whole.
LiveMembers(world, resource) ==
  CASE resource = "balances" ->
         [i \in DOMAIN world.actors |-> LiveRead(world, "balance", <<Address(world.actors[i])>>)]
    [] resource = "allowances" ->
         [i \in DOMAIN world.allowances |->
            LiveRead(world, "allowance",
                     <<Address(world.allowances[i].from), Address(world.allowances[i].spender)>>)]
    [] OTHER -> <<Failed("ExecutionError")>>

---------------------------------------------------------------------------
(* The record. *)

\* Where a read stands in the record.
Entries(reads, method, args) ==
  {i \in DOMAIN reads : reads[i].method = method /\ reads[i].args = args}

Entry(method, args, value) == [method |-> method, args |-> args, value |-> value]

\* Mutant: an answer replaces those of the same method, whatever they were asked with.
InsertLast(reads, entry) ==
  Append(SelectSeq(reads, LAMBDA other : other.method # entry.method), entry)

\* RecordedWorld::insert and insert_unavailable: what is recorded first stays.
Insert(reads, entry) ==
  IF Entries(reads, entry.method, entry.args) = {} THEN Append(reads, entry) ELSE reads

\* record_read: performed, and recorded either way.
Performed(world, method, args) == Entry(method, args, LiveRead(world, method, args))

\* What a record holds once all the entries have been put into it, in order.
Recording(entries) ==
  LET reads[k \in 0..Len(entries)] == IF k = 0 THEN <<>> ELSE Insert(reads[k - 1], entries[k])
  IN reads[Len(entries)]

RecordedRead(world, method, args) ==
  LET found == Entries(world.reads, method, args)
  IN IF found = {} THEN Unrecorded ELSE world.reads[Min(found)].value

MemberReads == [resource \in {"balances", "allowances"} |->
                  IF resource = "balances" THEN "balance" ELSE "allowance"]

\* Every recorded answer of the accessor is a member, whoever asked for it.
RecordedMembers(world, resource) ==
  IF resource \notin DOMAIN MemberReads THEN <<Failed("ExecutionError")>>
  ELSE LET members == {i \in DOMAIN world.reads : world.reads[i].method = MemberReads[resource]}
       IN IF members = {} THEN <<Failed("ExecutionError")>>
          ELSE [k \in 1..Cardinality(members) |-> world.reads[Place(members, k)].value]

---------------------------------------------------------------------------
(* Either world. *)

WorldRead(world, method, args) ==
  IF world.kind = "live" THEN LiveRead(world, method, args) ELSE RecordedRead(world, method, args)

WorldMembers(world, resource) ==
  IF world.kind = "live" THEN LiveMembers(world, resource) ELSE RecordedMembers(world, resource)

\* The ledger the fixture says an allowance lapses at: no contract is asked.  None is stated
\* as 0.
AllowanceExpiry(world, from, spender) ==
  LET granted == {i \in DOMAIN world.allowances :
                    world.allowances[i].from = from /\ world.allowances[i].spender = spender}
      expiry  == IF granted = {} THEN 0 ELSE world.allowances[Min(granted)].expiry
  IN IF expiry = 0 THEN Absent ELSE Number(expiry)
=============================================================================
