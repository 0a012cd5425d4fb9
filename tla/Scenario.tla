------------------------------ MODULE Scenario ------------------------------
(***************************************************************************)
(* The measurement of one vector after another against one contract          *)
(* (crates/estamora-cli: engine/scenario.rs, record.rs, observe.rs): deploy   *)
(* into a fresh host, put the vector's opening state into the contract,        *)
(* record the world, arrange who signs, invoke, and let the seven dimensions   *)
(* judge what was observed.                                                   *)
(*                                                                         *)
(* The contract under test keeps the ledger of ConformanceToken, with one of   *)
(* its defects; its metadata accessors may also answer something other than     *)
(* the standard says, or a value the runner has no representation for.         *)
(***************************************************************************)
EXTENDS Profiles

CONSTANTS Ledgers, OverflowChecks

VARIABLES
  \* The contract and the host it is deployed in
  balance, grant, ledger, last,
  contract,  \* its defect, and what its metadata accessors answer
  seeding,   \* whether the target has the setup entry points (deployment.seeding)
  \* The execution of one vector
  pc,
  vector,
  unseeded,  \* the declared balances still to be minted
  before,    \* the RecordedWorld
  signers,   \* the accounts whose signature the host will accept
  status,    \* the vector's outcome
  accused    \* the dimensions with a failed assertion

host      == <<balance, grant, ledger, last>>
execution == <<pc, vector, unseeded, before, signers, status, accused>>
vars      == <<host, contract, seeding, execution>>

Outcome == INSTANCE Outcomes

\* The deployed contract.  Amounts is an enumeration bound of that module's own runs.
Token(defect) == INSTANCE ConformanceToken WITH Defect <- defect, Amounts <- Quantities

Metadata == {"decimals", "name"}
Replies  == {"stated", "other", "uncarried"}

Contracts == [defect : Token("none")!Defects, reply : Replies]

NoWorld  == [balance |-> [a \in Accounts |-> 0], metadata |-> [m \in Metadata |-> Unavailable]]

---------------------------------------------------------------------------
(* What the runner sees of the contract. *)

Exposed == IF contract.defect = "missing-decimals"
           THEN (Reads \cup {"transfer"}) \ {"decimals"}
           ELSE Reads \cup {"transfer"}

\* A value from_host cannot carry is an observation that did not happen.
Carried(method) == method \in Metadata => contract.reply # "uncarried"

ReadMetadata(method) ==
  IF method \in Exposed /\ Carried(method) THEN contract.reply ELSE Unavailable

World == [balance |-> balance, metadata |-> [m \in Metadata |-> ReadMetadata(m)]]

\* The call as observed: a refusal is the contract's own when the interface that was read
\* declares the method, and a return is one only when the value can be carried.
ObservedCall ==
  [outcome |-> IF last.outcome = "returned" /\ ~Carried(vector.method)
               THEN "could_not_run" ELSE last.outcome,
   events |-> last.events, auths |-> last.auths, verified |-> vector.method \in Exposed]

\* Mutant: the world before the call is read when it is needed.
ObservationLive ==
  [call |-> ObservedCall, before |-> World, after |-> World, published |-> Exposed]

Observation ==
  [call |-> ObservedCall, before |-> before, after |-> World, published |-> Exposed]

---------------------------------------------------------------------------
\* Only the fixture can be seeded, and it answers as the standard says.
Init ==
  /\ Token("none")!Init
  /\ contract \in Contracts /\ seeding \in BOOLEAN
  /\ seeding => contract.reply = "stated"
  /\ pc = "idle" /\ vector \in Vectors /\ unseeded = {} /\ before = NoWorld
  /\ signers = {} /\ status = "none" /\ accused = {}

\* Mutant: one host serves the whole corpus.
DeployInSharedHost(v) ==
  /\ pc = "idle" /\ pc' = "seed"
  /\ vector' = v /\ unseeded' = Accounts
  /\ before' = NoWorld /\ signers' = {} /\ status' = "none" /\ accused' = {}
  /\ UNCHANGED <<host, contract, seeding>>

\* Every vector gets a host of its own, with the contract freshly deployed in it.
Deploy(v) ==
  /\ pc = "idle" /\ pc' = "seed"
  /\ vector' = v /\ unseeded' = Accounts
  /\ before' = NoWorld /\ signers' = {} /\ status' = "none" /\ accused' = {}
  /\ balance' = [a \in Accounts |-> 0] /\ grant' = [p \in Accounts \X Accounts |-> Token("none")!NoGrant]
  /\ last' = Token("none")!Quiet
  /\ UNCHANGED <<ledger, contract, seeding>>

DeclaresOpeningState == \E a \in Accounts : vector.opening[a] # 0

\* An opening state that cannot be established leaves the requirement unexercised.
Skip ==
  /\ pc = "seed" /\ DeclaresOpeningState /\ ~seeding
  /\ pc' = "idle" /\ status' = "skipped"
  /\ UNCHANGED <<host, contract, seeding, vector, unseeded, before, signers, accused>>

\* One setup call.  A declared balance fits the type, so a mint into an empty account is
\* never refused; had it been, the run would end with an error.
Seed(who) ==
  /\ pc = "seed" /\ seeding /\ who \in unseeded
  /\ Token("none")!FixtureMint(who, vector.opening[who])
  /\ unseeded' = unseeded \ {who}
  /\ UNCHANGED <<contract, seeding, pc, vector, before, signers, status, accused>>

\* record::capture: the world before the call, while it is still true.
Capture ==
  /\ pc = "seed" /\ IF seeding THEN unseeded = {} ELSE ~DeclaresOpeningState
  /\ pc' = "authorize" /\ before' = World
  /\ UNCHANGED <<host, contract, seeding, vector, unseeded, signers, status, accused>>

\* An accepted plan grants whatever the contract demands; a rejected one arms exactly the
\* named accounts; a plan for a read arms nobody.
Signers(plan) ==
  CASE plan.expected = "accepted"     -> Accounts
    [] plan.expected = "not_required" -> {}
    [] plan.expected = "rejected"     -> plan.actors

Authorize ==
  /\ pc = "authorize" /\ pc' = "invoke"
  /\ signers' = Signers(vector.plan)
  /\ UNCHANGED <<host, contract, seeding, vector, unseeded, before, status, accused>>

InvokeTransfer ==
  /\ vector.method = "transfer"
  /\ \E d \in Token("none")!Defects :
       /\ d = contract.defect
       /\ Token(d)!Transfer(signers, vector.inputs.from, vector.inputs.to, vector.inputs.amount)

\* A read writes nothing; a method that is not there aborts as a refusal would.
InvokeRead ==
  /\ vector.method # "transfer"
  /\ last' = [outcome |-> IF vector.method \in Exposed THEN "returned" ELSE "refused",
              events |-> <<>>, auths |-> {}]
  /\ UNCHANGED <<balance, grant, ledger>>

Invoke ==
  /\ pc = "invoke" /\ pc' = "evaluate"
  /\ InvokeTransfer \/ InvokeRead
  /\ UNCHANGED <<contract, seeding, vector, unseeded, before, signers, status, accused>>

\* An evaluation that could not be completed becomes an undecided vector with no assertion.
Evaluate ==
  /\ pc = "evaluate" /\ pc' = "idle"
  /\ status' = StatusOf(ProfileOf(vector), vector, Observation)
  /\ accused' = IF Undecidable(ProfileOf(vector), vector, Observation)
                THEN {} ELSE Accused(ProfileOf(vector), vector, Observation)
  /\ UNCHANGED <<host, contract, seeding, vector, unseeded, before, signers>>

Next ==
  \/ \E v \in Vectors : Deploy(v)
  \/ Skip \/ (\E who \in Accounts : Seed(who)) \/ Capture \/ Authorize \/ Invoke \/ Evaluate

Spec == Init /\ [][Next]_vars
---------------------------------------------------------------------------
(* What a contract that keeps the standard does on the vector, from the opening state the  *)
(* vector declares.                                                                         *)

Signed(v) == v.plan.expected = "accepted" \/ v.inputs.from \in v.plan.actors

Settles(v) == v.method = "transfer" /\ Signed(v) /\ v.inputs.amount <= v.opening[v.inputs.from]

Reference(v) ==
  IF Settles(v)
  THEN [outcome |-> "returned",
        balance |-> [v.opening EXCEPT ![v.inputs.from] = @ - v.inputs.amount,
                                      ![v.inputs.to]   = @ + v.inputs.amount],
        events  |-> <<[name |-> "transfer", from |-> v.inputs.from, to |-> v.inputs.to,
                       amount |-> v.inputs.amount]>>,
        auths   |-> {v.inputs.from}]
  ELSE [outcome |-> IF v.method = "transfer" THEN "refused" ELSE "returned",
        balance |-> v.opening, events |-> <<>>, auths |-> {}]

Ref == Reference(vector)
Measured == pc = "idle" /\ status \in {"passed", "failed"}

Worlds == [balance : [Accounts -> (-MaxAmount - 1)..MaxAmount],
           metadata : [Metadata -> Replies \cup {Unavailable}]]

\* Whatever is measured, the vector's status is one the run can count and its dimensions
\* are accused only of a vector that failed.
TypeOK ==
  /\ balance \in [Accounts -> (-MaxAmount - 1)..MaxAmount]
  /\ contract \in Contracts /\ seeding \in BOOLEAN
  /\ pc \in {"idle", "seed", "authorize", "invoke", "evaluate"}
  /\ vector \in Vectors /\ unseeded \subseteq Accounts /\ before \in Worlds
  /\ signers \subseteq Accounts /\ status \in Outcome!VectorStatuses \cup {"none"}
  /\ accused \subseteq Dimension /\ (accused # {} <=> status = "failed")

\* A dimension accuses a contract only of what that dimension is about, and only when the
\* contract really departed from the standard there: a conforming contract is never accused
\* at all, whatever the opening balances, amounts and signatures.
BlameNamesTheDeviation ==
  (pc = "idle" /\ status = "failed") =>
    /\ "interface" \in accused => Exposed # Reads \cup {"transfer"}
    /\ "behavior" \in accused => ObservedCall.outcome # Ref.outcome \/ balance # Ref.balance
    /\ "authorization" \in accused =>
         ObservedCall.outcome # Ref.outcome \/ ObservedCall.auths # Ref.auths
    /\ "event" \in accused => ObservedCall.events # Ref.events
    /\ {"state", "invariant"} \cap accused # {} => balance # Ref.balance
    /\ "failure" \in accused => ObservedCall.outcome # Ref.outcome

\* A vector passes only if the contract did what the standard says: it ended the call that
\* way, left those balances, emitted those events and demanded those signatures.  No defect
\* hides from every assertion of the vector it shows in.
NothingEscapes ==
  (pc = "idle" /\ status = "passed") =>
    /\ ObservedCall.outcome = Ref.outcome /\ balance = Ref.balance
    /\ ObservedCall.events = Ref.events /\ ObservedCall.auths = Ref.auths

\* A verdict is about the world the vector declares: the state the call was made in is the
\* opening state, nothing of an earlier vector is left in it, and nobody signed but those the
\* plan arms.
MeasuredFromItsOpening ==
  Measured => before.balance = vector.opening /\ signers = Signers(vector.plan)

\* A vector that states what the method returns passes only if that is what it returned.
ReturnsAreObserved ==
  (pc = "idle" /\ status = "passed" /\ vector.returns # "none" /\ vector.method \in Metadata) =>
    contract.reply = vector.returns

\* A call the environment produced no observation of fails nobody.
UnmeasuredIsNeverFailed ==
  (pc = "idle" /\ status = "failed") => ObservedCall.outcome # "could_not_run"
=============================================================================
