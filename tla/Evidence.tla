------------------------------- MODULE Evidence -------------------------------
(***************************************************************************)
(* From a contract on a network to a receipt somebody else verifies: a run      *)
(* resolves and deploys its target (Resolution), writes a report and a receipt   *)
(* of it, and both are handed on (Certification).                                *)
(***************************************************************************)
EXTENDS Resolution, Certification

CONSTANT MaxRuns

VARIABLE runs   \* bound counter

vars == <<ledgers, client, documents, runs>>

ASSUME HashAssumption == Hashes = Codes \cup {Nothing}
ASSUME RunAssumption == MaxRuns \in Nat

\* What the contract was measured on says nothing here of what the measurement concluded.
Measurement(status) == [remote |-> artifact # Nothing, code |-> held.code, status |-> status, pinned |-> TRUE]

Invoked == runs < MaxRuns /\ runs' = runs + 1 /\ Start /\ UNCHANGED documents

\* A failed process exits, and so does `estamora inspect`, which deploys and reads the interface.
Leave == pc \in {"failed", "deployed"} /\ Exit /\ UNCHANGED <<documents, runs>>

\* commands/run.rs: the receipt is issued of the report in memory, and then the two are
\* written, the report first.
Publish(status, key) ==
  /\ pc = "deployed" /\ task = "idle"
  /\ Exit
  /\ report' = Measurement(status)
  /\ task' = "publishing" /\ draft' = SignedBy(key, ReceiptOf(Measurement(status)))
  /\ verdict' = NoVerdict
  /\ UNCHANGED <<receipt, issued, edits, runs>>

PublishReceipt ==
  /\ task = "publishing"
  /\ receipt' = draft /\ issued' = issued \cup {[by |-> "run", signed |-> draft]}
  /\ Finish("none", "none")
  /\ UNCHANGED <<ledgers, client, report, edits, runs>>

Init == ResolutionInit /\ CertificationInit /\ runs = 0

Next ==
  \/ Environment /\ UNCHANGED <<documents, runs>>
  \/ Invoked
  \/ Resolve /\ UNCHANGED <<documents, runs>>
  \/ \E status \in Statuses, key \in Keys \cup {Missing} : Publish(status, key)
  \/ PublishReceipt
  \/ Leave
  \/ Certify /\ UNCHANGED <<ledgers, client, runs>>

\* A request is given up after RPC_TIMEOUT, so a resolution never waits for ever.
Spec == Init /\ [][Next]_vars /\ WF_vars(Resolve /\ UNCHANGED <<documents, runs>>)
---------------------------------------------------------------------------
\* Every refusal is of a class that blames the environment or the invocation: nothing that goes
\* wrong on the way to a contract, or to a receipt, is ever put down to the contract.
TypeOK == ResolutionTypeOK /\ CertificationTypeOK /\ runs \in 0..MaxRuns

---------------------------------------------------------------------------
Snapshot == INSTANCE ContractSnapshot

\* Whatever the replicas answer, at whatever ledgers, and however often the contract is upgraded,
\* configured or archived between the requests, what is resolved is the code and the instance
\* of one ledger: never the storage of one version with the code of another.
ReadsAtomically == Snapshot!Spec

\* Requests are made in one order: of the network, of the instance, of the code.
InstanceAnswer == asked[2]
LastAnswer     == asked[Len(asked)]

\* A refusal names what happened and no other thing.  A usage error is settled before anything
\* is asked; a network error means an answer was missing or wrong; a contract said not to exist
\* was answered for without entries or really was absent from a ledger, and one said to be the
\* host's own is, or was answered for with an entry that is no instance; and missing code
\* behind a sound answer was archived, or was looked for in an earlier ledger than the
\* instance was: it never means that the ledger is inconsistent with itself.  All of this of
\* nodes that send the entry they were asked for, and not of another contract.
RefusalNamesItsCause ==
  pc = "failed" =>
    /\ failure.class = "UsageError" => asked = <<>>
    /\ failure.class = "NetworkError" =>
         asked # <<>> /\ LastAnswer.quality \notin {Sound, "without-entries"}
    /\ failure.reason = "contract-not-found" =>
         \/ LastAnswer.quality = "without-entries"
         \/ LastAnswer.quality = Sound /\ ledgers[LastAnswer.height].instance = Nothing
    /\ failure.reason = "host-implemented-contract" =>
         \/ LastAnswer.quality = "not-instance"
         \/ /\ LastAnswer.quality = Sound /\ ledgers[LastAnswer.height].instance # Nothing
            /\ ledgers[LastAnswer.height].instance.executable = Asset
    /\ failure.reason = "code-entry-missing" /\ LastAnswer.quality = Sound =>
         \/ LastAnswer.height < InstanceAnswer.height
         \/ \E h \in 2..LastAnswer.height :
              instance.executable \in ledgers[h - 1].installed \ ledgers[h].installed

\* Who verifies a receipt of a run under a key they trust learns of code the contract really
\* ran: the hash in the report survived the reads, the deployment, the two files and every
\* rewriting of them.  A receipt issued of a stored report can say no more than the file did.
AttestedCodeRan ==
  /\ verdict.kind = "attributed" /\ verdict.trusted \notin Strangers /\ verdict.report.remote
  /\ edits = 0 \/ [by |-> "run", signed |-> verdict.receipt] \in issued
  => \E h \in DOMAIN ledgers : /\ ledgers[h].instance # Nothing
                              /\ ledgers[h].instance.executable = verdict.report.code

\* A target that is being resolved is deployed or refused.
ResolutionEnds == pc = "arguments" ~> pc \in {"deployed", "failed"}
=============================================================================
