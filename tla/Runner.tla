------------------------------- MODULE Runner -------------------------------
(***************************************************************************)
(* `estamora run`: one process at a time that loads a profile and a corpus, *)
(* resolves the contract, measures every selected vector in corpus order,    *)
(* reduces the results to a verdict, and leaves documents behind before it   *)
(* exits (crates/estamora-cli: commands/run.rs, engine/mod.rs, main.rs).      *)
(*                                                                         *)
(* Around it the world moves: somebody edits the specification checkout,      *)
(* the contract is upgraded or rebuilt, a write fails, the job is killed, and *)
(* the next run writes to the same paths.                                     *)
(*                                                                         *)
(* What a vector's measurement concludes is left open here: any status the    *)
(* engine can produce for it is possible.                                     *)
(***************************************************************************)
EXTENDS Outcomes

CONSTANTS
  NumVectors,    \* how many vectors the specification checkout may hold
  Tagged,        \* the vectors carrying the tags a filtered run names
  Revisions,     \* contents a specification document can have
  Malformed,     \* those of them that do not load
  Unreportable,  \* those of them that give a vector an identifier the report schema refuses
  Optional,      \* for each profile revision, the vectors whose method it marks optional
  Builds,        \* the builds of the measured contract
  Arguments,     \* the command lines in play
  MaxRuns, MaxEdits, MaxUpgrades   \* bounds on the behaviours explored

\* Positions in the corpus, which VectorCorpus sorts by path.
Vectors == 1..NumVectors

\* No document, no build, no run.
Absent == 0

CommandLines == [target : {"fixture", "wasm", "remote"}, tagged : BOOLEAN, report : BOOLEAN,
                 receipt : BOOLEAN, key : {"none", "good", "malformed"},
                 noFail : BOOLEAN, verbose : BOOLEAN]

ASSUME SizeAssumption == NumVectors \in Nat /\ MaxRuns \in Nat /\ MaxEdits \in Nat /\ MaxUpgrades \in Nat
ASSUME TagAssumption == Tagged \subseteq Vectors
ASSUME RevisionAssumption == /\ Revisions \subseteq Nat \ {Absent}
                             /\ Malformed \subseteq Revisions /\ Unreportable \subseteq Revisions
                             /\ Optional \in [Revisions -> SUBSET Vectors]
ASSUME BuildAssumption == Builds \subseteq Nat \ {Absent}
ASSUME ArgumentAssumption == Arguments \subseteq CommandLines

VARIABLES
  pc,        \* where the process is; "exited" when there is none
  run,       \* how many runs have been started: the identity of the current one
  args,      \* its command line
  profile,   \* the revision ProfileBundle::load read
  corpus,    \* the revision VectorCorpus::load read of each selected vector
  artifact,  \* the build Target::fetch resolved
  status,    \* each vector's outcome so far
  unusable,  \* the vectors that were unusable under this profile
  measured,  \* the build each vector was measured against
  facts,     \* deployment_facts: the build of the first vector that ran, when one has
  report,    \* the report, once assembled
  failure,   \* the class of the error that ended the run
  exit,      \* the process's exit status
  \* The world
  disk,      \* the specification checkout: revision of the profile and of each vector
  served,    \* the build the network serves, or the .wasm path holds
  store,     \* the files at the --report and --receipt paths
  edits, upgrades   \* bound counters

process == <<pc, run, args, profile, corpus, artifact, status, unusable, measured, facts,
             report, failure, exit>>
world   == <<disk, served, edits, upgrades>>
vars    == <<process, world, store>>

NoReport  == [profile |-> Absent, corpus |-> [v \in Vectors |-> Absent], build |-> Absent,
              status |-> "none"]
NoFile    == [run |-> 0, whole |-> FALSE, status |-> "none", paired |-> FALSE]
Torn(r)   == [run |-> r, whole |-> FALSE, status |-> "none", paired |-> FALSE]
Killed    == 137
Running   == 255   \* no exit status yet

Unmeasured == [v \in Vectors |-> "pending"]
Nowhere    == [v \in Vectors |-> Absent]

Selected   == {v \in Vectors : corpus[v] # Absent}
Pending    == {v \in Selected : status[v] = "pending"}
Required   == Selected \ Optional[profile]

\* The document each path receives; a receipt says whether its report was kept as well.
ReportFile  == [run |-> run, whole |-> TRUE, status |-> report.status, paired |-> FALSE]
ReceiptFile == [run |-> run, whole |-> TRUE, status |-> report.status, paired |-> args.report]

ReceiptKind == IF args.key = "none" THEN IF args.receipt THEN "unsigned" ELSE "none"
               ELSE "signed"

---------------------------------------------------------------------------
Init ==
  /\ pc = "exited" /\ run = 0 /\ args \in Arguments
  /\ profile = Absent /\ corpus = Nowhere /\ artifact = Absent
  /\ status = Unmeasured /\ unusable = {} /\ measured = Nowhere /\ facts = <<>>
  /\ report = NoReport /\ failure = "none" /\ exit = 0
  /\ \E r \in Revisions : disk = [profile |-> r, vectors |-> [v \in Vectors |-> r]]
  /\ served \in Builds
  /\ store = [report |-> NoFile, receipt |-> NoFile]
  /\ edits = 0 /\ upgrades = 0

\* `estamora run` is invoked.  Nothing of the previous process survives but its files.
Start ==
  /\ pc = "exited" /\ run < MaxRuns
  /\ pc' = "arguments" /\ run' = run + 1 /\ args' \in Arguments
  /\ profile' = Absent /\ corpus' = Nowhere /\ artifact' = Absent
  /\ status' = Unmeasured /\ unusable' = {} /\ measured' = Nowhere /\ facts' = <<>>
  /\ report' = NoReport /\ failure' = "none" /\ exit' = Running
  /\ UNCHANGED <<world, store>>

\* An error leaves every function through `?` and reaches main, which maps its class.
Abort(class) ==
  /\ pc' = "exited" /\ failure' = class /\ exit' = ForErrorClass(class)
  /\ UNCHANGED <<run, args, profile, corpus, artifact, status, unusable, measured, facts, report>>

\* spec_root, resolve_profile and Target::parse.
ParseArguments ==
  /\ pc = "arguments"
  /\ \/ /\ pc' = "profile"
        /\ UNCHANGED <<run, args, profile, corpus, artifact, status, unusable, measured, facts,
                       report, failure, exit>>
     \/ \E class \in {"ProfileError", "UsageError", "ContractResolutionError"} :
          /\ class = "ContractResolutionError" => args.target = "wasm"
          /\ Abort(class)
  /\ UNCHANGED <<world, store>>

LoadProfile ==
  /\ pc = "profile"
  /\ IF disk.profile \in Malformed \cup {Absent}
     THEN Abort("ProfileError")
     ELSE /\ profile' = disk.profile
          /\ pc' = "corpus"
          /\ UNCHANGED <<run, args, corpus, artifact, status, unusable, measured, facts,
                         report, failure, exit>>
  /\ UNCHANGED <<world, store>>

\* The corpus is read whole and then filtered by tag; a filter that selects nothing is a
\* warning.  A declared tree that holds no vector is an error, and so is one bad document.
Stored == {v \in Vectors : disk.vectors[v] # Absent}

LoadCorpus ==
  /\ pc = "corpus"
  /\ IF Stored = {} \/ \E v \in Stored : disk.vectors[v] \in Malformed
     THEN Abort("VectorError")
     ELSE /\ corpus' = [v \in Vectors |-> IF args.tagged => v \in Tagged
                                          THEN disk.vectors[v] ELSE Absent]
          /\ pc' = "fetch"
          /\ UNCHANGED <<run, args, profile, artifact, status, unusable, measured, facts,
                         report, failure, exit>>
  /\ UNCHANGED <<world, store>>

\* Mutant: an unreachable network is tried again, from the corpus on, and again.
FetchRetries ==
  /\ pc = "fetch"
  /\ pc' \in IF args.target = "remote" THEN {"measure", "corpus"} ELSE {"measure"}
  /\ artifact' = IF args.target = "remote" THEN served ELSE Absent
  /\ UNCHANGED <<run, args, profile, corpus, status, unusable, measured, facts, report, failure,
                 exit, world, store>>

\* Only a deployed contract is fetched, and only here.
Fetch ==
  /\ pc = "fetch"
  /\ \/ /\ artifact' = IF args.target = "remote" THEN served ELSE Absent
        /\ pc' = "measure"
        /\ UNCHANGED <<run, args, profile, corpus, status, unusable, measured, facts,
                       report, failure, exit>>
     \/ /\ args.target = "remote"
        /\ \E class \in {"ContractResolutionError", "NetworkError", "UsageError"} : Abort(class)
  /\ UNCHANGED <<world, store>>

---------------------------------------------------------------------------
(* The measuring loop: one vector at a time, in corpus order. *)

IsNext(v) == v \in Pending /\ \A w \in Pending : v <= w

\* Mutant: the contract is fetched again for every vector.
DeployedBuildRefetched == IF args.target = "fixture" THEN Absent ELSE served

\* What scenario::execute deploys for one vector: the fetched artifact of a remote target,
\* and whatever the .wasm path holds at that moment of a local one.
DeployedBuild == CASE args.target = "remote"  -> artifact
                   [] args.target = "wasm"    -> served
                   [] args.target = "fixture" -> Absent

\* The vector produced an outcome.  Only the fixture can be given an opening state.
Conclude(v, outcome) ==
  /\ outcome = "skipped" => args.target # "fixture"
  /\ status' = [status EXCEPT ![v] = outcome]
  /\ measured' = [measured EXCEPT ![v] = DeployedBuild]
  /\ facts' = IF facts = <<>> THEN <<DeployedBuild>> ELSE facts
  /\ UNCHANGED <<pc, run, args, profile, corpus, artifact, unusable, report, failure, exit>>

\* Mutant: the outcome code stands where a status belongs.
SetAsideAsCode(v) ==
  /\ status' = [status EXCEPT ![v] = "vector-unusable"]
  /\ unusable' = unusable \cup {v}
  /\ UNCHANGED <<pc, run, args, profile, corpus, artifact, measured, facts, report, failure, exit>>

\* The vector disagrees with the profile: it is recorded as undecided and the run goes on.
SetAside(v) ==
  /\ status' = [status EXCEPT ![v] = "error"]
  /\ unusable' = unusable \cup {v}
  /\ UNCHANGED <<pc, run, args, profile, corpus, artifact, measured, facts, report, failure, exit>>

Measure ==
  /\ pc = "measure"
  /\ \E v \in Vectors :
       /\ IsNext(v)
       /\ \/ \E outcome \in VectorStatuses : Conclude(v, outcome)
          \/ SetAside(v)
          \/ \E class \in {"ContractResolutionError", "ExecutionError"} : Abort(class)
  /\ UNCHANGED <<world, store>>

---------------------------------------------------------------------------
(* The report.  The two digests are taken of the files as they are now. *)

DigestedCorpus == [v \in Vectors |-> IF v \in Selected THEN disk.vectors[v] ELSE Absent]

FirstFact == IF facts = <<>> THEN Absent ELSE facts[1]

AssembledReport == [profile |-> disk.profile, corpus |-> DigestedCorpus, build |-> FirstFact,
                    status |-> Verdict(status, Required)]

Assemble ==
  /\ pc = "measure" /\ Pending = {}
  /\ CASE \E v \in Selected : corpus[v] \in Unreportable -> Abort("ReportError")
       [] /\ \A v \in Selected : corpus[v] \notin Unreportable
          /\ disk.profile = Absent                       -> Abort("ProfileError")
       [] /\ \A v \in Selected : corpus[v] \notin Unreportable
          /\ disk.profile # Absent
          /\ ~(Selected \subseteq Stored)                -> Abort("VectorError")
       [] OTHER ->
            /\ report' = AssembledReport
            /\ pc' = "certify"
            /\ UNCHANGED <<run, args, profile, corpus, artifact, status, unusable, measured,
                           facts, failure, exit>>
  /\ UNCHANGED <<world, store>>

Goto(place) ==
  /\ pc' = place
  /\ UNCHANGED <<run, args, profile, corpus, artifact, status, unusable, measured, facts,
                 report, failure, exit>>

\* Mutant: the receipt is written where it is issued.
CertifyWrites ==
  /\ pc = "certify"
  /\ IF args.key = "malformed"
     THEN Abort("CertificationError") /\ UNCHANGED store
     ELSE /\ store' = IF args.receipt THEN [store EXCEPT !.receipt = ReceiptFile] ELSE store
          /\ Goto("report")
  /\ UNCHANGED world

\* The receipt is issued, and signed, before any document is written.
Certify ==
  /\ pc = "certify"
  /\ IF args.key = "malformed" THEN Abort("CertificationError") ELSE Goto("report")
  /\ UNCHANGED <<world, store>>

---------------------------------------------------------------------------
(* Emission: the normative report, then the rendering, then the receipt.  A write     *)
(* truncates the file and then fills it, and can fail or be interrupted at either.     *)

Open(path, next) == /\ store' = [store EXCEPT ![path] = Torn(run)]
                    /\ Goto(next)

Fill(path, document, next) == /\ store' = [store EXCEPT ![path] = document]
                              /\ Goto(next)

\* Mutant: a document that could not be written is passed over.
WriteFailsQuietly == /\ Goto(IF pc \in {"report", "filling report"} THEN "rendering" ELSE "finish")
                     /\ UNCHANGED store

WriteFails == Abort("ReportError") /\ UNCHANGED store

EmitReport ==
  /\ \/ pc = "report" /\ ~args.report /\ Goto("rendering") /\ UNCHANGED store
     \/ pc = "report" /\ args.report /\ (Open("report", "filling report") \/ WriteFails)
     \/ pc = "filling report" /\ (Fill("report", ReportFile, "rendering") \/ WriteFails)
  /\ UNCHANGED world

EmitRendering ==
  /\ pc = "rendering"
  /\ \/ Goto("receipt") /\ UNCHANGED store
     \/ WriteFails
  /\ UNCHANGED world

EmitReceipt ==
  /\ \/ pc = "receipt" /\ ReceiptKind = "none" /\ Goto("finish") /\ UNCHANGED store
     \/ /\ pc = "receipt" /\ ReceiptKind # "none" /\ ~args.receipt
        /\ Abort("InternalError") /\ UNCHANGED store
     \/ /\ pc = "receipt" /\ ReceiptKind # "none" /\ args.receipt
        /\ Open("receipt", "filling receipt") \/ WriteFails
     \/ pc = "filling receipt" /\ (Fill("receipt", ReceiptFile, "finish") \/ WriteFails)
  /\ UNCHANGED world

\* Findings are printed last, under --verbose, and then the verdict decides the status.
Finish ==
  /\ pc = "finish"
  /\ \/ /\ exit' = IF args.noFail THEN 0 ELSE ExitCode(report.status)
        /\ pc' = "exited"
        /\ UNCHANGED <<run, args, profile, corpus, artifact, status, unusable, measured, facts,
                       report, failure>>
     \/ args.verbose /\ Abort("ReportError")
  /\ UNCHANGED <<world, store>>

---------------------------------------------------------------------------
(* The world around the process. *)

\* A specification document is rewritten, restored, or removed.
Edit ==
  /\ edits < MaxEdits /\ edits' = edits + 1
  /\ \E r \in Revisions \cup {Absent} :
       \/ disk' = [disk EXCEPT !.profile = r]
       \/ \E v \in Vectors : disk' = [disk EXCEPT !.vectors[v] = r]
  /\ UNCHANGED <<process, served, store, upgrades>>

\* The contract is upgraded on its network, or the .wasm file is rebuilt.
Upgrade ==
  /\ upgrades < MaxUpgrades /\ upgrades' = upgrades + 1
  /\ served' \in Builds \ {served}
  /\ UNCHANGED <<process, disk, store, edits>>

\* The job is killed, wherever it is.
Kill ==
  /\ pc # "exited"
  /\ pc' = "exited" /\ exit' = Killed
  /\ UNCHANGED <<run, args, profile, corpus, artifact, status, unusable, measured, facts,
                 report, failure, world, store>>

Proceed ==
  \/ ParseArguments \/ LoadProfile \/ LoadCorpus \/ Fetch \/ Measure \/ Assemble \/ Certify
  \/ EmitReport \/ EmitRendering \/ EmitReceipt \/ Finish

Next == Start \/ Proceed \/ Edit \/ Upgrade \/ Kill

\* The process is sequential and every wait it makes is bounded (RPC_TIMEOUT), so a step
\* it can take is eventually taken.  Nothing obliges anybody to start, edit or kill.
Spec == Init /\ [][Next]_vars /\ WF_vars(Proceed)
---------------------------------------------------------------------------
Places == {"exited", "arguments", "profile", "corpus", "fetch", "measure", "certify", "report",
           "filling report", "rendering", "receipt", "filling receipt", "finish"}

Contents == Revisions \cup {Absent}
Deployable == Builds \cup {Absent}
Files == [run : 0..MaxRuns, whole : BOOLEAN, status : ConformanceStatuses \cup {"none"},
          paired : BOOLEAN]
Reports == [profile : Contents, corpus : [Vectors -> Contents], build : Deployable,
            status : ConformanceStatuses \cup {"none"}]

\* Every outcome the run records is one the verdict rule counts, and every exit status is
\* one the published table lists.
TypeOK ==
  /\ pc \in Places /\ run \in 0..MaxRuns /\ args \in Arguments
  /\ profile \in Contents /\ corpus \in [Vectors -> Contents] /\ artifact \in Deployable
  /\ status \in [Vectors -> VectorStatuses \cup {"pending"}] /\ unusable \subseteq Vectors
  /\ measured \in [Vectors -> Deployable] /\ facts \in {<<>>} \cup {<<b>> : b \in Deployable}
  /\ report \in Reports /\ failure \in ErrorClasses \cup {"none"}
  /\ exit \in {0, 1, 2, 3, 4, 5, 64, Killed, Running}
  /\ disk \in [profile : Contents, vectors : [Vectors -> Contents]] /\ served \in Builds
  /\ store \in [report : Files, receipt : Files]
  /\ edits \in 0..MaxEdits /\ upgrades \in 0..MaxUpgrades

\* A process that exits 0, 1 or 2 ran to its end, with an outcome for every selected vector,
\* and the number is the one the required outcomes call for: 0 only if all of them, and at
\* least one, passed; 1 only if one failed and none is undecided; 2 only if nothing was
\* required or the required ones were decided in part.  No error, kill, optional vector or
\* tag filter leads there any other way.
VerdictAccountsForAll ==
  (pc = "exited" /\ run > 0 /\ exit \in VerdictExits) =>
    /\ failure = "none" /\ Pending = {}
    /\ args.noFail \/
         /\ exit = 0 => Required # {} /\ \A v \in Required : status[v] = "passed"
         /\ exit = 1 => /\ \E v \in Required : status[v] = "failed"
                        /\ \A v \in Required : status[v] \in {"passed", "failed"}
         /\ exit = 2 => \/ Required = {}
                        \/ /\ \E v \in Required : status[v] \in {"passed", "failed"}
                           /\ \E v \in Required : status[v] \in {"error", "skipped"}

\* Whoever reads a verdict from the exit status finds the documents the command line asked
\* for complete, written by that very run, and saying the same thing: never a file an
\* earlier run left, nor one torn by a failed write.
DocumentsBeforeVerdict ==
  (pc = "exited" /\ run > 0 /\ exit \in VerdictExits) =>
    /\ args.noFail \/ exit = ExitCode(report.status)
    /\ args.report => store.report = ReportFile
    /\ args.receipt => store.receipt = ReceiptFile

\* However runs fail, are killed and follow one another over the same paths, a receipt
\* whose report was kept is never of a later run than the report beside it, and when the
\* two are of one run they state one verdict.
ReceiptNeverAhead ==
  store.receipt.whole /\ store.receipt.paired =>
    /\ store.receipt.run <= store.report.run
    /\ store.report.whole /\ store.report.run = store.receipt.run =>
         store.report.status = store.receipt.status

\* Every vector behind a report was measured against the build the report names.
HashPinsTheCode ==
  report # NoReport => \A v \in Vectors : measured[v] # Absent => measured[v] = report.build

\* Of a deployed contract that holds even when it is upgraded while it is being measured.
HashPinsTheDeployedCode == args.target = "remote" => HashPinsTheCode

\* The digests of a report are those of the documents the run was carried out under.
ReportPinsWhatRan ==
  report # NoReport => report.profile = profile /\ report.corpus = corpus

\* Exit status 4 is the environment's: either the failure that ended the run is, or some
\* required vector was left undecided by more than its own document.
FourIsTheEnvironment ==
  (pc = "exited" /\ exit = 4) =>
    \/ failure # "none" /\ Blame(failure) = "environment"
    \/ failure = "none" /\ ~(Undecided(status, Required) \subseteq unusable)

\* A run that is started ends.
Termination == pc = "arguments" ~> pc = "exited"
=============================================================================
