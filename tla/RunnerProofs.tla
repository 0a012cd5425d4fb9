---------------------------- MODULE RunnerProofs ----------------------------
(***************************************************************************)
(* Theorems about the runner, for every corpus, every set of documents,      *)
(* builds and command lines, and any number of runs, edits and upgrades.     *)
(***************************************************************************)
EXTENDS Runner, TLAPS

ProcessTyped ==
  /\ pc \in Places /\ run \in 0..MaxRuns /\ args \in Arguments
  /\ profile \in Contents /\ corpus \in [Vectors -> Contents] /\ artifact \in Deployable
  /\ status \in [Vectors -> VectorStatuses \cup {"pending"}] /\ unusable \subseteq Vectors
  /\ measured \in [Vectors -> Deployable] /\ facts \in {<<>>} \cup {<<b>> : b \in Deployable}
  /\ report \in Reports /\ failure \in ErrorClasses \cup {"none"}
  /\ exit \in {0, 1, 2, 3, 4, 5, 64, Killed, Running}

WorldTyped ==
  /\ disk \in [profile : Contents, vectors : [Vectors -> Contents]] /\ served \in Builds
  /\ edits \in 0..MaxEdits /\ upgrades \in 0..MaxUpgrades

StoreTyped == store \in [report : Files, receipt : Files]

LEMMA TypeParts ==
  /\ TypeOK <=> ProcessTyped /\ WorldTyped /\ StoreTyped
  /\ TypeOK' <=> ProcessTyped' /\ WorldTyped' /\ StoreTyped'
BY DEF TypeOK, ProcessTyped, WorldTyped, StoreTyped

\* Type correctness leans on the verdict: the exit status is computed from the report, so
\* the report must hold a verdict by then.
Reported == {"certify", "report", "filling report", "rendering", "receipt", "filling receipt",
             "finish"}

Judged == Pending = {} /\ failure = "none" /\ report.status = Verdict(status, Required)

Verdicts ==
  /\ pc \in Reported => Judged
  /\ pc # "exited" => failure = "none"
  /\ pc = "exited" /\ run > 0 /\ exit \in VerdictExits =>
       Judged /\ (args.noFail \/ exit = ExitCode(report.status))

\* Whatever the statuses are, the verdict rule gives one of the published statuses, and
\* every published status and every error class has an exit code.
LEMMA VerdictIsAStatus ==
  ASSUME NEW statuses, NEW required
  PROVE  Verdict(statuses, required) \in ConformanceStatuses
BY DEF Verdict, ConformanceStatuses

LEMMA ExitCodes ==
  /\ \A s \in ConformanceStatuses : ExitCode(s) \in {0, 1, 2, 3, 4}
  /\ \A c \in ErrorClasses : ForErrorClass(c) \in {3, 4, 5, 64}
BY DEF ExitCode, ConformanceStatuses, ForErrorClass, Blame, ErrorClasses

LEMMA AbortKeepsTypes ==
  ASSUME ProcessTyped, NEW class \in ErrorClasses, Abort(class)
  PROVE  ProcessTyped'
BY ExitCodes DEF ProcessTyped, Abort, Places, Reports, Contents, Deployable

LEMMA GotoKeepsTypes ==
  ASSUME ProcessTyped, NEW place \in Places, Goto(place)
  PROVE  ProcessTyped'
BY DEF ProcessTyped, Goto

\* What a run may write to a path.
LEMMA FilesAreFiles ==
  ASSUME ProcessTyped
  PROVE  NoFile \in Files /\ Torn(run) \in Files /\ ReportFile \in Files /\ ReceiptFile \in Files
BY SizeAssumption, ArgumentAssumption
   DEF ProcessTyped, Files, NoFile, Torn, ReportFile, ReceiptFile, Reports, CommandLines

\* Every step of the process keeps the process typed.
LEMMA StartKeepsTypes ==
  ASSUME TypeOK, Start
  PROVE  TypeOK'
<1>1. run + 1 \in 0..MaxRuns
  BY SizeAssumption DEF Start, TypeOK
<1>2. NoReport \in Reports
  BY DEF NoReport, Reports, Contents, Deployable, Nowhere
<1>3. Unmeasured \in [Vectors -> VectorStatuses \cup {"pending"}] /\ Nowhere \in [Vectors -> Contents]
      /\ Nowhere \in [Vectors -> Deployable]
  BY DEF Unmeasured, Nowhere, Contents, Deployable
<1>4. ProcessTyped'
  BY <1>1, <1>2, <1>3 DEF Start, ProcessTyped, Places, Contents, Deployable
<1> QED BY <1>4, TypeParts DEF Start, world, WorldTyped, StoreTyped

LEMMA MeasureKeepsTypes ==
  ASSUME ProcessTyped, WorldTyped, Measure
  PROVE  ProcessTyped'
<1>1. PICK v \in Vectors :
        \/ \E outcome \in VectorStatuses : Conclude(v, outcome)
        \/ SetAside(v)
        \/ \E class \in {"ContractResolutionError", "ExecutionError"} : Abort(class)
  BY DEF Measure
<1>2. ASSUME NEW outcome \in VectorStatuses, Conclude(v, outcome)
      PROVE  ProcessTyped'
  <2>1. args.target \in {"fixture", "wasm", "remote"}
    BY ArgumentAssumption DEF ProcessTyped, CommandLines
  <2>2. DeployedBuild \in Deployable
    BY <2>1 DEF DeployedBuild, ProcessTyped, WorldTyped, Deployable
  <2>3. status' \in [Vectors -> VectorStatuses \cup {"pending"}] /\ measured' \in [Vectors -> Deployable]
    BY <1>2, <2>2 DEF Conclude, ProcessTyped
  <2>4. facts' \in {<<>>} \cup {<<b>> : b \in Deployable}
    BY <1>2, <2>2 DEF Conclude, ProcessTyped
  <2> QED BY <1>2, <2>3, <2>4 DEF Conclude, ProcessTyped
<1>3. CASE SetAside(v)
  BY <1>3 DEF SetAside, ProcessTyped, VectorStatuses
<1>4. ASSUME NEW class \in {"ContractResolutionError", "ExecutionError"}, Abort(class)
      PROVE  ProcessTyped'
  BY <1>4, AbortKeepsTypes DEF ErrorClasses
<1> QED BY <1>1, <1>2, <1>3, <1>4

LEMMA AssembleKeepsTypes ==
  ASSUME ProcessTyped, WorldTyped, Assemble
  PROVE  ProcessTyped'
<1>1. CASE \E class \in {"ReportError", "ProfileError", "VectorError"} : Abort(class)
  BY <1>1, AbortKeepsTypes DEF ErrorClasses
<1>2. CASE /\ report' = AssembledReport /\ pc' = "certify"
           /\ UNCHANGED <<run, args, profile, corpus, artifact, status, unusable, measured,
                          facts, failure, exit>>
  <2>1. DigestedCorpus \in [Vectors -> Contents]
    BY DEF DigestedCorpus, WorldTyped, Contents
  <2>2. FirstFact \in Deployable
    BY DEF FirstFact, ProcessTyped, Deployable
  <2>3. AssembledReport \in Reports
    BY <2>1, <2>2, VerdictIsAStatus DEF AssembledReport, Reports, WorldTyped
  <2> QED BY <1>2, <2>3 DEF ProcessTyped, Places
<1> QED BY <1>1, <1>2 DEF Assemble

LEMMA LoadKeepsTypes ==
  ASSUME ProcessTyped, WorldTyped, ParseArguments \/ LoadProfile \/ LoadCorpus \/ Fetch
  PROVE  ProcessTyped'
<1>1. CASE \E class \in ErrorClasses : Abort(class)
  BY <1>1, AbortKeepsTypes
<1>2. CASE ParseArguments
  BY <1>1, <1>2 DEF ParseArguments, ProcessTyped, Places, ErrorClasses
<1>3. CASE LoadProfile
  BY <1>1, <1>3 DEF LoadProfile, ProcessTyped, WorldTyped, Places, ErrorClasses
<1>4. CASE LoadCorpus
  <2>1. CASE /\ corpus' = [v \in Vectors |-> IF args.tagged => v \in Tagged
                                             THEN disk.vectors[v] ELSE Absent]
             /\ pc' = "fetch"
             /\ UNCHANGED <<run, args, profile, artifact, status, unusable, measured, facts,
                            report, failure, exit>>
    <3>1. corpus' \in [Vectors -> Contents]
      BY <2>1 DEF WorldTyped, Contents
    <3> QED BY <2>1, <3>1 DEF ProcessTyped, Places
  <2>2. CASE Abort("VectorError")
    BY <1>1, <2>2 DEF ErrorClasses
  <2> QED BY <1>4, <2>1, <2>2 DEF LoadCorpus
<1>5. CASE Fetch
  BY <1>1, <1>5 DEF Fetch, ProcessTyped, WorldTyped, Places, ErrorClasses, Deployable
<1> QED BY <1>2, <1>3, <1>4, <1>5

LEMMA EmissionKeepsTypes ==
  ASSUME ProcessTyped, StoreTyped, Verdicts,
         Certify \/ EmitReport \/ EmitRendering \/ EmitReceipt \/ Finish
  PROVE  ProcessTyped' /\ StoreTyped'
<1>1. ASSUME NEW place \in Places, Goto(place) PROVE ProcessTyped'
  BY <1>1, GotoKeepsTypes
<1>2. ASSUME NEW class \in ErrorClasses, Abort(class) PROVE ProcessTyped'
  BY <1>2, AbortKeepsTypes
<1>3. CASE Certify
  BY <1>1, <1>2, <1>3 DEF Certify, StoreTyped, Places, ErrorClasses
<1>4. CASE EmitReport
  BY <1>1, <1>2, <1>4, FilesAreFiles
     DEF EmitReport, Open, Fill, WriteFails, StoreTyped, Places, ErrorClasses
<1>5. CASE EmitRendering
  BY <1>1, <1>2, <1>5 DEF EmitRendering, WriteFails, StoreTyped, Places, ErrorClasses
<1>6. CASE EmitReceipt
  BY <1>1, <1>2, <1>6, FilesAreFiles
     DEF EmitReceipt, Open, Fill, WriteFails, StoreTyped, Places, ErrorClasses
<1>7. CASE Finish
  <2>1. CASE Abort("ReportError")
    BY <1>2, <1>7, <2>1 DEF Finish, StoreTyped, ErrorClasses
  <2>2. CASE /\ exit' = (IF args.noFail THEN 0 ELSE ExitCode(report.status))
             /\ pc' = "exited"
             /\ UNCHANGED <<run, args, profile, corpus, artifact, status, unusable, measured,
                            facts, report, failure>>
    <3>1. report.status \in ConformanceStatuses
      BY <1>7, VerdictIsAStatus DEF Finish, Verdicts, Reported, Judged
    <3>2. exit' \in {0, 1, 2, 3, 4}
      BY <2>2, <3>1, ExitCodes
    <3>3. ProcessTyped'
      BY <2>2, <3>2 DEF ProcessTyped, Places
    <3>4. StoreTyped'
      BY <1>7 DEF Finish, StoreTyped
    <3> QED BY <3>3, <3>4
  <2> QED BY <1>7, <2>1, <2>2 DEF Finish
<1> QED BY <1>3, <1>4, <1>5, <1>6, <1>7

LEMMA WorldMovesKeepTypes ==
  ASSUME TypeOK, Edit \/ Upgrade \/ Kill
  PROVE  TypeOK'
<1>1. CASE Edit
  <2>1. disk' \in [profile : Contents, vectors : [Vectors -> Contents]]
    BY <1>1 DEF Edit, TypeOK, Contents
  <2>2. edits' \in 0..MaxEdits
    BY <1>1, SizeAssumption DEF Edit, TypeOK
  <2> QED BY <1>1, <2>1, <2>2 DEF Edit, TypeOK, process
<1>2. CASE Upgrade
  <2>1. upgrades' \in 0..MaxUpgrades
    BY <1>2, SizeAssumption DEF Upgrade, TypeOK
  <2> QED BY <1>2, <2>1 DEF Upgrade, TypeOK, process
<1>3. CASE Kill
  BY <1>3 DEF Kill, TypeOK, world, Places
<1> QED BY <1>1, <1>2, <1>3

LEMMA StepKeepsTypes ==
  ASSUME TypeOK, Verdicts, [Next]_vars
  PROVE  TypeOK'
<1> USE TypeParts
<1>1. CASE UNCHANGED vars
  BY <1>1 DEF vars, process, world, TypeOK
<1>2. CASE Start
  BY <1>2, StartKeepsTypes
<1>3. CASE ParseArguments \/ LoadProfile \/ LoadCorpus \/ Fetch
  <2>1. UNCHANGED <<world, store>>
    BY <1>3 DEF ParseArguments, LoadProfile, LoadCorpus, Fetch
  <2> QED BY <1>3, <2>1, LoadKeepsTypes DEF world, WorldTyped, StoreTyped
<1>4. CASE Measure
  <2>1. UNCHANGED <<world, store>>
    BY <1>4 DEF Measure
  <2> QED BY <1>4, <2>1, MeasureKeepsTypes DEF world, WorldTyped, StoreTyped
<1>5. CASE Assemble
  <2>1. UNCHANGED <<world, store>>
    BY <1>5 DEF Assemble
  <2> QED BY <1>5, <2>1, AssembleKeepsTypes DEF world, WorldTyped, StoreTyped
<1>6. CASE Certify \/ EmitReport \/ EmitRendering \/ EmitReceipt \/ Finish
  <2>1. UNCHANGED world
    BY <1>6 DEF Certify, EmitReport, EmitRendering, EmitReceipt, Finish
  <2> QED BY <1>6, <2>1, EmissionKeepsTypes DEF world, WorldTyped
<1>7. CASE Edit \/ Upgrade \/ Kill
  BY <1>7, WorldMovesKeepTypes
<1> QED BY <1>1, <1>2, <1>3, <1>4, <1>5, <1>6, <1>7 DEF Next, Proceed

LEMMA InitTyped == Init => TypeOK
<1> SUFFICES ASSUME Init PROVE TypeOK
  OBVIOUS
<1>1. NoFile \in Files /\ NoReport \in Reports
  BY SizeAssumption DEF NoFile, Files, NoReport, Reports, Contents, Deployable, Nowhere
<1>2. Unmeasured \in [Vectors -> VectorStatuses \cup {"pending"}] /\ Nowhere \in [Vectors -> Contents]
      /\ Nowhere \in [Vectors -> Deployable]
  BY DEF Unmeasured, Nowhere, Contents, Deployable
<1>3. disk \in [profile : Contents, vectors : [Vectors -> Contents]]
  BY DEF Init, Contents
<1>4. store \in [report : Files, receipt : Files]
  BY <1>1 DEF Init
<1>5. run \in 0..MaxRuns /\ edits \in 0..MaxEdits /\ upgrades \in 0..MaxUpgrades
  BY SizeAssumption DEF Init
<1> QED BY <1>1, <1>2, <1>3, <1>4, <1>5 DEF Init, TypeOK, Places, Contents, Deployable

---------------------------------------------------------------------------
(* The verdict. *)

\* No step but Start, Measure, LoadProfile and LoadCorpus touches what a verdict is about.
LEMMA EvidenceKeepsJudgement ==
  ASSUME Judged, UNCHANGED <<profile, corpus, status, report, failure>>
  PROVE  Judged'
BY DEF Judged, Pending, Selected, Required

\* An aborted process exits with a number no verdict has.
LEMMA AbortIsNoVerdict ==
  ASSUME NEW class \in ErrorClasses, Abort(class)
  PROVE  Verdicts'
<1>1. exit' \in {3, 4, 5, 64} /\ pc' = "exited"
  BY ExitCodes DEF Abort
<1>2. exit' \notin VerdictExits /\ pc' \notin Reported
  BY <1>1 DEF VerdictExits, Reported
<1> QED BY <1>1, <1>2 DEF Verdicts

\* Before the report there is nothing to judge.
LEMMA UnjudgedStep ==
  ASSUME pc' \notin Reported, pc' # "exited", failure' = "none"
  PROVE  Verdicts'
BY DEF Verdicts

LEMMA GotoKeepsVerdicts ==
  ASSUME Verdicts, pc \in Reported, NEW place, place # "exited", Goto(place)
  PROVE  Verdicts'
<1>1. Judged'
  BY EvidenceKeepsJudgement DEF Goto, Verdicts
<1> QED BY <1>1 DEF Verdicts, Goto, Judged

LEMMA StepKeepsVerdicts ==
  ASSUME TypeOK, Verdicts, [Next]_vars
  PROVE  Verdicts'
<1>1. ASSUME NEW class \in ErrorClasses, Abort(class) PROVE Verdicts'
  BY <1>1, AbortIsNoVerdict
<1>2. CASE UNCHANGED process
  <2>1. Judged => Judged'
    BY <1>2, EvidenceKeepsJudgement DEF process
  <2> QED BY <1>2, <2>1 DEF process, Verdicts
<1>3. CASE Start
  BY <1>3, UnjudgedStep DEF Start, Reported
<1>4. CASE ParseArguments \/ LoadProfile \/ LoadCorpus \/ Fetch
  <2>1. CASE \E class \in ErrorClasses : Abort(class)
    BY <1>1, <2>1
  <2>2. CASE pc # "exited" /\ pc' \in {"profile", "corpus", "fetch", "measure"} /\ UNCHANGED failure
    BY <2>2, UnjudgedStep DEF Reported, Verdicts
  <2>3. \/ \E class \in ErrorClasses : Abort(class)
        \/ pc # "exited" /\ pc' \in {"profile", "corpus", "fetch", "measure"} /\ UNCHANGED failure
    BY <1>4 DEF ParseArguments, LoadProfile, LoadCorpus, Fetch, ErrorClasses
  <2> QED BY <2>1, <2>2, <2>3
<1>5. CASE Measure
  <2>1. CASE \E class \in ErrorClasses : Abort(class)
    BY <1>1, <2>1
  <2>2. CASE pc = "measure" /\ UNCHANGED <<pc, failure>>
    BY <2>2, UnjudgedStep DEF Reported, Verdicts
  <2>3. \/ \E class \in ErrorClasses : Abort(class)
        \/ pc = "measure" /\ UNCHANGED <<pc, failure>>
    BY <1>5 DEF Measure, Conclude, SetAside, ErrorClasses
  <2> QED BY <2>1, <2>2, <2>3
<1>6. CASE Assemble
  <2>1. CASE \E class \in ErrorClasses : Abort(class)
    BY <1>1, <2>1
  <2>2. CASE /\ report' = AssembledReport /\ pc' = "certify"
             /\ UNCHANGED <<run, args, profile, corpus, artifact, status, unusable, measured,
                            facts, failure, exit>>
    <3>1. Pending = {} /\ failure = "none"
      BY <1>6 DEF Assemble, Verdicts
    <3>2. Pending' = Pending /\ Verdict(status, Required)' = Verdict(status, Required)
      BY <2>2 DEF Pending, Selected, Verdict, Required, Passed, Failed, Undecided
    <3>3. Judged'
      BY <2>2, <3>1, <3>2 DEF Judged, AssembledReport
    <3> QED BY <2>2, <3>3 DEF Verdicts, Judged
  <2>3. \/ \E class \in ErrorClasses : Abort(class)
        \/ /\ report' = AssembledReport /\ pc' = "certify"
           /\ UNCHANGED <<run, args, profile, corpus, artifact, status, unusable, measured,
                          facts, failure, exit>>
    BY <1>6 DEF Assemble, ErrorClasses
  <2> QED BY <2>1, <2>2, <2>3
<1>7. CASE Certify \/ EmitReport \/ EmitRendering \/ EmitReceipt
  <2>1. CASE \E class \in ErrorClasses : Abort(class)
    BY <1>1, <2>1
  <2>2. CASE pc \in Reported /\ \E place \in Places \ {"exited"} : Goto(place)
    BY <2>2, GotoKeepsVerdicts
  <2>3. pc \in Reported
    BY <1>7 DEF Certify, EmitReport, EmitRendering, EmitReceipt, Reported
  <2>4. (\E class \in ErrorClasses : Abort(class)) \/ (\E place \in Places \ {"exited"} : Goto(place))
    BY <1>7 DEF Certify, EmitReport, EmitRendering, EmitReceipt, Open, Fill, WriteFails,
                Places, ErrorClasses
  <2> QED BY <2>1, <2>2, <2>3, <2>4
<1>8. CASE Finish
  <2>1. CASE Abort("ReportError")
    BY <1>1, <2>1 DEF ErrorClasses
  <2>2. CASE /\ exit' = (IF args.noFail THEN 0 ELSE ExitCode(report.status))
             /\ pc' = "exited"
             /\ UNCHANGED <<run, args, profile, corpus, artifact, status, unusable, measured,
                            facts, report, failure>>
    <3>1. Judged
      BY <1>8 DEF Finish, Verdicts, Reported
    <3>2. Judged'
      BY <2>2, <3>1, EvidenceKeepsJudgement
    <3> QED BY <2>2, <3>2 DEF Verdicts, Reported
  <2> QED BY <1>8, <2>1, <2>2 DEF Finish
<1>9. CASE Kill
  <2>1. pc' = "exited" /\ exit' \notin VerdictExits
    BY <1>9 DEF Kill, VerdictExits, Killed
  <2> QED BY <2>1 DEF Verdicts, Reported
<1> QED BY <1>2, <1>3, <1>4, <1>5, <1>6, <1>7, <1>8, <1>9
        DEF Next, Proceed, Edit, Upgrade, vars

LEMMA InitVerdicts == Init => Verdicts
BY DEF Init, Verdicts, Reported

\* The rule read backwards: what the required vectors must have done for each exit status.
LEMMA VerdictMeans ==
  ASSUME TypeOK, Judged
  PROVE  LET code == ExitCode(report.status) IN
         /\ code = 0 => Required # {} /\ \A v \in Required : status[v] = "passed"
         /\ code = 1 => /\ \E v \in Required : status[v] = "failed"
                        /\ \A v \in Required : status[v] \in {"passed", "failed"}
         /\ code = 2 => \/ Required = {}
                        \/ /\ \E v \in Required : status[v] \in {"passed", "failed"}
                           /\ \E v \in Required : status[v] \in {"error", "skipped"}
<1> DEFINE passed == Passed(status, Required)
           failed == Failed(status, Required)
           undecided == Undecided(status, Required)
           verdict == report.status
           code == ExitCode(verdict)
<1>1. \A v \in Required : v \in Vectors /\ status[v] \in VectorStatuses
  BY DEF Judged, Pending, Required, Selected, TypeOK
<1>2. \A v \in Required : v \in passed \/ v \in failed \/ v \in undecided
  BY <1>1 DEF VectorStatuses, Passed, Failed, Undecided
<1>3. verdict = CASE undecided # {} /\ passed \cup failed = {}  -> "EXECUTION_ERROR"
                  [] undecided # {} /\ passed \cup failed # {}  -> "INCONCLUSIVE"
                  [] undecided = {} /\ failed # {} /\ passed = {} -> "NON_CONFORMANT"
                  [] undecided = {} /\ failed # {} /\ passed # {} -> "PARTIALLY_CONFORMANT"
                  [] undecided = {} /\ failed = {} /\ passed = {} -> "INCONCLUSIVE"
                  [] undecided = {} /\ failed = {} /\ passed # {} -> "CONFORMANT"
  BY DEF Judged, Verdict
<1> HIDE DEF passed, failed, undecided, verdict
<1>4. code = 0 => undecided = {} /\ failed = {} /\ passed # {}
  BY <1>3 DEF ExitCode
<1>5. code = 1 => undecided = {} /\ failed # {}
  BY <1>3 DEF ExitCode
<1>6. code = 2 => \/ undecided # {} /\ passed \cup failed # {}
                  \/ undecided = {} /\ failed = {} /\ passed = {}
  BY <1>3 DEF ExitCode
<1>7. code = 0 => Required # {} /\ \A v \in Required : status[v] = "passed"
  BY <1>2, <1>4 DEF passed, failed, undecided, Passed
<1>8. code = 1 => /\ \E v \in Required : status[v] = "failed"
                  /\ \A v \in Required : status[v] \in {"passed", "failed"}
  BY <1>2, <1>5 DEF passed, failed, undecided, Passed, Failed
<1>9. code = 2 => \/ Required = {}
                  \/ /\ \E v \in Required : status[v] \in {"passed", "failed"}
                     /\ \E v \in Required : status[v] \in {"error", "skipped"}
  BY <1>2, <1>6 DEF passed, failed, undecided, Passed, Failed, Undecided
<1> QED BY <1>7, <1>8, <1>9 DEF verdict

THEOREM TypedVerdicts == Spec => [](TypeOK /\ Verdicts)
<1>1. TypeOK /\ Verdicts /\ [Next]_vars => (TypeOK /\ Verdicts)'
  BY StepKeepsTypes, StepKeepsVerdicts
<1> QED BY <1>1, InitTyped, InitVerdicts, PTL DEF Spec

\* The runner only ever holds values of its types: every recorded outcome is one the rule
\* counts and every exit status is a published one.
THEOREM TypeCorrect == Spec => []TypeOK
BY TypedVerdicts, PTL

\* No run of any corpus, however it is edited under, filtered, aborted or killed, exits 0, 1
\* or 2 unless its required vectors call for exactly that.
THEOREM VerdictsAreSound == Spec => []VerdictAccountsForAll
<1>1. TypeOK /\ Verdicts => VerdictAccountsForAll
  BY VerdictMeans DEF Verdicts, VerdictAccountsForAll, Judged
<1> QED BY <1>1, TypedVerdicts, PTL

---------------------------------------------------------------------------
(* The build a report names. *)

Pins ==
  /\ pc \notin Reported /\ pc # "exited" => report = NoReport
  /\ report # NoReport => report.build = FirstFact
  /\ \A v \in Vectors : measured[v] # Absent => facts # <<>>
  /\ args.target = "remote" /\ pc \in {"arguments", "profile", "corpus", "fetch"} =>
       measured = Nowhere /\ facts = <<>>
  /\ args.target = "remote" =>
       /\ facts # <<>> => facts[1] = artifact
       /\ \A v \in Vectors : measured[v] # Absent => measured[v] = artifact

\* Every step but Start, Fetch, Measure, Assemble and the last.
LEMMA QuietStepKeepsPins ==
  ASSUME Pins, UNCHANGED <<args, artifact, measured, facts, report>>,
         \/ pc' \in Reported /\ pc \in Reported
         \/ pc' \in {"profile", "corpus", "fetch"} /\ pc \in {"arguments", "profile", "corpus"}
         \/ UNCHANGED pc
  PROVE  Pins'
<1>1. pc' \notin Reported /\ pc' # "exited" => pc \notin Reported /\ pc # "exited"
  BY DEF Reported
<1>2. pc' \in {"arguments", "profile", "corpus", "fetch"} =>
        pc \in {"arguments", "profile", "corpus", "fetch"}
  BY DEF Reported
<1>3. pc' \notin Reported /\ pc' # "exited" => report' = NoReport'
  BY <1>1 DEF Pins, NoReport
<1>4. report' # NoReport' => report'.build = FirstFact'
  BY DEF Pins, NoReport, FirstFact
<1>5. \A v \in Vectors : measured'[v] # Absent => facts' # <<>>
  BY DEF Pins
<1>6. args'.target = "remote" /\ pc' \in {"arguments", "profile", "corpus", "fetch"} =>
        measured' = Nowhere' /\ facts' = <<>>
  BY <1>2 DEF Pins, Nowhere
<1>7. args'.target = "remote" =>
        /\ facts' # <<>> => facts'[1] = artifact'
        /\ \A v \in Vectors : measured'[v] # Absent => measured'[v] = artifact'
  BY DEF Pins
<1> QED BY <1>3, <1>4, <1>5, <1>6, <1>7 DEF Pins, Reported

LEMMA ExitKeepsPins ==
  ASSUME Pins, pc' = "exited", UNCHANGED <<args, artifact, measured, facts, report>>
  PROVE  Pins'
<1>1. pc' \notin {"arguments", "profile", "corpus", "fetch"}
  OBVIOUS
<1>2. report' # NoReport' => report'.build = FirstFact'
  BY DEF Pins, NoReport, FirstFact
<1>3. \A v \in Vectors : measured'[v] # Absent => facts' # <<>>
  BY DEF Pins
<1>4. args'.target = "remote" =>
        /\ facts' # <<>> => facts'[1] = artifact'
        /\ \A v \in Vectors : measured'[v] # Absent => measured'[v] = artifact'
  BY DEF Pins
<1> QED BY <1>1, <1>2, <1>3, <1>4 DEF Pins

LEMMA AbortKeepsPins ==
  ASSUME Pins, NEW class, Abort(class)
  PROVE  Pins'
<1>1. pc' = "exited" /\ UNCHANGED <<args, artifact, measured, facts, report>>
  BY DEF Abort
<1> QED BY <1>1, ExitKeepsPins

LEMMA StartKeepsPins ==
  ASSUME Start
  PROVE  Pins'
BY DEF Start, Pins, Nowhere, Reported

LEMMA MeasureKeepsPins ==
  ASSUME TypeOK, Pins, Measure
  PROVE  Pins'
<1>1. PICK v \in Vectors :
        \/ \E outcome \in VectorStatuses : Conclude(v, outcome)
        \/ SetAside(v)
        \/ \E class \in {"ContractResolutionError", "ExecutionError"} : Abort(class)
  BY DEF Measure
<1>2. ASSUME NEW outcome \in VectorStatuses, Conclude(v, outcome)
      PROVE  Pins'
  <2>1. pc = "measure" /\ report = NoReport
    BY DEF Measure, Pins, Reported
  <2>2. /\ measured' = [measured EXCEPT ![v] = DeployedBuild]
        /\ facts' = IF facts = <<>> THEN <<DeployedBuild>> ELSE facts
        /\ UNCHANGED <<pc, args, artifact, report>>
    BY <1>2 DEF Conclude
  <2>3. facts' # <<>>
    BY <2>2
  <2>4. ASSUME args.target = "remote"
        PROVE  /\ facts'[1] = artifact
               /\ \A w \in Vectors : measured'[w] # Absent => measured'[w] = artifact
    <3>1. DeployedBuild = artifact
      BY <2>4 DEF DeployedBuild
    <3>2. facts'[1] = artifact
      BY <2>2, <2>4, <3>1 DEF Pins
    <3>3. \A w \in Vectors : measured'[w] = IF w = v THEN artifact ELSE measured[w]
      BY <2>2, <3>1 DEF TypeOK
    <3> QED BY <2>4, <3>2, <3>3 DEF Pins
  <2> QED BY <2>1, <2>2, <2>3, <2>4 DEF Pins
<1>3. CASE SetAside(v)
  BY <1>3, QuietStepKeepsPins DEF SetAside
<1> QED BY <1>1, <1>2, <1>3, AbortKeepsPins

LEMMA StepKeepsPins ==
  ASSUME TypeOK, Pins, [Next]_vars
  PROVE  Pins'
<1>1. CASE UNCHANGED process
  BY <1>1, QuietStepKeepsPins DEF process
<1>2. CASE Start
  BY <1>2, StartKeepsPins
<1>3. CASE ParseArguments \/ LoadProfile \/ LoadCorpus
  <2>1. (\E class : Abort(class)) \/
        /\ UNCHANGED <<args, artifact, measured, facts, report>>
        /\ pc' \in {"profile", "corpus", "fetch"} /\ pc \in {"arguments", "profile", "corpus"}
    BY <1>3 DEF ParseArguments, LoadProfile, LoadCorpus
  <2> QED BY <2>1, AbortKeepsPins, QuietStepKeepsPins
<1>4. CASE Fetch
  <2>1. CASE pc = "fetch" /\ pc' = "measure" /\ UNCHANGED <<args, measured, facts, report>>
    <3>1. report = NoReport
      BY <2>1 DEF Pins, Reported
    <3>2. args.target = "remote" => measured = Nowhere /\ facts = <<>>
      BY <2>1 DEF Pins
    <3> QED BY <2>1, <3>1, <3>2 DEF Pins, Nowhere, Reported
  <2> QED BY <1>4, <2>1, AbortKeepsPins DEF Fetch
<1>5. CASE Measure
  BY <1>5, MeasureKeepsPins
<1>6. CASE Assemble
  <2>1. CASE report' = AssembledReport /\ pc = "measure" /\ pc' = "certify"
             /\ UNCHANGED <<args, artifact, measured, facts>>
    <3>1. report'.build = FirstFact /\ FirstFact' = FirstFact
      BY <2>1 DEF AssembledReport, FirstFact
    <3> QED BY <2>1, <3>1 DEF Pins, Reported
  <2> QED BY <1>6, <2>1, AbortKeepsPins DEF Assemble
<1>7. CASE Certify \/ EmitReport \/ EmitRendering \/ EmitReceipt
  <2>1. \/ \E class : Abort(class)
        \/ \E place \in Reported : Goto(place) /\ pc \in Reported
    BY <1>7 DEF Certify, EmitReport, EmitRendering, EmitReceipt, Open, Fill, WriteFails, Reported
  <2> QED BY <2>1, AbortKeepsPins, QuietStepKeepsPins DEF Goto
<1>8. CASE Finish \/ Kill
  <2>1. CASE \E class : Abort(class)
    BY <2>1, AbortKeepsPins
  <2>2. CASE pc' = "exited" /\ UNCHANGED <<args, artifact, measured, facts, report>>
    BY <2>2, ExitKeepsPins
  <2> QED BY <1>8, <2>1, <2>2 DEF Finish, Kill
<1> QED BY <1>1, <1>2, <1>3, <1>4, <1>5, <1>6, <1>7, <1>8
        DEF Next, Proceed, Edit, Upgrade, vars

\* However a deployed contract is upgraded while a run measures it, the report names the one
\* build that every vector was measured against.
THEOREM DeployedCodeIsPinned == Spec => []HashPinsTheDeployedCode
<1>1. Init => Pins
  BY DEF Init, Pins, Nowhere, Reported
<1>2. TypeOK /\ Pins /\ [Next]_vars => Pins'
  BY StepKeepsPins
<1>3. Pins => HashPinsTheDeployedCode
  BY DEF Pins, HashPinsTheDeployedCode, HashPinsTheCode, FirstFact
<1> QED BY <1>1, <1>2, <1>3, TypeCorrect, PTL DEF Spec
---------------------------------------------------------------------------
(* The documents. *)

\* What each place has already written for this run.
ReportWritten == pc \in {"rendering", "receipt", "filling receipt", "finish"} /\ args.report =>
                   store.report = ReportFile

ReceiptWritten == pc = "finish" /\ args.receipt => store.receipt = ReceiptFile

Written == ReportWritten /\ ReceiptWritten /\ DocumentsBeforeVerdict

\* The receipt at the path is an earlier run's until this run opens it.
Orderly ==
  /\ store.report.run <= run /\ store.receipt.run <= run
  /\ pc \notin {"exited", "filling receipt", "finish"} => store.receipt.run < run
  /\ ReceiptNeverAhead

\* A process that has not reached the emission, or leaves with no verdict, has nothing to
\* answer for.
LEMMA UnansweringStep ==
  ASSUME \/ pc' \notin {"rendering", "receipt", "filling receipt", "finish", "exited"}
         \/ pc' = "exited" /\ exit' \notin VerdictExits
  PROVE  Written'
BY DEF Written, ReportWritten, ReceiptWritten, DocumentsBeforeVerdict

LEMMA AbortAnswersNothing ==
  ASSUME NEW class \in ErrorClasses, Abort(class)
  PROVE  Written'
<1>1. exit' \notin VerdictExits /\ pc' = "exited"
  BY ExitCodes DEF Abort, VerdictExits
<1> QED BY <1>1, UnansweringStep

LEMMA StepKeepsWritten ==
  ASSUME TypeOK, Written, [Next]_vars
  PROVE  Written'
<1> DEFINE early == {"arguments", "profile", "corpus", "fetch", "measure", "certify", "report",
                     "filling report"}
<1>1. ASSUME NEW class \in ErrorClasses, Abort(class) PROVE Written'
  BY <1>1, AbortAnswersNothing
<1>2. CASE pc' \in early
  BY <1>2, UnansweringStep
<1>3. ASSUME UNCHANGED <<run, args, report>>, store' = [store EXCEPT !.report = ReportFile],
             pc' = "rendering"
      PROVE  Written'
  <2>1. store'.report = ReportFile'
    BY <1>3 DEF TypeOK, ReportFile
  <2> QED BY <1>3, <2>1 DEF Written, ReportWritten, ReceiptWritten, DocumentsBeforeVerdict
<1>4. CASE UNCHANGED <<process, store>>
  BY <1>4 DEF process, Written, ReportWritten, ReceiptWritten, DocumentsBeforeVerdict, ReportFile,
              ReceiptFile
<1>5. CASE Start \/ ParseArguments \/ LoadProfile \/ LoadCorpus \/ Fetch \/ Measure \/ Assemble
           \/ Certify
  <2>1. (\E class \in ErrorClasses : Abort(class)) \/ pc' \in early
    BY <1>5 DEF Start, ParseArguments, LoadProfile, LoadCorpus, Fetch, Measure, Conclude, SetAside,
                Assemble, Certify, Goto, ErrorClasses
  <2> QED BY <1>1, <1>2, <2>1
<1>6. CASE EmitReport
  <2>1. CASE ~args.report /\ Goto("rendering") /\ UNCHANGED store
    BY <2>1 DEF Goto, Written, ReportWritten, ReceiptWritten, DocumentsBeforeVerdict
  <2>2. CASE Open("report", "filling report")
    BY <1>2, <2>2 DEF Open, Goto
  <2>3. CASE Fill("report", ReportFile, "rendering")
    BY <1>3, <2>3 DEF Fill, Goto
  <2>4. CASE WriteFails
    BY <1>1, <2>4 DEF WriteFails, ErrorClasses
  <2> QED BY <1>6, <2>1, <2>2, <2>3, <2>4 DEF EmitReport
<1>7. CASE EmitRendering
  <2>1. CASE pc = "rendering" /\ Goto("receipt") /\ UNCHANGED store
    BY <2>1 DEF Goto, Written, ReportWritten, ReceiptWritten, DocumentsBeforeVerdict, ReportFile
  <2>2. CASE WriteFails
    BY <1>1, <2>2 DEF WriteFails, ErrorClasses
  <2> QED BY <1>7, <2>1, <2>2 DEF EmitRendering
<1>8. CASE EmitReceipt
  <2>1. CASE pc = "receipt" /\ ReceiptKind = "none" /\ Goto("finish") /\ UNCHANGED store
    <3>1. ~args.receipt
      BY <2>1 DEF ReceiptKind
    <3> QED
      BY <2>1, <3>1
      DEF Goto, Written, ReportWritten, ReceiptWritten, DocumentsBeforeVerdict, ReportFile
  <2>2. CASE pc = "receipt" /\ Open("receipt", "filling receipt")
    <3>1. store'.report = store.report
      BY <2>2 DEF Open, TypeOK
    <3> QED
      BY <2>2, <3>1
      DEF Open, Goto, Written, ReportWritten, ReceiptWritten, DocumentsBeforeVerdict, ReportFile
  <2>3. CASE pc = "filling receipt" /\ Fill("receipt", ReceiptFile, "finish")
    <3>1. store'.report = store.report /\ store'.receipt = ReceiptFile /\ ReceiptFile' = ReceiptFile
      BY <2>3 DEF Fill, Goto, TypeOK, ReceiptFile
    <3> QED
      BY <2>3, <3>1
      DEF Fill, Goto, Written, ReportWritten, ReceiptWritten, DocumentsBeforeVerdict, ReportFile
  <2>4. CASE Abort("InternalError") \/ WriteFails
    BY <1>1, <2>4 DEF WriteFails, ErrorClasses
  <2> QED BY <1>8, <2>1, <2>2, <2>3, <2>4 DEF EmitReceipt
<1>9. CASE Finish
  <2>1. CASE Abort("ReportError")
    BY <1>1, <2>1 DEF ErrorClasses
  <2>2. CASE /\ exit' = (IF args.noFail THEN 0 ELSE ExitCode(report.status))
             /\ pc' = "exited"
             /\ UNCHANGED <<run, args, profile, corpus, artifact, status, unusable, measured,
                            facts, report, failure>>
    <3>1. pc = "finish" /\ UNCHANGED store
      BY <1>9 DEF Finish
    <3>2. ReportFile' = ReportFile /\ ReceiptFile' = ReceiptFile
      BY <2>2 DEF ReportFile, ReceiptFile
    <3>3. DocumentsBeforeVerdict'
      BY <2>2, <3>1, <3>2 DEF Written, ReportWritten, ReceiptWritten, DocumentsBeforeVerdict
    <3> QED BY <2>2, <3>3 DEF Written, ReportWritten, ReceiptWritten
  <2> QED BY <1>9, <2>1, <2>2 DEF Finish
<1>10. CASE Kill
  BY <1>10, UnansweringStep DEF Kill, Killed, VerdictExits
<1>11. CASE Edit \/ Upgrade
  BY <1>4, <1>11 DEF Edit, Upgrade
<1> QED BY <1>4, <1>5, <1>6, <1>7, <1>8, <1>9, <1>10, <1>11 DEF Next, Proceed, vars

\* Whoever reads a verdict from the exit status finds the documents that were asked for,
\* whole and of that very run: commands/run.rs writes them all before it computes the status.
THEOREM DocumentsPrecedeVerdict == Spec => []DocumentsBeforeVerdict
<1>1. Init => Written
  BY DEF Init, Written, ReportWritten, ReceiptWritten, DocumentsBeforeVerdict
<1>2. TypeOK /\ Written /\ [Next]_vars => Written'
  BY StepKeepsWritten
<1>3. Written => DocumentsBeforeVerdict
  BY DEF Written
<1> QED BY <1>1, <1>2, <1>3, TypeCorrect, PTL DEF Spec

\* A step that leaves the documents alone.
LEMMA SilentStepKeepsOrder ==
  ASSUME Orderly, UNCHANGED <<run, store>>,
         \/ pc \notin {"exited", "filling receipt", "finish"}
         \/ pc' \in {"exited", "filling receipt", "finish"}
  PROVE  Orderly'
<1>1. UNCHANGED run /\ UNCHANGED store
  OBVIOUS
<1>2. ReceiptNeverAhead'
  BY <1>1 DEF Orderly, ReceiptNeverAhead
<1>3. pc' \notin {"exited", "filling receipt", "finish"} => store.receipt.run < run
  BY DEF Orderly
<1> QED BY <1>1, <1>2, <1>3 DEF Orderly

LEMMA Ordering ==
  \A m, n \in Nat : /\ n <= n
                    /\ m < n => m <= n /\ m # n
                    /\ m <= n => m <= n + 1 /\ m < n + 1
OBVIOUS

LEMMA StepKeepsOrder ==
  ASSUME TypeOK, Written, Orderly, [Next]_vars
  PROVE  Orderly'
<1>0. run \in Nat /\ store.report.run \in Nat /\ store.receipt.run \in Nat
  BY SizeAssumption DEF TypeOK, Files
<1>1. ASSUME NEW class, Abort(class), UNCHANGED store PROVE Orderly'
  BY <1>1, SilentStepKeepsOrder DEF Abort
<1>2. CASE UNCHANGED <<process, store>>
  BY <1>2, SilentStepKeepsOrder DEF process
<1>3. CASE Start
  <2>1. run' = run + 1 /\ UNCHANGED store
    BY <1>3 DEF Start
  <2>2. store.report.run <= run + 1 /\ store.receipt.run < run + 1 /\ store.receipt.run <= run + 1
    BY <1>0, Ordering DEF Orderly
  <2>3. ReceiptNeverAhead'
    BY <2>1 DEF Orderly, ReceiptNeverAhead
  <2> QED BY <2>1, <2>2, <2>3 DEF Orderly
<1>4. CASE \/ ParseArguments \/ LoadProfile \/ LoadCorpus \/ Fetch \/ Measure \/ Assemble
           \/ Certify \/ EmitRendering
  <2>1. /\ UNCHANGED <<run, store>>
        /\ pc \notin {"exited", "filling receipt", "finish"}
    BY <1>4 DEF ParseArguments, LoadProfile, LoadCorpus, Fetch, Measure, Conclude, SetAside,
                Assemble, Certify, EmitRendering, WriteFails, Goto, Abort
  <2> QED BY <2>1, SilentStepKeepsOrder
<1>5. CASE EmitReport
  <2>1. CASE Goto("rendering") /\ UNCHANGED store
    BY <1>5, <2>1, SilentStepKeepsOrder DEF EmitReport, Goto
  <2>2. ASSUME NEW file \in Files, file.run = run, store' = [store EXCEPT !.report = file],
               NEW place \in {"filling report", "rendering"}, Goto(place),
               pc \in {"report", "filling report"}
        PROVE  Orderly'
    <3>1. store'.report = file /\ store'.receipt = store.receipt
      BY <2>2 DEF TypeOK
    <3>2. store.receipt.run < run /\ run' = run
      BY <2>2 DEF Orderly, Goto
    <3>3. store.receipt.run <= run /\ run <= run /\ store.receipt.run # run
      BY <1>0, <3>2, Ordering
    <3>4. ReceiptNeverAhead'
      BY <2>2, <3>1, <3>3 DEF ReceiptNeverAhead
    <3> QED BY <2>2, <3>1, <3>2, <3>3, <3>4 DEF Orderly
  <2>3. Torn(run) \in Files /\ ReportFile \in Files
    BY FilesAreFiles, TypeParts
  <2>4. Torn(run).run = run /\ ReportFile.run = run
    BY DEF Torn, ReportFile
  <2>5. CASE Open("report", "filling report") \/ Fill("report", ReportFile, "rendering")
    BY <1>5, <2>2, <2>3, <2>4, <2>5 DEF EmitReport, Open, Fill
  <2> QED BY <1>1, <1>5, <2>1, <2>5 DEF EmitReport, WriteFails
<1>6. CASE EmitReceipt
  <2>1. CASE pc = "receipt" /\ Goto("finish") /\ UNCHANGED store
    BY <2>1, SilentStepKeepsOrder DEF Goto
  <2>2. CASE pc = "receipt" /\ Open("receipt", "filling receipt")
    <3>1. store'.receipt = Torn(run) /\ store'.report = store.report /\ pc' = "filling receipt"
          /\ run' = run
      BY <2>2 DEF Open, Goto, TypeOK
    <3>2. Torn(run).run = run /\ Torn(run).whole = FALSE /\ run <= run
      BY <1>0 DEF Torn
    <3>3. ReceiptNeverAhead'
      BY <3>1, <3>2 DEF ReceiptNeverAhead
    <3> QED BY <3>1, <3>2, <3>3 DEF Orderly
  <2>3. CASE pc = "filling receipt" /\ Fill("receipt", ReceiptFile, "finish")
    <3>1. store'.receipt = ReceiptFile /\ store'.report = store.report /\ pc' = "finish"
          /\ run' = run
      BY <2>3 DEF Fill, Goto, TypeOK
    <3>2. ReceiptFile.paired => store.report = ReportFile
      BY <2>3 DEF Written, ReportWritten, ReceiptFile
    <3>3. ReceiptFile.run = run /\ ReportFile.run = run /\ ReceiptFile.status = ReportFile.status
      BY DEF ReceiptFile, ReportFile
    <3>4. run <= run
      BY <1>0
    <3>5. ReceiptNeverAhead'
      BY <3>1, <3>2, <3>3, <3>4 DEF ReceiptNeverAhead
    <3> QED BY <3>1, <3>3, <3>4, <3>5 DEF Orderly
  <2> QED BY <1>1, <1>6, <2>1, <2>2, <2>3 DEF EmitReceipt, WriteFails
<1>7. CASE Finish \/ Kill
  <2>1. pc' = "exited" /\ UNCHANGED <<run, store>>
    BY <1>7 DEF Finish, Kill, Abort
  <2> QED BY <2>1, SilentStepKeepsOrder
<1>8. CASE Edit \/ Upgrade
  BY <1>2, <1>8 DEF Edit, Upgrade
<1> QED BY <1>2, <1>3, <1>4, <1>5, <1>6, <1>7, <1>8 DEF Next, Proceed, vars

\* However runs fail, are killed and follow one another over the same paths, a receipt that
\* says its report was kept is never ahead of the report beside it: commands/run.rs writes
\* the receipt last.
THEOREM ReceiptsFollowReports == Spec => []ReceiptNeverAhead
<1>1. Init => Written /\ Orderly
  BY SizeAssumption
     DEF Init, NoFile, Written, ReportWritten, ReceiptWritten, DocumentsBeforeVerdict, Orderly,
         ReceiptNeverAhead
<1>2. TypeOK /\ Written /\ Orderly /\ [Next]_vars => Written' /\ Orderly'
  BY StepKeepsWritten, StepKeepsOrder
<1>3. Orderly => ReceiptNeverAhead
  BY DEF Orderly
<1> QED BY <1>1, <1>2, <1>3, TypeCorrect, PTL DEF Spec
=============================================================================
