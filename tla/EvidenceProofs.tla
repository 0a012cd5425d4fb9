-------------------------- MODULE EvidenceProofs --------------------------
(***************************************************************************)
(* Proofs about Evidence: types, the atomicity of a resolution, what a refusal*)
(* means, and what a verified receipt says of the contract, for every set of*)
(* codes, storages, ledgers, keys, reports, edits and command lines.        *)
(***************************************************************************)
EXTENDS Evidence, TLAPS

---------------------------------------------------------------------------
(* The network only ever appends. *)

\* A step of the network closes one more ledger, a well-formed one, and touches no process.
LEMMA NetworkCloses ==
  ASSUME ResolutionTypeOK, Environment
  PROVE  /\ UNCHANGED client /\ Len(ledgers) < MaxLedgers
         /\ \E l \in Ledgers : ledgers' = Append(ledgers, l)
<1> DEFINE last == Now
<1>0. last \in Ledgers /\ Len(ledgers) \in Nat \ {0}
  BY DEF ResolutionTypeOK, Now
<1>1. ASSUME NEW c \in Codes, Upload(c) PROVE [last EXCEPT !.installed = @ \cup {c}] \in Ledgers
  BY <1>0 DEF Ledgers
<1>2. ASSUME NEW c \in Codes, Archive(c) PROVE [last EXCEPT !.installed = @ \ {c}] \in Ledgers
  BY <1>0 DEF Ledgers
<1>3. ASSUME NEW c \in Codes
      PROVE  [last EXCEPT !.instance =
                [executable |-> c, storage |-> IF @ = Nothing THEN Blank ELSE @.storage]] \in Ledgers
  BY <1>0, StorageAssumption DEF Ledgers, Instances
<1>4. ASSUME NEW s \in Storages, last.instance # Nothing
      PROVE  [last EXCEPT !.instance.storage = s] \in Ledgers
  BY <1>0, <1>4 DEF Ledgers, Instances
<1>5. CASE \E c \in Codes : Upload(c)
  BY <1>5, <1>1 DEF Upload, Close
<1>6. CASE \E c \in Codes : Archive(c)
  BY <1>6, <1>2 DEF Archive, Close
<1>7. CASE \E c \in Codes : Upgrade(c)
  BY <1>7, <1>3 DEF Upgrade, Close
<1>8. CASE \E s \in Storages : Configure(s)
  BY <1>8, <1>4 DEF Configure, Close
<1> QED BY <1>5, <1>6, <1>7, <1>8 DEF Environment

\* A ledger that has closed stays as it was.
LEMMA ClosedStays ==
  ASSUME ResolutionTypeOK, NEW l \in Ledgers, ledgers' = Append(ledgers, l), Len(ledgers) < MaxLedgers
  PROVE  /\ ledgers' \in Seq(Ledgers) /\ Len(ledgers') = Len(ledgers) + 1
         /\ Len(ledgers') \in 1..MaxLedgers
         /\ DOMAIN ledgers \subseteq DOMAIN ledgers'
         /\ \A h \in DOMAIN ledgers : ledgers'[h] = ledgers[h]
         /\ SubSeq(ledgers', 1, Len(ledgers)) = ledgers
<1>1. ledgers \in Seq(Ledgers) /\ Len(ledgers) \in Nat /\ Len(ledgers) >= 1 /\ MaxLedgers \in Nat
  BY LedgerAssumption DEF ResolutionTypeOK
<1>2. /\ ledgers' \in Seq(Ledgers) /\ Len(ledgers') = Len(ledgers) + 1
      /\ \A h \in 1..Len(ledgers) : ledgers'[h] = ledgers[h]
  BY <1>1
<1>3. SubSeq(ledgers', 1, Len(ledgers)) = ledgers
  BY <1>1, <1>2
<1> QED BY <1>1, <1>2, <1>3

---------------------------------------------------------------------------
(* Types. *)

\* Recording an answer keeps the transcript one of at most three requests.
LEMMA AskedTyped ==
  ASSUME ResolutionTypeOK, NEW key \in {"network", "instance", "code"},
         NEW h \in {NoLedger} \cup DOMAIN ledgers,
         NEW q \in Faults \cup {Sound, "without-entries", "not-instance", "not-code", "other-code"},
         Len(asked) <= 2
  PROVE  Asked(key, h, q) \in Seq(Requests) /\ Len(Asked(key, h, q)) = Len(asked) + 1
<1>1. h \in 0..MaxLedgers
  BY LedgerAssumption DEF ResolutionTypeOK, NoLedger
<1>2. [key |-> key, height |-> h, quality |-> q] \in Requests
  BY <1>1 DEF Requests
<1> QED BY <1>2 DEF Asked, ResolutionTypeOK

\* What the process has read, at each place it can be.
Progress ==
  /\ pc \in {"ready", "arguments", "lookup", "identity", "register", "stat", "read"} =>
       asked = <<>> /\ instance = Nothing /\ artifact = Nothing
  /\ pc = "instance" => Len(asked) = 1 /\ instance = Nothing /\ artifact = Nothing
  /\ pc = "code"     => Len(asked) = 2 /\ instance # Nothing /\ artifact = Nothing
  /\ pc = "place"    => artifact # Nothing
  /\ pc = "deployed" /\ artifact # Nothing => held.code = artifact.code

\* The instance is the one of the ledger that answered for it, and the artifact is that instance
\* with the code it names.
Provenance ==
  /\ instance # Nothing =>
       /\ Len(asked) >= 2 /\ asked[2].height \in DOMAIN ledgers
       /\ ledgers[asked[2].height].instance = instance /\ instance.executable \in Codes
  /\ artifact # Nothing =>
       instance # Nothing /\ artifact = [code |-> instance.executable, instance |-> instance]

ReadInv == ResolutionTypeOK /\ Progress /\ Provenance

\* A process that has not started has no command line worth the name, and no failure.
LEMMA NothingYet == NoRoute \in Routes /\ NoFailure \in [class : Classes, reason : Reasons]
<1>1. FALSE \in BOOLEAN
  OBVIOUS
<1>2. NoRoute \in Routes
  BY <1>1, Zenon DEF NoRoute, Routes
<1>3. NoFailure \in [class : Classes, reason : Reasons]
  BY DEF NoFailure, Classes, Reasons
<1> QED BY <1>2, <1>3

\* The process starts having read nothing.
LEMMA ReadInit == ResolutionInit => ReadInv
<1> SUFFICES ASSUME ResolutionInit PROVE ReadInv
  OBVIOUS
<1>1. PICK ledger \in Genesis : ledgers = <<ledger>>
  BY DEF ResolutionInit
<1>2. ledgers \in Seq(Ledgers) /\ Len(ledgers) = 1 /\ Len(ledgers) \in 1..MaxLedgers
  BY <1>1, GenesisAssumption, LedgerAssumption
<1>3. NoRoute \in Routes /\ NoFailure \in [class : Classes, reason : Reasons]
  BY NothingYet
<1> QED BY <1>2, <1>3 DEF ResolutionInit, ReadInv, ResolutionTypeOK, Progress, Provenance, Places

\* A ledger that closes changes nothing the process has read.
LEMMA ReadKeptByNetwork == ReadInv /\ Environment => ReadInv'
<1> SUFFICES ASSUME ReadInv, Environment PROVE ReadInv'
  OBVIOUS
<1>1. PICK l \in Ledgers : ledgers' = Append(ledgers, l)
  BY NetworkCloses DEF ReadInv
<1>2. UNCHANGED client /\ Len(ledgers) < MaxLedgers
  BY NetworkCloses DEF ReadInv
<1>3. /\ ledgers' \in Seq(Ledgers) /\ Len(ledgers') \in 1..MaxLedgers
      /\ DOMAIN ledgers \subseteq DOMAIN ledgers'
      /\ \A h \in DOMAIN ledgers : ledgers'[h] = ledgers[h]
  BY <1>1, <1>2, ClosedStays DEF ReadInv
<1>4. ResolutionTypeOK'
  BY <1>2, <1>3 DEF ReadInv, ResolutionTypeOK, client
<1>5. Progress'
  BY <1>2 DEF ReadInv, Progress, client
<1>6. Provenance'
  BY <1>2, <1>3 DEF ReadInv, Provenance, client
<1> QED BY <1>4, <1>5, <1>6 DEF ReadInv

\* Failing keeps whatever was read.
LEMMA ReadKeptByFail ==
  ASSUME ReadInv, NEW class \in Classes, NEW reason \in Reasons, Fail(class, reason), ledgers' = ledgers
  PROVE  ReadInv'
BY DEF ReadInv, Fail, ResolutionTypeOK, Progress, Provenance, Places

\* Moving on to a place where nothing has been read yet.
LEMMA ReadKeptByGoto ==
  ASSUME ReadInv, NEW place \in {"register", "stat", "lookup", "identity", "read"}, Goto(place),
         ledgers' = ledgers, asked = <<>>, instance = Nothing, artifact = Nothing
  PROVE  ReadInv'
BY DEF ReadInv, Goto, ResolutionTypeOK, Progress, Provenance, Places

\* Exiting forgets it.
LEMMA ReadKeptByExit == ReadInv /\ Exit => ReadInv'
<1>1. NoRoute \in Routes /\ NoFailure \in [class : Classes, reason : Reasons]
  BY NothingYet
<1> QED BY <1>1 DEF ReadInv, Exit, ResolutionTypeOK, Progress, Provenance, Places

\* Refusing on an answer keeps what was read before it.
LEMMA ReadKeptByRefusal ==
  ASSUME ReadInv, pc \in {"identity", "instance", "code"},
         NEW key \in {"network", "instance", "code"}, NEW h \in {NoLedger} \cup DOMAIN ledgers,
         NEW q \in Faults \cup {Sound, "without-entries", "not-instance", "not-code", "other-code"},
         NEW class \in Classes, NEW reason \in Reasons,
         asked' = Asked(key, h, q), pc' = "failed", ledgers' = ledgers,
         failure' = [class |-> class, reason |-> reason], UNCHANGED <<route, instance, artifact, held>>
  PROVE  ReadInv'
<1>1. Len(asked) <= 2 /\ asked \in Seq(Requests) /\ Len(asked) \in Nat
  <2>1. asked \in Seq(Requests) /\ Len(asked) \in Nat
    BY DEF ReadInv, ResolutionTypeOK
  <2>2. CASE asked = <<>>
    BY <2>1, <2>2
  <2>3. CASE Len(asked) = 1 \/ Len(asked) = 2
    <3>1. \A n \in Nat : n = 1 \/ n = 2 => n <= 2
      OBVIOUS
    <3> QED BY <2>1, <2>3, <3>1, Zenon
  <2>4. asked = <<>> \/ Len(asked) = 1 \/ Len(asked) = 2
    BY DEF ReadInv, Progress
  <2> QED BY <2>2, <2>3, <2>4
<1>2. Asked(key, h, q) \in Seq(Requests) /\ Len(Asked(key, h, q)) = Len(asked) + 1
  BY <1>1, AskedTyped DEF ReadInv
<1>3. instance # Nothing => asked'[2] = asked[2]
  BY <1>1 DEF ReadInv, Provenance, Asked
<1>4. ResolutionTypeOK'
  BY <1>1, <1>2 DEF ReadInv, ResolutionTypeOK, Places
<1>5. Progress' /\ Provenance'
  BY <1>1, <1>2, <1>3 DEF ReadInv, Progress, Provenance
<1> QED BY <1>4, <1>5 DEF ReadInv

\* Deploying keeps it, as long as what is deployed is what was read.
LEMMA ReadKeptByDeploys ==
  ASSUME ReadInv, NEW code \in Codes \cup {Nothing}, NEW storage \in Storages,
         Deploys([code |-> code, storage |-> storage]), artifact # Nothing => code = artifact.code,
         ledgers' = ledgers
  PROVE  ReadInv'
<1>1. [code |-> code, storage |-> storage] \in Held
  BY DEF Held
<1> QED BY <1>1 DEF ReadInv, Deploys, ResolutionTypeOK, Progress, Provenance, Places

---------------------------------------------------------------------------
(* Each step of a resolution keeps what was read what some ledger held, and is a step of the   *)
(* snapshot.                                                                                  *)

\* What the abstract specification allows in one step.
Allowed == [Snapshot!Next]_(Snapshot!vars)

\* The command line is read, and nothing else.
LEMMA StartReads == ReadInv /\ Start => ReadInv' /\ Allowed
BY RouteAssumption DEF ReadInv, Start, ResolutionTypeOK, Progress, Provenance, Places, Allowed,
   Snapshot!vars

\* A target that is parsed is refused, or looked for somewhere.
LEMMA TargetParsed ==
  ASSUME ReadInv, ParseTarget
  PROVE  \/ Fail("UsageError", "target") \/ Fail("UsageError", "network")
         \/ Fail("ContractResolutionError", "not-a-file")
         \/ \E place \in {"register", "stat", "lookup"} : Goto(place)
<1>1. route.contract \in {"fixture", "unknown-fixture", "empty", "wasm", "contract-id",
                          "mistyped-id", "other"}
  BY DEF ReadInv, ResolutionTypeOK, Routes
<1>2. CASE route.contract \in {"fixture", "wasm"}
  BY <1>2 DEF ParseTarget
<1>3. CASE route.contract \in {"unknown-fixture", "empty"}
  BY <1>3 DEF ParseTarget
<1>4. CASE route.contract \in {"contract-id", "mistyped-id", "other"} /\ route.network = "missing"
  BY <1>4 DEF ParseTarget
<1>5. CASE route.contract \in {"contract-id", "mistyped-id", "other"} /\ route.network # "missing"
  BY <1>5 DEF ParseTarget
<1> QED BY <1>1, <1>2, <1>3, <1>4, <1>5

\* Parsing a target fails or moves on.
LEMMA ParseReads == ReadInv /\ ParseTarget => ReadInv' /\ Allowed
<1> SUFFICES ASSUME ReadInv, ParseTarget PROVE ReadInv' /\ Allowed
  OBVIOUS
<1>1. asked = <<>> /\ instance = Nothing /\ artifact = Nothing /\ ledgers' = ledgers
  BY DEF ReadInv, Progress, ParseTarget
<1>2. \/ \E class \in Classes, reason \in Reasons : Fail(class, reason)
      \/ \E place \in {"register", "stat", "lookup"} : Goto(place)
  <2>1. /\ {"UsageError", "ContractResolutionError"} \subseteq Classes
        /\ {"target", "not-a-file", "network"} \subseteq Reasons
    BY DEF Classes, Reasons
  <2> QED BY <2>1, TargetParsed
<1>3. artifact' = artifact
  BY <1>2 DEF Fail, Goto
<1> QED BY <1>1, <1>2, <1>3, ReadKeptByFail, ReadKeptByGoto DEF Allowed, Snapshot!vars

\* So does looking the contract and the network up.
LEMMA LookupReads == ReadInv /\ Lookup => ReadInv' /\ Allowed
<1> SUFFICES ASSUME ReadInv, Lookup PROVE ReadInv' /\ Allowed
  OBVIOUS
<1>1. asked = <<>> /\ instance = Nothing /\ artifact = Nothing /\ ledgers' = ledgers
  BY DEF ReadInv, Progress, Lookup
<1>2. \/ \E class \in Classes, reason \in Reasons : Fail(class, reason)
      \/ Goto("identity")
  BY DEF Lookup, Classes, Reasons
<1>3. artifact' = artifact
  BY <1>2 DEF Fail, Goto
<1> QED BY <1>1, <1>2, <1>3, ReadKeptByFail, ReadKeptByGoto DEF Allowed, Snapshot!vars

\* A request nobody answered is a refusal.
LEMMA UnansweredReads ==
  ASSUME ReadInv, pc \in {"identity", "instance", "code"},
         NEW key \in {"network", "instance", "code"}, Unanswered(key), ledgers' = ledgers
  PROVE  ReadInv' /\ artifact' = artifact
<1>1. PICK fault \in Faults :
        asked' = Asked(key, NoLedger, fault) /\ failure' = [class |-> "NetworkError", reason |-> fault]
  BY DEF Unanswered
<1>2. fault \in Reasons /\ "NetworkError" \in Classes
  BY DEF Reasons, Classes
<1>3. pc' = "failed" /\ UNCHANGED <<route, instance, artifact, held>>
  BY DEF Unanswered
<1> QED BY <1>1, <1>2, <1>3, ReadKeptByRefusal

\* The network's identity is recorded and nothing is read of the contract.
LEMMA IdentifyReads == ReadInv /\ Identify => ReadInv' /\ Allowed
<1> SUFFICES ASSUME ReadInv, Identify PROVE ReadInv' /\ Allowed
  OBVIOUS
<1>1. /\ pc = "identity" /\ asked = <<>> /\ instance = Nothing /\ artifact = Nothing
      /\ ledgers' = ledgers
  BY DEF ReadInv, Progress, Identify
<1>2. CASE Unanswered("network")
  BY <1>1, <1>2, UnansweredReads DEF Allowed, Snapshot!vars
<1>3. CASE /\ asked' = Asked("network", NoLedger, Sound) /\ pc' = "instance"
           /\ UNCHANGED <<route, instance, artifact, held, failure>>
  <2>1. Len(asked) = 0
    BY <1>1
  <2>2. asked' \in Seq(Requests) /\ Len(asked') = 1
    BY <1>3, <2>1, AskedTyped DEF ReadInv
  <2>3. ResolutionTypeOK'
    <3>1. Len(asked') <= 3
      BY <2>2
    <3>2. pc' \in Places
      BY <1>3 DEF Places
    <3> QED BY <1>1, <1>3, <2>2, <3>1, <3>2 DEF ReadInv, ResolutionTypeOK
  <2> QED BY <1>1, <1>3, <2>2, <2>3 DEF ReadInv, Progress, Provenance, Allowed, Snapshot!vars
<1> QED BY <1>2, <1>3 DEF Identify

\* The instance read is the one of the ledger that answered.
LEMMA InstanceReads == ReadInv /\ ReadInstance => ReadInv' /\ Allowed
<1> SUFFICES ASSUME ReadInv, ReadInstance PROVE ReadInv' /\ Allowed
  OBVIOUS
<1>1. /\ pc = "instance" /\ Len(asked) = 1 /\ instance = Nothing /\ artifact = Nothing
      /\ ledgers' = ledgers
  BY DEF ReadInv, Progress, ReadInstance
<1>2. CASE Unanswered("instance")
  BY <1>1, <1>2, UnansweredReads DEF Allowed, Snapshot!vars
<1>3. ASSUME NEW h \in {NoLedger} \cup DOMAIN ledgers, NEW q \in {Sound, "without-entries", "not-instance"},
             NEW reason \in {"contract-not-found", "host-implemented-contract"},
             Refuse("instance", h, q, "ContractResolutionError", reason)
      PROVE  ReadInv' /\ Allowed
  <2>1. "ContractResolutionError" \in Classes /\ reason \in Reasons
    BY DEF Classes, Reasons
  <2>2. ReadInv'
    BY <1>1, <1>3, <2>1, ReadKeptByRefusal DEF Refuse
  <2> QED BY <1>1, <1>3, <2>2 DEF Refuse, Allowed, Snapshot!vars
<1>4. ASSUME NEW h \in DOMAIN ledgers, ledgers[h].instance # Nothing,
             ledgers[h].instance.executable # Asset, asked' = Asked("instance", h, Sound),
             instance' = ledgers[h].instance, pc' = "code", UNCHANGED <<route, artifact, held, failure>>
      PROVE  ReadInv' /\ Allowed
  <2>1. ledgers[h].instance \in Instances /\ ledgers[h].instance.executable \in Codes
    <3>1. ledgers[h] \in Ledgers
      BY DEF ReadInv, ResolutionTypeOK
    <3>2. ledgers[h].instance \in Instances
      BY <1>4, <3>1, Zenon DEF Ledgers
    <3> QED BY <1>4, <3>2 DEF Instances
  <2>2. asked' \in Seq(Requests) /\ Len(asked') = 2
    BY <1>1, <1>4, AskedTyped DEF ReadInv
  <2>3. asked'[2].height = h
    <3> DEFINE answer == [key |-> "instance", height |-> h, quality |-> Sound]
    <3>1. answer.height = h
      OBVIOUS
    <3>2. asked' = Append(asked, answer) /\ asked \in Seq(Requests)
      BY <1>4 DEF Asked, ReadInv, ResolutionTypeOK
    <3>3. answer \in Requests
      <4>1. h \in 0..MaxLedgers
        BY LedgerAssumption DEF ReadInv, ResolutionTypeOK
      <4> QED BY <4>1 DEF Requests, Sound
    <3>4. ASSUME NEW sq \in Seq(Requests), NEW x \in Requests PROVE Append(sq, x)[Len(sq) + 1] = x
      OBVIOUS
    <3>5. Len(asked) + 1 = 2
      BY <1>1
    <3>6. asked'[2] = answer
      BY <3>2, <3>3, <3>4, <3>5, Zenon
    <3> QED BY <3>1, <3>6, Zenon
  <2>4. ResolutionTypeOK'
    <3>1. Len(asked') <= 3
      BY <2>2
    <3>2. pc' \in Places
      BY <1>4 DEF Places
    <3> QED BY <1>1, <1>4, <2>1, <2>2, <3>1, <3>2 DEF ReadInv, ResolutionTypeOK
  <2>5. Progress'
    BY <1>1, <1>4, <2>2 DEF Progress
  <2>6. Provenance'
    <3>1. Len(asked') >= 2
      BY <2>2
    <3> QED BY <1>1, <1>4, <2>1, <2>3, <3>1 DEF Provenance
  <2> QED BY <1>1, <1>4, <2>4, <2>5, <2>6 DEF ReadInv, Allowed, Snapshot!vars
<1> QED BY <1>2, <1>3, <1>4 DEF ReadInstance

\* The code read is the one the instance names, so both belong to the instance's ledger.
LEMMA CodeReads == ReadInv /\ ReadCode => ReadInv' /\ Allowed
<1> SUFFICES ASSUME ReadInv, ReadCode PROVE ReadInv' /\ Allowed
  OBVIOUS
<1>1. /\ pc = "code" /\ Len(asked) = 2 /\ instance # Nothing /\ artifact = Nothing
      /\ ledgers' = ledgers
  BY DEF ReadInv, Progress, ReadCode
<1>2. /\ asked[2].height \in DOMAIN ledgers /\ ledgers[asked[2].height].instance = instance
      /\ instance.executable \in Codes /\ instance \in Instances
  BY <1>1 DEF ReadInv, Provenance, ResolutionTypeOK
<1>3. CASE Unanswered("code")
  BY <1>1, <1>3, UnansweredReads DEF Allowed, Snapshot!vars
<1>4. ASSUME NEW h \in {NoLedger} \cup DOMAIN ledgers,
             NEW q \in {Sound, "without-entries", "not-code", "other-code"},
             NEW class \in {"ContractResolutionError", "NetworkError"},
             NEW reason \in {"code-entry-missing", "not-code", "oversized", "artifact-hash-mismatch"},
             Refuse("code", h, q, class, reason)
      PROVE  ReadInv' /\ Allowed
  <2>1. class \in Classes /\ reason \in Reasons
    BY DEF Classes, Reasons
  <2>2. ReadInv'
    BY <1>1, <1>4, <2>1, ReadKeptByRefusal DEF Refuse
  <2> QED BY <1>1, <1>4, <2>2 DEF Refuse, Allowed, Snapshot!vars
<1>5. ASSUME NEW h \in DOMAIN ledgers, NEW sent \in Codes, NEW q \in {Sound, "other-code"},
             VerifyCodeHash(instance.executable, sent), asked' = Asked("code", h, q),
             artifact' = [code |-> sent, instance |-> instance], pc' = "place",
             UNCHANGED <<route, instance, held, failure>>
      PROVE  ReadInv' /\ Allowed
  <2>1. artifact' = [code |-> instance.executable, instance |-> instance] /\ artifact' \in Artifacts
    BY <1>2, <1>5 DEF VerifyCodeHash, Artifacts
  <2>2. asked' \in Seq(Requests) /\ Len(asked') = 3
    BY <1>1, <1>5, AskedTyped DEF ReadInv
  <2>3. asked'[2] = asked[2]
    BY <1>1, <1>5 DEF Asked, ReadInv, ResolutionTypeOK
  <2>4. ResolutionTypeOK'
    <3>1. Len(asked') <= 3
      BY <2>2
    <3>2. pc' \in Places
      BY <1>5 DEF Places
    <3> QED BY <1>1, <1>5, <2>1, <2>2, <3>1, <3>2 DEF ReadInv, ResolutionTypeOK
  <2>5. artifact' # Nothing
    BY <2>1, ArtifactAssumption DEF Artifacts, Instances
  <2>6. Progress'
    BY <1>5, <2>5 DEF Progress
  <2>7. Provenance'
    <3>1. Len(asked') >= 2
      BY <2>2
    <3> QED BY <1>1, <1>2, <1>5, <2>1, <2>3, <3>1 DEF Provenance
  <2>8. Snapshot!Take
    BY <1>1, <1>2, <2>1 DEF Snapshot!Take, Snapshot!Deployed, Snapshot!At
  <2> QED BY <2>4, <2>6, <2>7, <2>8 DEF ReadInv, Allowed, Snapshot!Next
<1> QED BY <1>3, <1>4, <1>5 DEF ReadCode

\* The fixture has no code to have been read.
LEMMA RegisterReads == ReadInv /\ Register => ReadInv' /\ Allowed
<1> SUFFICES ASSUME ReadInv, Register PROVE ReadInv' /\ Allowed
  OBVIOUS
<1>1. artifact = Nothing /\ ledgers' = ledgers /\ Deploys([code |-> Nothing, storage |-> Blank])
  BY DEF ReadInv, Progress, Register
<1>2. ReadInv'
  BY <1>1, StorageAssumption, ReadKeptByDeploys
<1> QED BY <1>1, <1>2 DEF Deploys, Allowed, Snapshot!vars

\* The host holds the code that was read with the storage that was read.
LEMMA PlaceReads == ReadInv /\ Place => ReadInv' /\ Allowed
<1> SUFFICES ASSUME ReadInv, Place PROVE ReadInv' /\ Allowed
  OBVIOUS
<1>1. /\ artifact # Nothing /\ instance # Nothing /\ ledgers' = ledgers
      /\ artifact = [code |-> instance.executable, instance |-> instance]
  BY DEF ReadInv, Progress, Provenance, Place
<1>2. instance.executable \in Codes /\ instance.storage \in Storages
  BY <1>1 DEF ReadInv, ResolutionTypeOK, Provenance, Instances
<1>3. \/ \E class \in Classes, reason \in Reasons : Fail(class, reason)
      \/ Deploys([code |-> instance.executable, storage |-> instance.storage])
  BY <1>1 DEF Place, Holding, Classes, Reasons
<1>4. ReadInv'
  BY <1>1, <1>2, <1>3, ReadKeptByFail, ReadKeptByDeploys
<1> QED BY <1>1, <1>3, <1>4 DEF Fail, Deploys, Allowed, Snapshot!vars

\* A file is no part of the network.
LEMMA FileReads == ReadInv /\ (Stat \/ ReadFile) => ReadInv' /\ Allowed
<1> SUFFICES ASSUME ReadInv, Stat \/ ReadFile PROVE ReadInv' /\ Allowed
  OBVIOUS
<1>1. asked = <<>> /\ instance = Nothing /\ artifact = Nothing /\ ledgers' = ledgers
  BY DEF ReadInv, Progress, Stat, ReadFile
<1>2. \/ \E class \in Classes, reason \in Reasons : Fail(class, reason)
      \/ Goto("read")
      \/ \E code \in Codes, s \in Storages : Deploys([code |-> code, storage |-> s])
  BY DEF Stat, ReadFile, Instantiate, Classes, Reasons
<1>3. ReadInv'
  BY <1>1, <1>2, ReadKeptByFail, ReadKeptByGoto, ReadKeptByDeploys
<1> QED BY <1>1, <1>2, <1>3 DEF Fail, Goto, Deploys, Allowed, Snapshot!vars

\* Exiting is forgetting.
LEMMA ExitReads == ReadInv /\ Exit => ReadInv' /\ Allowed
BY ReadKeptByExit DEF Exit, Allowed, Snapshot!Next, Snapshot!Forget

\* The network moving is the network moving.
LEMMA NetworkReads == ReadInv /\ Environment => ReadInv' /\ Allowed
<1> SUFFICES ASSUME ReadInv, Environment PROVE ReadInv' /\ Allowed
  OBVIOUS
<1>1. PICK l \in Ledgers : ledgers' = Append(ledgers, l)
  BY NetworkCloses DEF ReadInv
<1>2. UNCHANGED client /\ Len(ledgers) < MaxLedgers
  BY NetworkCloses DEF ReadInv
<1>3. Snapshot!Close
  BY <1>1, <1>2, ClosedStays DEF ReadInv, Snapshot!Close, client
<1> QED BY <1>3, ReadKeptByNetwork DEF Allowed, Snapshot!Next

\* A step that touches neither the network nor the process.
LEMMA OthersRead == ReadInv /\ UNCHANGED <<ledgers, client>> => ReadInv' /\ Allowed
BY DEF ReadInv, ResolutionTypeOK, Progress, Provenance, client, Allowed, Snapshot!vars

\* Every step of the whole is one of the above.
LEMMA EveryStepReads == ReadInv /\ [Next]_vars => ReadInv' /\ Allowed
<1> SUFFICES ASSUME ReadInv, [Next]_vars PROVE ReadInv' /\ Allowed
  OBVIOUS
<1>1. CASE Environment
  BY <1>1, NetworkReads
<1>2. CASE Invoked
  BY <1>2, StartReads DEF Invoked
<1>3. CASE Resolve
  BY <1>3, ParseReads, LookupReads, IdentifyReads, InstanceReads, CodeReads, RegisterReads,
     PlaceReads, FileReads DEF Resolve
<1>4. CASE Exit
  BY <1>4, ExitReads
<1>5. CASE UNCHANGED <<ledgers, client>>
  BY <1>5, OthersRead
<1>6. \/ Environment \/ Invoked \/ Resolve \/ Exit \/ UNCHANGED <<ledgers, client>>
  BY DEF Next, vars, Publish, PublishReceipt, Leave
<1> QED BY <1>1, <1>2, <1>3, <1>4, <1>5, <1>6

\* What a process holds of a deployed contract is the instance of the ledger that answered for it
\* and the code that instance names, whatever else the network did in the meantime
\* (client.rs resolve_on, host.rs holding).
THEOREM ReadsAreProvenanced == Spec => []ReadInv
<1>1. Init => ReadInv
  BY ReadInit DEF Init
<1>2. ReadInv /\ [Next]_vars => ReadInv'
  BY EveryStepReads
<1> QED BY <1>1, <1>2, PTL DEF Spec

\* Three requests to replicas of a moving network implement one look at one ledger: what is
\* resolved is never the storage of one version with the code of another.
THEOREM ResolutionIsAtomic == Spec => ReadsAtomically
<1>1. Init => Snapshot!Init
  <2> SUFFICES ASSUME ResolutionInit PROVE Len(ledgers) = 1 /\ artifact = Nothing
    BY DEF Init, Snapshot!Init
  <2> QED BY DEF ResolutionInit
<1>2. ReadInv /\ [Next]_vars => [Snapshot!Next]_(Snapshot!vars)
  BY EveryStepReads DEF Allowed
<1> QED BY <1>1, <1>2, ReadsAreProvenanced, PTL DEF Spec, ReadsAtomically, Snapshot!Spec

---------------------------------------------------------------------------
(* What a refusal means. *)

\* A ledger has seen the code, uploaded or named by the contract.
Knows(l, c) == c \in l.installed \/ (l.instance # Nothing /\ l.instance.executable = c)

\* Code that went missing between two ledgers.
ArchivedBy(c, h) == \E g \in 2..h : c \in ledgers[g - 1].installed \ ledgers[g].installed

\* The live ledger forgets no code but by archiving it.
Remembered ==
  \A h \in DOMAIN ledgers : \A i \in 1..h : \A c \in Codes :
    Knows(ledgers[i], c) => c \in ledgers[h].installed \/ ArchivedBy(c, h)

\* What was read when the process gave up.
Refused ==
  pc = "failed" =>
    /\ failure.class = "UsageError" => asked = <<>>
    /\ failure.class = "NetworkError" =>
         asked # <<>> /\ LastAnswer.quality \notin {Sound, "without-entries"}
    /\ failure.reason = "contract-not-found" =>
         \/ LastAnswer.quality = "without-entries"
         \/ /\ LastAnswer.quality = Sound /\ LastAnswer.height \in DOMAIN ledgers
            /\ ledgers[LastAnswer.height].instance = Nothing
    /\ failure.reason = "host-implemented-contract" =>
         \/ LastAnswer.quality = "not-instance"
         \/ /\ LastAnswer.quality = Sound /\ LastAnswer.height \in DOMAIN ledgers
            /\ ledgers[LastAnswer.height].instance # Nothing
            /\ ledgers[LastAnswer.height].instance.executable = Asset
    /\ failure.reason = "code-entry-missing" /\ LastAnswer.quality = Sound =>
         /\ instance # Nothing /\ LastAnswer.height \in DOMAIN ledgers
         /\ instance.executable \notin ledgers[LastAnswer.height].installed

\* A ledger knows only code the one before it knew, or code uploaded in it.
LEMMA NothingFromNowhere ==
  ASSUME ResolutionTypeOK, Environment, NEW c \in Codes, NEW l \in Ledgers,
         ledgers' = Append(ledgers, l), Knows(l, c)
  PROVE  c \in l.installed \/ Knows(Now, c)
<1> DEFINE last == Now
<1>0. last \in Ledgers /\ ledgers \in Seq(Ledgers)
  BY DEF ResolutionTypeOK, Now
<1>1. ASSUME NEW l2 \in Ledgers, Close(l2) PROVE l = l2
  <2>1. ledgers' = Append(ledgers, l2)
    BY <1>1 DEF Close
  <2>2. ASSUME NEW sq \in Seq(Ledgers), NEW x \in Ledgers PROVE Append(sq, x)[Len(sq) + 1] = x
    OBVIOUS
  <2> QED BY <1>0, <2>1, <2>2, Zenon
<1>2. CASE \E b \in Codes : Upload(b)
  <2>1. PICK b \in Codes : Upload(b)
    BY <1>2
  <2>2. [last EXCEPT !.installed = @ \cup {b}] \in Ledgers
    BY <1>0 DEF Ledgers
  <2>3. l = [last EXCEPT !.installed = @ \cup {b}]
    BY <1>1, <2>1, <2>2 DEF Upload
  <2> QED BY <1>0, <2>3 DEF Knows, Ledgers
<1>3. CASE \E b \in Codes : Archive(b)
  <2>1. PICK b \in Codes : Archive(b)
    BY <1>3
  <2>2. [last EXCEPT !.installed = @ \ {b}] \in Ledgers
    BY <1>0 DEF Ledgers
  <2>3. l = [last EXCEPT !.installed = @ \ {b}]
    BY <1>1, <2>1, <2>2 DEF Archive
  <2> QED BY <1>0, <2>3 DEF Knows, Ledgers
<1>4. CASE \E b \in Codes : Upgrade(b)
  <2>1. PICK b \in Codes : Upgrade(b)
    BY <1>4
  <2> DEFINE entry == [executable |-> b,
                       storage |-> IF last.instance = Nothing THEN Blank ELSE last.instance.storage]
  <2>2. [last EXCEPT !.instance = entry] \in Ledgers
    BY <1>0, StorageAssumption DEF Ledgers, Instances
  <2>3. l = [last EXCEPT !.instance = entry]
    BY <1>1, <2>1, <2>2 DEF Upgrade
  <2>4. b \in last.installed
    BY <2>1 DEF Upgrade
  <2> QED BY <1>0, <2>3, <2>4 DEF Knows, Ledgers
<1>5. CASE \E s \in Storages : Configure(s)
  <2>1. PICK s \in Storages : Configure(s)
    BY <1>5
  <2>2. last.instance # Nothing
    BY <2>1 DEF Configure
  <2>3. [last EXCEPT !.instance.storage = s] \in Ledgers
    BY <1>0, <2>2 DEF Ledgers, Instances
  <2>4. l = [last EXCEPT !.instance.storage = s]
    BY <1>1, <2>1, <2>3 DEF Configure
  <2>5. l.installed = last.installed /\ l.instance.executable = last.instance.executable
    BY <1>0, <2>2, <2>4 DEF Ledgers, Instances
  <2> QED BY <2>2, <2>5 DEF Knows
<1> QED BY <1>2, <1>3, <1>4, <1>5 DEF Environment

\* A network starts with nothing archived, and its contract's code uploaded.
LEMMA RememberedAtFirst == ResolutionInit => Remembered
<1> SUFFICES ASSUME ResolutionInit PROVE Remembered
  OBVIOUS
<1>1. PICK ledger \in Genesis : ledgers = <<ledger>>
  BY DEF ResolutionInit
<1>2. DOMAIN ledgers = {1} /\ ledgers[1] = ledger /\ Coherent(ledger)
  BY <1>1, GenesisAssumption
<1>3. \A c \in Codes : Knows(ledger, c) => c \in ledger.installed
  BY <1>2, CodeAssumption DEF Knows, Coherent
<1> QED BY <1>2, <1>3 DEF Remembered

\* The network goes on remembering.
LEMMA RememberedByNetwork == ResolutionTypeOK /\ Remembered /\ Environment => Remembered'
<1> SUFFICES ASSUME ResolutionTypeOK, Remembered, Environment,
                    NEW h \in DOMAIN ledgers', NEW i \in 1..h, NEW c \in Codes,
                    Knows(ledgers'[i], c)
             PROVE  c \in ledgers'[h].installed \/ ArchivedBy(c, h)'
  BY DEF Remembered
<1>0. PICK n \in Nat : n = Len(ledgers)
  BY DEF ResolutionTypeOK
<1>1. PICK l \in Ledgers : ledgers' = Append(ledgers, l)
  BY NetworkCloses
<1>2. /\ n \in Nat \ {0} /\ Len(ledgers') = n + 1 /\ DOMAIN ledgers = 1..n
      /\ DOMAIN ledgers' = 1..(n + 1)
      /\ \A j \in 1..n : ledgers'[j] = ledgers[j]
  BY <1>0, <1>1, NetworkCloses, ClosedStays DEF ResolutionTypeOK
<1>3. ledgers'[n + 1] = l
  BY <1>0, <1>1 DEF ResolutionTypeOK
<1>4. ASSUME NEW j \in 1..n, ArchivedBy(c, j) PROVE ArchivedBy(c, j)' /\ ArchivedBy(c, n + 1)'
  <2>1. PICK g \in 2..j : c \in ledgers[g - 1].installed \ ledgers[g].installed
    BY <1>4 DEF ArchivedBy
  <2>2. g - 1 \in 1..n /\ g \in 1..n /\ g \in 2..(n + 1)
    BY <1>2, <2>1
  <2> QED BY <1>2, <2>1, <2>2 DEF ArchivedBy
<1>5. CASE h \in 1..n
  <2>1. i \in 1..n
    BY <1>2, <1>5
  <2>2. c \in ledgers[h].installed \/ ArchivedBy(c, h)
    BY <1>2, <1>5, <2>1 DEF Remembered
  <2> QED BY <1>2, <1>4, <1>5, <2>2
<1>6. CASE h = n + 1
  <2>1. ASSUME NEW j \in 1..n, Knows(ledgers[j], c) PROVE c \in l.installed \/ ArchivedBy(c, n + 1)'
    <3>1. n \in DOMAIN ledgers /\ j \in 1..n
      BY <1>2
    <3>2. c \in ledgers[n].installed \/ ArchivedBy(c, n)
      BY <2>1, <3>1 DEF Remembered
    <3>3. CASE ArchivedBy(c, n)
      BY <1>2, <1>4, <3>3
    <3>4. CASE c \in ledgers[n].installed /\ c \notin l.installed
      <4>1. n + 1 \in 2..(n + 1) /\ (n + 1) - 1 = n /\ ledgers'[n] = ledgers[n]
        BY <1>2
      <4>2. c \in ledgers'[(n + 1) - 1].installed \ ledgers'[n + 1].installed
        BY <1>3, <3>4, <4>1, Zenon
      <4> QED BY <4>1, <4>2, Zenon DEF ArchivedBy
    <3> QED BY <3>2, <3>3, <3>4
  <2>2. CASE i \in 1..n
    <3>1. Knows(ledgers[i], c)
      BY <1>2, <2>2
    <3>2. c \in l.installed \/ ArchivedBy(c, n + 1)'
      BY <2>1, <2>2, <3>1
    <3> QED BY <1>3, <1>6, <3>2, Zenon
  <2>3. CASE i = n + 1
    <3>1. c \in l.installed \/ Knows(ledgers[n], c)
      BY <1>0, <1>1, <1>3, <2>3, NothingFromNowhere DEF Now
    <3>2. n \in 1..n
      BY <1>2
    <3>3. c \in l.installed \/ ArchivedBy(c, n + 1)'
      BY <2>1, <3>1, <3>2
    <3> QED BY <1>3, <1>6, <3>3, Zenon
  <2>4. i \in 1..n \/ i = n + 1
    BY <1>2, <1>6
  <2> QED BY <2>2, <2>3, <2>4
<1> QED BY <1>2, <1>5, <1>6

\* A failure on no answer: none was asked for, or the answers are not what it is about.
LEMMA RefusedByFail ==
  ASSUME NEW class, NEW reason, Fail(class, reason), class = "UsageError" => asked = <<>>,
         class # "NetworkError",
         reason \notin {"contract-not-found", "host-implemented-contract", "code-entry-missing"}
  PROVE  Refused'
BY DEF Fail, Refused

\* What was appended is the last.
LEMMA LastOfAppend ==
  ASSUME NEW S, NEW sq \in Seq(S), NEW x \in S
  PROVE  Append(sq, x) # <<>> /\ Append(sq, x)[Len(Append(sq, x))] = x
<1>1. Len(Append(sq, x)) = Len(sq) + 1 /\ Len(sq) \in Nat
  OBVIOUS
<1>2. Append(sq, x)[Len(sq) + 1] = x
  OBVIOUS
<1>3. Len(Append(sq, x)) # 0
  BY <1>1
<1>4. Len(<<>>) = 0
  OBVIOUS
<1>5. Append(sq, x) # <<>>
  BY <1>3, <1>4, Zenon
<1> QED BY <1>1, <1>2, <1>5, Zenon

\* A failure on an answer is about that answer, which is the last.
LEMMA RefusedByAnswer ==
  ASSUME asked \in Seq(Requests), NEW key \in {"network", "instance", "code"}, NEW h \in Nat,
         NEW q, NEW class, NEW reason,
         [key |-> key, height |-> h, quality |-> q] \in Requests,
         asked' = Asked(key, h, q), failure' = [class |-> class, reason |-> reason],
         ledgers' = ledgers, instance' = instance, class # "UsageError",
         class = "NetworkError" => q \notin {Sound, "without-entries"},
         reason = "contract-not-found" =>
           q = "without-entries" \/ (q = Sound /\ h \in DOMAIN ledgers /\ ledgers[h].instance = Nothing),
         reason = "host-implemented-contract" =>
           \/ q = "not-instance"
           \/ /\ q = Sound /\ h \in DOMAIN ledgers
              /\ ledgers[h].instance # Nothing /\ ledgers[h].instance.executable = Asset,
         reason = "code-entry-missing" /\ q = Sound =>
           /\ instance # Nothing /\ h \in DOMAIN ledgers
           /\ instance.executable \notin ledgers[h].installed
  PROVE  Refused'
<1> DEFINE answer == [key |-> key, height |-> h, quality |-> q]
<1>1. Append(asked, answer) # <<>> /\ Append(asked, answer)[Len(Append(asked, answer))] = answer
  BY LastOfAppend, Zenon
<1>2. asked' # <<>> /\ asked'[Len(asked')] = answer
  BY <1>1, Zenon DEF Asked
<1>3. LastAnswer'.height = h /\ LastAnswer'.quality = q
  BY <1>2 DEF LastAnswer
<1>4. failure'.class = class /\ failure'.reason = reason
  OBVIOUS
<1> QED BY <1>2, <1>3, <1>4, Zenon DEF Refused

\* A request nobody answered is a network error.
LEMMA RefusedUnanswered ==
  ASSUME asked \in Seq(Requests), NEW key \in {"network", "instance", "code"}, Unanswered(key),
         ledgers' = ledgers
  PROVE  Refused'
<1>1. PICK fault \in Faults :
        asked' = Asked(key, NoLedger, fault) /\ failure' = [class |-> "NetworkError", reason |-> fault]
  BY DEF Unanswered
<1>2. [key |-> key, height |-> NoLedger, quality |-> fault] \in Requests /\ NoLedger \in Nat
  BY LedgerAssumption DEF Requests, NoLedger
<1>3. /\ fault \notin {Sound, "without-entries"}
      /\ fault \notin {"contract-not-found", "host-implemented-contract", "code-entry-missing"}
  BY DEF Faults, Sound
<1>4. instance' = instance
  BY DEF Unanswered
<1> QED BY <1>1, <1>2, <1>3, <1>4, RefusedByAnswer

\* Every step of a resolution that fails says why.
LEMMA RefusedByResolve == ReadInv /\ Resolve => Refused'
<1> SUFFICES ASSUME ReadInv, Resolve PROVE Refused'
  OBVIOUS
<1>0. asked \in Seq(Requests) /\ ledgers \in Seq(Ledgers)
  BY DEF ReadInv, ResolutionTypeOK
<1>a. ASSUME NEW key \in {"network", "instance", "code"}, NEW h \in {NoLedger} \cup DOMAIN ledgers,
             NEW q \in Faults \cup {Sound, "without-entries", "not-instance", "not-code", "other-code"}
      PROVE  [key |-> key, height |-> h, quality |-> q] \in Requests /\ h \in Nat
  BY LedgerAssumption DEF Requests, NoLedger, ReadInv, ResolutionTypeOK
<1>1. CASE ParseTarget
  <2>1. asked = <<>>
    BY <1>1 DEF ReadInv, Progress, ParseTarget
  <2>2. CASE \E place \in {"register", "stat", "lookup"} : Goto(place)
    BY <2>2 DEF Goto, Refused
  <2> QED BY <1>1, <2>1, <2>2, TargetParsed, RefusedByFail
<1>2. CASE Lookup
  <2>1. asked = <<>>
    BY <1>2 DEF ReadInv, Progress, Lookup
  <2>2. CASE Goto("identity")
    BY <2>2 DEF Goto, Refused
  <2> QED BY <1>2, <2>1, <2>2, RefusedByFail DEF Lookup
<1>3. CASE Identify
  <2>1. CASE Unanswered("network")
    BY <1>0, <1>3, <2>1, RefusedUnanswered DEF Identify
  <2>2. CASE pc' = "instance"
    BY <2>2 DEF Refused
  <2> QED BY <1>3, <2>1, <2>2 DEF Identify
<1>4. CASE ReadInstance
  <2>1. CASE Unanswered("instance")
    BY <1>0, <1>4, <2>1, RefusedUnanswered DEF ReadInstance
  <2>2. CASE Refuse("instance", NoLedger, "without-entries", "ContractResolutionError",
                    "contract-not-found")
    BY <1>0, <1>4, <1>a, <2>2, RefusedByAnswer DEF ReadInstance, Refuse
  <2>3. ASSUME NEW h \in DOMAIN ledgers, ledgers[h].instance = Nothing,
               Refuse("instance", h, Sound, "ContractResolutionError", "contract-not-found")
        PROVE  Refused'
    BY <1>0, <1>4, <1>a, <2>3, RefusedByAnswer DEF ReadInstance, Refuse
  <2>6. CASE Refuse("instance", NoLedger, "not-instance", "ContractResolutionError",
                    "host-implemented-contract")
    BY <1>0, <1>4, <1>a, <2>6, RefusedByAnswer DEF ReadInstance, Refuse
  <2>4. ASSUME NEW h \in DOMAIN ledgers, ledgers[h].instance # Nothing, ledgers[h].instance.executable = Asset,
               Refuse("instance", h, Sound, "ContractResolutionError", "host-implemented-contract")
        PROVE  Refused'
    BY <1>0, <1>4, <1>a, <2>4, RefusedByAnswer DEF ReadInstance, Refuse
  <2>5. CASE pc' = "code"
    BY <2>5 DEF Refused
  <2> QED BY <1>4, <2>1, <2>2, <2>3, <2>4, <2>5, <2>6 DEF ReadInstance
<1>5. CASE ReadCode
  <2>0. instance # Nothing /\ ledgers' = ledgers
    BY <1>5 DEF ReadInv, Progress, ReadCode
  <2>1. CASE Unanswered("code")
    BY <1>0, <1>5, <2>1, RefusedUnanswered DEF ReadCode
  <2>2. ASSUME NEW h \in {NoLedger} \cup DOMAIN ledgers,
               NEW q \in {Sound, "without-entries", "not-code", "other-code"},
               NEW class \in {"ContractResolutionError", "NetworkError"},
               NEW reason \in {"code-entry-missing", "not-code", "oversized", "artifact-hash-mismatch"},
               Refuse("code", h, q, class, reason),
               class = "NetworkError" => q \notin {Sound, "without-entries"},
               reason = "code-entry-missing" /\ q = Sound =>
                 h \in DOMAIN ledgers /\ instance.executable \notin ledgers[h].installed
        PROVE  Refused'
    BY <1>0, <1>a, <2>0, <2>2, RefusedByAnswer DEF Refuse
  <2>3. CASE pc' = "place"
    BY <2>3 DEF Refused
  <2>4. "without-entries" # Sound /\ "not-code" # Sound /\ "other-code" # Sound
    BY DEF Sound
  <2>5. ASSUME NEW h \in DOMAIN ledgers, NEW sent \in Codes, NEW q \in {Sound, "other-code"},
               q = IF sent = instance.executable THEN Sound ELSE "other-code",
               ~VerifyCodeHash(instance.executable, sent),
               Refuse("code", h, q, "NetworkError", "artifact-hash-mismatch")
        PROVE  Refused'
    BY <2>2, <2>4, <2>5 DEF VerifyCodeHash
  <2> QED BY <1>5, <2>1, <2>2, <2>3, <2>4, <2>5 DEF ReadCode
<1>6. CASE Register \/ Place \/ Stat \/ ReadFile
  <2>1. \/ \E reason \in {"no-interface", "not-placed", "not-read", "not-instantiated"} :
             Fail("ContractResolutionError", reason)
        \/ pc' # "failed"
    BY <1>6 DEF Register, Place, Holding, Stat, ReadFile, Instantiate, Deploys, Goto
  <2>2. CASE pc' # "failed"
    BY <2>2 DEF Refused
  <2> QED BY <2>1, <2>2, RefusedByFail
<1> QED BY <1>1, <1>2, <1>3, <1>4, <1>5, <1>6 DEF Resolve

\* A reason given stays true.
LEMMA RefusedByEveryStep == ReadInv /\ Refused /\ [Next]_vars => Refused'
<1> SUFFICES ASSUME ReadInv, Refused, [Next]_vars PROVE Refused'
  OBVIOUS
<1>1. CASE Environment
  <2>1. PICK l \in Ledgers : ledgers' = Append(ledgers, l)
    BY <1>1, NetworkCloses DEF ReadInv
  <2>2. UNCHANGED client /\ Len(ledgers) < MaxLedgers
    BY <1>1, NetworkCloses DEF ReadInv
  <2>3. DOMAIN ledgers \subseteq DOMAIN ledgers' /\ \A h \in DOMAIN ledgers : ledgers'[h] = ledgers[h]
    BY <2>1, <2>2, ClosedStays DEF ReadInv
  <2> QED BY <2>2, <2>3 DEF Refused, LastAnswer, client
<1>2. CASE Invoked \/ Exit
  BY <1>2 DEF Refused, Invoked, Start, Exit
<1>3. CASE Resolve
  BY <1>3, RefusedByResolve
<1>4. CASE UNCHANGED <<ledgers, client>>
  BY <1>4 DEF Refused, LastAnswer, client
<1>5. \/ Environment \/ Invoked \/ Resolve \/ Exit \/ UNCHANGED <<ledgers, client>>
  BY DEF Next, vars, Publish, PublishReceipt, Leave
<1> QED BY <1>1, <1>2, <1>3, <1>4, <1>5

\* The network remembers whatever the process does.
LEMMA RememberedByEveryStep == ReadInv /\ Remembered /\ [Next]_vars => Remembered'
<1> SUFFICES ASSUME ReadInv, Remembered, [Next]_vars PROVE Remembered'
  OBVIOUS
<1>1. CASE Environment
  BY <1>1, RememberedByNetwork DEF ReadInv
<1>2. CASE ledgers' = ledgers
  BY <1>2 DEF Remembered, ArchivedBy
<1>3. Environment \/ ledgers' = ledgers
  BY DEF Next, vars, Invoked, Start, Publish, PublishReceipt, Leave, Exit, Certify, IssueRead,
     IssueWrite, VerifyRead, Verify, EditReport, EditReceipt, Resolve, ParseTarget, Lookup,
     Identify, ReadInstance, ReadCode, Register, Place, Stat, ReadFile
<1> QED BY <1>1, <1>2, <1>3

\* With what the network remembers, the reason given is the one that happened.
LEMMA ReasonsAreCauses == ReadInv /\ Refused /\ Remembered => RefusalNamesItsCause
<1> SUFFICES ASSUME ReadInv, Refused, Remembered, pc = "failed",
                    failure.reason = "code-entry-missing", LastAnswer.quality = Sound,
                    ~(LastAnswer.height < InstanceAnswer.height)
             PROVE  \E h \in 2..LastAnswer.height :
                      instance.executable \in ledgers[h - 1].installed \ ledgers[h].installed
  BY DEF RefusalNamesItsCause, Refused
<1>1. /\ instance # Nothing /\ LastAnswer.height \in DOMAIN ledgers
      /\ instance.executable \notin ledgers[LastAnswer.height].installed
  BY DEF Refused
<1>2. /\ asked[2].height \in DOMAIN ledgers /\ ledgers[asked[2].height].instance = instance
      /\ instance.executable \in Codes
  BY <1>1 DEF ReadInv, Provenance
<1>3. asked[2].height \in 1..LastAnswer.height
  <2>1. ASSUME NEW i \in DOMAIN ledgers, NEW h \in DOMAIN ledgers, ~(h < i) PROVE i \in 1..h
    BY <2>1 DEF ReadInv, ResolutionTypeOK
  <2> QED BY <1>1, <1>2, <2>1, Zenon DEF InstanceAnswer
<1>4. Knows(ledgers[asked[2].height], instance.executable)
  BY <1>1, <1>2 DEF Knows
<1>5. ArchivedBy(instance.executable, LastAnswer.height)
  BY <1>1, <1>2, <1>3, <1>4, Zenon DEF Remembered
<1> QED BY <1>5 DEF ArchivedBy

\* A refusal names what happened: in particular, code missing behind a sound answer was archived or
\* was looked for in an earlier ledger than the instance, and no ledger was ever inconsistent
\* (client.rs resolve_on, code_entry).
THEOREM RefusalsNameTheirCause == Spec => []RefusalNamesItsCause
<1>1. Init => Refused /\ Remembered
  BY RememberedAtFirst DEF Init, ResolutionInit, Refused
<1>2. ReadInv /\ Refused /\ Remembered /\ [Next]_vars => Refused' /\ Remembered'
  BY RefusedByEveryStep, RememberedByEveryStep
<1> QED BY <1>1, <1>2, ReadsAreProvenanced, ReasonsAreCauses, PTL DEF Spec

---------------------------------------------------------------------------
(* Receipts. *)

\* Of some report, and faithful to it.
Vouches(r) == \E document \in Reports : r = ReceiptOf(document)

\* Made by an issuer: of a report, and under the key it carries when it carries one.
Genuine(signed) ==
  /\ signed \in Signed /\ signed.algorithm = "ed25519" /\ Vouches(signed.receipt)
  /\ signed.public \in Keys =>
       signed.signature = [by |-> signed.public, over |-> PayloadOf(signed.receipt)]
  /\ signed.public \notin Keys => signed.signature = Missing

\* A signature of somebody who does not sign for others was issued once.
Traceable(signed) ==
  signed.signature \in Signatures /\ signed.signature.by \notin Strangers =>
    \E i \in issued : i.signed.signature = signed.signature

\* What verify says, once it has the two documents and a key.
Decided(v) ==
  v.kind = "attributed" <=>
    /\ v.trusted \in Keys /\ v.receipt.algorithm = "ed25519"
    /\ Matches(v.receipt, v.report) /\ ChecksOut(v.receipt, v.trusted)

\* The documents in circulation.
Circulating ==
  /\ CertificationTypeOK
  /\ \A i \in issued : Genuine(i.signed)
  /\ receipt \in Signed => Traceable(receipt)
  /\ verdict.receipt # Missing => Traceable(verdict.receipt) /\ Decided(verdict)
  /\ verdict.kind = "attributed" => verdict.receipt # Missing
  /\ task = "issuing" => Vouches(draft)
  /\ task = "publishing" => Genuine(draft)

\* A receipt is of its report.
LEMMA ReceiptTyped ==
  ASSUME NEW document \in Reports PROVE ReceiptOf(document) \in Receipts /\ Vouches(ReceiptOf(document))
<1>1. /\ document.remote \in BOOLEAN /\ document.code \in Hashes /\ document.status \in Statuses
  BY DEF Reports
<1>2. DigestOf(document) \in Digests
  BY DEF DigestOf, Digests
<1> QED BY <1>1, <1>2, Zenon DEF ReceiptOf, Receipts, Vouches

\* What an issuer signs is genuine.
LEMMA SigningIsGenuine ==
  ASSUME NEW key \in Keys \cup {Missing}, NEW r \in Receipts, Vouches(r)
  PROVE  Genuine(SignedBy(key, r))
<1> DEFINE signed == SignedBy(key, r)
<1>0. Missing \notin Keys
  BY KeyAssumption
<1>1. signed.public = key /\ signed.receipt = r /\ signed.algorithm = "ed25519"
  BY DEF SignedBy
<1>2. CASE key = Missing
  <2>1. signed.signature = Missing
    BY <1>2 DEF SignedBy
  <2>2. signed \in Signed
    BY <1>2, <2>1 DEF SignedBy, Signed
  <2> QED BY <1>0, <1>1, <1>2, <2>1, <2>2, Zenon DEF Genuine
<1>3. CASE key \in Keys
  <2>1. signed.signature = [by |-> key, over |-> PayloadOf(r)]
    BY <1>0, <1>3 DEF SignedBy
  <2>2. PayloadOf(r) \in [digest : Receipts]
    BY DEF PayloadOf, DigestOf
  <2>3. [by |-> key, over |-> PayloadOf(r)] \in Signatures
    BY <1>3, <2>2 DEF Signatures
  <2>4. signed \in Signed
    BY <1>0, <1>3, <2>3 DEF SignedBy, Signed
  <2> QED BY <1>1, <1>3, <2>1, <2>4, Zenon DEF Genuine
<1> QED BY <1>2, <1>3

\* No file and an unreadable one are no signed receipt, and no signature.
LEMMA Apart ==
  /\ Missing \notin Signed /\ Garbage \notin Signed
  /\ Missing \notin Reports /\ Garbage \notin Reports
  /\ Missing \notin Signatures /\ Garbage \notin Signatures
  /\ Missing \notin Keys /\ Garbage \notin Keys
BY DocumentAssumption, KeyAssumption

\* Finishing leaves no verdict of any receipt.
LEMMA FinishTyped ==
  ASSUME NEW kind \in {"none", "error"},
         NEW reason \in {"none", "ReportError", "CertificationError"}, Finish(kind, reason)
  PROVE  /\ verdict' \in Verdicts /\ verdict'.receipt = Missing /\ verdict'.kind # "attributed"
         /\ task' = "idle" /\ draft' = Missing
<1>1. NoVerdict \in Verdicts
  BY DEF NoVerdict, Verdicts
<1>2. verdict' = [NoVerdict EXCEPT !.kind = kind, !.reason = reason]
  BY DEF Finish
<1>3. verdict' \in Verdicts /\ verdict'.receipt = Missing /\ verdict'.kind = kind
  BY <1>1, <1>2 DEF NoVerdict, Verdicts
<1> QED BY <1>3 DEF Finish

---------------------------------------------------------------------------
(* Every step keeps the documents in circulation genuine or traceable. *)

\* A receipt is issued of a stored report.
LEMMA CirculatingByIssueRead == Circulating /\ IssueRead => Circulating'
<1> SUFFICES ASSUME Circulating, IssueRead PROVE Circulating'
  OBVIOUS
<1>0. UNCHANGED <<report, receipt, issued, edits>>
  BY DEF IssueRead
<1>1. \/ Finish("error", "ReportError") \/ Finish("error", "CertificationError")
      \/ /\ report \in Reports /\ task' = "issuing" /\ draft' = ReceiptOf(report)
         /\ verdict' = NoVerdict
  BY Apart DEF IssueRead, Circulating, CertificationTypeOK
<1>2. CASE Finish("error", "ReportError") \/ Finish("error", "CertificationError")
  BY <1>0, <1>2, FinishTyped DEF Circulating, CertificationTypeOK, Drafts, Traceable
<1>3. CASE /\ report \in Reports /\ task' = "issuing" /\ draft' = ReceiptOf(report)
           /\ verdict' = NoVerdict
  <2>1. NoVerdict \in Verdicts /\ NoVerdict.receipt = Missing /\ NoVerdict.kind # "attributed"
    BY DEF NoVerdict, Verdicts
  <2>2. draft' \in Receipts /\ Vouches(draft')
    BY <1>3, ReceiptTyped
  <2> QED BY <1>0, <1>3, <2>1, <2>2 DEF Circulating, CertificationTypeOK, Drafts, Traceable
<1> QED BY <1>1, <1>2, <1>3

\* A receipt that was issued is traceable, and so is what was before.
LEMMA CirculatingByIssuing ==
  ASSUME Circulating, NEW signed, Genuine(signed), NEW by \in {"certify", "run"},
         receipt' = signed, issued' = issued \cup {[by |-> by, signed |-> signed]},
         Finish("none", "none"), UNCHANGED <<report, edits>>
  PROVE  Circulating'
<1> DEFINE entry == [by |-> by, signed |-> signed]
<1>1. signed \in Signed /\ entry \in [by : {"certify", "run"}, signed : Signed] /\ entry.signed = signed
  BY DEF Genuine
<1>2. CertificationTypeOK'
  BY <1>1, FinishTyped DEF Circulating, CertificationTypeOK, Drafts
<1>3. \A i \in issued' : Genuine(i.signed)
  BY <1>1 DEF Circulating
<1>4. Traceable(receipt)'
  BY <1>1 DEF Traceable
<1> QED BY <1>2, <1>3, <1>4, FinishTyped DEF Circulating

\* The certify command writes what it signed.
LEMMA CirculatingByIssueWrite ==
  ASSUME NEW key \in Keys \cup {Missing, Garbage}, Circulating, IssueWrite(key) PROVE Circulating'
<1>1. CASE Undecodable(key)
  <2>1. Finish("error", "CertificationError") /\ UNCHANGED <<receipt, issued, report, edits>>
    BY <1>1 DEF IssueWrite
  <2> QED BY <2>1, FinishTyped DEF Circulating, CertificationTypeOK, Drafts, Traceable
<1>2. CASE ~Undecodable(key)
  <2>1. draft \in Receipts /\ Vouches(draft)
    BY DEF IssueWrite, Circulating, CertificationTypeOK, Drafts
  <2>2. key \in Keys \cup {Missing}
    BY <1>2 DEF Undecodable
  <2>3. Genuine(SignedBy(key, draft))
    BY <2>1, <2>2, SigningIsGenuine
  <2>4. /\ receipt' = SignedBy(key, draft) /\ Finish("none", "none") /\ UNCHANGED <<report, edits>>
        /\ issued' = issued \cup {[by |-> "certify", signed |-> SignedBy(key, draft)]}
    BY <1>2 DEF IssueWrite
  <2> QED BY <2>3, <2>4, CirculatingByIssuing
<1> QED BY <1>1, <1>2

\* Verification reads the report, and says nothing yet.
LEMMA CirculatingByVerifyRead == Circulating /\ VerifyRead => Circulating'
<1> SUFFICES ASSUME Circulating, VerifyRead PROVE Circulating'
  OBVIOUS
<1>0. UNCHANGED <<report, receipt, issued, edits>>
  BY DEF VerifyRead
<1>1. CASE Finish("error", "ReportError")
  BY <1>0, <1>1, FinishTyped DEF Circulating, CertificationTypeOK, Drafts, Traceable
<1>2. CASE /\ report \notin {Missing, Garbage} /\ task' = "verifying" /\ draft' = report
           /\ verdict' = NoVerdict
  <2>1. NoVerdict \in Verdicts /\ NoVerdict.receipt = Missing /\ NoVerdict.kind # "attributed"
    BY DEF NoVerdict, Verdicts
  <2>2. draft' \in Reports
    BY <1>2 DEF Circulating, CertificationTypeOK
  <2> QED BY <1>0, <1>2, <2>1, <2>2 DEF Circulating, CertificationTypeOK, Drafts, Traceable
<1> QED BY <1>1, <1>2 DEF VerifyRead

\* The order of verify's checks decides as the conjunction of them does.
LEMMA DecideDecides ==
  ASSUME NEW document \in Reports, NEW signed \in Signed, NEW trusted \in Keys \cup {Missing},
         Decide(document, signed, trusted)
  PROVE  /\ verdict' \in Verdicts /\ Decided(verdict')
         /\ verdict'.receipt = signed /\ verdict'.report = document
<1> DEFINE says(kind, reason) ==
      verdict' = [kind |-> kind, reason |-> reason, trusted |-> trusted,
                  report |-> document, receipt |-> signed]
<1>0. Missing \notin Keys
  BY Apart
<1>1. ASSUME NEW kind \in {"error", "unattributed", "attributed"},
             NEW reason \in {"none", "report-digest-mismatch", "unsupported-algorithm", "no-key",
                             "malformed-signature", "signature-invalid"},
             says(kind, reason),
             kind = "attributed" <=>
               /\ trusted \in Keys /\ signed.algorithm = "ed25519"
               /\ Matches(signed, document) /\ ChecksOut(signed, trusted)
      PROVE  /\ verdict' \in Verdicts /\ Decided(verdict')
             /\ verdict'.receipt = signed /\ verdict'.report = document
  <2>1. /\ verdict'.kind = kind /\ verdict'.trusted = trusted
        /\ verdict'.report = document /\ verdict'.receipt = signed
    BY <1>1
  <2>2. verdict' \in Verdicts
    BY <1>1 DEF Verdicts
  <2> QED BY <1>1, <2>1, <2>2, Zenon DEF Decided
<1>2. CASE ~Matches(signed, document)
  <2>1. says("error", "report-digest-mismatch")
    BY <1>2 DEF Decide, Check
  <2> QED BY <1>1, <1>2, <2>1
<1>3. CASE Matches(signed, document) /\ signed.algorithm # "ed25519"
  <2>1. says("error", "unsupported-algorithm")
    BY <1>3 DEF Decide, Check
  <2> QED BY <1>1, <1>3, <2>1
<1>4. CASE Matches(signed, document) /\ signed.algorithm = "ed25519" /\ trusted = Missing
  <2>1. says("unattributed", "no-key")
    BY <1>4 DEF Decide, Check
  <2> QED BY <1>0, <1>1, <1>4, <2>1
<1>5. CASE /\ Matches(signed, document) /\ signed.algorithm = "ed25519" /\ trusted # Missing
           /\ signed.signature \notin Signatures
  <2>1. says("error", "malformed-signature")
    BY <1>5 DEF Decide, Check, ChecksOut
  <2> QED BY <1>1, <1>5, <2>1 DEF ChecksOut
<1>6. CASE /\ Matches(signed, document) /\ signed.algorithm = "ed25519" /\ trusted # Missing
           /\ signed.signature \in Signatures /\ ~ChecksOut(signed, trusted)
  <2>1. says("error", "signature-invalid")
    BY <1>6 DEF Decide, Check
  <2> QED BY <1>1, <1>6, <2>1
<1>7. CASE /\ Matches(signed, document) /\ signed.algorithm = "ed25519" /\ trusted # Missing
           /\ ChecksOut(signed, trusted)
  <2>0. signed.signature \in Signatures
    BY <1>7 DEF ChecksOut
  <2>1. says("attributed", "none")
    BY <1>7, <2>0 DEF Decide, Check
  <2> QED BY <1>1, <1>7, <2>1
<1> QED BY <1>2, <1>3, <1>4, <1>5, <1>6, <1>7

\* A verdict is of the report in memory and of the receipt as it is now.
LEMMA CirculatingByVerify ==
  ASSUME NEW trusted \in Keys \cup {Missing, Garbage}, Circulating, Verify(trusted) PROVE Circulating'
<1>0. UNCHANGED <<report, receipt, issued, edits>>
  BY DEF Verify
<1>1. CASE Finish("error", "CertificationError")
  BY <1>0, <1>1, FinishTyped DEF Circulating, CertificationTypeOK, Drafts, Traceable
<1>2. CASE /\ receipt \notin {Missing, Garbage} /\ ~Undecodable(trusted)
           /\ task' = "idle" /\ draft' = Missing /\ Decide(draft, receipt, trusted)
  <2>1. draft \in Reports /\ receipt \in Signed /\ trusted \in Keys \cup {Missing}
    BY <1>2 DEF Verify, Circulating, CertificationTypeOK, Drafts, Undecodable
  <2>2. verdict' \in Verdicts /\ verdict'.receipt = receipt /\ Decided(verdict')
    BY <1>2, <2>1, DecideDecides
  <2>3. Traceable(verdict.receipt)'
    BY <1>0, <2>1, <2>2 DEF Circulating, Traceable
  <2>4. verdict'.receipt # Missing /\ Traceable(receipt)'
    BY <1>0, <2>1, <2>2, Apart DEF Circulating, Traceable
  <2> QED BY <1>0, <1>2, <2>2, <2>3, <2>4 DEF Circulating, CertificationTypeOK, Drafts, Decided
<1> QED BY <1>1, <1>2 DEF Verify

\* Somebody rewrites the report.
LEMMA CirculatingByEditReport == Circulating /\ EditReport => Circulating'
<1> SUFFICES ASSUME Circulating, EditReport PROVE Circulating'
  OBVIOUS
<1>1. UNCHANGED <<receipt, issued, task, draft, verdict>> /\ edits' \in 0..MaxEdits
  BY BoundAssumption DEF EditReport, Edit, Circulating, CertificationTypeOK
<1>2. report' \in Reports \cup {Missing, Garbage}
  BY LooseAssumption DEF EditReport
<1> QED BY <1>1, <1>2 DEF Circulating, CertificationTypeOK, Drafts, Traceable

\* Whatever is done to a receipt, it carries no signature of a trusted party but one it made.
LEMMA AlteredIsTraceable ==
  ASSUME Circulating, NEW signed \in Signed, Traceable(signed), NEW altered \in AlteredFrom(signed)
  PROVE  altered \in Signed /\ Traceable(altered)
<1>0. /\ signed.algorithm \in {"ed25519", "other"} /\ signed.public \in Keys \cup {Missing}
      /\ signed.signature \in Signatures \cup {Missing, Garbage} /\ signed.receipt \in Receipts
  BY DEF Signed
<1>1. ASSUME NEW s \in Statuses, altered = [signed EXCEPT !.receipt.status = s]
      PROVE  altered \in Signed /\ Traceable(altered)
  <2>1. [signed.receipt EXCEPT !.status = s] \in Receipts
    BY <1>0 DEF Receipts
  <2>2. altered = [signed EXCEPT !.receipt = [signed.receipt EXCEPT !.status = s]]
    BY <1>1
  <2>3. altered \in Signed /\ altered.signature = signed.signature
    BY <2>1, <2>2 DEF Signed
  <2> QED BY <2>3 DEF Traceable
<1>2. ASSUME NEW r \in Loose, altered = [signed EXCEPT !.receipt.about = DigestOf(r)]
      PROVE  altered \in Signed /\ Traceable(altered)
  <2>0. DigestOf(r) \in Digests
    BY LooseAssumption DEF DigestOf, Digests
  <2>1. [signed.receipt EXCEPT !.about = DigestOf(r)] \in Receipts
    BY <1>0, <2>0 DEF Receipts
  <2>2. altered = [signed EXCEPT !.receipt = [signed.receipt EXCEPT !.about = DigestOf(r)]]
    BY <1>2
  <2>3. altered \in Signed /\ altered.signature = signed.signature
    BY <2>1, <2>2 DEF Signed
  <2> QED BY <2>3 DEF Traceable
<1>3. ASSUME altered = [signed EXCEPT !.algorithm = "other"]
      PROVE  altered \in Signed /\ Traceable(altered)
  BY <1>3 DEF Signed, Traceable
<1>4. ASSUME NEW k \in Keys, altered = [signed EXCEPT !.public = k]
      PROVE  altered \in Signed /\ Traceable(altered)
  BY <1>4 DEF Signed, Traceable
<1>5. ASSUME NEW s \in {Missing, Garbage}, altered = [signed EXCEPT !.signature = s]
      PROVE  altered \in Signed /\ Traceable(altered)
  <2>1. altered \in Signed /\ altered.signature = s
    BY <1>5 DEF Signed
  <2> QED BY <2>1, Apart DEF Traceable
<1>6. ASSUME NEW i \in issued, altered = [signed EXCEPT !.signature = i.signed.signature]
      PROVE  altered \in Signed /\ Traceable(altered)
  <2>1. i.signed.signature \in Signatures \cup {Missing, Garbage}
    BY DEF Circulating, Genuine, Signed
  <2>2. altered \in Signed /\ altered.signature = i.signed.signature
    BY <1>6, <2>1 DEF Signed
  <2> QED BY <2>2 DEF Traceable
<1>7. ASSUME NEW k \in Strangers, altered = SignedBy(k, signed.receipt)
      PROVE  altered \in Signed /\ Traceable(altered)
  <2>1. k \in Keys /\ k # Missing
    BY KeyAssumption
  <2>2. altered.signature = [by |-> k, over |-> PayloadOf(signed.receipt)]
    BY <1>7, <2>1 DEF SignedBy
  <2>3. altered.signature.by = k /\ altered.signature \in Signatures
    BY <1>0, <2>1, <2>2 DEF PayloadOf, DigestOf, Signatures
  <2>4. altered \in Signed
    BY <1>0, <1>7, <2>1, <2>2, <2>3 DEF SignedBy, Signed
  <2> QED BY <2>3, <2>4 DEF Traceable
<1> QED BY <1>1, <1>2, <1>3, <1>4, <1>5, <1>6, <1>7 DEF AlteredFrom

\* Somebody rewrites the receipt.
LEMMA CirculatingByEditReceipt == Circulating /\ EditReceipt => Circulating'
<1> SUFFICES ASSUME Circulating, EditReceipt PROVE Circulating'
  OBVIOUS
<1>1. UNCHANGED <<report, issued, task, draft, verdict>> /\ edits' \in 0..MaxEdits
  BY BoundAssumption DEF EditReceipt, Edit, Circulating, CertificationTypeOK
<1>2. receipt' \in Signed \cup {Missing, Garbage} /\ (receipt' \in Signed => Traceable(receipt'))
  <2>1. CASE receipt' \in {Missing, Garbage}
    BY <2>1, Apart
  <2>2. CASE \E i \in issued : receipt' = i.signed
    BY <2>2 DEF Circulating, Genuine, Traceable
  <2>3. CASE receipt # Garbage /\ receipt' \in AlteredFrom(receipt)
    <3>1. receipt \in Signed /\ Traceable(receipt)
      BY <2>3 DEF EditReceipt, Circulating, CertificationTypeOK
    <3> QED BY <2>3, <3>1, AlteredIsTraceable
  <2> QED BY <2>1, <2>2, <2>3 DEF EditReceipt
<1>3. receipt' \in Signed => Traceable(receipt)'
  BY <1>1, <1>2 DEF Traceable
<1>4. CertificationTypeOK'
  BY <1>1, <1>2 DEF Circulating, CertificationTypeOK, Drafts
<1>5. verdict'.receipt # Missing => Traceable(verdict.receipt)' /\ Decided(verdict')
  BY <1>1 DEF Circulating, Traceable, Decided
<1> QED BY <1>1, <1>3, <1>4, <1>5 DEF Circulating

---------------------------------------------------------------------------
(* The run that writes both documents. *)

\* A deployed target is a contract in a host.
Hosted == pc = "deployed" => held \in Held

\* Every deployment places one.
LEMMA HostedByEveryStep == ReadInv /\ Hosted /\ [Next]_vars => Hosted'
<1> SUFFICES ASSUME ReadInv, Hosted, [Next]_vars PROVE Hosted'
  OBVIOUS
<1>1. CASE Environment
  <2>1. UNCHANGED client
    BY <1>1, NetworkCloses DEF ReadInv
  <2> QED BY <2>1 DEF Hosted, client
<1>2. CASE Invoked \/ Exit
  BY <1>2 DEF Hosted, Invoked, Start, Exit
<1>3. CASE Resolve
  <2>1. CASE Register
    BY <2>1, StorageAssumption DEF Register, Deploys, Hosted, Held
  <2>2. CASE Place
    <3>1. artifact.code \in Codes /\ artifact.instance.storage \in Storages
      BY <2>2 DEF Place, ReadInv, Progress, Provenance, ResolutionTypeOK, Instances
    <3> QED BY <2>2, <3>1 DEF Place, Holding, Deploys, Fail, Hosted, Held
  <2>3. CASE Stat \/ ReadFile
    BY <2>3 DEF Stat, ReadFile, Instantiate, Deploys, Fail, Goto, Hosted, Held
  <2>4. CASE ParseTarget
    BY <2>4, TargetParsed DEF Goto, Fail, Hosted
  <2>5. CASE Lookup \/ Identify \/ ReadInstance \/ ReadCode
    BY <2>5 DEF Lookup, Identify, ReadInstance, ReadCode, Unanswered, Refuse, Goto, Fail, Hosted
  <2> QED BY <1>3, <2>1, <2>2, <2>3, <2>4, <2>5 DEF Resolve
<1>4. CASE UNCHANGED client
  BY <1>4 DEF Hosted, client
<1>5. \/ Environment \/ Invoked \/ Resolve \/ Exit \/ UNCHANGED client
  BY DEF Next, vars, Publish, PublishReceipt, Leave
<1> QED BY <1>1, <1>2, <1>3, <1>4, <1>5

\* What a run measured is something a report can say.
LEMMA MeasurementTyped ==
  ASSUME Hosted, pc = "deployed", NEW status \in Statuses PROVE Measurement(status) \in Reports
<1>1. held.code \in Hashes
  BY HashAssumption DEF Hosted, Held
<1>2. (artifact # Nothing) \in BOOLEAN /\ TRUE \in BOOLEAN
  OBVIOUS
<1> QED BY <1>1, <1>2, Zenon DEF Measurement, Reports

\* A run writes its report and holds its receipt.
LEMMA CirculatingByPublish ==
  ASSUME Circulating, Hosted, NEW status \in Statuses, NEW key \in Keys \cup {Missing},
         Publish(status, key)
  PROVE  Circulating'
<1>1. Measurement(status) \in Reports
  BY MeasurementTyped DEF Publish
<1>2. Genuine(SignedBy(key, ReceiptOf(Measurement(status))))
  BY <1>1, ReceiptTyped, SigningIsGenuine
<1>3. /\ report' \in Reports /\ task' = "publishing" /\ Genuine(draft') /\ verdict' = NoVerdict
      /\ UNCHANGED <<receipt, issued, edits>>
  BY <1>1, <1>2 DEF Publish
<1>4. NoVerdict \in Verdicts /\ NoVerdict.receipt = Missing /\ NoVerdict.kind # "attributed"
  BY DEF NoVerdict, Verdicts
<1>5. draft' \in Signed
  BY <1>3 DEF Genuine
<1> QED BY <1>3, <1>4, <1>5 DEF Circulating, CertificationTypeOK, Drafts, Traceable

\* Every step keeps the documents in circulation so.
LEMMA CirculatingByEveryStep == Hosted /\ Circulating /\ [Next]_vars => Circulating'
<1> SUFFICES ASSUME Hosted, Circulating, [Next]_vars PROVE Circulating'
  OBVIOUS
<1>1. CASE Certify
  BY <1>1, CirculatingByIssueRead, CirculatingByIssueWrite, CirculatingByVerifyRead,
     CirculatingByVerify, CirculatingByEditReport, CirculatingByEditReceipt DEF Certify
<1>2. CASE \E status \in Statuses, key \in Keys \cup {Missing} : Publish(status, key)
  BY <1>2, CirculatingByPublish
<1>3. CASE PublishReceipt
  <2>1. Genuine(draft)
    BY <1>3 DEF PublishReceipt, Circulating
  <2> QED BY <1>3, <2>1, CirculatingByIssuing DEF PublishReceipt
<1>4. CASE UNCHANGED documents
  BY <1>4 DEF documents, Circulating, CertificationTypeOK, Drafts, Traceable, Decided
<1> QED BY <1>1, <1>2, <1>3, <1>4 DEF Next, vars, Invoked, Leave

\* Nothing is in circulation at first.
LEMMA CirculatingInit == CertificationInit => Circulating
<1> SUFFICES ASSUME CertificationInit PROVE Circulating
  OBVIOUS
<1>1. NoVerdict \in Verdicts /\ NoVerdict.receipt = Missing /\ NoVerdict.kind # "attributed"
  BY DEF NoVerdict, Verdicts
<1> QED BY <1>1, Apart, BoundAssumption DEF CertificationInit, Circulating, CertificationTypeOK, Drafts

\* How often somebody has run.
Counted == runs \in 0..MaxRuns

\* Nobody runs more often than that.
LEMMA CountedByEveryStep == Counted /\ [Next]_vars => Counted'
BY RunAssumption DEF Counted, Next, vars, Invoked, Publish, PublishReceipt, Leave

\* What is read, deployed and in circulation is what the types say: in particular nothing that goes
\* wrong on the way to a contract is put down to the contract (errors.rs ErrorClass).
THEOREM TypeCorrect == Spec => []TypeOK
<1>1. Init => Hosted /\ Circulating /\ Counted
  BY CirculatingInit, RunAssumption DEF Init, ResolutionInit, Hosted, Counted
<1>2. ReadInv /\ Hosted /\ Circulating /\ Counted /\ [Next]_vars => Hosted' /\ Circulating' /\ Counted'
  BY HostedByEveryStep, CirculatingByEveryStep, CountedByEveryStep
<1>3. ReadInv /\ Circulating /\ Counted => TypeOK
  BY DEF ReadInv, Circulating, Counted, TypeOK
<1> QED BY <1>1, <1>2, <1>3, ReadsAreProvenanced, PTL DEF Spec

\* Whatever was rewritten meanwhile, what circulates was made by an issuer or carries no signature
\* of one.
LEMMA CirculatesAlways == Spec => [](Hosted /\ Circulating)
<1>1. Init => Hosted /\ Circulating
  BY CirculatingInit DEF Init, ResolutionInit, Hosted
<1>2. ReadInv /\ Hosted /\ Circulating /\ [Next]_vars => Hosted' /\ Circulating'
  BY HostedByEveryStep, CirculatingByEveryStep
<1> QED BY <1>1, <1>2, ReadsAreProvenanced, PTL DEF Spec

---------------------------------------------------------------------------
(* What an attribution means. *)

\* A signature that checks out under the key of somebody who does not sign for others is on a
\* receipt that key's holder issued.
LEMMA CheckedOutWasIssued ==
  ASSUME Circulating, NEW signed \in Signed, Traceable(signed), NEW trusted \in Keys \ Strangers,
         ChecksOut(signed, trusted)
  PROVE  \E i \in issued : /\ i.signed.receipt = signed.receipt
                           /\ i.signed.signature = signed.signature
                           /\ i.signed.public = trusted
<1>1. /\ signed.signature \in Signatures /\ signed.signature.by = trusted
      /\ signed.signature.over = PayloadOf(signed.receipt)
  BY DEF ChecksOut
<1>2. PICK i \in issued : i.signed.signature = signed.signature
  BY <1>1 DEF Traceable
<1>3. Genuine(i.signed)
  BY DEF Circulating
<1>4. i.signed.public \in Keys
  BY <1>1, <1>2, <1>3, Apart DEF Genuine
<1>5. i.signed.signature = [by |-> i.signed.public, over |-> PayloadOf(i.signed.receipt)]
  BY <1>3, <1>4 DEF Genuine
<1>6. i.signed.public = trusted /\ PayloadOf(i.signed.receipt) = PayloadOf(signed.receipt)
  BY <1>1, <1>2, <1>5
<1>7. i.signed.receipt = signed.receipt
  BY <1>6 DEF PayloadOf, DigestOf
<1> QED BY <1>2, <1>6, <1>7

\* And one that was issued checks out.
LEMMA IssuedChecksOut ==
  ASSUME Circulating, NEW signed, NEW trusted \in Keys, NEW i \in issued,
         i.signed.receipt = signed.receipt, i.signed.signature = signed.signature,
         i.signed.public = trusted
  PROVE  ChecksOut(signed, trusted)
<1>1. Genuine(i.signed)
  BY DEF Circulating
<1>2. signed.signature = [by |-> trusted, over |-> PayloadOf(signed.receipt)]
  BY <1>1 DEF Genuine
<1>3. signed.signature \in Signatures
  <2>1. signed.receipt \in Receipts
    BY <1>1 DEF Genuine, Signed
  <2> QED BY <1>2, <2>1 DEF PayloadOf, DigestOf, Signatures
<1> QED BY <1>2, <1>3 DEF ChecksOut

\* A verification that names a trusted party's receipt attributes it exactly when it should.
LEMMA AttributionIsIssuance == Circulating => AttributedMeansIssued
<1> SUFFICES ASSUME Circulating, verdict.receipt # Missing, verdict.trusted \in Keys \ Strangers
             PROVE  verdict.kind = "attributed" <=>
                      /\ verdict.receipt.algorithm = "ed25519"
                      /\ verdict.receipt.receipt.about = DigestOf(verdict.report)
                      /\ \E i \in issued : /\ i.signed.receipt = verdict.receipt.receipt
                                           /\ i.signed.signature = verdict.receipt.signature
                                           /\ i.signed.public = verdict.trusted
  BY DEF AttributedMeansIssued
<1>1. verdict.receipt \in Signed /\ Traceable(verdict.receipt) /\ Decided(verdict)
  BY DEF Circulating, CertificationTypeOK, Verdicts
<1>2. ChecksOut(verdict.receipt, verdict.trusted) <=>
        \E i \in issued : /\ i.signed.receipt = verdict.receipt.receipt
                          /\ i.signed.signature = verdict.receipt.signature
                          /\ i.signed.public = verdict.trusted
  BY <1>1, CheckedOutWasIssued, IssuedChecksOut
<1> QED BY <1>1, <1>2 DEF Decided, Matches

\* An attribution to a trusted party is a receipt of theirs, about the report shown.
LEMMA AttributedIsGenuine ==
  ASSUME Circulating, verdict.kind = "attributed", verdict.trusted \notin Strangers
  PROVE  /\ verdict.receipt # Missing /\ verdict.receipt.receipt.about = DigestOf(verdict.report)
         /\ Vouches(verdict.receipt.receipt)
<1>1. /\ verdict.receipt # Missing /\ verdict.receipt \in Signed
      /\ Traceable(verdict.receipt) /\ Decided(verdict)
  BY DEF Circulating, CertificationTypeOK, Verdicts
<1>2. /\ verdict.trusted \in Keys \ Strangers /\ ChecksOut(verdict.receipt, verdict.trusted)
      /\ Matches(verdict.receipt, verdict.report)
  BY <1>1 DEF Decided
<1>3. PICK i \in issued : i.signed.receipt = verdict.receipt.receipt
  BY <1>1, <1>2, CheckedOutWasIssued
<1> QED BY <1>1, <1>2, <1>3 DEF Circulating, Genuine, Matches

\* An attributed receipt says what the report says.
LEMMA AttributedSaysTheSame == Circulating => PrintedIsTheReports
<1> SUFFICES ASSUME Circulating, verdict.kind = "attributed", verdict.trusted \notin Strangers
             PROVE  /\ verdict.receipt.receipt.status = verdict.report.status
                    /\ verdict.receipt.receipt.code = verdict.report.code
  BY DEF PrintedIsTheReports
<1>1. PICK document \in Reports : verdict.receipt.receipt = ReceiptOf(document)
  BY AttributedIsGenuine DEF Vouches
<1>2. DigestOf(document) = DigestOf(verdict.report)
  BY <1>1, AttributedIsGenuine DEF ReceiptOf
<1>3. document = verdict.report
  BY <1>2 DEF DigestOf
<1> QED BY <1>1, <1>3 DEF ReceiptOf

\* Attribution is issuance: a receipt is put down to a key one trusts exactly when the holder of
\* that key issued it about that report, for any sequence of issues and rewritings
\* (verification.rs verify, receipt.rs issue).
THEOREM OnlyIssuersAreNamed == Spec => []AttributedMeansIssued
BY CirculatesAlways, AttributionIsIssuance, PTL

\* What a verification prints is what the report says, though it prints the receipt
\* (commands/certify.rs verify).
THEOREM PrintedAgrees == Spec => []PrintedIsTheReports
BY CirculatesAlways, AttributedSaysTheSame, PTL

---------------------------------------------------------------------------
(* What an attribution says of the network. *)

\* The contract really ran the code a report names.
Ran(document) ==
  document.remote =>
    \E h \in DOMAIN ledgers : /\ ledgers[h].instance # Nothing
                              /\ ledgers[h].instance.executable = document.code

\* Where the word of a run can have got to, and that of a file nobody rewrote.
Attesting ==
  /\ \A i \in issued : i.by = "run" => Ran(i.signed.receipt.about.digest)
  /\ task = "publishing" => Ran(draft.receipt.about.digest)
  /\ edits = 0 => /\ report \in Reports => Ran(report)
                  /\ task = "verifying" => Ran(draft)
                  /\ verdict.receipt # Missing => Ran(verdict.report)

\* What a contract ran, it ran.
LEMMA RanStays ==
  ASSUME ReadInv, [Next]_vars, NEW document, Ran(document) PROVE Ran(document)'
<1>1. CASE Environment
  <2>1. PICK l \in Ledgers : ledgers' = Append(ledgers, l)
    BY <1>1, NetworkCloses DEF ReadInv
  <2>2. DOMAIN ledgers \subseteq DOMAIN ledgers' /\ \A h \in DOMAIN ledgers : ledgers'[h] = ledgers[h]
    BY <1>1, <2>1, NetworkCloses, ClosedStays DEF ReadInv
  <2> QED BY <2>2 DEF Ran
<1>2. CASE ledgers' = ledgers
  BY <1>2 DEF Ran
<1>3. Environment \/ ledgers' = ledgers
  BY DEF Next, vars, Invoked, Start, Publish, PublishReceipt, Leave, Exit, Certify, IssueRead,
     IssueWrite, VerifyRead, Verify, EditReport, EditReceipt, Resolve, ParseTarget, Lookup,
     Identify, ReadInstance, ReadCode, Register, Place, Stat, ReadFile
<1> QED BY <1>1, <1>2, <1>3

\* What is measured of a deployed contract is the code some ledger had it run.
LEMMA MeasuredRan ==
  ASSUME ReadInv, pc = "deployed", NEW status \in Statuses PROVE Ran(Measurement(status))
<1> SUFFICES ASSUME artifact # Nothing
             PROVE  \E h \in DOMAIN ledgers : /\ ledgers[h].instance # Nothing
                                              /\ ledgers[h].instance.executable = held.code
  BY DEF Ran, Measurement
<1>1. /\ instance # Nothing /\ artifact.code = instance.executable
      /\ asked[2].height \in DOMAIN ledgers /\ ledgers[asked[2].height].instance = instance
  BY DEF ReadInv, Provenance
<1>2. held.code = artifact.code
  BY DEF ReadInv, Progress
<1> QED BY <1>1, <1>2

\* Nothing attests to anything at first.
LEMMA AttestingInit == CertificationInit => Attesting
BY Apart DEF CertificationInit, Attesting, NoVerdict

\* A run attests to what it read.
LEMMA AttestingByPublish ==
  ASSUME ReadInv, Circulating, Attesting, NEW status \in Statuses, NEW key \in Keys \cup {Missing},
         Publish(status, key)
  PROVE  Attesting'
<1> DEFINE document == Measurement(status)
<1>0. /\ report' = document /\ task' = "publishing" /\ draft' = SignedBy(key, ReceiptOf(document))
      /\ verdict' = NoVerdict /\ issued' = issued /\ ledgers' = ledgers
  BY DEF Publish, Exit
<1>1. PICK d : d = document   \* its value now
  OBVIOUS
<1>2. Ran(d)
  BY <1>1, MeasuredRan DEF Publish
<1>3. Ran(d)'
  BY <1>0, <1>2 DEF Ran
<1>4. draft'.receipt.about.digest = d /\ report' = d /\ verdict'.receipt = Missing
  BY <1>0, <1>1 DEF SignedBy, ReceiptOf, DigestOf, NoVerdict
<1>5. Ran(draft.receipt.about.digest)' /\ Ran(report)'
  BY <1>0, <1>2, <1>4 DEF Ran
<1>6. \A i \in issued' : i.by = "run" => Ran(i.signed.receipt.about.digest)'
  BY <1>0 DEF Attesting, Ran
<1> QED BY <1>0, <1>4, <1>5, <1>6 DEF Attesting

\* A run's receipt attests to what its report does.
LEMMA AttestingByPublishReceipt == Circulating /\ Attesting /\ PublishReceipt => Attesting'
<1> SUFFICES ASSUME Circulating, Attesting, PublishReceipt PROVE Attesting'
  OBVIOUS
<1>1. /\ issued' = issued \cup {[by |-> "run", signed |-> draft]} /\ UNCHANGED <<ledgers, report, edits>>
      /\ Finish("none", "none") /\ Ran(draft.receipt.about.digest)
  BY DEF PublishReceipt, Attesting
<1>2. task' = "idle" /\ verdict'.receipt = Missing
  BY <1>1, FinishTyped
<1>3. \A i \in issued' : i.by = "run" => Ran(i.signed.receipt.about.digest)'
  BY <1>1 DEF Attesting, Ran
<1>4. edits' = 0 /\ report' \in Reports => Ran(report)'
  BY <1>1 DEF Attesting, Ran
<1> QED BY <1>2, <1>3, <1>4 DEF Attesting

\* The certify command attests to no more than the file it read.
LEMMA AttestingByCertify ==
  Circulating /\ Attesting /\ Certify /\ ledgers' = ledgers => Attesting'
<1> SUFFICES ASSUME Circulating, Attesting, Certify, ledgers' = ledgers PROVE Attesting'
  OBVIOUS
<1>0. ASSUME NEW kind \in {"none", "error"},
             NEW reason \in {"none", "ReportError", "CertificationError"}, Finish(kind, reason)
      PROVE  verdict'.receipt = Missing /\ task' = "idle"
  BY <1>0, FinishTyped
<1>1. CASE IssueRead
  <2>1. UNCHANGED <<report, issued, edits>>
    BY <1>1 DEF IssueRead
  <2>2. verdict'.receipt = Missing /\ task' \in {"idle", "issuing"}
    <3>1. \/ Finish("error", "ReportError") \/ Finish("error", "CertificationError")
          \/ task' = "issuing" /\ verdict' = NoVerdict
      BY <1>1 DEF IssueRead, Circulating, CertificationTypeOK
    <3> QED BY <1>0, <3>1 DEF NoVerdict
  <2> QED BY <2>1, <2>2 DEF Attesting, Ran
<1>2. CASE \E key \in Keys \cup {Missing, Garbage} : IssueWrite(key)
  <2>1. PICK key \in Keys \cup {Missing, Garbage} : IssueWrite(key)
    BY <1>2
  <2>2. UNCHANGED <<report, edits>> /\ verdict'.receipt = Missing /\ task' = "idle"
    BY <1>0, <2>1 DEF IssueWrite
  <2>3. \A i \in issued' : i.by = "run" => i \in issued
    BY <2>1 DEF IssueWrite
  <2> QED BY <2>2, <2>3 DEF Attesting, Ran
<1>3. CASE VerifyRead
  <2>1. UNCHANGED <<report, issued, edits>>
    BY <1>3 DEF VerifyRead
  <2>2. /\ verdict'.receipt = Missing
        /\ task' = "idle" \/ (task' = "verifying" /\ draft' = report /\ report \in Reports)
    <3>1. \/ Finish("error", "ReportError")
          \/ /\ task' = "verifying" /\ draft' = report /\ verdict' = NoVerdict /\ report \in Reports
      BY <1>3 DEF VerifyRead, Circulating, CertificationTypeOK
    <3> QED BY <1>0, <3>1 DEF NoVerdict
  <2> QED BY <2>1, <2>2 DEF Attesting, Ran
<1>4. CASE \E trusted \in Keys \cup {Missing, Garbage} : Verify(trusted)
  <2>1. PICK trusted \in Keys \cup {Missing, Garbage} : Verify(trusted)
    BY <1>4
  <2>2. UNCHANGED <<report, issued, edits>> /\ task = "verifying" /\ task' = "idle"
    BY <1>0, <2>1 DEF Verify
  <2>3. CASE Finish("error", "CertificationError")
    BY <1>0, <2>2, <2>3 DEF Attesting, Ran
  <2>4. CASE /\ receipt \notin {Missing, Garbage} /\ ~Undecodable(trusted)
             /\ Decide(draft, receipt, trusted)
    <3>0. draft \in Reports /\ receipt \in Signed /\ trusted \in Keys \cup {Missing}
      BY <2>2, <2>4 DEF Circulating, CertificationTypeOK, Drafts, Undecodable
    <3>1. verdict'.report = draft
      BY <2>4, <3>0, DecideDecides
    <3> QED BY <2>2, <3>1 DEF Attesting, Ran
  <2> QED BY <2>1, <2>3, <2>4 DEF Verify
<1>5. CASE EditReport \/ EditReceipt
  <2>1. edits' # 0 /\ UNCHANGED <<issued, task, draft>>
    BY <1>5 DEF EditReport, EditReceipt, Edit, Circulating, CertificationTypeOK
  <2> QED BY <2>1 DEF Attesting, Ran
<1> QED BY <1>1, <1>2, <1>3, <1>4, <1>5 DEF Certify

\* Nothing else touches a document.
LEMMA AttestingByOthers ==
  ASSUME ReadInv, Attesting, [Next]_vars, UNCHANGED documents PROVE Attesting'
<1>1. \A i \in issued' : i.by = "run" => Ran(i.signed.receipt.about.digest)'
  <2> SUFFICES ASSUME NEW i \in issued, i.by = "run" PROVE Ran(i.signed.receipt.about.digest)'
    BY DEF documents
  <2> QED BY RanStays DEF Attesting
<1>2. PICK d, r, v : d = draft /\ r = report /\ v = verdict   \* their values now
  OBVIOUS
<1>3. task' = "publishing" => Ran(draft.receipt.about.digest)'
  <2>1. task = "publishing" => Ran(d.receipt.about.digest)'
    BY <1>2, RanStays DEF Attesting
  <2> QED BY <1>2, <2>1 DEF documents, Ran
<1>4. edits' = 0 => /\ report' \in Reports => Ran(report)'
                    /\ task' = "verifying" => Ran(draft)'
                    /\ verdict'.receipt # Missing => Ran(verdict.report)'
  <2>1. edits = 0 => /\ r \in Reports => Ran(r)'
                     /\ task = "verifying" => Ran(d)'
                     /\ v.receipt # Missing => Ran(v.report)'
    BY <1>2, RanStays DEF Attesting
  <2> QED BY <1>2, <2>1 DEF documents, Ran
<1> QED BY <1>1, <1>3, <1>4 DEF Attesting

\* Every step keeps to it.
LEMMA AttestingByEveryStep == ReadInv /\ Circulating /\ Attesting /\ [Next]_vars => Attesting'
<1> SUFFICES ASSUME ReadInv, Circulating, Attesting, [Next]_vars PROVE Attesting'
  OBVIOUS
<1> QED BY AttestingByPublish, AttestingByPublishReceipt, AttestingByCertify, AttestingByOthers
        DEF Next, vars, Invoked, Leave

\* What is attributed to a trusted party is of a report the contract's code answers for.
LEMMA AttributionIsOfRanCode == Circulating /\ Attesting => AttestedCodeRan
<1> SUFFICES ASSUME Circulating, Attesting, verdict.kind = "attributed",
                    verdict.trusted \notin Strangers, verdict.report.remote,
                    edits = 0 \/ [by |-> "run", signed |-> verdict.receipt] \in issued
             PROVE  Ran(verdict.report)
  BY DEF AttestedCodeRan, Ran
<1>1. /\ verdict.receipt # Missing
      /\ verdict.receipt.receipt.about = DigestOf(verdict.report)
  BY AttributedIsGenuine
<1>2. CASE edits = 0
  BY <1>1, <1>2 DEF Attesting
<1>3. CASE [by |-> "run", signed |-> verdict.receipt] \in issued
  <2>1. Ran(verdict.receipt.receipt.about.digest)
    BY <1>3 DEF Attesting
  <2>2. verdict.receipt.receipt.about.digest = verdict.report
    BY <1>1 DEF DigestOf
  <2> QED BY <2>1, <2>2
<1> QED BY <1>2, <1>3

\* From the network to the reader: who verifies a run's receipt under a key they trust learns of
\* code that contract ran, whatever the network, the files and other issuers did in between
\* (client.rs resolve_on, commands/run.rs emit, verification.rs verify).
THEOREM AttestedCodeReallyRan == Spec => []AttestedCodeRan
<1>1. Init => Attesting
  BY AttestingInit DEF Init
<1>2. ReadInv /\ Circulating /\ Attesting /\ [Next]_vars => Attesting'
  BY AttestingByEveryStep
<1> QED BY <1>1, <1>2, ReadsAreProvenanced, CirculatesAlways, AttributionIsOfRanCode, PTL DEF Spec
=============================================================================
