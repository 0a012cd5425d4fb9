----------------------------- MODULE Resolution -----------------------------
(***************************************************************************)
(* From a `--contract` argument to a contract in a local host: Target::parse,  *)
(* Target::fetch and deploy (crates/estamora-cli: engine/target.rs), the RPC   *)
(* client (crates/estamora-soroban: client.rs), and the host a deployed         *)
(* contract is placed in (host.rs).                                             *)
(*                                                                         *)
(* A deployed contract is read with three requests, getNetwork and then two      *)
(* getLedgerEntries, and each may be answered by another replica, at a ledger    *)
(* of its own, while the contract is configured, upgraded and archived.  A code  *)
(* stands for its bytes and for their hash alike; a hash is taken to name one    *)
(* sequence of bytes.                                                            *)
(***************************************************************************)
EXTENDS Naturals, Sequences

CONSTANTS
  Nothing,      \* no entry, no artifact
  Asset,        \* the executable of a contract the host implements itself
  Codes,        \* the code in play
  Oversized,    \* code above the limits (MAX_ARTIFACT_BYTES)
  Opaque,       \* code that publishes no spec section that can be read
  Uninstantiable,  \* code whose constructor wants arguments, or fails
  Storages,     \* what a contract's instance storage can hold
  Blank,        \* the storage of an instance nobody initialised
  Genesis,      \* the ledgers the network may be at to begin with
  CommandLines, \* the command lines in play
  MaxLedgers    \* how many ledgers may close

ASSUME CodeAssumption == Asset \notin Codes /\ Nothing \notin Codes
ASSUME StorageAssumption == Blank \in Storages
ASSUME InstanceAssumption ==
  Nothing \notin [executable : Codes \cup {Asset}, storage : Storages]
ASSUME ArtifactAssumption ==
  Nothing \notin [code : Codes, instance : [executable : Codes \cup {Asset}, storage : Storages]]

Instances == [executable : Codes \cup {Asset}, storage : Storages]
Artifacts == [code : Codes, instance : Instances]
Ledgers   == [instance : Instances \cup {Nothing}, installed : SUBSET Codes]

\* What --contract can be, and --network: given, missing, or naming no network this build
\* knows.  ESTAMORA_RPC_URL may name an endpoint, which makes any network name one.
Routes == [contract : {"fixture", "unknown-fixture", "empty", "wasm", "contract-id",
                       "mistyped-id", "other"},
           network : {"known", "unknown", "missing"}, endpoint : BOOLEAN]

\* A ledger in which no live contract names code that was never uploaded.
Coherent(ledger) ==
  ledger.instance = Nothing \/ ledger.instance.executable \in ledger.installed \cup {Asset}

ASSUME GenesisAssumption ==
  Genesis \subseteq Ledgers /\ \A ledger \in Genesis : Coherent(ledger)
ASSUME RouteAssumption == CommandLines \subseteq Routes
ASSUME LedgerAssumption == MaxLedgers \in Nat \ {0}

VARIABLES
  \* The network
  ledgers,   \* every ledger closed so far: the contract's instance entry and the code entries
  \* One process
  pc,
  route,     \* the command line: the contract and network it names
  asked,     \* the requests made: which entry, the ledger that answered, what was wrong with it
  instance,  \* the instance entry, once read
  artifact,  \* what Target::fetch returned
  held,      \* what the local host holds once the target is deployed
  failure    \* the class of the error that ended it, and the reason it carries

client == <<pc, route, asked, instance, artifact, held, failure>>

---------------------------------------------------------------------------
(* The network. *)

Now == ledgers[Len(ledgers)]

Close(ledger) ==
  /\ Len(ledgers) < MaxLedgers
  /\ ledgers' = Append(ledgers, ledger)
  /\ UNCHANGED client

\* Code has to be uploaded before a contract can name it, and leaves the live ledger when
\* its time to live runs out.
Upload(c)  == c \notin Now.installed /\ Close([Now EXCEPT !.installed = @ \cup {c}])
Archive(c) == c \in Now.installed /\ Close([Now EXCEPT !.installed = @ \ {c}])

\* The contract is created, or moves to other code and keeps its storage.
Upgrade(c) ==
  /\ c \in Now.installed /\ (Now.instance # Nothing => Now.instance.executable # Asset)
  /\ Close([Now EXCEPT !.instance =
       [executable |-> c, storage |-> IF @ = Nothing THEN Blank ELSE @.storage]])

Configure(s) ==
  /\ Now.instance # Nothing /\ s # Now.instance.storage
  /\ Close([Now EXCEPT !.instance.storage = s])

Environment ==
  \/ \E c \in Codes : Upload(c) \/ Archive(c) \/ Upgrade(c)
  \/ \E s \in Storages : Configure(s)
---------------------------------------------------------------------------
(* The command line. *)

NoRoute   == [contract |-> "empty", network |-> "missing", endpoint |-> FALSE]
NoFailure == [class |-> "none", reason |-> "none"]

Fail(class, reason) ==
  /\ pc' = "failed" /\ failure' = [class |-> class, reason |-> reason]
  /\ UNCHANGED <<route, asked, instance, artifact, held>>

Goto(place) == pc' = place /\ UNCHANGED <<route, asked, instance, artifact, held, failure>>

Start ==
  /\ pc = "ready" /\ pc' = "arguments" /\ route' \in CommandLines
  /\ UNCHANGED <<ledgers, asked, instance, artifact, held, failure>>

\* The process exits, and nothing of what it read outlives it.
Exit ==
  /\ pc' = "ready" /\ route' = NoRoute /\ asked' = <<>>
  /\ instance' = Nothing /\ artifact' = Nothing /\ held' = Nothing /\ failure' = NoFailure
  /\ UNCHANGED ledgers

\* Target::parse.  A contract identifier is checked for its shape only.
ParseTarget ==
  /\ pc = "arguments"
  /\ CASE route.contract = "fixture"                             -> Goto("register")
       [] route.contract \in {"unknown-fixture", "empty"}         -> Fail("UsageError", "target")
       [] route.contract = "wasm"                                 ->
            Goto("stat") \/ Fail("ContractResolutionError", "not-a-file")
       [] route.contract \in {"contract-id", "mistyped-id", "other"} /\ route.network = "missing" ->
            Fail("UsageError", "network")
       [] route.contract = "other" /\ route.network # "missing"   -> Fail("UsageError", "target")
       [] route.contract \in {"contract-id", "mistyped-id"} /\ route.network # "missing" ->
            Goto("lookup")
  /\ UNCHANGED ledgers

\* parse_contract_id, which checks the checksum.
NamesAContract == route.contract = "contract-id"

\* Network::lookup.
NamesANetwork == route.endpoint \/ route.network = "known"

Lookup ==
  /\ pc = "lookup"
  /\ IF NamesAContract /\ NamesANetwork
     THEN Goto("identity") ELSE Fail("UsageError", "target")
  /\ UNCHANGED ledgers
---------------------------------------------------------------------------
(* The three requests. *)

\* A node that could not be reached in time or did not answer 200, did not answer JSON that
\* can be decoded, or answered that it could not answer.
Faults == {"network-unreachable", "malformed-response", "rpc-error"}

Sound == "sound"

\* An answer that says nothing of any ledger.
NoLedger == 0

\* One request about `key`, and the height of the ledger its answer speaks of.
Asked(key, h, quality) == Append(asked, [key |-> key, height |-> h, quality |-> quality])

\* Mutant: what nobody answered is not there.
UnansweredIsAbsent(key) ==
  /\ asked' = Asked(key, NoLedger, "network-unreachable")
  /\ failure' = [class |-> "ContractResolutionError", reason |-> "contract-not-found"]
  /\ pc' = "failed" /\ UNCHANGED <<route, instance, artifact, held>>

\* Mutant: a resolution that was not answered is tried again.
UnansweredRetries(key) ==
  /\ asked' = <<>> /\ instance' = Nothing /\ pc' = "identity"
  /\ UNCHANGED <<route, artifact, held, failure>>

Unanswered(key) ==
  /\ \E fault \in Faults :
       /\ asked' = Asked(key, NoLedger, fault)
       /\ failure' = [class |-> "NetworkError", reason |-> fault]
  /\ pc' = "failed" /\ UNCHANGED <<route, instance, artifact, held>>

Refuse(key, h, quality, class, reason) ==
  /\ asked' = Asked(key, h, quality) /\ pc' = "failed"
  /\ failure' = [class |-> class, reason |-> reason]
  /\ UNCHANGED <<route, instance, artifact, held>>

\* network_identity: the passphrase and the protocol version, kept as provenance.
Identify ==
  /\ pc = "identity"
  /\ \/ Unanswered("network")
     \/ /\ asked' = Asked("network", NoLedger, Sound) /\ pc' = "instance"
        /\ UNCHANGED <<route, instance, artifact, held, failure>>
  /\ UNCHANGED ledgers

\* An answer with no entries in it reads as an entry that is not there, whatever the reason,
\* and an entry that is no contract's instance as a contract the host implements.  That the
\* entry sent is the one asked for is not compared: it is taken for granted here.
ReadInstance ==
  /\ pc = "instance"
  /\ \/ Unanswered("instance")
     \/ Refuse("instance", NoLedger, "without-entries", "ContractResolutionError",
               "contract-not-found")
     \/ Refuse("instance", NoLedger, "not-instance", "ContractResolutionError",
               "host-implemented-contract")
     \/ \E h \in DOMAIN ledgers :
          LET entry == ledgers[h].instance
          IN  \/ /\ entry = Nothing
                 /\ Refuse("instance", h, Sound, "ContractResolutionError", "contract-not-found")
              \/ /\ entry # Nothing /\ entry.executable = Asset
                 /\ Refuse("instance", h, Sound, "ContractResolutionError",
                           "host-implemented-contract")
              \/ /\ entry # Nothing /\ entry.executable # Asset
                 /\ asked' = Asked("instance", h, Sound)
                 /\ instance' = entry /\ pc' = "code"
                 /\ UNCHANGED <<route, artifact, held, failure>>
  /\ UNCHANGED ledgers

\* Bytes a node sends for a code entry: those it was asked for, or other ones.
CodeReply(h, sent) == sent = instance.executable => sent \in ledgers[h].installed

\* Mutant: what was sent is what was asked for.
VerifyNothing(declared, sent) == TRUE

\* The code has to hash to what the instance entry declares.
VerifyCodeHash(declared, sent) == sent = declared

\* The artifact is complete: both entries of it, exactly as they were read.
ReadCode ==
  /\ pc = "code"
  /\ \/ Unanswered("code")
     \/ Refuse("code", NoLedger, "without-entries", "ContractResolutionError",
               "code-entry-missing")
     \/ Refuse("code", NoLedger, "not-code", "ContractResolutionError", "not-code")
     \/ \E h \in DOMAIN ledgers :
          /\ instance.executable \notin ledgers[h].installed
          /\ Refuse("code", h, Sound, "ContractResolutionError", "code-entry-missing")
     \/ \E h \in DOMAIN ledgers, sent \in Codes :
          LET quality == IF sent = instance.executable THEN Sound ELSE "other-code"
          IN  /\ CodeReply(h, sent)
              /\ \/ /\ sent \in Oversized
                    /\ Refuse("code", h, quality, "ContractResolutionError", "oversized")
                 \/ /\ sent \notin Oversized /\ ~VerifyCodeHash(instance.executable, sent)
                    /\ Refuse("code", h, quality, "NetworkError", "artifact-hash-mismatch")
                 \/ /\ sent \notin Oversized /\ VerifyCodeHash(instance.executable, sent)
                    /\ asked' = Asked("code", h, quality)
                    /\ artifact' = [code |-> sent, instance |-> instance] /\ pc' = "place"
                    /\ UNCHANGED <<route, instance, held, failure>>
  /\ UNCHANGED ledgers
---------------------------------------------------------------------------
(* Deployment. *)

Deploys(contract) ==
  /\ held' = contract /\ pc' = "deployed"
  /\ UNCHANGED <<route, asked, instance, artifact, failure>>

\* The fixture is registered from a Rust type: it has no code to name.
Register ==
  /\ pc = "register"
  /\ Deploys([code |-> Nothing, storage |-> Blank])
  /\ UNCHANGED ledgers

\* ExposedInterface::from_wasm.
PublishesInterface(code) == code \notin Opaque

\* LocalHost::holding: the two entries become a ledger, and no constructor runs.
Holding(code, entry) ==
  IF entry.executable # code
  THEN Fail("ContractResolutionError", "not-placed")
  ELSE Deploys([code |-> code, storage |-> entry.storage])

Place ==
  /\ pc = "place"
  /\ IF ~PublishesInterface(artifact.code)
     THEN Fail("ContractResolutionError", "no-interface")
     ELSE Holding(artifact.code, artifact.instance)
  /\ UNCHANGED ledgers

\* A `.wasm` path is looked at three times, and may hold something else each time: it is a
\* file when the command line is parsed, its size is taken, and then it is read.
Stat ==
  /\ pc = "stat"
  /\ Goto("read") \/ Fail("ContractResolutionError", "not-read")
  /\ UNCHANGED ledgers

\* Mutant: a constructor that fails is a contract that fails.
InstantiateAccuses(code) ==
  \/ code \in Uninstantiable /\ Fail("AssertionFailure", "not-instantiated")
  \/ /\ code \notin Uninstantiable
     /\ \E s \in Storages : Deploys([code |-> code, storage |-> s])

\* register_artifact runs the constructor.
Instantiate(code) ==
  \/ code \in Uninstantiable /\ Fail("ContractResolutionError", "not-instantiated")
  \/ /\ code \notin Uninstantiable
     /\ \E s \in Storages : Deploys([code |-> code, storage |-> s])

ReadFile ==
  /\ pc = "read"
  /\ \/ Fail("ContractResolutionError", "not-read")
     \/ \E code \in Codes :
          \/ ~PublishesInterface(code) /\ Fail("ContractResolutionError", "no-interface")
          \/ PublishesInterface(code) /\ Instantiate(code)
  /\ UNCHANGED ledgers

Resolve ==
  \/ ParseTarget \/ Lookup \/ Identify \/ ReadInstance \/ ReadCode
  \/ Register \/ Place \/ Stat \/ ReadFile
---------------------------------------------------------------------------
ResolutionInit ==
  /\ \E ledger \in Genesis : ledgers = <<ledger>>
  /\ pc = "ready" /\ route = NoRoute /\ asked = <<>>
  /\ instance = Nothing /\ artifact = Nothing /\ held = Nothing /\ failure = NoFailure
---------------------------------------------------------------------------
Places == {"ready", "arguments", "lookup", "identity", "instance", "code", "place", "register",
           "stat", "read", "deployed", "failed"}

Requests == [key : {"network", "instance", "code"}, height : 0..MaxLedgers,
             quality : Faults \cup {Sound, "without-entries", "not-instance", "not-code", "other-code"}]

Held == [code : Codes \cup {Nothing}, storage : Storages]

Classes == {"none", "UsageError", "NetworkError", "ContractResolutionError"}

Reasons == Faults \cup
  {"none", "target", "network", "not-a-file", "not-read", "contract-not-found",
   "host-implemented-contract", "code-entry-missing", "not-code", "oversized",
   "artifact-hash-mismatch", "not-placed", "no-interface", "not-instantiated"}

ResolutionTypeOK ==
  /\ ledgers \in Seq(Ledgers) /\ Len(ledgers) \in 1..MaxLedgers
  /\ pc \in Places /\ route \in Routes /\ asked \in Seq(Requests) /\ Len(asked) <= 3
  /\ instance \in Instances \cup {Nothing} /\ artifact \in Artifacts \cup {Nothing}
  /\ held \in Held \cup {Nothing} /\ failure \in [class : Classes, reason : Reasons]
=============================================================================
