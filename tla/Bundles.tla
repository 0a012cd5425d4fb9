-------------------------------- MODULE Bundles --------------------------------
(***************************************************************************)
(* What a profile bundle has to be for the runner to execute it               *)
(* (crates/estamora-profile: loader.rs, spec.rs, references.rs) and how its     *)
(* documents are asked afterwards (documents.rs).                               *)
(*                                                                         *)
(* A bundle is a record of its identity, where it is stored, the state of each   *)
(* file it declares, and the six documents, each a sequence of definitions.     *)
(* Warnings are left out: they stop nothing.                                    *)
(***************************************************************************)
EXTENDS Integers, Sequences, SequencesExt, FiniteSets

\* A defect: what was checked, of which definition.
Finding(check, owner) == [check |-> check, owner |-> owner]

\* The states of a declared file: it can be read and parsed, or it points outside the
\* bundle, is absent, no regular file, over the size limit, not text, or malformed.
Files == {"parsed", "outside", "absent", "not-a-file", "oversized", "not-text", "malformed"}

Roles == {"methods", "authorization", "events", "behavior", "invariants", "failures"}

\* spec::check.  A version this runner has not parsed is one it may assume nothing about;
\* none is written <<>>.
Supported == <<1, 0>>

SpecIsSupported(version) ==
  version # <<>> /\ version[1] = Supported[1] /\ version[2] <= Supported[2]

\* check_layout: stored under its version, a bundle has to be stored under its name.
LayoutFindings(profile) ==
  {f \in {Finding("layout", profile.id)} :
     profile.directory = profile.version /\ profile.parent # profile.id}

---------------------------------------------------------------------------
(* Cross-references.  Every defect is reported, so the findings are the union of what each   *)
(* document's check finds.                                                                   *)

Ids(definitions) == {definitions[i].id : i \in DOMAIN definitions}

\* declared: the identifiers a document declares more than once.
Repeated(names) ==
  {names[i] : i \in {j \in DOMAIN names : \E k \in 1..(j - 1) : names[k] = names[j]}}

IdsTwice(definitions) ==
  {Finding("declared", id) : id \in Repeated([i \in DOMAIN definitions |-> definitions[i].id])}

\* require_known.
Unknown(referred, definitions, owner) ==
  IF referred \subseteq Ids(definitions) THEN {} ELSE {Finding("require_known", owner)}

When(defect, check, owner) == IF defect THEN {Finding(check, owner)} ELSE {}

CheckMethod(profile, method) ==
  When(Repeated([i \in DOMAIN method.args |-> method.args[i].name]) # {}, "arguments", method.id)
  \cup Unknown(method.authorization, profile.authorization, method.id)
  \cup Unknown(method.events, profile.events, method.id)
  \cup Unknown(method.failures, profile.failures, method.id)
  \cup Unknown(method.behaviors, profile.behaviors, method.id)

\* The principal has to be an argument of some method the rule governs.
Governed(profile, rule) == {m \in ToSet(profile.methods) : m.id \in rule.methods}
ArgumentNames(method)   == {method.args[i].name : i \in DOMAIN method.args}

CheckAuthorization(profile, rule) ==
  Unknown(rule.methods, profile.methods, rule.id)
  \cup When(rule.exact /\ rule.covered = {}, "coverage", rule.id)
  \cup When(~ rule.principal \subseteq UNION {ArgumentNames(m) : m \in Governed(profile, rule)},
            "principal", rule.id)
  \cup Unknown(rule.failures, profile.failures, rule.id)

MaxTopicIndex == 7

CheckEvent(profile, event) ==
  When(Repeated(event.topics) # {}, "topics", event.id)
  \cup When(\E i \in DOMAIN event.topics : event.topics[i] > MaxTopicIndex, "topics", event.id)
  \cup When(event.min > event.max, "cardinality", event.id)
  \cup When(event.requirement = "forbidden" /\ event.min > 0, "requirement", event.id)
  \cup Unknown(event.before, profile.events, event.id)
  \cup When(event.id \in event.before, "ordering", event.id)
  \cup Unknown(event.correlations, profile.invariants, event.id)

\* Mutant: the events a rule forbids are not looked up.
CheckBehaviorExpects(profile, rule) ==
  Unknown({rule.method}, profile.methods, rule.id)
  \cup Unknown(rule.failures, profile.failures, rule.id)
  \cup Unknown(rule.invariants, profile.invariants, rule.id)
  \cup Unknown(rule.expects, profile.events, rule.id)
  \cup When(rule.expects \cap rule.forbids # {}, "contradiction", rule.id)
  \cup When(rule.kind = "failure" /\ rule.failures = {}, "kind", rule.id)
  \cup When(rule.kind = "success" /\ rule.failures # {}, "kind", rule.id)

CheckBehavior(profile, rule) ==
  Unknown({rule.method}, profile.methods, rule.id)
  \cup Unknown(rule.failures, profile.failures, rule.id)
  \cup Unknown(rule.invariants, profile.invariants, rule.id)
  \cup Unknown(rule.expects \cup rule.forbids, profile.events, rule.id)
  \cup When(rule.expects \cap rule.forbids # {}, "contradiction", rule.id)
  \cup When(rule.kind = "failure" /\ rule.failures = {}, "kind", rule.id)
  \cup When(rule.kind = "success" /\ rule.failures # {}, "kind", rule.id)

\* The families that range over a resource set, and those that take a predicate.
Ranging    == {"conservation", "monotonic", "bounds"}
Predicated == {"predicate", "bounds"}
Families   == Ranging \cup Predicated \cup {"state_unchanged", "authorization_blocks_mutation"}

CheckInvariant(profile, invariant) ==
  Unknown(invariant.methods \ {"*"}, profile.methods, invariant.id)
  \cup When((invariant.resource # "none") # (invariant.kind \in Ranging), "resource", invariant.id)
  \cup When((invariant.direction # "none") # (invariant.kind = "monotonic"), "direction", invariant.id)
  \cup When((invariant.predicate # <<>>) # (invariant.kind \in Predicated), "predicate", invariant.id)

\* A payload list has to agree with its policy.
CheckFailure(profile, failure) ==
  Unknown(failure.methods, profile.methods, failure.id)
  \cup When(failure.policy = "semantic_only" /\ failure.allowed > 0, "error_codes", failure.id)
  \cup When(failure.policy = "exact_required" /\ failure.allowed # 1, "error_codes", failure.id)
  \cup When(failure.authorization /\ failure.signal = "host_error", "signal", failure.id)

\* references::validate.
ReferenceFindings(profile) ==
  (UNION {IdsTwice(document) : document \in
            {profile.methods, profile.authorization, profile.events, profile.behaviors,
             profile.invariants, profile.failures}})
  \cup (UNION {CheckMethod(profile, m)        : m \in ToSet(profile.methods)})
  \cup (UNION {CheckAuthorization(profile, r) : r \in ToSet(profile.authorization)})
  \cup (UNION {CheckEvent(profile, e)         : e \in ToSet(profile.events)})
  \cup (UNION {CheckBehavior(profile, r)      : r \in ToSet(profile.behaviors)})
  \cup (UNION {CheckInvariant(profile, i)     : i \in ToSet(profile.invariants)})
  \cup UNION {CheckFailure(profile, f)       : f \in ToSet(profile.failures)}

\* ProfileBundle::load.  Everything is read before anything is checked, and the first file
\* that cannot be read ends it.
BundleFindings(profile) ==
  IF profile.entry # "parsed" THEN {Finding("entry", profile.id)}
  ELSE IF ~SpecIsSupported(profile.spec) THEN {Finding("spec_version", profile.id)}
  ELSE IF \E role \in Roles : profile.files[role] # "parsed" THEN {Finding("document", profile.id)}
  ELSE LayoutFindings(profile) \cup ReferenceFindings(profile)

---------------------------------------------------------------------------
(* The documents, asked. *)

\* ProfileDocuments::method and its like: the first of that identifier.
Defined(definitions, id) == id \in Ids(definitions)

Definition(definitions, id) ==
  definitions[Min({i \in DOMAIN definitions : definitions[i].id = id})]

\* behaviors_for, invariants_for.
BehaviorsFor(profile, method) == {r \in ToSet(profile.behaviors) : r.method = method}

InvariantsFor(profile, method, outcome) ==
  {i \in ToSet(profile.invariants) : outcome \in i.outcomes /\ {"*", method} \cap i.methods # {}}

\* method_id, as the behaviour and the invariant dimension have it: the first method of that
\* name, and only when there is none the identifier the corpus was checked by.
MethodId(profile, named) ==
  LET byName == {i \in DOMAIN profile.methods : profile.methods[i].name = named}
  IN IF byName = {} THEN named ELSE profile.methods[Min(byName)].id

\* The name of the read-only method the profile reads a balance, or an allowance, by.
Accessor(profile, id) ==
  LET methods == profile.methods
      byId    == {i \in DOMAIN methods : methods[i].id = id /\ methods[i].readonly}
      byName  == {i \in DOMAIN methods : methods[i].name = id /\ methods[i].readonly}
  IN IF byId # {} THEN methods[Min(byId)].name
     ELSE IF byName # {} THEN methods[Min(byName)].name ELSE "none"
=============================================================================
