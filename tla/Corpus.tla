-------------------------------- MODULE Corpus --------------------------------
(***************************************************************************)
(* The loading of what a run is made from: the profile bundle, the vector       *)
(* documents below the directories it declares, and the check of each against    *)
(* it (crates/estamora-vectors: loader.rs, validate.rs).                         *)
(*                                                                         *)
(* A path is a sequence whose first element is the library; a name is its        *)
(* place in alphabetical order.  The disk holds directories, vector files and    *)
(* entries that are neither (a link, another extension), and lists a directory   *)
(* in an order of its own.  A library lists what it holds: a read_dir that        *)
(* fails ends the load as any other refusal does.                                *)
(***************************************************************************)
EXTENDS Bundles, Requirements

CONSTANTS
  Disks,        \* [profile, dirs, files, others]: the bundle and the two libraries
  MaxWalkDepth, \* MAX_WALK_DEPTH
  MaxVectors    \* MAX_VECTORS

ASSUME WalkAssumption == MaxWalkDepth \in Nat /\ MaxVectors \in Nat \ {0}

\* What a disk is: an entry is of one kind, and what is between a directory and what it holds
\* is a directory.
ASSUME FilesystemAssumption == \A d \in Disks :
  LET held == d.dirs \cup DOMAIN d.files \cup d.others
  IN /\ held \subseteq Seq(Nat) /\ IsFiniteSet(held)
     /\ d.dirs \cap DOMAIN d.files = {} /\ d.others \cap (d.dirs \cup DOMAIN d.files) = {}
     /\ \A dir \in d.dirs, p \in held : IsPrefix(dir, p) =>
          \A n \in Len(dir)..(Len(p) - 1) : SubSeq(p, 1, n) \in d.dirs
     /\ d.profile.vectors \in Seq(Seq(Nat)) /\ d.profile.shared \in Seq(Seq(Nat))

\* What can be written in a document: an argument is of a type the profile format has, a literal
\* is a value, not a failure to produce one, and an event is required some number of times.
ASSUME DocumentsAssumption == \A d \in Disks :
  /\ \A document \in {d.profile.methods, d.profile.events, d.profile.behaviors} :
       document \in Seq(ToSet(document))
  /\ \A m \in ToSet(d.profile.methods) :
       m.args \in Seq(ToSet(m.args)) /\ \A a \in ToSet(m.args) : a.type \in ArgumentTypes
  /\ \A e \in ToSet(d.profile.events) : e.fields \in Seq(ToSet(e.fields)) /\ e.min \in Nat /\ e.max \in Nat
  /\ \A p \in DOMAIN d.files :
       LET required == d.files[p].required
       IN required \in Seq(ToSet(required)) /\ \A e \in ToSet(required) : e.data \in Seq(ToSet(e.data))
  /\ \A p \in DOMAIN d.files : \A name \in DOMAIN d.files[p].inputs :
       LET e == d.files[p].inputs[name]
       IN e.kind = "literal" => e.literal.type \in DocumentTypes

VARIABLES
  disk,
  pc,
  declared,  \* the declared directories not walked yet
  stack,     \* the directories of the current one still to be listed
  entries,   \* the entries of the listed directory still to be looked at
  found,     \* the vector files of the current directory, as they turned up
  sources,   \* the files of the corpus
  vectors,   \* the vectors read so far, with their paths
  skipped,   \* the profile-independent vectors that do not apply
  findings,  \* the defects found so far
  failure    \* the class of the error, and the step it ended

walk   == <<declared, stack, entries, found, sources>>
corpus == <<vectors, skipped, findings>>
loader == <<disk, pc, walk, corpus, failure>>

profile == disk.profile

NoFailure == [class |-> "none", at |-> "none"]

Fail(class, at) == pc' = "failed" /\ failure' = [class |-> class, at |-> at]

LoadInit ==
  /\ disk \in Disks /\ pc = "load" /\ declared = <<>> /\ stack = <<>> /\ entries = {}
  /\ found = <<>> /\ sources = <<>> /\ vectors = <<>> /\ skipped = {} /\ findings = {}
  /\ failure = NoFailure

\* ProfileBundle::load, and the list of trees the bundle declares: its own vectors, then
\* the shared families.
LoadBundle ==
  /\ pc = "load" /\ findings' = BundleFindings(profile)
  /\ IF findings' = {} THEN pc' = "corpus" /\ UNCHANGED failure ELSE Fail("ProfileError", "load")
  /\ declared' = profile.vectors \o profile.shared
  /\ UNCHANGED <<disk, stack, entries, found, sources, vectors, skipped>>
---------------------------------------------------------------------------
(* The walk. *)

Below(path, root)  == IsPrefix(root, path)
Depth(path, root)  == Len(path) - Len(root)
Children(path)     == {p \in disk.dirs \cup DOMAIN disk.files \cup disk.others :
                         Len(p) = Len(path) + 1 /\ IsPrefix(path, p)}

\* declared_tree.
EnterTree ==
  /\ pc = "corpus" /\ declared # <<>>
  /\ IF Head(declared) \in disk.dirs
     THEN pc' = "walk" /\ stack' = <<Head(declared)>> /\ UNCHANGED failure
     ELSE Fail("VectorError", "tree") /\ UNCHANGED stack
  /\ found' = <<>>
  /\ UNCHANGED <<disk, declared, entries, sources, corpus>>

\* Mutant: the directory listed is left on the stack.
OpenDirectoryAgain ==
  /\ pc = "walk" /\ entries = {} /\ stack # <<>>
  /\ IF Depth(Last(stack), Head(declared)) > MaxWalkDepth
     THEN Fail("VectorError", "tree") /\ UNCHANGED entries
     ELSE entries' = Children(Last(stack)) /\ UNCHANGED <<pc, failure>>
  /\ UNCHANGED <<disk, declared, stack, found, sources, corpus>>

OpenDirectory ==
  /\ pc = "walk" /\ entries = {} /\ stack # <<>>
  /\ stack' = Front(stack)
  /\ IF Depth(Last(stack), Head(declared)) > MaxWalkDepth
     THEN Fail("VectorError", "tree") /\ UNCHANGED entries
     ELSE entries' = Children(Last(stack)) /\ UNCHANGED <<pc, failure>>
  /\ UNCHANGED <<disk, declared, found, sources, corpus>>

\* One entry, in whatever order the disk lists them.
SeeDirectory(path) ==
  /\ path \in disk.dirs
  /\ stack' = Append(stack, path) /\ UNCHANGED <<pc, found, failure>>

SeeVector(path) ==
  /\ path \in DOMAIN disk.files
  /\ IF Len(found) >= MaxVectors THEN Fail("VectorError", "tree") /\ UNCHANGED found
     ELSE found' = Append(found, path) /\ UNCHANGED <<pc, failure>>
  /\ UNCHANGED stack

SeeOther(path) == path \in disk.others /\ UNCHANGED <<stack, pc, found, failure>>

SeeEntry(path) ==
  /\ pc = "walk" /\ path \in entries /\ entries' = entries \ {path}
  /\ SeeDirectory(path) \/ SeeVector(path) \/ SeeOther(path)
  /\ UNCHANGED <<disk, declared, sources, corpus>>

LeaveTree ==
  /\ pc = "walk" /\ entries = {} /\ stack = <<>>
  /\ IF found = <<>> THEN Fail("VectorError", "tree") /\ UNCHANGED <<declared, sources>>
     ELSE pc' = "corpus" /\ declared' = Tail(declared) /\ sources' = sources \o found
          /\ UNCHANGED failure
  /\ UNCHANGED <<disk, stack, entries, found, corpus>>

\* Paths in order, component by component.
PathBefore(p, q) ==
  \/ IsStrictPrefix(p, q)
  \/ \E i \in DOMAIN p \cap DOMAIN q : p[i] < q[i] /\ SubSeq(p, 1, i - 1) = SubSeq(q, 1, i - 1)

\* Mutant: the files are read as the disk listed them.
UnsortedSources(paths) == paths

PathOrder == {pq \in (DOMAIN disk.files) \X (DOMAIN disk.files) : PathBefore(pq[1], pq[2])}

\* Sorted, and a file two declarations reach is there once.  Paths are canonical here; the code
\* compares them as they are spelled, so that a file reached under two spellings is read twice,
\* and refused for its identifier.
SortedSources(paths) == Ordered(ToSet(paths), PathOrder)

SortSources ==
  /\ pc = "corpus" /\ declared = <<>> /\ pc' = "read" /\ sources' = SortedSources(sources)
  /\ UNCHANGED <<disk, declared, stack, entries, found, corpus, failure>>
---------------------------------------------------------------------------
(* One vector against the bundle. *)

IsWildcard(v) == v.profile = "*"

ActorNames(v) == ToSet(v.actors)

CheckActors(v) ==
  When(Repeated(v.actors) # {}, "actor", v.id)
  \cup When(~ v.balances \cup v.flags \cup v.signers \cup v.substituted
               \cup UNION {{v.allowances[i].from, v.allowances[i].spender} : i \in DOMAIN v.allowances}
             \subseteq ActorNames(v), "actor", v.id)

\* The events a vector requires, and what it says of their topics and payloads.
Announced(v) == {v.required[i].event : i \in DOMAIN v.required}
Stated(v)    == UNION {ToSet(v.required[i].topics \o v.required[i].data) : i \in DOMAIN v.required}

\* The inputs are the arguments, no more and no fewer.
CheckInputs(v, method) == When(DOMAIN v.inputs # ArgumentNames(method), "input", v.id)

CheckExpectations(v) ==
  When(v.outcome = "success" /\ (v.failure # "none" \/ v.category), "outcome", v.id)
  \cup When(v.outcome = "failure" /\ v.failure = "none" /\ ~v.category, "outcome", v.id)
  \cup When(v.outcome = "failure" /\ v.required # <<>>, "outcome", v.id)
  \cup When(v.failure # "none" /\ ~Defined(profile.failures, v.failure), "failure", v.id)
  \cup Unknown(v.invariants, profile.invariants, v.id)
  \cup Unknown(Announced(v) \cup v.forbidden, profile.events, v.id)
  \cup When(v.authorization = "not_required" /\ v.signers # {}, "plan", v.id)

\* Every expression of the vector, the inputs and the reads of a custom resource included.
Expressions(v) ==
  UNION {Within(e) : e \in
    {v.inputs[name] : name \in DOMAIN v.inputs} \cup v.returns \cup v.custom
    \cup Stated(v)
    \cup UNION {OperandsOf(p) : p \in v.state \cup v.assertions}}

\* An actor has to be declared, and a read has to be a method of the profile.  What input
\* an expression names is not looked at.
CheckExpressions(v) ==
  When(\E e \in Expressions(v) : e.kind = "actor" /\ e.actor \notin ActorNames(v), "expression", v.id)
  \cup When(\E e \in Expressions(v) : e.kind = "read" /\ ~Defined(profile.methods, e.method),
            "read", v.id)

\* validate::validate.  A vector of no profile is pinned to the format's version.
Validate(v) ==
  When(~IsWildcard(v) /\ v.profile # profile.id, "profile", v.id)
  \cup When(v.version # (IF IsWildcard(v) THEN profile.spec ELSE profile.version), "version", v.id)
  \cup CheckActors(v)
  \cup (IF Defined(profile.methods, v.method)
        THEN CheckInputs(v, Definition(profile.methods, v.method))
             \cup CheckExpectations(v) \cup CheckExpressions(v)
        ELSE {Finding("method", v.id)})

DoesNotApply(v) == IsWildcard(v) /\ ~Defined(profile.methods, v.method)

\* VectorCorpus::load, one document.  A vector that does not apply is left out before its
\* identifier is looked at.
ReadVector ==
  LET path == Head(sources)
      v    == disk.files[path]
  IN /\ pc = "read" /\ sources # <<>> /\ sources' = Tail(sources)
     /\ IF ~v.parses THEN Fail("VectorError", "read") /\ UNCHANGED corpus
        ELSE /\ UNCHANGED <<pc, failure>>
             /\ IF DoesNotApply(v)
                THEN skipped' = skipped \cup {v.id} /\ UNCHANGED <<vectors, findings>>
                ELSE /\ vectors' = Append(vectors, [path |-> path, document |-> v])
                     /\ findings' = findings \cup Validate(v)
                          \cup When(\E i \in DOMAIN vectors : vectors[i].document.id = v.id, "id", v.id)
                     /\ UNCHANGED skipped
     /\ UNCHANGED <<disk, declared, stack, entries, found>>

\* Mutant: the findings are reported, and the corpus is used all the same.
AdmitReported ==
  /\ pc = "read" /\ sources = <<>> /\ pc' = "admitted"
  /\ UNCHANGED <<disk, walk, corpus, failure>>

\* Any finding refuses the whole corpus.
AdmitCorpus ==
  /\ pc = "read" /\ sources = <<>>
  /\ IF findings = {} THEN pc' = "admitted" /\ UNCHANGED failure ELSE Fail("VectorError", "validate")
  /\ UNCHANGED <<disk, walk, corpus>>

Load ==
  \/ LoadBundle \/ EnterTree \/ OpenDirectory \/ (\E path \in entries : SeeEntry(path))
  \/ LeaveTree \/ SortSources \/ ReadVector \/ AdmitCorpus
---------------------------------------------------------------------------
(* What the corpus is, whatever order it was found in. *)

Trees == ToSet(profile.vectors \o profile.shared)

FilesBelow(root) == {p \in DOMAIN disk.files : Below(p, root)}

\* A declared tree is one the loader takes: it is there, within both limits and not empty.
Acceptable(root) ==
  /\ root \in disk.dirs
  /\ \A d \in disk.dirs : Below(d, root) => Depth(d, root) <= MaxWalkDepth
  /\ Cardinality(FilesBelow(root)) \in 1..MaxVectors

Applying == {p \in UNION {FilesBelow(root) : root \in Trees} : ~DoesNotApply(disk.files[p])}

\* The corpus is a function of the trees the profile declares: every applicable vector below
\* them, each once and in the order of its path, whatever order the disk listed them in and
\* however the declared trees overlap; and whether the walk is refused does not depend on
\* that order either (loader.rs load, declared_tree, yaml_files).
CorpusIsTheTrees ==
  /\ pc = "admitted" =>
       /\ \A root \in Trees : Acceptable(root)
       /\ [i \in DOMAIN vectors |-> vectors[i].path] = Ordered(Applying, PathOrder)
  /\ (pc = "failed" /\ failure.at = "tree") => \E root \in Trees : ~Acceptable(root)
=============================================================================
