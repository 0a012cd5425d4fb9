----------------------------- MODULE IntakeProofs -----------------------------
(***************************************************************************)
(* What holds of every vector judged, whatever the disk, the documents and the   *)
(* contract: the corpus is that of the declared trees, nothing undeclared is       *)
(* judged, what the host is given is of the declared types, the record stays what     *)
(* the contract answered, and the process comes down in three ways only.             *)
(***************************************************************************)
EXTENDS Intake, CorpusProofs

---------------------------------------------------------------------------
(* The documents. *)

(* What the assumption about documents says of a disk. *)
LEMMA DocumentsAre ==
  ASSUME NEW d \in Disks
  PROVE  /\ d.profile.methods \in Seq(ToSet(d.profile.methods))
         /\ d.profile.events \in Seq(ToSet(d.profile.events))
         /\ d.profile.behaviors \in Seq(ToSet(d.profile.behaviors))
         /\ \A m \in ToSet(d.profile.methods) :
              m.args \in Seq(ToSet(m.args)) /\ \A a \in ToSet(m.args) : a.type \in ArgumentTypes
         /\ \A e \in ToSet(d.profile.events) :
              e.fields \in Seq(ToSet(e.fields)) /\ e.min \in Nat /\ e.max \in Nat
         /\ \A p \in DOMAIN d.files :
              /\ d.files[p].required \in Seq(ToSet(d.files[p].required))
              /\ \A e \in ToSet(d.files[p].required) : e.data \in Seq(ToSet(e.data))
         /\ \A p \in DOMAIN d.files : \A name \in DOMAIN d.files[p].inputs :
              d.files[p].inputs[name].kind = "literal" =>
                d.files[p].inputs[name].literal.type \in DocumentTypes
<1>1. \A document \in {d.profile.methods, d.profile.events, d.profile.behaviors} :
        document \in Seq(ToSet(document))
  BY DocumentsAssumption
<1> QED
  BY <1>1, DocumentsAssumption

(* The definition found is one of that identifier. *)
LEMMA DefinitionIs ==
  ASSUME NEW S, NEW definitions \in Seq(S), NEW id, Defined(definitions, id)
  PROVE  Definition(definitions, id) \in ToSet(definitions) /\ Definition(definitions, id).id = id
<1> DEFINE places == {i \in DOMAIN definitions : definitions[i].id = id}
<1>1. DOMAIN definitions = 1..Len(definitions) /\ Len(definitions) \in Nat
  BY LenProperties
<1>2. places \in SUBSET Nat /\ places # {}
  BY <1>1 DEF Defined, Ids
<1>3. Min(places) \in places
  <2> HIDE DEF places
  <2> QED BY <1>2, LeastExists
<1>4. definitions[Min(places)].id = id /\ definitions[Min(places)] \in ToSet(definitions)
  BY <1>3 DEF ToSet
<1> QED
  BY <1>4 DEF Definition

\* What admission leaves to be relied on, of one vector.
Admissible(d, v) ==
  /\ Defined(d.profile.methods, v.method)
  /\ DOMAIN v.inputs = ArgumentNames(Definition(d.profile.methods, v.method))
  /\ v.invariants \subseteq Ids(d.profile.invariants)
  /\ Announced(v) \cup v.forbidden \subseteq Ids(d.profile.events)
  /\ v.failure # "none" => v.failure \in Ids(d.profile.failures)
  /\ Repeated(v.actors) = {} /\ v.balances \subseteq ActorNames(v)

(* A vector the check finds no fault with names what the profile declares. *)
LEMMA ValidMeans ==
  ASSUME NEW v, Validate(v) = {}
  PROVE  Admissible(disk, v)
<1>1. Defined(profile.methods, v.method)
  <2> SUFFICES ASSUME ~Defined(profile.methods, v.method) PROVE FALSE
    OBVIOUS
  <2>1. Finding("method", v.id) \in Validate(v)
    BY DEF Validate
  <2> QED BY <2>1
<1>2. /\ CheckInputs(v, Definition(profile.methods, v.method)) = {}
      /\ CheckExpectations(v) = {}
  <2>1. /\ CheckInputs(v, Definition(profile.methods, v.method)) \in SUBSET Validate(v)
        /\ CheckExpectations(v) \in SUBSET Validate(v)
    BY <1>1 DEF Validate
  <2> QED BY <2>1
<1>3. DOMAIN v.inputs = ArgumentNames(Definition(profile.methods, v.method))
  BY <1>2 DEF CheckInputs, When
<1>4. /\ When(v.failure # "none" /\ ~Defined(profile.failures, v.failure), "failure", v.id) = {}
      /\ Unknown(v.invariants, profile.invariants, v.id) = {}
      /\ Unknown(Announced(v) \cup v.forbidden, profile.events, v.id) = {}
  <2>1. /\ When(v.failure # "none" /\ ~Defined(profile.failures, v.failure), "failure", v.id)
             \in SUBSET CheckExpectations(v)
        /\ Unknown(v.invariants, profile.invariants, v.id) \in SUBSET CheckExpectations(v)
        /\ Unknown(Announced(v) \cup v.forbidden, profile.events, v.id) \in SUBSET CheckExpectations(v)
    BY DEF CheckExpectations
  <2> QED BY <1>2, <2>1
<1>5. /\ v.invariants \subseteq Ids(profile.invariants)
      /\ Announced(v) \cup v.forbidden \subseteq Ids(profile.events)
  BY <1>4 DEF Unknown
<1>6. v.failure # "none" => v.failure \in Ids(profile.failures)
  BY <1>4 DEF When, Defined
<1>7. Repeated(v.actors) = {} /\ v.balances \subseteq ActorNames(v)
  <2> DEFINE parties == UNION {{v.allowances[i].from, v.allowances[i].spender} : i \in DOMAIN v.allowances}
             stray   == ~ v.balances \cup v.flags \cup v.signers \cup v.substituted \cup parties \subseteq ActorNames(v)
  <2>1. CheckActors(v) \in SUBSET Validate(v)
    BY <1>1 DEF Validate
  <2>2. CheckActors(v) = When(Repeated(v.actors) # {}, "actor", v.id) \cup When(stray, "actor", v.id)
    BY DEF CheckActors
  <2> HIDE DEF parties
  <2>3. Repeated(v.actors) = {} /\ ~stray
    <3> HIDE DEF stray
    <3> QED BY <2>1, <2>2 DEF When
  <2> QED BY <2>3
<1> QED
  BY <1>1, <1>3, <1>5, <1>6, <1>7 DEF Admissible, profile

\* What a bundle without findings leaves to be relied on.
WellReferenced(p) ==
  /\ \A r \in ToSet(p.behaviors) : /\ r.expects \cup r.forbids \subseteq Ids(p.events)
                                   /\ r.invariants \subseteq Ids(p.invariants)
                                   /\ r.failures \subseteq Ids(p.failures)
  /\ \A e \in ToSet(p.events) : e.before \subseteq Ids(p.events)
  /\ \A i \in ToSet(p.invariants) : i.kind \in Predicated => i.predicate # <<>>

(* The rules, the invariants and the events of a bundle that was taken name what it declares. *)
LEMMA BundleMeans ==
  ASSUME NEW p, BundleFindings(p) = {}
  PROVE  WellReferenced(p)
<1>1. ReferenceFindings(p) = {}
  <2>1. p.entry = "parsed" /\ SpecIsSupported(p.spec) /\ ~(\E role \in Roles : p.files[role] # "parsed")
    BY DEF BundleFindings
  <2>2. ReferenceFindings(p) \in SUBSET BundleFindings(p)
    BY <2>1 DEF BundleFindings
  <2> QED BY <2>2
<1>2. ASSUME NEW r \in ToSet(p.behaviors)
      PROVE  /\ r.expects \cup r.forbids \subseteq Ids(p.events)
             /\ r.invariants \subseteq Ids(p.invariants)
             /\ r.failures \subseteq Ids(p.failures)
  <2>1. CheckBehavior(p, r) = {}
    <3>1. UNION {CheckBehavior(p, q) : q \in ToSet(p.behaviors)} \in SUBSET ReferenceFindings(p)
      BY DEF ReferenceFindings
    <3>2. CheckBehavior(p, r) \in SUBSET UNION {CheckBehavior(p, q) : q \in ToSet(p.behaviors)}
      OBVIOUS
    <3> QED BY <1>1, <3>1, <3>2
  <2>2. /\ Unknown(r.failures, p.failures, r.id) \in SUBSET CheckBehavior(p, r)
        /\ Unknown(r.invariants, p.invariants, r.id) \in SUBSET CheckBehavior(p, r)
        /\ Unknown(r.expects \cup r.forbids, p.events, r.id) \in SUBSET CheckBehavior(p, r)
    BY DEF CheckBehavior
  <2>3. /\ Unknown(r.failures, p.failures, r.id) = {} /\ Unknown(r.invariants, p.invariants, r.id) = {}
        /\ Unknown(r.expects \cup r.forbids, p.events, r.id) = {}
    BY <2>1, <2>2
  <2> QED BY <2>3 DEF Unknown
<1>3. ASSUME NEW e \in ToSet(p.events)
      PROVE  e.before \subseteq Ids(p.events)
  <2>1. UNION {CheckEvent(p, f) : f \in ToSet(p.events)} \in SUBSET ReferenceFindings(p)
    BY DEF ReferenceFindings
  <2>2. CheckEvent(p, e) \in SUBSET UNION {CheckEvent(p, f) : f \in ToSet(p.events)}
    OBVIOUS
  <2>3. Unknown(e.before, p.events, e.id) \in SUBSET CheckEvent(p, e)
    BY DEF CheckEvent
  <2>4. Unknown(e.before, p.events, e.id) = {}
    BY <1>1, <2>1, <2>2, <2>3
  <2> QED BY <2>4 DEF Unknown
<1>4. ASSUME NEW i \in ToSet(p.invariants), i.kind \in Predicated
      PROVE  i.predicate # <<>>
  <2>1. UNION {CheckInvariant(p, f) : f \in ToSet(p.invariants)} \in SUBSET ReferenceFindings(p)
    BY DEF ReferenceFindings
  <2>2. CheckInvariant(p, i) \in SUBSET UNION {CheckInvariant(p, f) : f \in ToSet(p.invariants)}
    OBVIOUS
  <2>3. When((i.predicate # <<>>) # (i.kind \in Predicated), "predicate", i.id) \in SUBSET CheckInvariant(p, i)
    BY DEF CheckInvariant
  <2>4. When((i.predicate # <<>>) # (i.kind \in Predicated), "predicate", i.id) = {}
    BY <1>1, <2>1, <2>2, <2>3
  <2> QED BY <1>4, <2>4 DEF When
<1> QED
  BY <1>2, <1>3, <1>4 DEF WellReferenced

---------------------------------------------------------------------------
(* The values. *)

(* The failure of a list is one of its failed values. *)
LEMMA FailureIs ==
  ASSUME NEW n \in Nat, NEW values, DOMAIN values = 1..n, ~AllProduced(values)
  PROVE  \E i \in 1..n : Failure(values) = values[i] /\ HasFailed(values[i])
<1> DEFINE places == {i \in DOMAIN values : HasFailed(values[i])}
<1>1. places \in SUBSET Nat /\ places # {}
  BY DEF AllProduced
<1>2. Min(places) \in places
  <2> HIDE DEF places
  <2> QED BY <1>1, LeastExists
<1> QED
  BY <1>2 DEF Failure

\* One step from an input to what it is defined as.
Followed1(e, inputs) == IF e.kind = "input" /\ e.name \in DOMAIN inputs THEN inputs[e.name] ELSE e

\* The expressions one after the other, for n steps.
Chain(F, expr, inputs, n) ==
  F[0] = expr /\ \A k \in 1..n : F[k] = Followed1(F[k - 1], inputs)

Following(f, expr, inputs, n) ==
  f = [k \in 0..n |-> IF k = 0 THEN expr ELSE Followed1(f[k - 1], inputs)]

(* Following is possible for any number of steps. *)
LEMMA ChainsExist ==
  ASSUME NEW inputs, NEW expr, NEW n \in Nat
  PROVE  \E f : Following(f, expr, inputs, n)
<1> DEFINE P == {m \in Nat : \E f : f = [k \in 0..m |-> IF k = 0 THEN expr ELSE Followed1(f[k - 1], inputs)]}
<1>1. 0 \in P
  <2> DEFINE f == [k \in 0..0 |-> expr]
  <2>1. f = [k \in 0..0 |-> IF k = 0 THEN expr ELSE Followed1(f[k - 1], inputs)]
    OBVIOUS
  <2> HIDE DEF f
  <2> QED BY <2>1
<1>2. ASSUME NEW m \in P
      PROVE  m + 1 \in P
  <2>1. PICK f : f = [k \in 0..m |-> IF k = 0 THEN expr ELSE Followed1(f[k - 1], inputs)]
    OBVIOUS
  <2> DEFINE g == [k \in 0..(m + 1) |-> IF k = m + 1 THEN Followed1(f[m], inputs) ELSE f[k]]
  <2>2. ASSUME NEW k \in 0..(m + 1)
        PROVE  g[k] = IF k = 0 THEN expr ELSE Followed1(g[k - 1], inputs)
    <3>0. m \in Nat
      OBVIOUS
    <3>1. CASE k = 0
      BY <2>1, <3>0, <3>1
    <3>2. CASE k = m + 1
      <4>1. k # 0 /\ k - 1 = m /\ k - 1 \in 0..(m + 1) /\ k - 1 # m + 1
        BY <3>0, <3>2
      <4> QED BY <3>2, <4>1
    <3>3. CASE k # 0 /\ k # m + 1
      <4>1. k \in 0..m /\ k - 1 \in 0..(m + 1) /\ k - 1 # m + 1
        BY <3>0, <3>3
      <4>2. f[k] = Followed1(f[k - 1], inputs)
        BY <2>1, <3>3, <4>1
      <4> QED BY <3>3, <4>1, <4>2
    <3> QED BY <3>1, <3>2, <3>3
  <2>3. g = [k \in 0..(m + 1) |-> IF k = 0 THEN expr ELSE Followed1(g[k - 1], inputs)]
    <3>1. g = [k \in 0..(m + 1) |-> g[k]]
      OBVIOUS
    <3> HIDE DEF g
    <3> QED BY <2>2, <3>1
  <2> HIDE DEF g
  <2> QED BY <2>3
<1>3. P = Nat
  <2> P \in SUBSET Nat
    OBVIOUS
  <2> HIDE DEF P
  <2> QED BY <1>1, <1>2, Reaches
<1> QED
  BY <1>3 DEF Following

(* The expression an argument ends at is the last of such a chain, and every one of the chain *)
(* is what some input is defined as.                                                          *)
LEMMA FollowedIs ==
  ASSUME NEW inputs, IsFiniteSet(DOMAIN inputs), NEW name \in DOMAIN inputs
  PROVE  /\ Cardinality(DOMAIN inputs) \in Nat
         /\ \E F : /\ Chain(F, inputs[name], inputs, Cardinality(DOMAIN inputs))
                   /\ Followed(inputs[name], inputs) = F[Cardinality(DOMAIN inputs)]
                   /\ \A k \in 0..Cardinality(DOMAIN inputs) :
                        F[k] \in {inputs[m] : m \in DOMAIN inputs}
<1> DEFINE n    == Cardinality(DOMAIN inputs)
           expr == inputs[name]
           X    == {inputs[m] : m \in DOMAIN inputs}
           F    == CHOOSE f : f = [k \in 0..n |-> IF k = 0 THEN expr ELSE Followed1(f[k - 1], inputs)]
<1>1. n \in Nat
  BY FS_CardinalityType
<1>2. F = [k \in 0..n |-> IF k = 0 THEN expr ELSE Followed1(F[k - 1], inputs)]
  <2> HIDE DEF n, expr
  <2>0. \E f : Following(f, expr, inputs, n)
    BY <1>1, ChainsExist
  <2>1. \E f : f = [k \in 0..n |-> IF k = 0 THEN expr ELSE Followed1(f[k - 1], inputs)]
    BY <2>0 DEF Following
  <2> QED BY <2>1
<1>3. Followed(expr, inputs) = F[n]
  BY DEF Followed, Followed1
<1> HIDE DEF F, n
<1>4. Chain(F, expr, inputs, n)
  <2>1. 0 \in 0..n /\ \A k \in 1..n : k \in 0..n /\ k # 0
    BY <1>1
  <2> HIDE DEF expr
  <2> QED BY <1>2, <2>1 DEF Chain
<1>5. \A k \in 0..n : F[k] \in X
  <2> DEFINE P == {k \in Nat : k <= n => F[k] \in X}
  <2>1. 0 \in P
    BY <1>4 DEF Chain
  <2>2. ASSUME NEW k \in P
        PROVE  k + 1 \in P
    <3> SUFFICES ASSUME k + 1 <= n
                 PROVE  F[k + 1] \in X
      OBVIOUS
    <3>1. k \in Nat /\ k <= n /\ k + 1 \in 1..n /\ (k + 1) - 1 = k
      BY <1>1
    <3>2. F[k] \in X /\ F[k + 1] = Followed1(F[k], inputs)
      BY <1>4, <3>1 DEF Chain
    <3> QED BY <3>2 DEF Followed1
  <2>3. P = Nat
    <3> P \in SUBSET Nat
      OBVIOUS
    <3> HIDE DEF P
    <3> QED BY <2>1, <2>2, Reaches
  <2>4. \A k \in 0..n : k \in Nat /\ k <= n
    BY <1>1
  <2> QED BY <2>3, <2>4
<1> QED
  BY <1>1, <1>3, <1>4, <1>5 DEF n

\* What following a definition may end in.
Scalars(v) == v.type \in DocumentTypes \/ v = Failed("VectorError") \/ v = Crash

(* A failure is one, and no value of a document is. *)
LEMMA FailuresAre ==
  /\ \A class : HasFailed(Failed(class)) /\ Failed(class).form = class
  /\ HasFailed(Crash) /\ Crash.form = "crash" /\ Crash # Failed("VectorError")
  /\ Crash # Failed("ExecutionError")
  /\ \A v : v.type \in DocumentTypes => ~HasFailed(v)
<1>1. /\ \A class : HasFailed(Failed(class)) /\ Failed(class).form = class
  BY DEF HasFailed, Failed, Value
<1>2. HasFailed(Crash) /\ Crash.form = "crash" /\ Failed("VectorError").form = "VectorError"
      /\ Failed("ExecutionError").form = "ExecutionError"
  BY DEF HasFailed, Failed, Value, Crash
<1>3. \A v : v.type \in DocumentTypes => ~HasFailed(v)
  BY DEF HasFailed, DocumentTypes
<1> QED
  BY <1>1, <1>2, <1>3

(* What an input is resolved to: a value of a document, or one of two failures. *)
LEMMA ScalarIs ==
  ASSUME NEW inputs, IsFiniteSet(DOMAIN inputs), NEW name \in DOMAIN inputs,
         \A m \in DOMAIN inputs :
           inputs[m].kind = "literal" => inputs[m].literal.type \in DocumentTypes,
         NEW last, last = Followed(inputs[name], inputs),
         NEW s, s = Scalar(inputs[name], inputs)
  PROVE  Scalars(s)
<1>1. last \in {inputs[m] : m \in DOMAIN inputs}
  <2>1. Cardinality(DOMAIN inputs) \in 0..Cardinality(DOMAIN inputs)
    BY FS_CardinalityType
  <2> QED BY <2>1, FollowedIs
<1>2. last.kind = "literal" => last.literal.type \in DocumentTypes
  BY <1>1
<1>3. CASE last.kind = "literal"
  <2>1. s = last.literal
    BY <1>3, Zenon DEF Scalar
  <2> QED BY <1>2, <1>3, <2>1, FailuresAre DEF Scalars
<1>4. CASE last.kind = "actor"
  <2>1. s = Address(last.actor)
    BY <1>4, Zenon DEF Scalar
  <2>2. s.type \in DocumentTypes
    BY <2>1 DEF Address, Value, DocumentTypes
  <2> QED BY <2>2, FailuresAre DEF Scalars
<1>5. CASE last.kind = "input" /\ last.name \in DOMAIN inputs /\ inputs[last.name] # last
  <2>1. s = Crash
    BY <1>5, Zenon DEF Scalar
  <2> QED BY <1>5, <2>1 DEF Scalars
<1>6. CASE last.kind # "literal" /\ last.kind # "actor"
           /\ ~(last.kind = "input" /\ last.name \in DOMAIN inputs /\ inputs[last.name] # last)
  <2>1. s = Failed("VectorError")
    BY <1>6, Zenon DEF Scalar
  <2> QED BY <2>1, FailuresAre DEF Scalars
<1> QED
  BY <1>3, <1>4, <1>5, <1>6

\* What can be passed on as an argument of that type.
Suits(t, type) ==
  /\ t.type \in DocumentTypes /\ type \in ArgumentTypes \ {"void", "vec", "map"}
  /\ type \in Addresses => t.type = "address"
  /\ type = "bool" => t.type = "bool"

(* An argument is one of the declared type, or one of two failures. *)
LEMMA TypedIs ==
  ASSUME NEW v, Scalars(v), NEW type \in ArgumentTypes, NEW t, t = Typed(v, type)
  PROVE  Suits(t, type) \/ t \in {Failed("VectorError"), Crash}
<1>1. CASE HasFailed(v)
  <2>1. t = v
    BY <1>1, Zenon DEF Typed
  <2> QED BY <1>1, <2>1, FailuresAre DEF Scalars
<1>2. CASE ~HasFailed(v) /\ type \in Integral
  <2>0. /\ type \notin Addresses /\ type # "bool" /\ type \notin {"void", "vec", "map"}
        /\ type \notin {"symbol", "string", "bytes", "val", "option_u32"}
    BY <1>2 DEF Integral, Addresses
  <2>1. t = IF IsQuantity(v) THEN Number(v.n) ELSE Failed("VectorError")
    BY <1>2, <2>0, Zenon DEF Typed
  <2>2. Number(v.n).type = "integer"
    BY DEF Number, Value
  <2> QED BY <2>0, <2>1, <2>2 DEF Suits, DocumentTypes
<1>3. CASE ~HasFailed(v) /\ type \in Addresses
  <2>0. /\ type \notin Integral /\ type # "bool" /\ type \notin {"void", "vec", "map"}
        /\ type \notin {"symbol", "string", "bytes", "val", "option_u32"}
    BY <1>3 DEF Integral, Addresses
  <2>1. t = IF IsTextual(v) THEN Value("address", v.form, v.n) ELSE Failed("VectorError")
    BY <1>3, <2>0, Zenon DEF Typed
  <2>2. Value("address", v.form, v.n).type = "address"
    BY DEF Value
  <2> QED BY <2>0, <2>1, <2>2 DEF Suits, DocumentTypes
<1>4. CASE ~HasFailed(v) /\ type = "bool"
  <2>0. type \notin Integral \cup Addresses
    BY <1>4 DEF Integral, Addresses
  <2>1. t = IF IsFlag(v) THEN Flag(v.n = 1) ELSE Failed("VectorError")
    BY <1>4, <2>0, Zenon DEF Typed
  <2>2. Flag(v.n = 1).type = "bool"
    BY DEF Flag, Value
  <2> QED BY <1>4, <2>0, <2>1, <2>2 DEF Suits, DocumentTypes
<1>5. CASE ~HasFailed(v) /\ type \in {"void", "vec", "map"}
  <2>0. type \notin Integral \cup Addresses /\ type # "bool"
    BY <1>5 DEF Integral, Addresses
  <2>1. t = Failed("VectorError")
    BY <1>5, <2>0, Zenon DEF Typed
  <2> QED BY <2>1
<1>6. CASE ~HasFailed(v) /\ type \in {"symbol", "string", "bytes", "val", "option_u32"}
  <2>0. type \notin Integral \cup Addresses /\ type # "bool" /\ type \notin {"void", "vec", "map"}
    BY <1>6 DEF Integral, Addresses
  <2>1. t = v
    BY <1>6, <2>0, Zenon DEF Typed
  <2>2. v.type \in DocumentTypes
    BY <1>6, FailuresAre DEF Scalars
  <2> QED BY <2>0, <2>1, <2>2 DEF Suits
<1> QED
  BY <1>1, <1>2, <1>3, <1>4, <1>5, <1>6 DEF ArgumentTypes

(* What becomes of a value of a document on the way into the host. *)
LEMMA ToHostIs ==
  ASSUME NEW v, v.type \in DocumentTypes, NEW actors, NEW h, h = ToHost(actors, v)
  PROVE  /\ HasFailed(h) => h = Failed("ExecutionError")
         /\ v.type = "bool" => h.type = "bool"
         /\ v.type = "address" /\ ~HasFailed(h) => h.type = "address"
<1>1. CASE v.type = "integer"
  <2>1. h = Value("i128", "none", v.n)
    BY <1>1, Zenon DEF ToHost
  <2> QED BY <1>1, <2>1 DEF Value, HasFailed
<1>2. CASE v.type = "bool"
  <2>1. h = Value("bool", "none", v.n)
    BY <1>2, Zenon DEF ToHost
  <2> QED BY <1>2, <2>1 DEF Value, HasFailed
<1>3. CASE v.type = "text"
  <2>1. h = Value("string", v.form, v.n)
    BY <1>3, Zenon DEF ToHost
  <2> QED BY <1>3, <2>1 DEF Value, HasFailed
<1>4. CASE v.type = "address"
  <2>1. h = IF v.form = "word" /\ v.n \in actors THEN v ELSE Failed("ExecutionError")
    BY <1>4, Zenon DEF ToHost
  <2>2. ~HasFailed(v) /\ HasFailed(Failed("ExecutionError"))
    BY FailuresAre
  <2> QED BY <1>4, <2>1, <2>2
<1>5. CASE v.type = "sequence"
  <2>1. h = Value("vec", "none", v.n)
    BY <1>5, Zenon DEF ToHost
  <2> QED BY <1>5, <2>1 DEF Value, HasFailed
<1>6. CASE v.type \notin {"integer", "bool", "text", "address", "sequence"}
  <2>1. h = Failed("ExecutionError")
    BY <1>6, Zenon DEF ToHost
  <2> QED BY <1>6, <2>1, FailuresAre
<1> QED
  BY <1>1, <1>2, <1>3, <1>4, <1>5, <1>6 DEF DocumentTypes

Loose == {"timepoint", "duration", "val", "option_u32"}

(* What the host is given is of the declared type, or one of three failures. *)
LEMMA HostArgumentIs ==
  ASSUME NEW v, NEW type, Suits(v, type), NEW actors,
         NEW h, h = HostArgument(v, type, actors)
  PROVE  /\ HasFailed(h) => h \in {Failed("VectorError"), Failed("ExecutionError"), Crash}
         /\ ~HasFailed(h) /\ type \notin Loose => h.type = HostType(type)
<1>0. /\ v.type \in DocumentTypes /\ type \in ArgumentTypes \ {"void", "vec", "map"}
      /\ type \in Addresses => v.type = "address"
      /\ type = "bool" => v.type = "bool"
  BY DEF Suits
<1>1. CASE type \in {"timepoint", "duration"}
  <2>0. /\ type \notin Integral \ {"timepoint", "duration"} /\ type \notin {"symbol", "string"}
        /\ type # "bytes" /\ type \notin Addresses \cup {"bool", "val", "option_u32"}
    BY <1>1 DEF Integral, Addresses
  <2>1. h = Value("i128", "none", v.n)
    BY <1>1, <2>0, Zenon DEF HostArgument
  <2> QED BY <1>1, <2>1 DEF Value, HasFailed, Loose
<1>2. CASE type \in Integral \ {"timepoint", "duration"}
  <2>0. /\ type \notin {"timepoint", "duration"} /\ type \notin {"symbol", "string"}
        /\ type # "bytes" /\ type \notin Addresses \cup {"bool", "val", "option_u32"}
    BY <1>2 DEF Integral, Addresses
  <2>1. h = IF v.n \in Width(type) THEN Value(type, "none", v.n) ELSE Failed("VectorError")
    BY <1>2, <2>0, Zenon DEF HostArgument
  <2>2. HostType(type) = type /\ type # "error"
    BY <1>2 DEF Integral, HostType
  <2>3. Value(type, "none", v.n).type = type
    BY DEF Value
  <2> QED BY <2>1, <2>2, <2>3, FailuresAre DEF HasFailed
<1>3. CASE type \in {"symbol", "string"}
  <2>0. /\ type \notin {"timepoint", "duration"} /\ type \notin Integral \ {"timepoint", "duration"}
        /\ type # "bytes" /\ type \notin Addresses \cup {"bool", "val", "option_u32"}
    BY <1>3 DEF Integral, Addresses
  <2>1. h = IF v.type # "text" THEN Failed("VectorError")
            ELSE IF type = "symbol" /\ v.form = "phrase" THEN Crash
            ELSE Value(type, v.form, v.n)
    BY <1>3, <2>0, Zenon DEF HostArgument
  <2>2. HostType(type) = type /\ type # "error"
    BY <1>3 DEF HostType
  <2>3. Value(type, v.form, v.n).type = type
    BY DEF Value
  <2> QED BY <2>1, <2>2, <2>3, FailuresAre DEF HasFailed
<1>4. CASE type = "bytes"
  <2>0. /\ type \notin {"timepoint", "duration"} /\ type \notin Integral \ {"timepoint", "duration"}
        /\ type \notin {"symbol", "string"} /\ type \notin Addresses \cup {"bool", "val", "option_u32"}
    BY <1>4 DEF Integral, Addresses
  <2>1. h = Failed("VectorError")
    BY <1>4, <2>0, Zenon DEF HostArgument
  <2> QED BY <2>1, FailuresAre
<1>5. CASE type \in Addresses \cup {"bool", "val", "option_u32"}
  <2>0. /\ type \notin {"timepoint", "duration"} /\ type \notin Integral \ {"timepoint", "duration"}
        /\ type \notin {"symbol", "string"} /\ type # "bytes"
    BY <1>5 DEF Integral, Addresses
  <2>1. h = ToHost(actors, v)
    BY <1>5, <2>0, Zenon DEF HostArgument
  <2>2. /\ HasFailed(h) => h = Failed("ExecutionError")
        /\ v.type = "bool" => h.type = "bool"
        /\ v.type = "address" /\ ~HasFailed(h) => h.type = "address"
    BY <1>0, <2>1, ToHostIs
  <2>3. type \in Addresses => HostType(type) = "address"
    BY DEF Addresses, HostType
  <2>4. type = "bool" => HostType(type) = "bool"
    BY DEF HostType
  <2> QED BY <1>0, <1>5, <2>2, <2>3, <2>4 DEF Loose
<1> QED
  <2>1. type \in Integral \cup Addresses \cup {"bool", "symbol", "string", "bytes", "val", "option_u32"}
    BY <1>0 DEF ArgumentTypes
  <2> QED BY <1>1, <1>2, <1>3, <1>4, <1>5, <2>1

---------------------------------------------------------------------------
(* Chains of inputs. *)

(* What leads nowhere else is what the chain ends in. *)
LEMMA ChainStops ==
  ASSUME NEW inputs, NEW expr, NEW n \in Nat, NEW F, Chain(F, expr, inputs, n),
         NEW k \in 0..n, Followed1(F[k], inputs) = F[k]
  PROVE  F[n] = F[k]
<1> DEFINE P == {d \in Nat : k + d <= n => F[k + d] = F[k]}
<1>1. 0 \in P
  OBVIOUS
<1>2. ASSUME NEW d \in P
      PROVE  d + 1 \in P
  <2> SUFFICES ASSUME k + (d + 1) <= n
               PROVE  F[k + (d + 1)] = F[k]
    OBVIOUS
  <2>1. d \in Nat /\ k + d <= n /\ k + (d + 1) \in 1..n /\ (k + (d + 1)) - 1 = k + d
    OBVIOUS
  <2>2. F[k + d] = F[k] /\ F[k + (d + 1)] = Followed1(F[k + d], inputs)
    BY <2>1 DEF Chain
  <2> QED BY <2>2
<1>3. P = Nat
  <2> P \in SUBSET Nat
    OBVIOUS
  <2> HIDE DEF P
  <2> QED BY <1>1, <1>2, Reaches
<1>4. n - k \in Nat /\ k + (n - k) = n /\ k + (n - k) <= n
  OBVIOUS
<1>5. n - k \in P
  BY <1>3, <1>4
<1>6. F[k + (n - k)] = F[k]
  BY <1>4, <1>5
<1> QED
  BY <1>4, <1>6

---------------------------------------------------------------------------
(* The vector under test.  What the module says of the present disk is said here of any. *)

MethodIn(d, v) == Definition(d.profile.methods, v.method)

ArgumentsIn(d, v) ==
  [i \in DOMAIN MethodIn(d, v).args |->
     Argument(v.inputs[MethodIn(d, v).args[i].name], MethodIn(d, v).args[i].type, v.inputs)]

PassedIn(d, v, args) ==
  [i \in DOMAIN args |-> HostArgument(args[i], MethodIn(d, v).args[i].type, ActorNames(v))]

DocumentOf(d, v) == \E p \in DOMAIN d.files : v = d.files[p]

(* The method of a vector that was admitted, and its inputs. *)
LEMMA MethodIs ==
  ASSUME NEW d \in Disks, NEW v, Admissible(d, v)
  PROVE  /\ MethodIn(d, v) \in ToSet(d.profile.methods) /\ MethodIn(d, v).id = v.method
         /\ \E n \in Nat : DOMAIN MethodIn(d, v).args = 1..n
         /\ IsFiniteSet(DOMAIN v.inputs)
         /\ \A i \in DOMAIN MethodIn(d, v).args :
              /\ MethodIn(d, v).args[i].type \in ArgumentTypes
              /\ MethodIn(d, v).args[i].name \in DOMAIN v.inputs
<1> DEFINE m == MethodIn(d, v)
<1>1. Defined(d.profile.methods, v.method) /\ DOMAIN v.inputs = ArgumentNames(m)
  BY DEF Admissible, MethodIn
<1>2. m \in ToSet(d.profile.methods) /\ m.id = v.method
  BY <1>1, DocumentsAre, DefinitionIs DEF MethodIn
<1> HIDE DEF m
<1>3. m.args \in Seq(ToSet(m.args)) /\ \A a \in ToSet(m.args) : a.type \in ArgumentTypes
  BY <1>2, DocumentsAre
<1>4. DOMAIN m.args = 1..Len(m.args) /\ Len(m.args) \in Nat
  BY <1>3, LenProperties
<1>5. IsFiniteSet(1..Len(m.args))
  BY <1>4, FS_Interval
<1>6. IsFiniteSet({m.args[i].name : i \in 1..Len(m.args)})
  <2> DEFINE places == 1..Len(m.args)
             names  == {m.args[i].name : i \in places}
             f      == [i \in places |-> m.args[i].name]
  <2>1. f \in Surjection(places, names)
    BY DEF Surjection
  <2>2. IsFiniteSet(places)
    BY <1>5
  <2> HIDE DEF places, names, f
  <2>3. IsFiniteSet(names)
    BY <2>1, <2>2, FS_Surjection
  <2> QED BY <2>3 DEF names, places
<1>7. DOMAIN v.inputs = {m.args[i].name : i \in 1..Len(m.args)}
  BY <1>1, <1>4 DEF ArgumentNames
<1>8. ASSUME NEW i \in DOMAIN m.args
      PROVE  m.args[i].type \in ArgumentTypes /\ m.args[i].name \in DOMAIN v.inputs
  BY <1>3, <1>4, <1>7 DEF ToSet
<1> QED
  BY <1>2, <1>4, <1>6, <1>7, <1>8 DEF m

\* What an argument of a vector can be.
Resolved(d, v, i, a) ==
  \/ Suits(a, MethodIn(d, v).args[i].type)
  \/ a \in {Failed("VectorError"), Crash}

(* The arguments of a vector that was admitted are of the types declared, or are refused, or *)
(* bring the process down.                                                                   *)
LEMMA ArgumentsAre ==
  ASSUME NEW d \in Disks, NEW v, Admissible(d, v), DocumentOf(d, v)
  PROVE  \A i \in DOMAIN ArgumentsIn(d, v) : Resolved(d, v, i, ArgumentsIn(d, v)[i])
<1> SUFFICES ASSUME NEW i \in DOMAIN MethodIn(d, v).args
             PROVE  Resolved(d, v, i, ArgumentsIn(d, v)[i])
  BY DEF ArgumentsIn
<1> DEFINE name == MethodIn(d, v).args[i].name
           type == MethodIn(d, v).args[i].type
           s    == Scalar(v.inputs[name], v.inputs)
<1>1. IsFiniteSet(DOMAIN v.inputs) /\ name \in DOMAIN v.inputs /\ type \in ArgumentTypes
  BY MethodIs
<1>2. \A m \in DOMAIN v.inputs :
        v.inputs[m].kind = "literal" => v.inputs[m].literal.type \in DocumentTypes
  <2>1. PICK p \in DOMAIN d.files : v = d.files[p]
    BY DEF DocumentOf
  <2>2. \A m \in DOMAIN d.files[p].inputs :
          d.files[p].inputs[m].kind = "literal" => d.files[p].inputs[m].literal.type \in DocumentTypes
    BY DocumentsAre
  <2> QED BY <2>1, <2>2
<1>3. ArgumentsIn(d, v)[i] = Typed(s, type)
  BY DEF ArgumentsIn, Argument
<1> HIDE DEF name, type
<1>4. Scalars(s)
  BY <1>1, <1>2, ScalarIs
<1> HIDE DEF s
<1>5. Suits(Typed(s, type), type) \/ Typed(s, type) \in {Failed("VectorError"), Crash}
  BY <1>1, <1>4, TypedIs
<1> QED
  BY <1>3, <1>5 DEF Resolved, type

(* What ends the resolution of a vector's arguments: a refusal, or the process. *)
LEMMA ResolutionEnds ==
  ASSUME NEW d \in Disks, NEW v, Admissible(d, v), DocumentOf(d, v), ~AllProduced(ArgumentsIn(d, v))
  PROVE  Failure(ArgumentsIn(d, v)).form \in {"VectorError", "crash"}
<1> DEFINE args == ArgumentsIn(d, v)
<1>1. PICK n \in Nat : DOMAIN args = 1..n
  BY MethodIs DEF ArgumentsIn
<1>2. \A i \in DOMAIN args : Resolved(d, v, i, args[i])
  BY ArgumentsAre
<1> HIDE DEF args
<1>3. PICK i \in 1..n : Failure(args) = args[i] /\ HasFailed(args[i])
  BY <1>1, FailureIs DEF args
<1>4. Resolved(d, v, i, args[i])
  BY <1>1, <1>2, <1>3
<1>5. ~Suits(args[i], MethodIn(d, v).args[i].type)
  BY <1>3, FailuresAre DEF Suits
<1>6. args[i] \in {Failed("VectorError"), Crash}
  BY <1>4, <1>5 DEF Resolved
<1> QED
  BY <1>3, <1>6, FailuresAre DEF args

(* Once resolved, each argument suits its declaration. *)
LEMMA ResolvedSuit ==
  ASSUME NEW d \in Disks, NEW v, Admissible(d, v), DocumentOf(d, v), AllProduced(ArgumentsIn(d, v))
  PROVE  \A i \in DOMAIN ArgumentsIn(d, v) :
           Suits(ArgumentsIn(d, v)[i], MethodIn(d, v).args[i].type)
<1> DEFINE args == ArgumentsIn(d, v)
<1>1. \A i \in DOMAIN args : Resolved(d, v, i, args[i]) /\ ~HasFailed(args[i])
  BY ArgumentsAre DEF AllProduced
<1> HIDE DEF args
<1>2. ASSUME NEW i \in DOMAIN args
      PROVE  Suits(args[i], MethodIn(d, v).args[i].type)
  <2>1. args[i] # Failed("VectorError") /\ args[i] # Crash
    BY <1>1, FailuresAre
  <2> QED BY <1>1, <2>1 DEF Resolved
<1> QED
  BY <1>2 DEF args

(* What ends the conversion of a vector's arguments: a refusal, or the process. *)
LEMMA ConversionEnds ==
  ASSUME NEW d \in Disks, NEW v, Admissible(d, v), DocumentOf(d, v),
         NEW args, args = ArgumentsIn(d, v), AllProduced(args), ~AllProduced(PassedIn(d, v, args))
  PROVE  Failure(PassedIn(d, v, args)).form \in {"VectorError", "ExecutionError", "crash"}
<1> DEFINE hosts == PassedIn(d, v, args)
<1>1. PICK n \in Nat : DOMAIN args = 1..n
  BY MethodIs DEF ArgumentsIn
<1>2. DOMAIN hosts = 1..n
  BY <1>1 DEF PassedIn
<1> HIDE DEF hosts
<1>3. PICK i \in 1..n : Failure(hosts) = hosts[i] /\ HasFailed(hosts[i])
  BY <1>2, FailureIs DEF hosts
<1>4. hosts[i] = HostArgument(args[i], MethodIn(d, v).args[i].type, ActorNames(v))
  BY <1>1 DEF hosts, PassedIn
<1>5. Suits(args[i], MethodIn(d, v).args[i].type)
  BY <1>1, ResolvedSuit
<1>6. hosts[i] \in {Failed("VectorError"), Failed("ExecutionError"), Crash}
  BY <1>3, <1>4, <1>5, HostArgumentIs
<1>7. hosts[i].form \in {"VectorError", "ExecutionError", "crash"}
  BY <1>6, FailuresAre
<1> QED
  BY <1>3, <1>7 DEF hosts

(* What the host is given is of the type the method declares. *)
LEMMA PassedSuit ==
  ASSUME NEW d \in Disks, NEW v, Admissible(d, v), DocumentOf(d, v),
         NEW args, args = ArgumentsIn(d, v), AllProduced(args), AllProduced(PassedIn(d, v, args)),
         NEW i \in DOMAIN PassedIn(d, v, args), MethodIn(d, v).args[i].type \notin Loose
  PROVE  PassedIn(d, v, args)[i].type = HostType(MethodIn(d, v).args[i].type)
<1> DEFINE h == PassedIn(d, v, args)[i]
<1>1. i \in DOMAIN args /\ h = HostArgument(args[i], MethodIn(d, v).args[i].type, ActorNames(v))
  BY DEF PassedIn
<1>2. ~HasFailed(h)
  BY DEF AllProduced
<1> HIDE DEF h
<1>3. Suits(args[i], MethodIn(d, v).args[i].type)
  BY <1>1, ResolvedSuit
<1> QED
  <2>1. h.type = HostType(MethodIn(d, v).args[i].type)
    BY <1>1, <1>2, <1>3, HostArgumentIs
  <2> QED BY <2>1 DEF h

---------------------------------------------------------------------------
(* The inductive invariant. *)

Loadings == {"load", "corpus", "walk", "read"}
Later    == {"record", "convert", "call", "judge", "judged"}
Refusals == {"ProfileError", "VectorError", "ExecutionError"}

VectorsOf(read) == {read[i].document : i \in DOMAIN read}

\* What the load has found by now, and how the process may end.
Checked ==
  /\ pc \in Loadings \cup Later \cup {"admitted", "failed", "crashed"}
  /\ failure.class \in {"none"} \cup Refusals
  /\ pc = "failed" <=> failure # NoFailure
  /\ pc \notin {"load", "failed"} => WellReferenced(disk.profile)
  /\ findings # {} => pc \in {"read", "failed"}
  /\ findings = {} => \A v \in VectorsOf(vectors) : Admissible(disk, v)

\* What is known of the vector under test.
Tested ==
  /\ pc \in Loadings \cup {"admitted"} => vector = NoVector
  /\ vector = NoVector \/ vector \in VectorsOf(vectors)
  /\ pc \in Later => /\ vector \in VectorsOf(vectors)
                     /\ arguments = ArgumentsIn(disk, vector) /\ AllProduced(arguments)
  /\ pc \in {"call", "judge", "judged"} =>
       passed = PassedIn(disk, vector, arguments) /\ AllProduced(passed)
  /\ outcome \in {"none", "success", "failure"}

IntakeInv == LoaderInv /\ Checked /\ Tested

(* The definitions of the module, of the present disk. *)
LEMMA IntakeTerms ==
  /\ \A v : Method(v) = MethodIn(disk, v)
  /\ \A v : Arguments(v) = ArgumentsIn(disk, v)
<1>1. \A v : Method(v) = MethodIn(disk, v)
  BY DEF Method, MethodIn, profile
<1> QED
  BY <1>1 DEF Arguments, ArgumentsIn

(* What is read is a document of the disk. *)
LEMMA ReadAreDocuments ==
  ASSUME NEW d, NEW read \in Seq(EntriesOf(d)), NEW v \in VectorsOf(read)
  PROVE  DocumentOf(d, v)
<1>1. PICK i \in DOMAIN read : v = read[i].document
  BY DEF VectorsOf
<1>2. read[i] \in EntriesOf(d)
  BY <1>1, LenProperties
<1> QED
  BY <1>1, <1>2 DEF EntriesOf, EntryOf, DocumentOf

(* One more is read. *)
LEMMA OneMoreRead ==
  ASSUME NEW S, NEW read \in Seq(S), NEW e \in S, NEW v \in VectorsOf(Append(read, e))
  PROVE  v \in VectorsOf(read) \/ v = e.document
<1>1. PICK i \in 1..Len(Append(read, e)) : v = Append(read, e)[i].document
  BY LenProperties, AppendProperties DEF VectorsOf
<1>2. Len(Append(read, e)) = Len(read) + 1 /\ Len(read) \in Nat /\ DOMAIN read = 1..Len(read)
  BY AppendProperties, LenProperties
<1>3. CASE i = Len(read) + 1
  BY <1>1, <1>3, AppendProperties
<1>4. CASE i # Len(read) + 1
  <2>1. i \in 1..Len(read)
    BY <1>2, <1>4
  <2>2. Append(read, e)[i] = read[i]
    BY <2>1, AppendProperties
  <2> QED BY <1>1, <1>2, <2>1, <2>2 DEF VectorsOf
<1> QED
  BY <1>3, <1>4

Refused(classes) == pc' = "failed" /\ failure'.class \in classes /\ failure' # NoFailure

(* A refusal is one. *)
LEMMA FailIs ==
  ASSUME NEW class \in Refusals, NEW at, Fail(class, at)
  PROVE  Refused({class}) /\ failure'.at = at
<1>1. pc' = "failed" /\ failure' = [class |-> class, at |-> at]
  BY DEF Fail
<1>2. failure'.class = class /\ failure'.at = at
  BY <1>1
<1>3. class # "none" /\ NoFailure.class = "none"
  BY DEF Refusals, NoFailure
<1> QED
  BY <1>1, <1>2, <1>3 DEF Refused

\* What a step of the load can do.
GoesOn(places) == pc' \in places /\ failure' = failure

LoadMoves ==
  /\ disk' = disk /\ pc \in Loadings
  /\ Refused(Refusals) \/ GoesOn({"corpus", "walk", "read", "admitted"})
  /\ \/ /\ pc = "load" /\ findings' = BundleFindings(disk.profile) /\ vectors' = vectors
        /\ findings' = {} \/ pc' = "failed"
     \/ /\ pc # "load" /\ vectors' = vectors /\ findings' = findings
        /\ pc' = "admitted" => findings = {}
        /\ pc = "read" => pc' \in {"read", "admitted", "failed"}
     \/ /\ pc = "read" /\ pc' = "read"
        /\ \E p \in DOMAIN disk.files :
             vectors' = Append(vectors, EntryOf(disk, p)) /\ Validate(disk.files[p]) \subseteq findings'
        /\ findings \subseteq findings'

(* Every step of the load does one of these. *)
LEMMA LoadDoes ==
  ASSUME LoaderInv, Load
  PROVE  LoadMoves
<1> USE DEF walk, corpus
<1>0. /\ \A at : Fail("ProfileError", at) => Refused(Refusals)
      /\ \A at : Fail("VectorError", at) => Refused(Refusals)
  BY FailIs DEF Refusals, Refused
<1>1. ASSUME LoadBundle
      PROVE  LoadMoves
  <2>1. /\ disk' = disk /\ pc = "load" /\ findings' = BundleFindings(disk.profile) /\ vectors' = vectors
        /\ (findings' = {} /\ pc' = "corpus" /\ failure' = failure) \/ Fail("ProfileError", "load")
    BY <1>1 DEF LoadBundle, profile
  <2>2. Fail("ProfileError", "load") => pc' = "failed"
    BY DEF Fail
  <2> QED BY <1>0, <2>1, <2>2 DEF LoadMoves, Loadings, GoesOn
<1>2. ASSUME EnterTree \/ OpenDirectory \/ (\E path \in entries : SeeEntry(path)) \/ LeaveTree \/ SortSources
      PROVE  LoadMoves
  <2>1. /\ disk' = disk /\ pc \in {"corpus", "walk"} /\ vectors' = vectors /\ findings' = findings
        /\ (pc' \in {"corpus", "walk", "read"} /\ failure' = failure) \/ Fail("VectorError", "tree")
    <3>1. CASE EnterTree
      BY <3>1 DEF EnterTree
    <3>2. CASE OpenDirectory
      BY <3>2 DEF OpenDirectory
    <3>3. CASE \E path \in entries : SeeEntry(path)
      BY <3>3 DEF SeeEntry, SeeDirectory, SeeVector, SeeOther
    <3>4. CASE LeaveTree
      BY <3>4 DEF LeaveTree
    <3>5. CASE SortSources
      BY <3>5 DEF SortSources
    <3> QED BY <1>2, <3>1, <3>2, <3>3, <3>4, <3>5
  <2>2. Fail("VectorError", "tree") => pc' = "failed"
    BY DEF Fail
  <2> QED BY <1>0, <2>1, <2>2 DEF LoadMoves, Loadings, GoesOn
<1>3. ASSUME ReadVector
      PROVE  LoadMoves
  <2> DEFINE p == Head(sources)
  <2>1. disk' = disk /\ pc = "read" /\ sources # <<>>
    BY <1>3 DEF ReadVector
  <2>2. CASE ~disk.files[p].parses
    <3>1. Fail("VectorError", "read") /\ vectors' = vectors /\ findings' = findings /\ pc' = "failed"
      BY <1>3, <2>2 DEF ReadVector, Fail
    <3> QED BY <1>0, <2>1, <3>1 DEF LoadMoves, Loadings
  <2>3. CASE disk.files[p].parses /\ DoesNotApply(disk.files[p])
    <3>1. pc' = pc /\ failure' = failure /\ vectors' = vectors /\ findings' = findings
      BY <1>3, <2>3 DEF ReadVector
    <3> QED BY <2>1, <3>1 DEF LoadMoves, Loadings, GoesOn
  <2>4. CASE disk.files[p].parses /\ ~DoesNotApply(disk.files[p])
    <3>1. /\ pc' = pc /\ failure' = failure /\ vectors' = Append(vectors, EntryOf(disk, p))
          /\ Validate(disk.files[p]) \subseteq findings' /\ findings \subseteq findings'
      BY <1>3, <2>4 DEF ReadVector, EntryOf
    <3>2. p \in DOMAIN disk.files
      <4>1. disk \in Disks /\ vectors \in Seq(EntriesOf(disk)) /\ Reading(disk, sources, vectors)
        BY <2>1 DEF LoaderInv
      <4> QED BY <2>1, <4>1, ReadingGoesOn
    <3> HIDE DEF p
    <3> QED BY <2>1, <3>1, <3>2 DEF LoadMoves, Loadings, GoesOn
  <2> QED BY <2>2, <2>3, <2>4
<1>4. ASSUME AdmitCorpus
      PROVE  LoadMoves
  <2>1. /\ disk' = disk /\ pc = "read" /\ vectors' = vectors /\ findings' = findings
        /\ (findings = {} /\ pc' = "admitted" /\ failure' = failure) \/ Fail("VectorError", "validate")
    BY <1>4 DEF AdmitCorpus
  <2>2. Fail("VectorError", "validate") => pc' = "failed"
    BY DEF Fail
  <2> QED BY <1>0, <2>1, <2>2 DEF LoadMoves, Loadings, GoesOn
<1> QED
  BY <1>1, <1>2, <1>3, <1>4 DEF Load

(* The load keeps the invariant. *)
LEMMA LoadingKeeps ==
  ASSUME IntakeInv, Loading
  PROVE  IntakeInv'
<1>0. LoaderInv /\ Checked /\ Tested /\ Load /\ UNCHANGED execution
  BY DEF IntakeInv, Loading
<1>1. LoaderInv'
  BY <1>0, LoaderKeeps
<1>2. LoadMoves
  BY <1>0, LoadDoes
<1>3. /\ disk' = disk /\ pc \in Loadings
      /\ Refused(Refusals) \/ GoesOn({"corpus", "walk", "read", "admitted"})
  BY <1>2 DEF LoadMoves
<1>4. Tested'
  <2>1. /\ vector' = NoVector /\ vector = NoVector /\ outcome' = outcome
        /\ outcome \in {"none", "success", "failure"}
    BY <1>0, <1>3 DEF execution, Tested
  <2>2. pc' \in Loadings \cup {"admitted", "failed"}
    BY <1>3 DEF Loadings, GoesOn, Refused
  <2>3. pc' \notin Later /\ pc' \notin {"call", "judge", "judged"} /\ pc' # "crashed"
    BY <2>2 DEF Loadings, Later
  <2> QED BY <2>1, <2>2, <2>3 DEF Tested
<1>5. /\ pc' \in Loadings \cup Later \cup {"admitted", "failed", "crashed"}
      /\ failure'.class \in {"none"} \cup Refusals
      /\ pc' = "failed" <=> failure' # NoFailure
  <2>1. CASE Refused(Refusals)
    BY <2>1 DEF Refused
  <2>2. CASE GoesOn({"corpus", "walk", "read", "admitted"})
    <3>1. failure = NoFailure /\ failure.class \in {"none"} \cup Refusals
      BY <1>0, <1>3 DEF Checked, Loadings
    <3> QED BY <2>2, <3>1 DEF GoesOn, Loadings
  <2> QED BY <1>3, <2>1, <2>2
<1>6. \/ /\ pc = "load" /\ findings' = BundleFindings(disk.profile) /\ vectors' = vectors
         /\ findings' = {} \/ pc' = "failed"
      \/ /\ pc # "load" /\ vectors' = vectors /\ findings' = findings
         /\ pc' = "admitted" => findings = {}
         /\ pc = "read" => pc' \in {"read", "admitted", "failed"}
      \/ /\ pc = "read" /\ pc' = "read"
         /\ \E p \in DOMAIN disk.files :
              vectors' = Append(vectors, EntryOf(disk, p)) /\ Validate(disk.files[p]) \subseteq findings'
         /\ findings \subseteq findings'
  BY <1>2 DEF LoadMoves
<1>7. pc' \notin {"load", "failed"} => WellReferenced(disk'.profile)
  <2>1. CASE pc = "load"
    <3>1. pc' # "failed" => BundleFindings(disk.profile) = {}
      BY <1>6, <2>1
    <3> QED BY <1>3, <3>1, BundleMeans
  <2>2. CASE pc # "load"
    <3>1. WellReferenced(disk.profile)
      BY <1>0, <1>3, <2>2 DEF Checked, Loadings
    <3> QED BY <1>3, <3>1
  <2> QED BY <2>1, <2>2
<1>8. findings' # {} => pc' \in {"read", "failed"}
  <2>1. findings # {} => pc = "read"
    BY <1>0, <1>3 DEF Checked, Loadings
  <2> QED BY <1>6, <2>1
<1>9. findings' = {} => \A v \in VectorsOf(vectors') : Admissible(disk', v)
  <2> SUFFICES ASSUME findings' = {}, NEW v \in VectorsOf(vectors')
               PROVE  Admissible(disk, v)
    BY <1>3
  <2>1. findings = {} => \A w \in VectorsOf(vectors) : Admissible(disk, w)
    BY <1>0 DEF Checked
  <2>2. vectors \in Seq(EntriesOf(disk)) /\ (pc = "load" => vectors = <<>>)
    BY <1>0 DEF LoaderInv
  <2>3. CASE pc = "load" /\ vectors' = vectors
    BY <2>2, <2>3 DEF VectorsOf
  <2>4. CASE vectors' = vectors /\ findings' = findings
    BY <2>1, <2>4
  <2>5. CASE findings \subseteq findings' /\ \E p \in DOMAIN disk.files :
               vectors' = Append(vectors, EntryOf(disk, p)) /\ Validate(disk.files[p]) \subseteq findings'
    <3>1. PICK p \in DOMAIN disk.files :
            vectors' = Append(vectors, EntryOf(disk, p)) /\ Validate(disk.files[p]) \subseteq findings'
      BY <2>5
    <3>2. EntryOf(disk, p) \in EntriesOf(disk) /\ EntryOf(disk, p).document = disk.files[p]
      BY DEF EntryOf, EntriesOf
    <3>3. v \in VectorsOf(vectors) \/ v = disk.files[p]
      BY <2>2, <3>1, <3>2, OneMoreRead
    <3>4. findings = {} /\ Validate(disk.files[p]) = {}
      BY <2>5, <3>1
    <3>5. Admissible(disk, disk.files[p])
      BY <3>4, ValidMeans
    <3> QED BY <2>1, <3>3, <3>4, <3>5
  <2> QED BY <1>6, <2>3, <2>4, <2>5
<1>10. Checked'
  BY <1>5, <1>7, <1>8, <1>9 DEF Checked
<1> QED
  BY <1>1, <1>4, <1>10 DEF IntakeInv

(* What a conversion is followed by. *)
LEMMA ProceedIs ==
  ASSUME NEW values, NEW next, NEW at, Proceed(values, next, at),
         ~AllProduced(values) => Failure(values).form \in Refusals \cup {"crash"}
  PROVE  \/ AllProduced(values) /\ pc' = next /\ failure' = failure
         \/ ~AllProduced(values) /\ Failure(values).form = "crash" /\ pc' = "crashed" /\ failure' = failure
         \/ ~AllProduced(values) /\ Refused(Refusals) /\ failure'.at = at
<1>1. CASE AllProduced(values)
  BY <1>1 DEF Proceed
<1>2. CASE ~AllProduced(values) /\ Failure(values).form = "crash"
  BY <1>2 DEF Proceed, ErrorOf
<1>3. CASE ~AllProduced(values) /\ Failure(values).form # "crash"
  <2>1. Fail(Failure(values).form, at) /\ Failure(values).form \in Refusals
    BY <1>3 DEF Proceed, ErrorOf
  <2> QED BY <1>3, <2>1, FailIs DEF Refused
<1> QED
  BY <1>1, <1>2, <1>3

(* After the load, what was checked stays checked: the process goes on or is refused. *)
LEMMA CheckedRests ==
  ASSUME Checked, UNCHANGED <<disk, vectors, findings>>, pc \notin Loadings \cup {"failed"},
         \/ pc' \in Later \cup {"crashed"} /\ failure' = failure
         \/ Refused(Refusals)
  PROVE  Checked'
<1>1. failure = NoFailure /\ WellReferenced(disk.profile)
  BY DEF Checked, Loadings
<1>2. findings = {} /\ \A v \in VectorsOf(vectors) : Admissible(disk, v)
  BY DEF Checked, Loadings
<1>3. pc' = "failed" <=> failure' # NoFailure
  BY <1>1 DEF Refused, Later
<1>4. failure'.class \in {"none"} \cup Refusals
  BY DEF Refused, Checked
<1>5. pc' \in Loadings \cup Later \cup {"admitted", "failed", "crashed"}
  BY DEF Refused
<1> QED
  BY <1>1, <1>2, <1>3, <1>4, <1>5 DEF Checked

(* So does the corpus. *)
LEMMA CorpusRests ==
  ASSUME LoaderInv, UNCHANGED <<disk, walk, corpus>>,
         \/ pc' \in Later \cup {"crashed"}
         \/ pc' = "failed" /\ failure'.at # "tree"
  PROVE  LoaderInv'
  BY LoaderRests DEF Later

(* A vector is taken. *)
LEMMA TakeKeeps ==
  ASSUME IntakeInv, NEW i \in DOMAIN vectors, Take(i)
  PROVE  IntakeInv'
<1> DEFINE v == vectors[i].document
<1>0. LoaderInv /\ Checked /\ Tested
  BY DEF IntakeInv
<1>1. /\ pc = "admitted" /\ vector' = v /\ arguments' = Arguments(vector')
      /\ UNCHANGED <<disk, walk, corpus, passed, emitted, outcome>>
      /\ Proceed(arguments', "record", "arguments") \/ Fail("VectorError", "arguments")
  BY DEF Take
<1>2. v \in VectorsOf(vectors)
  BY DEF VectorsOf
<1> HIDE DEF v
<1>3. disk \in Disks /\ vectors \in Seq(EntriesOf(disk))
  BY <1>0 DEF LoaderInv
<1>4. Admissible(disk, v) /\ DocumentOf(disk, v)
  <2>1. Admissible(disk, v)
    BY <1>0, <1>1, <1>2 DEF Checked
  <2> QED BY <1>2, <1>3, <2>1, ReadAreDocuments
<1>5. arguments' = ArgumentsIn(disk, v)
  BY <1>1, IntakeTerms
<1>6. ~AllProduced(arguments') => Failure(arguments').form \in {"VectorError", "crash"}
  BY <1>3, <1>4, <1>5, ResolutionEnds
<1>7. \/ AllProduced(arguments') /\ pc' = "record" /\ failure' = failure
      \/ pc' = "crashed" /\ failure' = failure
      \/ Refused(Refusals) /\ failure'.at = "arguments"
  <2>1. CASE Proceed(arguments', "record", "arguments")
    <3>1. ~AllProduced(arguments') => Failure(arguments').form \in Refusals \cup {"crash"}
      BY <1>6 DEF Refusals
    <3>2. \/ AllProduced(arguments') /\ pc' = "record" /\ failure' = failure
          \/ ~AllProduced(arguments') /\ Failure(arguments').form = "crash" /\ pc' = "crashed" /\ failure' = failure
          \/ ~AllProduced(arguments') /\ Refused(Refusals) /\ failure'.at = "arguments"
      BY <2>1, <3>1, ProceedIs
    <3> QED BY <1>6, <3>2
  <2>2. CASE Fail("VectorError", "arguments")
    BY <2>2, FailIs DEF Refusals, Refused
  <2> QED BY <1>1, <2>1, <2>2
<1>8. LoaderInv'
  BY <1>0, <1>1, <1>7, CorpusRests DEF Refused, Later
<1>9. Checked'
  <2>1. (pc' \in Later \cup {"crashed"} /\ failure' = failure) \/ Refused(Refusals)
    BY <1>7 DEF Later
  <2>2. UNCHANGED <<disk, vectors, findings>> /\ pc \notin Loadings \cup {"failed"}
    BY <1>1 DEF corpus, Loadings
  <2> QED BY <1>0, <2>1, <2>2, CheckedRests
<1>10. Tested'
  <2>1. pc' \in {"record", "crashed", "failed"} /\ pc' \notin Loadings \cup {"admitted"}
    BY <1>7 DEF Refused, Loadings
  <2>2. disk' = disk /\ vectors' = vectors /\ vector' \in VectorsOf(vectors)
    BY <1>1, <1>2 DEF corpus
  <2>3. pc' \in Later => AllProduced(arguments') /\ arguments' = ArgumentsIn(disk, vector')
    BY <1>1, <1>5, <1>7 DEF Refused, Later
  <2>4. outcome' \in {"none", "success", "failure"}
    BY <1>0, <1>1 DEF Tested
  <2> QED BY <2>1, <2>2, <2>3, <2>4 DEF Tested
<1> QED
  BY <1>8, <1>9, <1>10 DEF IntakeInv

(* What is known once the arguments of a vector are resolved. *)
LEMMA TestedIs ==
  ASSUME IntakeInv, pc \in Later
  PROVE  /\ LoaderInv /\ Checked /\ disk \in Disks /\ vector \in VectorsOf(vectors)
         /\ Admissible(disk, vector) /\ DocumentOf(disk, vector)
         /\ arguments = ArgumentsIn(disk, vector) /\ AllProduced(arguments)
         /\ WellReferenced(disk.profile)
         /\ outcome \in {"none", "success", "failure"}
<1>1. LoaderInv /\ Checked /\ Tested
  BY DEF IntakeInv
<1>2. disk \in Disks /\ vectors \in Seq(EntriesOf(disk))
  BY <1>1 DEF LoaderInv
<1>3. vector \in VectorsOf(vectors) /\ arguments = ArgumentsIn(disk, vector) /\ AllProduced(arguments)
      /\ outcome \in {"none", "success", "failure"}
  BY <1>1 DEF Tested
<1>4. findings = {} /\ WellReferenced(disk.profile)
  BY <1>1 DEF Checked, Later
<1>5. Admissible(disk, vector) /\ DocumentOf(disk, vector)
  BY <1>1, <1>2, <1>3, <1>4, ReadAreDocuments DEF Checked
<1> QED
  BY <1>1, <1>2, <1>3, <1>4, <1>5

(* The world is recorded. *)
LEMMA RecordKeeps ==
  ASSUME IntakeInv, NEW c \in Openings, Record(c)
  PROVE  IntakeInv'
<1>1. /\ pc = "record" /\ pc' \in {"convert", "crashed"}
      /\ UNCHANGED <<disk, walk, corpus, failure, vector, arguments, passed, outcome, emitted>>
  BY DEF Record
<1>2. /\ LoaderInv /\ Checked /\ vector \in VectorsOf(vectors)
      /\ arguments = ArgumentsIn(disk, vector) /\ AllProduced(arguments)
      /\ outcome \in {"none", "success", "failure"}
  BY <1>1, TestedIs DEF Later
<1>3. LoaderInv'
  BY <1>1, <1>2, CorpusRests DEF Later
<1>4. Checked'
  BY <1>1, <1>2, CheckedRests DEF corpus, Loadings, Later
<1>5. Tested'
  BY <1>1, <1>2 DEF Tested, corpus, Loadings, Later
<1> QED
  BY <1>3, <1>4, <1>5 DEF IntakeInv

(* The arguments are handed to the host. *)
LEMMA ConvertKeeps ==
  ASSUME IntakeInv, Convert
  PROVE  IntakeInv'
<1>1. /\ pc = "convert" /\ Proceed(passed', "call", "convert")
      /\ UNCHANGED <<disk, walk, corpus, vector, arguments, outcome, emitted>>
  BY DEF Convert
<1>2. /\ LoaderInv /\ Checked /\ disk \in Disks /\ vector \in VectorsOf(vectors)
      /\ Admissible(disk, vector) /\ DocumentOf(disk, vector)
      /\ arguments = ArgumentsIn(disk, vector) /\ AllProduced(arguments)
      /\ outcome \in {"none", "success", "failure"}
  BY <1>1, TestedIs DEF Later
<1>3. passed' = PassedIn(disk, vector, arguments)
  BY IntakeTerms DEF Convert, PassedIn
<1>4. ~AllProduced(passed') => Failure(passed').form \in {"VectorError", "ExecutionError", "crash"}
  BY <1>2, <1>3, ConversionEnds
<1>5. \/ AllProduced(passed') /\ pc' = "call" /\ failure' = failure
      \/ pc' = "crashed" /\ failure' = failure
      \/ Refused(Refusals) /\ failure'.at = "convert"
  <2>1. ~AllProduced(passed') => Failure(passed').form \in Refusals \cup {"crash"}
    BY <1>4 DEF Refusals
  <2>2. \/ AllProduced(passed') /\ pc' = "call" /\ failure' = failure
        \/ ~AllProduced(passed') /\ Failure(passed').form = "crash" /\ pc' = "crashed" /\ failure' = failure
        \/ ~AllProduced(passed') /\ Refused(Refusals) /\ failure'.at = "convert"
    BY <1>1, <2>1, ProceedIs
  <2> QED BY <1>4, <2>2 DEF Refusals
<1>6. LoaderInv'
  BY <1>1, <1>2, <1>5, CorpusRests DEF Refused, Later
<1>7. Checked'
  <2>1. (pc' \in Later \cup {"crashed"} /\ failure' = failure) \/ Refused(Refusals)
    BY <1>5 DEF Later
  <2>2. UNCHANGED <<disk, vectors, findings>> /\ pc \notin Loadings \cup {"failed"}
    BY <1>1 DEF corpus, Loadings
  <2> QED BY <1>2, <2>1, <2>2, CheckedRests
<1>8. Tested'
  <2>1. /\ disk' = disk /\ vectors' = vectors /\ vector' = vector /\ arguments' = arguments
        /\ outcome' = outcome
    BY <1>1 DEF corpus
  <2>2. pc' \in {"call", "crashed", "failed"} /\ pc' \notin Loadings \cup {"admitted"}
    BY <1>5 DEF Refused, Loadings
  <2>3. pc' = "call" => AllProduced(passed')
    BY <1>5 DEF Refused
  <2> QED BY <1>2, <1>3, <2>1, <2>2, <2>3 DEF Tested
<1> QED
  BY <1>6, <1>7, <1>8 DEF IntakeInv

(* The call is made. *)
LEMMA InvokeKeeps ==
  ASSUME IntakeInv, Invoke
  PROVE  IntakeInv'
<1>0. outcome \in {"none", "success", "failure"}
  BY TestedIs DEF Invoke, Later
<1>1. /\ pc = "call" /\ pc' \in {"judge", "crashed"} /\ outcome' \in {"none", "success", "failure"}
      /\ UNCHANGED <<disk, walk, corpus, failure, vector, arguments, passed>>
  BY <1>0 DEF Invoke, CallReturns
<1>2. /\ LoaderInv /\ Checked /\ vector \in VectorsOf(vectors)
      /\ arguments = ArgumentsIn(disk, vector) /\ AllProduced(arguments)
  BY <1>1, TestedIs DEF Later
<1>3. passed = PassedIn(disk, vector, arguments) /\ AllProduced(passed)
  BY <1>1 DEF IntakeInv, Tested
<1>4. LoaderInv'
  BY <1>1, <1>2, CorpusRests DEF Later
<1>5. Checked'
  BY <1>1, <1>2, CheckedRests DEF corpus, Loadings, Later
<1>6. Tested'
  BY <1>1, <1>2, <1>3 DEF Tested, corpus, Loadings, Later
<1> QED
  BY <1>4, <1>5, <1>6 DEF IntakeInv

(* The call is judged. *)
LEMMA JudgeKeeps ==
  ASSUME IntakeInv, Judge
  PROVE  IntakeInv'
<1>1. /\ pc = "judge"
      /\ pc' \in {"judged", "crashed"}
      /\ UNCHANGED <<disk, walk, corpus, failure, vector, arguments, passed, outcome, emitted>>
  BY DEF Judge, Conclude
<1>2. /\ LoaderInv /\ Checked /\ vector \in VectorsOf(vectors)
      /\ arguments = ArgumentsIn(disk, vector) /\ AllProduced(arguments)
      /\ outcome \in {"none", "success", "failure"}
  BY <1>1, TestedIs DEF Later
<1>3. passed = PassedIn(disk, vector, arguments) /\ AllProduced(passed)
  BY <1>1 DEF IntakeInv, Tested
<1>4. LoaderInv'
  BY <1>1, <1>2, CorpusRests DEF Later
<1>5. Checked'
  BY <1>1, <1>2, CheckedRests DEF corpus, Loadings, Later
<1>6. Tested'
  BY <1>1, <1>2, <1>3 DEF Tested, corpus, Loadings, Later
<1> QED
  BY <1>4, <1>5, <1>6 DEF IntakeInv

(* The invariant holds at first. *)
LEMMA IntakeStarts ==
  Init => IntakeInv
<1> SUFFICES ASSUME Init PROVE IntakeInv
  OBVIOUS
<1>1. LoadInit /\ vector = NoVector /\ outcome = "none"
  BY DEF Init
<1>2. pc = "load" /\ failure = NoFailure /\ findings = {} /\ vectors = <<>>
  BY <1>1 DEF LoadInit
<1>3. VectorsOf(vectors) = {}
  BY <1>2 DEF VectorsOf
<1>4. NoFailure.class = "none"
  BY DEF NoFailure
<1>5. Checked
  BY <1>2, <1>3, <1>4 DEF Checked, Loadings
<1>6. Tested
  BY <1>1, <1>2 DEF Tested, Loadings, Later
<1> QED
  BY <1>1, <1>5, <1>6, LoaderStarts DEF IntakeInv

(* Nothing that happens breaks it. *)
LEMMA IntakeKeeps ==
  IntakeInv /\ [Next]_vars => IntakeInv'
<1> SUFFICES ASSUME IntakeInv, [Next]_vars
             PROVE  IntakeInv'
  OBVIOUS
<1>1. CASE Loading
  BY <1>1, LoadingKeeps
<1>2. CASE \E i \in DOMAIN vectors : Take(i)
  BY <1>2, TakeKeeps
<1>3. CASE \E c \in Openings : Record(c)
  BY <1>3, RecordKeeps
<1>4. CASE Convert
  BY <1>4, ConvertKeeps
<1>5. CASE Invoke
  BY <1>5, InvokeKeeps
<1>6. CASE Judge
  BY <1>6, JudgeKeeps
<1>7. CASE UNCHANGED vars
  <2>1. UNCHANGED <<disk, pc, declared, stack, entries, found, sources, vectors, skipped, findings,
                    failure, vector, arguments, passed, outcome, emitted>>
    BY <1>7 DEF vars, loader, walk, corpus, execution
  <2>2. LoaderInv'
    BY <2>1 DEF IntakeInv, LoaderInv
  <2>3. Checked'
    BY <2>1 DEF IntakeInv, Checked
  <2>4. Tested'
    BY <2>1 DEF IntakeInv, Tested
  <2> QED BY <2>2, <2>3, <2>4 DEF IntakeInv
<1> QED
  BY <1>1, <1>2, <1>3, <1>4, <1>5, <1>6, <1>7 DEF Next

---------------------------------------------------------------------------
(* The record. *)

(* What the entries amount to is where the recording ends. *)
LEMMA RecordingIs ==
  ASSUME NEW S, NEW made \in Seq(S)
  PROVE  \E f : /\ f[0] = <<>> /\ \A k \in 1..Len(made) : f[k] = Insert(f[k - 1], made[k])
                /\ Recording(made) = f[Len(made)]
<1> DEFINE n == Len(made)
           P == {m \in Nat : \E f : f = [k \in 0..m |-> IF k = 0 THEN <<>> ELSE Insert(f[k - 1], made[k])]}
<1>0. n \in Nat
  BY LenProperties
<1>1. 0 \in P
  <2> DEFINE f == [k \in 0..0 |-> <<>>]
  <2>1. f = [k \in 0..0 |-> IF k = 0 THEN <<>> ELSE Insert(f[k - 1], made[k])]
    OBVIOUS
  <2> HIDE DEF f
  <2> QED BY <2>1
<1>2. ASSUME NEW m \in P
      PROVE  m + 1 \in P
  <2>1. PICK f : f = [k \in 0..m |-> IF k = 0 THEN <<>> ELSE Insert(f[k - 1], made[k])]
    OBVIOUS
  <2> DEFINE g == [k \in 0..(m + 1) |-> IF k = m + 1 THEN Insert(f[m], made[m + 1]) ELSE f[k]]
  <2>2. ASSUME NEW k \in 0..(m + 1)
        PROVE  g[k] = IF k = 0 THEN <<>> ELSE Insert(g[k - 1], made[k])
    <3>0. m \in Nat
      OBVIOUS
    <3>1. CASE k = 0
      BY <2>1, <3>0, <3>1
    <3>2. CASE k = m + 1
      <4>1. k # 0 /\ k - 1 = m /\ k - 1 \in 0..(m + 1) /\ k - 1 # m + 1
        BY <3>0, <3>2
      <4> QED BY <3>2, <4>1
    <3>3. CASE k # 0 /\ k # m + 1
      <4>1. k \in 0..m /\ k - 1 \in 0..(m + 1) /\ k - 1 # m + 1
        BY <3>0, <3>3
      <4>2. f[k] = Insert(f[k - 1], made[k])
        BY <2>1, <3>3, <4>1
      <4> QED BY <3>3, <4>1, <4>2
    <3> QED BY <3>1, <3>2, <3>3
  <2>3. g = [k \in 0..(m + 1) |-> IF k = 0 THEN <<>> ELSE Insert(g[k - 1], made[k])]
    <3>1. g = [k \in 0..(m + 1) |-> g[k]]
      OBVIOUS
    <3> HIDE DEF g
    <3> QED BY <2>2, <3>1
  <2> HIDE DEF g
  <2> QED BY <2>3
<1>3. n \in P
  <2>1. P \in SUBSET Nat
    OBVIOUS
  <2> HIDE DEF P
  <2> QED BY <1>0, <1>1, <1>2, <2>1, Reaches
<1> DEFINE F == CHOOSE f : f = [k \in 0..n |-> IF k = 0 THEN <<>> ELSE Insert(f[k - 1], made[k])]
<1>4. F = [k \in 0..n |-> IF k = 0 THEN <<>> ELSE Insert(F[k - 1], made[k])]
  <2>1. \E f : f = [k \in 0..n |-> IF k = 0 THEN <<>> ELSE Insert(f[k - 1], made[k])]
    BY <1>3
  <2> HIDE DEF P, n
  <2> QED BY <2>1
<1>5. Recording(made) = F[n]
  BY DEF Recording
<1>6. 0 \in 0..n /\ \A k \in 1..n : k \in 0..n /\ k # 0
  BY <1>0
<1> HIDE DEF F
<1>7. F[0] = <<>> /\ \A k \in 1..n : F[k] = Insert(F[k - 1], made[k])
  <2> HIDE DEF n, P
  <2> QED BY <1>4, <1>6
<1> QED
  BY <1>5, <1>7

\* The entry with the answer to a read is there.
Answers(reads, method, args) == \E i \in DOMAIN reads : reads[i].method = method /\ reads[i].args = args

(* What is put into a record is in it, unless an answer to the same read was; nothing else   *)
(* happens to it.                                                                            *)
LEMMA InsertIs ==
  ASSUME NEW S, NEW reads \in Seq(S), NEW entry \in S
  PROVE  /\ Insert(reads, entry) \in Seq(S)
         /\ Len(reads) \in Nat /\ Len(Insert(reads, entry)) \in Nat
         /\ Answers(Insert(reads, entry), entry.method, entry.args)
         /\ \A i \in 1..Len(reads) : Insert(reads, entry)[i] = reads[i]
         /\ Answers(reads, entry.method, entry.args) => Insert(reads, entry) = reads
         /\ ~Answers(reads, entry.method, entry.args) =>
              Len(Insert(reads, entry)) = Len(reads) + 1 /\ Insert(reads, entry)[Len(reads) + 1] = entry
<1> DEFINE longer == Append(reads, entry)
           result == Insert(reads, entry)
           n      == Len(reads)
<1>1. /\ n \in Nat /\ DOMAIN reads = 1..n
      /\ longer \in Seq(S) /\ Len(longer) = n + 1 /\ DOMAIN longer = 1..(n + 1)
      /\ longer[n + 1] = entry /\ \A i \in 1..n : longer[i] = reads[i]
  BY LenProperties, AppendProperties
<1>2. Answers(reads, entry.method, entry.args) <=> Entries(reads, entry.method, entry.args) # {}
  BY DEF Answers, Entries
<1>3. /\ Answers(reads, entry.method, entry.args) => result = reads
      /\ ~Answers(reads, entry.method, entry.args) => result = longer
  BY <1>2 DEF Insert
<1>4. Answers(longer, entry.method, entry.args)
  <2> HIDE DEF longer, n
  <2>1. n + 1 \in DOMAIN longer
    BY <1>1
  <2> QED BY <1>1, <2>1 DEF Answers
<1> HIDE DEF longer, result, n
<1>5. /\ result \in Seq(S) /\ Len(result) \in Nat
      /\ \A i \in 1..n : result[i] = reads[i]
      /\ Answers(result, entry.method, entry.args)
  BY <1>1, <1>3, <1>4
<1>6. ~Answers(reads, entry.method, entry.args) => Len(result) = n + 1 /\ result[n + 1] = entry
  BY <1>1, <1>3
<1> QED
  BY <1>1, <1>3, <1>5, <1>6 DEF result, n

\* All that was to be recorded is, and nothing else.
Holds(reads, made, k) ==
  /\ \A i \in DOMAIN reads : \E j \in 1..k : reads[i] = made[j]
  /\ \A j \in 1..k : Answers(reads, made[j].method, made[j].args)

(* A record holds an answer to every read it was made of, and no other. *)
LEMMA RecordingHolds ==
  ASSUME NEW S, NEW made \in Seq(S)
  PROVE  Recording(made) \in Seq(S) /\ Holds(Recording(made), made, Len(made))
<1> DEFINE n == Len(made)
<1>1. PICK f : /\ f[0] = <<>> /\ \A k \in 1..n : f[k] = Insert(f[k - 1], made[k])
               /\ Recording(made) = f[n]
  BY RecordingIs
<1>2. n \in Nat /\ \A k \in 1..n : made[k] \in S
  BY LenProperties, ElementOfSeq
<1> DEFINE P == {k \in Nat : k <= n => f[k] \in Seq(S) /\ Holds(f[k], made, k)}
<1> HIDE DEF n
<1>3. 0 \in P
  <2>1. f[0] \in Seq(S) /\ DOMAIN f[0] = {}
    BY <1>1
  <2>2. Holds(f[0], made, 0)
    BY <2>1 DEF Holds
  <2> QED BY <2>1, <2>2
<1>4. ASSUME NEW k \in P
      PROVE  k + 1 \in P
  <2> SUFFICES ASSUME k + 1 <= n
               PROVE  f[k + 1] \in Seq(S) /\ Holds(f[k + 1], made, k + 1)
    OBVIOUS
  <2>1. k \in Nat /\ k + 1 \in 1..n /\ (k + 1) - 1 = k /\ k <= n
    BY <1>2
  <2> DEFINE r == f[k]
             e == made[k + 1]
             m == Len(r)
             s == Insert(r, e)
  <2>2. r \in Seq(S) /\ Holds(r, made, k) /\ f[k + 1] = s /\ e \in S
    BY <1>1, <1>2, <2>1
  <2>9. e = made[k + 1]
    OBVIOUS
  <2> HIDE DEF r, e
  <2>3. /\ s \in Seq(S) /\ m \in Nat /\ Len(s) \in Nat /\ Answers(s, e.method, e.args)
        /\ \A i \in 1..m : s[i] = r[i]
        /\ Answers(r, e.method, e.args) => s = r
        /\ ~Answers(r, e.method, e.args) => Len(s) = m + 1 /\ s[m + 1] = e
    BY <2>2, InsertIs
  <2>4. DOMAIN r = 1..m /\ DOMAIN s = 1..Len(s)
    BY <2>2, <2>3, LenProperties
  <2>5. m <= Len(s) /\ \A i \in 1..Len(s) : i \in 1..m \/ s[i] = e
    BY <2>3
  <2> HIDE DEF m, s
  <2>6. ASSUME NEW i \in DOMAIN s
        PROVE  \E j \in 1..(k + 1) : s[i] = made[j]
    <3>1. CASE i \in 1..m
      <4>1. PICK j \in 1..k : r[i] = made[j]
        BY <2>2, <2>4, <3>1 DEF Holds
      <4> QED BY <2>1, <2>3, <3>1, <4>1
    <3>2. CASE s[i] = e
      BY <2>1, <2>9, <3>2
    <3> QED BY <2>4, <2>5, <3>1, <3>2
  <2>7. ASSUME NEW j \in 1..(k + 1)
        PROVE  Answers(s, made[j].method, made[j].args)
    <3>1. CASE j = k + 1
      BY <2>3, <2>9, <3>1
    <3>2. CASE j # k + 1
      <4>1. j \in 1..k
        BY <2>1, <3>2
      <4>2. PICK i \in DOMAIN r : r[i].method = made[j].method /\ r[i].args = made[j].args
        BY <2>2, <4>1 DEF Holds, Answers
      <4>3. i \in 1..m /\ s[i] = r[i]
        BY <2>3, <2>4
      <4>4. i \in 1..Len(s)
        <5>1. m \in Nat /\ Len(s) \in Nat /\ m <= Len(s)
          BY <2>3, <2>5
        <5> QED BY <4>3, <5>1
      <4> QED BY <2>4, <4>2, <4>3, <4>4 DEF Answers
    <3> QED BY <3>1, <3>2
  <2>8. Holds(s, made, k + 1)
    BY <2>6, <2>7 DEF Holds
  <2> QED BY <2>2, <2>3, <2>8
<1>5. P = Nat
  <2>1. P \in SUBSET Nat
    OBVIOUS
  <2> HIDE DEF P
  <2> QED BY <1>3, <1>4, <2>1, Reaches
<1>6. f[n] \in Seq(S) /\ Holds(f[n], made, n)
  BY <1>2, <1>5
<1> QED
  BY <1>1, <1>6 DEF n

(* Where no two of the first entries are of one read, and no later one is of a method among    *)
(* these but of a read of theirs, they are the record's first, and its only ones of these.     *)
LEMMA RecordingBegins ==
  ASSUME NEW S, NEW made \in Seq(S), NEW first \in 0..Len(made), NEW methods,
         \A i, j \in 1..first : made[i].method = made[j].method /\ made[i].args = made[j].args => i = j,
         \A j \in (first + 1)..Len(made) : made[j].method \in methods =>
           \E i \in 1..first : made[i].method = made[j].method /\ made[i].args = made[j].args
  PROVE  /\ Recording(made) \in Seq(S) /\ Len(Recording(made)) \in Nat
         /\ Len(Recording(made)) >= first
         /\ \A i \in 1..first : Recording(made)[i] = made[i]
         /\ \A i \in (first + 1)..Len(Recording(made)) : Recording(made)[i].method \notin methods
<1> DEFINE n == Len(made)
           Begins(k, r) ==
             /\ r \in Seq(S) /\ Len(r) \in Nat
             /\ k <= first => Len(r) = k
             /\ k > first => Len(r) >= first
             /\ \A i \in 1..first : i <= k => r[i] = made[i]
             /\ \A i \in (first + 1)..Len(r) : r[i].method \notin methods
<1>1. PICK f : /\ f[0] = <<>> /\ \A k \in 1..n : f[k] = Insert(f[k - 1], made[k])
               /\ Recording(made) = f[n]
  BY RecordingIs
<1>2. n \in Nat /\ first \in Nat /\ first <= n /\ \A k \in 1..n : made[k] \in S
  BY LenProperties, ElementOfSeq
<1> DEFINE P == {k \in Nat : k <= n => Begins(k, f[k])}
<1> HIDE DEF n
<1>3. 0 \in P
  <2>1. f[0] \in Seq(S) /\ Len(f[0]) = 0
    BY <1>1
  <2>2. Begins(0, f[0])
    BY <1>2, <2>1
  <2> QED BY <2>2
<1>4. ASSUME NEW k \in P
      PROVE  k + 1 \in P
  <2> SUFFICES ASSUME k + 1 <= n
               PROVE  Begins(k + 1, f[k + 1])
    OBVIOUS
  <2>1. k \in Nat /\ k + 1 \in 1..n /\ (k + 1) - 1 = k /\ k <= n
    BY <1>2
  <2> DEFINE r == f[k]
             e == made[k + 1]
             s == Insert(r, e)
  <2>2. r \in Seq(S) /\ Begins(k, r) /\ f[k + 1] = s /\ e \in S
    BY <1>1, <1>2, <2>1
  <2>9. e = made[k + 1]
    OBVIOUS
  <2> HIDE DEF r, e
  <2>3. /\ s \in Seq(S) /\ Len(r) \in Nat /\ Len(s) \in Nat
        /\ \A i \in 1..Len(r) : s[i] = r[i]
        /\ Answers(r, e.method, e.args) => s = r
        /\ ~Answers(r, e.method, e.args) => Len(s) = Len(r) + 1 /\ s[Len(r) + 1] = e
    BY <2>2, InsertIs
  <2>4. DOMAIN r = 1..Len(r)
    BY <2>2, LenProperties
  <2>5. CASE k + 1 <= first
    <3>1. Len(r) = k /\ k + 1 \in 1..first
      BY <1>2, <2>1, <2>2, <2>5
    <3>2. ~Answers(r, e.method, e.args)
      <4> SUFFICES ASSUME NEW i \in 1..k, r[i].method = e.method, r[i].args = e.args
                   PROVE  FALSE
        BY <2>4, <3>1 DEF Answers
      <4>1. i \in 1..first /\ i <= k /\ i # k + 1
        BY <2>1, <2>5, <1>2
      <4>2. r[i] = made[i]
        BY <2>2, <4>1
      <4> QED BY <2>9, <3>1, <4>1, <4>2
    <3> HIDE DEF s
    <3>3. Len(s) = k + 1 /\ s[k + 1] = e
      BY <2>3, <3>1, <3>2
    <3>4. ASSUME NEW i \in 1..first, i <= k + 1
          PROVE  s[i] = made[i]
      <4>1. CASE i = k + 1
        BY <2>9, <3>3, <4>1
      <4>2. CASE i # k + 1
        <5>1. i \in 1..Len(r) /\ i <= k
          BY <1>2, <2>1, <3>1, <3>4, <4>2
        <5> QED BY <2>2, <2>3, <5>1
      <4> QED BY <4>1, <4>2
    <3>5. (first + 1)..Len(s) = {}
      BY <1>2, <2>1, <2>5, <3>3
    <3> QED BY <1>2, <2>1, <2>2, <2>3, <2>5, <3>3, <3>4, <3>5
  <2>6. CASE ~(k + 1 <= first)
    <3>1. k >= first /\ k + 1 \in (first + 1)..n /\ Len(r) >= first /\ k + 1 > first
      BY <1>2, <2>1, <2>2, <2>6
    <3>2. \A i \in 1..first : i \in 1..Len(r) /\ r[i] = made[i]
      <4>1. \A i \in 1..first : i \in 1..Len(r) /\ i <= k
        BY <1>2, <2>1, <2>3, <3>1
      <4> QED BY <2>2, <4>1
    <3>3. e.method \in methods => Answers(r, e.method, e.args)
      <4> SUFFICES ASSUME e.method \in methods PROVE Answers(r, e.method, e.args)
        OBVIOUS
      <4>1. PICK i \in 1..first : made[i].method = e.method /\ made[i].args = e.args
        BY <2>9, <3>1 DEF n
      <4> QED BY <2>4, <3>2, <4>1 DEF Answers
    <3> HIDE DEF s
    <3>4. Len(s) >= first
      BY <1>2, <2>3, <3>1
    <3>5. ASSUME NEW i \in (first + 1)..Len(s)
          PROVE  s[i].method \notin methods
      <4>1. CASE i \in 1..Len(r)
        <5>1. i \in (first + 1)..Len(r)
          BY <1>2, <2>3, <4>1
        <5> QED BY <2>2, <2>3, <4>1, <5>1
      <4>2. CASE i \notin 1..Len(r)
        <5>1. ~Answers(r, e.method, e.args) /\ i = Len(r) + 1
          BY <1>2, <2>3, <4>2
        <5> QED BY <2>3, <3>3, <5>1
      <4> QED BY <4>1, <4>2
    <3>6. \A i \in 1..first : s[i] = made[i]
      BY <2>3, <3>2
    <3> QED BY <2>1, <2>2, <2>3, <3>1, <3>4, <3>5, <3>6
  <2> QED BY <2>5, <2>6
<1>5. P = Nat
  <2>1. P \in SUBSET Nat
    OBVIOUS
  <2> HIDE DEF P
  <2> QED BY <1>3, <1>4, <2>1, Reaches
<1>6. Begins(n, f[n])
  BY <1>2, <1>5
<1> QED
  BY <1>1, <1>2, <1>6

\* A sequence made of two, the first of length m and the second of length n.
JoinOf(c, s, t, m, n) ==
  /\ Len(c) = m + n
  /\ \A i \in 1..(m + n) : c[i] = IF i <= m THEN s[i] ELSE t[i - m]

(* One sequence after another. *)
LEMMA Joins ==
  ASSUME NEW S, NEW s \in Seq(S), NEW t \in Seq(S), NEW c, c = s \o t
  PROVE  c \in Seq(S) /\ JoinOf(c, s, t, Len(s), Len(t))
  BY ConcatProperties DEF JoinOf

(* A finite set as a sequence has its members, and nothing else. *)
LEMMA SetToSeqIs ==
  ASSUME NEW S, IsFiniteSet(S)
  PROVE  SetToSeq(S) \in Seq(S) /\ ToSet(SetToSeq(S)) = S
<1> DEFINE n == Cardinality(S)
           f == SetToSeq(S)
<1>1. n \in Nat /\ ExistsBijection(1..n, S)
  BY FS_CardinalityType
<1>2. f \in [1..n -> S] /\ IsInjective(f)
  <2>1. \E g \in [1..n -> S] : IsInjective(g)
    BY <1>1 DEF ExistsBijection, Bijection, Injection
  <2> HIDE DEF n
  <2>2. f = CHOOSE g \in [1..n -> S] : IsInjective(g)
    BY DEF SetToSeq, n
  <2> HIDE DEF f
  <2> QED BY <2>1, <2>2
<1>3. f \in Seq(S) /\ Len(f) = n
  <2> HIDE DEF n, f
  <2> QED BY <1>1, <1>2, FunctionIsSeq
<1>4. Distinct(f)
  <2> HIDE DEF n, f
  <2> QED BY <1>2, <1>3 DEF Distinct, IsInjective
<1>5. IsFiniteSet(ToSet(f)) /\ Cardinality(ToSet(f)) = n /\ ToSet(f) \in SUBSET S
  <2> HIDE DEF n, f
  <2> QED BY <1>3, <1>4, DistinctCounts, HeldBySeq
<1>6. ToSet(f) = S
  <2> HIDE DEF f
  <2> QED BY <1>5, FS_Subset
<1> QED
  BY <1>3, <1>6

---------------------------------------------------------------------------
(* What is recorded. *)

\* What the record of a document is made from.
Recordable(p, v) ==
  /\ IsFiniteSet(Collected(p, v))
  /\ v.actors \in Seq(ToSet(v.actors)) /\ v.allowances \in Seq(ToSet(v.allowances))

BalanceOf(v, world, i)   == Performed(world, "balance", <<Address(v.actors[i])>>)
AllowanceOf(v, world, i) ==
  Performed(world, "allowance", <<Address(v.allowances[i].from), Address(v.allowances[i].spender)>>)

\* The fixture's balances, its allowances, and after them the supply and what was collected.
Listed(p, v, world, list) ==
  LET a == Len(v.actors)
      b == Len(v.allowances)
  IN /\ a \in Nat /\ b \in Nat /\ Len(list) \in Nat /\ a + b <= Len(list)
     /\ \A i \in 1..a : list[i] = BalanceOf(v, world, i)
     /\ \A i \in 1..b : list[a + i] = AllowanceOf(v, world, i)
     /\ \A i \in (a + b + 1)..Len(list) :
          \/ list[i] = Performed(world, "total_supply", <<>>)
          \/ \E r \in Collected(p, v) : list[i] = CollectedRead(r, v, world)
     /\ \A r \in Collected(p, v) : \E i \in 1..Len(list) : list[i] = CollectedRead(r, v, world)

(* Every read collected is asked for, and no other. *)
LEMMA AskedAre ==
  ASSUME NEW p, NEW v, Recordable(p, v)
  PROVE  Asked(p, v) \in Seq(Collected(p, v)) /\ ToSet(Asked(p, v)) = Collected(p, v)
<1> DEFINE all  == Collected(p, v)
           open == {r \in all : ~Resolvable(r, v)}
           rest == all \ open
<1>1. IsFiniteSet(open) /\ IsFiniteSet(rest)
  BY FS_Subset DEF Recordable
<1>2. open \cup rest = all
  OBVIOUS
<1>3. Asked(p, v) = SetToSeq(open) \o SetToSeq(rest)
  BY DEF Asked
<1> HIDE DEF open, rest, all
<1>4. /\ SetToSeq(open) \in Seq(open) /\ ToSet(SetToSeq(open)) = open
      /\ SetToSeq(rest) \in Seq(rest) /\ ToSet(SetToSeq(rest)) = rest
  BY <1>1, SetToSeqIs
<1>5. SetToSeq(open) \in Seq(all) /\ SetToSeq(rest) \in Seq(all)
  BY <1>2, <1>4
<1>6. Asked(p, v) \in Seq(all) /\ ToSet(Asked(p, v)) = all
  <2> DEFINE first == SetToSeq(open)
             last  == SetToSeq(rest)
  <2>1. /\ first \in Seq(all) /\ ToSet(first) = open /\ last \in Seq(all) /\ ToSet(last) = rest
        /\ Asked(p, v) = first \o last
    BY <1>3, <1>4, <1>5
  <2> HIDE DEF first, last
  <2>2. first \o last \in Seq(all) /\ ToSet(first \o last) = ToSet(first) \cup ToSet(last)
    BY <2>1, HeldByBoth
  <2> QED BY <1>2, <2>1, <2>2
<1> QED
  BY <1>6 DEF all

(* What is recorded is what the fixture declares, in its order, and all that was collected. *)
LEMMA RecordedAre ==
  ASSUME NEW p, NEW v, NEW world, Recordable(p, v)
  PROVE  /\ \E S : ReadsMade(p, v, world) \in Seq(S)
         /\ Listed(p, v, world, ReadsMade(p, v, world))
<1> DEFINE a == Len(v.actors)
           b == Len(v.allowances)
           c == Len(Asked(p, v))
           f == [i \in DOMAIN v.actors |-> BalanceOf(v, world, i)]
           g == [i \in DOMAIN v.allowances |-> AllowanceOf(v, world, i)]
           h == [i \in DOMAIN Asked(p, v) |-> CollectedRead(Asked(p, v)[i], v, world)]
           t == Performed(world, "total_supply", <<>>)
           s == SupplyReads(p, world)
           S == {BalanceOf(v, world, i) : i \in 1..a} \cup {AllowanceOf(v, world, i) : i \in 1..b}
                \cup {CollectedRead(r, v, world) : r \in Collected(p, v)} \cup {t}
<1>1. /\ a \in Nat /\ b \in Nat /\ c \in Nat /\ DOMAIN v.actors = 1..a /\ DOMAIN v.allowances = 1..b
      /\ DOMAIN Asked(p, v) = 1..c
      /\ \A i \in 1..c : Asked(p, v)[i] \in Collected(p, v)
      /\ \A r \in Collected(p, v) : \E i \in 1..c : Asked(p, v)[i] = r
  <2>1. a \in Nat /\ b \in Nat /\ DOMAIN v.actors = 1..a /\ DOMAIN v.allowances = 1..b
    BY LenProperties DEF Recordable
  <2>2. Asked(p, v) \in Seq(Collected(p, v)) /\ ToSet(Asked(p, v)) = Collected(p, v)
    BY AskedAre
  <2>3. c \in Nat /\ DOMAIN Asked(p, v) = 1..c
    BY <2>2, LenProperties
  <2> QED BY <2>1, <2>2, <2>3, HeldBySeq
<1>2. f \in [1..a -> S] /\ g \in [1..b -> S] /\ h \in [1..c -> S]
  BY <1>1
<1>3. f \in Seq(S) /\ Len(f) = a /\ g \in Seq(S) /\ Len(g) = b /\ h \in Seq(S) /\ Len(h) = c
  <2> HIDE DEF f, g, h, S, a, b, c
  <2> QED BY <1>1, <1>2, FunctionIsSeq
<1>4. s \in Seq(S) /\ Len(s) \in Nat /\ \A i \in 1..Len(s) : s[i] = t
  <2>1. s = <<t>> \/ s = <<>>
    BY DEF SupplyReads
  <2>2. t \in S
    OBVIOUS
  <2> HIDE DEF s, t, S
  <2>3. /\ <<t>> \in Seq(S) /\ Len(<<t>>) = 1 /\ <<t>>[1] = t
        /\ <<>> \in Seq(S) /\ Len(<<>>) = 0
    BY <2>2, EmptySeq
  <2>4. CASE s = <<t>>
    BY <2>3, <2>4
  <2>5. CASE s = <<>>
    BY <2>3, <2>5
  <2> QED BY <2>1, <2>4, <2>5
<1> DEFINE list == f \o g \o s \o h
           d    == Len(s)
<1>15. Len(s) = d /\ d \in Nat
  BY <1>4
<1>5. ReadsMade(p, v, world) = list
  BY DEF ReadsMade, FixtureReads, BalanceOf, AllowanceOf
<1>6. /\ \A i \in 1..a : f[i] = BalanceOf(v, world, i)
      /\ \A i \in 1..b : g[i] = AllowanceOf(v, world, i)
      /\ \A i \in 1..c : h[i] = CollectedRead(Asked(p, v)[i], v, world)
  BY <1>1
<1> HIDE DEF f, g, h, s, S, a, b, c, d
<1>7. /\ list \in Seq(S) /\ Len(list) = a + b + d + c
      /\ \A i \in 1..(a + b + d + c) :
           list[i] = IF i <= a THEN f[i] ELSE IF i <= a + b THEN g[i - a]
                     ELSE IF i <= a + b + d THEN s[i - (a + b)] ELSE h[i - (a + b + d)]
  <2> DEFINE fg  == f \o g
             fgs == fg \o s
  <2>0. fg = f \o g /\ fgs = fg \o s /\ list = fgs \o h
    OBVIOUS
  <2> HIDE DEF fg, fgs, list
  <2>1. fg \in Seq(S) /\ JoinOf(fg, f, g, a, b) /\ Len(fg) = a + b
    <3>1. fg \in Seq(S) /\ JoinOf(fg, f, g, Len(f), Len(g))
      BY <1>3, <2>0, Joins
    <3> QED BY <1>3, <3>1 DEF JoinOf
  <2>2. fgs \in Seq(S) /\ JoinOf(fgs, fg, s, a + b, d) /\ Len(fgs) = a + b + d
    <3>1. fgs \in Seq(S) /\ JoinOf(fgs, fg, s, Len(fg), Len(s))
      BY <1>4, <2>0, <2>1, Joins
    <3> QED BY <1>15, <2>1, <3>1 DEF JoinOf
  <2>3. list \in Seq(S) /\ JoinOf(list, fgs, h, a + b + d, c) /\ Len(list) = a + b + d + c
    <3>1. list \in Seq(S) /\ JoinOf(list, fgs, h, Len(fgs), Len(h))
      BY <1>3, <2>0, <2>2, Joins
    <3> QED BY <1>3, <2>2, <3>1 DEF JoinOf
  <2>5. a \in Nat /\ b \in Nat /\ c \in Nat /\ d \in Nat
    BY <1>1, <1>4 DEF d
  <2>6. ASSUME NEW i \in 1..(a + b + d + c)
        PROVE  list[i] = IF i <= a THEN f[i] ELSE IF i <= a + b THEN g[i - a]
                         ELSE IF i <= a + b + d THEN s[i - (a + b)] ELSE h[i - (a + b + d)]
    <3>1. CASE i <= a + b
      <4>1. i \in 1..(a + b) /\ i \in 1..(a + b + d) /\ i <= a + b + d
        BY <2>5, <3>1
      <4> QED BY <2>1, <2>2, <2>3, <3>1, <4>1 DEF JoinOf
    <3>2. CASE ~(i <= a + b) /\ i <= a + b + d
      <4>1. i \in 1..(a + b + d) /\ ~(i <= a)
        BY <2>5, <3>2
      <4> QED BY <2>2, <2>3, <3>2, <4>1 DEF JoinOf
    <3>3. CASE ~(i <= a + b + d)
      <4>1. ~(i <= a) /\ ~(i <= a + b)
        BY <2>5, <3>3
      <4> QED BY <2>3, <3>3, <4>1 DEF JoinOf
    <3> QED BY <3>1, <3>2, <3>3
  <2> QED BY <2>3, <2>6
<1>8. a \in Nat /\ b \in Nat /\ c \in Nat /\ d \in Nat
  BY <1>1, <1>4 DEF d
<1> HIDE DEF list
<1>9. ASSUME NEW i \in 1..a PROVE list[i] = BalanceOf(v, world, i)
  <2>1. i \in 1..(a + b + d + c) /\ i <= a
    BY <1>8
  <2> QED BY <1>6, <1>7, <2>1
<1>10. ASSUME NEW i \in 1..b PROVE list[a + i] = AllowanceOf(v, world, i)
  <2>1. a + i \in 1..(a + b + d + c) /\ ~(a + i <= a) /\ a + i <= a + b /\ (a + i) - a = i
    BY <1>8
  <2> QED BY <1>6, <1>7, <2>1
<1>11. ASSUME NEW i \in (a + b + 1)..Len(list)
       PROVE  list[i] = t \/ \E r \in Collected(p, v) : list[i] = CollectedRead(r, v, world)
  <2>1. i \in 1..(a + b + d + c) /\ ~(i <= a) /\ ~(i <= a + b)
    BY <1>7, <1>8
  <2>2. CASE i <= a + b + d
    <3>1. i - (a + b) \in 1..d
      BY <1>8, <2>1, <2>2
    <3> QED BY <1>4, <1>7, <2>1, <2>2, <3>1 DEF d
  <2>3. CASE ~(i <= a + b + d)
    <3>1. i - (a + b + d) \in 1..c
      BY <1>8, <2>1, <2>3
    <3>2. list[i] = CollectedRead(Asked(p, v)[i - (a + b + d)], v, world)
      BY <1>6, <1>7, <2>1, <2>3, <3>1
    <3> QED BY <1>1, <3>1, <3>2
  <2> QED BY <2>2, <2>3
<1>12. ASSUME NEW r \in Collected(p, v)
       PROVE  \E i \in 1..Len(list) : list[i] = CollectedRead(r, v, world)
  <2>1. PICK i \in 1..c : Asked(p, v)[i] = r
    BY <1>1
  <2> DEFINE j == i + (a + b + d)
  <2>2. j \in 1..(a + b + d + c) /\ ~(j <= a) /\ ~(j <= a + b) /\ ~(j <= a + b + d) /\ j - (a + b + d) = i
    BY <1>8
  <2> HIDE DEF j
  <2>3. list[j] = h[i]
    BY <1>7, <2>2
  <2> QED BY <1>6, <1>7, <2>1, <2>2, <2>3
<1>13. a + b <= Len(list) /\ Len(list) \in Nat
  BY <1>7, <1>8
<1>14. Listed(p, v, world, list)
  BY <1>8, <1>9, <1>10, <1>11, <1>12, <1>13 DEF Listed, a, b, t
<1> QED
  BY <1>5, <1>7, <1>14

(* A place among a + b is one of the first a or one of the b after them.  *)
LEMMA FirstOrAfter ==
  ASSUME NEW a \in Nat, NEW b \in Nat
  PROVE  /\ \A i \in 1..a : i \in 1..(a + b)
         /\ \A i \in 1..b : a + i \in 1..(a + b)
         /\ \A i \in 1..(a + b) : IF i <= a THEN i \in 1..a ELSE i - a \in 1..b /\ a + (i - a) = i
         /\ \A n \in Nat : \A i \in 1..n :
              IF i <= a + b THEN i \in 1..(a + b) ELSE i \in (a + b + 1)..n
  OBVIOUS

(* What is recorded is a read that was performed, or one that could not be resolved.  *)
LEMMA EntriesAre ==
  ASSUME NEW p, NEW v, NEW world, NEW list, Listed(p, v, world, list), NEW i \in 1..Len(list)
  PROVE  \/ list[i] = Performed(world, list[i].method, list[i].args)
         \/ \E r \in Collected(p, v) :
              ~Resolvable(r, v) /\ list[i].method = r.method /\ list[i].args = <<>>
<1> DEFINE a == Len(v.actors)
           b == Len(v.allowances)
<1>1. a \in Nat /\ b \in Nat /\ Len(list) \in Nat
  BY DEF Listed
<1>2. \A method, args : Performed(world, method, args).method = method /\ Performed(world, method, args).args = args
  BY DEF Performed, Entry
<1>6. /\ \A k \in 1..a : list[k] = BalanceOf(v, world, k)
      /\ \A k \in 1..b : list[a + k] = AllowanceOf(v, world, k)
      /\ \A k \in (a + b + 1)..Len(list) :
           \/ list[k] = Performed(world, "total_supply", <<>>)
           \/ \E r \in Collected(p, v) : list[k] = CollectedRead(r, v, world)
  BY DEF Listed
<1> HIDE DEF a, b
<1>7. /\ \A k \in 1..(a + b) : IF k <= a THEN k \in 1..a ELSE k - a \in 1..b /\ a + (k - a) = k
      /\ \A k \in 1..Len(list) : IF k <= a + b THEN k \in 1..(a + b) ELSE k \in (a + b + 1)..Len(list)
  BY <1>1, FirstOrAfter
<1>3. CASE i <= a /\ i <= a + b
  <2>1. i \in 1..a
    BY <1>3, <1>7
  <2>2. list[i] = BalanceOf(v, world, i)
    BY <1>6, <2>1
  <2> QED BY <1>2, <2>2 DEF BalanceOf
<1>4. CASE ~(i <= a) /\ i <= a + b
  <2>1. i - a \in 1..b /\ a + (i - a) = i
    BY <1>4, <1>7
  <2>2. list[a + (i - a)] = AllowanceOf(v, world, i - a)
    BY <1>6, <2>1
  <2>3. list[i] = AllowanceOf(v, world, i - a)
    BY <2>1, <2>2
  <2> QED BY <1>2, <2>3 DEF AllowanceOf
<1>5. CASE ~(i <= a + b)
  <2>1. i \in (a + b + 1)..Len(list)
    BY <1>5, <1>7
  <2>2. \/ list[i] = Performed(world, "total_supply", <<>>)
        \/ \E r \in Collected(p, v) : list[i] = CollectedRead(r, v, world)
    BY <1>6, <2>1
  <2>3. CASE list[i] = Performed(world, "total_supply", <<>>)
    BY <1>2, <2>3
  <2>4. ASSUME NEW r \in Collected(p, v), list[i] = CollectedRead(r, v, world)
        PROVE  \/ list[i] = Performed(world, list[i].method, list[i].args)
               \/ ~Resolvable(r, v) /\ list[i].method = r.method /\ list[i].args = <<>>
    <3>1. CASE Resolvable(r, v)
      <4>1. list[i] = Performed(world, r.method, ReadArguments(r, v.inputs))
        BY <2>4, <3>1 DEF CollectedRead
      <4> QED BY <1>2, <4>1
    <3>2. CASE ~Resolvable(r, v)
      <4>1. list[i] = Entry(r.method, <<>>, Failed("ExecutionError"))
        BY <2>4, <3>2 DEF CollectedRead
      <4> QED BY <3>2, <4>1 DEF Entry
    <3> QED BY <3>1, <3>2
  <2> QED BY <2>2, <2>3, <2>4
<1>8. i <= a => i <= a + b
  BY <1>1
<1> QED
  BY <1>3, <1>4, <1>5, <1>8

(* A read that was collected is answered by the record as it was by the contract.  *)
LEMMA AnsweredAsThen ==
  ASSUME NEW p, NEW v, NEW world, Recordable(p, v), NEW r \in Collected(p, v), Resolvable(r, v),
         NEW args, args = ReadArguments(r, v.inputs),
         \/ args # <<>>
         \/ \A q \in Collected(p, v) : q.method = r.method => Resolvable(q, v)
  PROVE  RecordedRead(Capture(p, v, world), r.method, args) = LiveRead(world, r.method, args)
<1> DEFINE list   == ReadsMade(p, v, world)
           reads  == Recording(list)
           places  == Entries(reads, r.method, args)
           answer == LiveRead(world, r.method, args)
<1>1. Listed(p, v, world, list)
  BY RecordedAre
<1>2. PICK S : list \in Seq(S)
  BY RecordedAre
<1>3. Capture(p, v, world).reads = reads
  BY DEF Capture, RecordedWorld
<1> HIDE DEF list
<1>4. reads \in Seq(S) /\ Holds(reads, list, Len(list))
  BY <1>2, RecordingHolds
<1>5. \A method, x : /\ Performed(world, method, x).method = method
                     /\ Performed(world, method, x).args = x
                     /\ Performed(world, method, x).value = LiveRead(world, method, x)
  BY DEF Performed, Entry
<1>6. ASSUME NEW j \in 1..Len(list), list[j].method = r.method, list[j].args = args
      PROVE  list[j].value = answer
  <2>1. \/ list[j] = Performed(world, list[j].method, list[j].args)
        \/ \E q \in Collected(p, v) :
             ~Resolvable(q, v) /\ list[j].method = q.method /\ list[j].args = <<>>
    BY <1>1, EntriesAre
  <2>2. list[j] = Performed(world, r.method, args)
    BY <1>6, <2>1
  <2> QED BY <1>5, <2>2
<1>7. places # {}
  <2>1. PICK j \in 1..Len(list) : list[j] = CollectedRead(r, v, world)
    BY <1>1 DEF Listed
  <2>2. list[j] = Performed(world, r.method, args)
    BY <2>1 DEF CollectedRead
  <2>3. Answers(reads, list[j].method, list[j].args)
    BY <1>4 DEF Holds
  <2>4. Answers(reads, r.method, args)
    BY <1>5, <2>2, <2>3
  <2> QED BY <2>4 DEF Answers, Entries
<1>8. places \in SUBSET Nat /\ \A i \in places : i \in DOMAIN reads /\ reads[i].method = r.method /\ reads[i].args = args
  <2>1. DOMAIN reads = 1..Len(reads) /\ Len(reads) \in Nat
    BY <1>4, LenProperties
  <2> QED BY <2>1 DEF Entries
<1> HIDE DEF places, reads
<1>9. Min(places) \in places
  BY <1>7, <1>8, LeastExists
<1>10. PICK j \in 1..Len(list) : reads[Min(places)] = list[j]
  BY <1>4, <1>8, <1>9 DEF Holds
<1>11. reads[Min(places)].value = answer
  BY <1>6, <1>8, <1>9, <1>10
<1> QED
  BY <1>3, <1>7, <1>11 DEF RecordedRead, places

---------------------------------------------------------------------------
(* The members of a resource set. *)

\* What the fixture declares it declares once, and nothing else is read of it.
DeclaredApart(p, v) ==
  /\ \A i, j \in DOMAIN v.actors : v.actors[i] = v.actors[j] => i = j
  /\ \A i, j \in DOMAIN v.allowances :
       v.allowances[i].from = v.allowances[j].from /\ v.allowances[i].spender = v.allowances[j].spender => i = j
  /\ \A r \in Collected(p, v) :
       /\ Resolvable(r, v)
       /\ r.method = "balance" =>
            \E i \in DOMAIN v.actors : ReadArguments(r, v.inputs) = <<Address(v.actors[i])>>
       /\ r.method = "allowance" =>
            \E i \in DOMAIN v.allowances : ReadArguments(r, v.inputs) =
              <<Address(v.allowances[i].from), Address(v.allowances[i].spender)>>

Accessed == {"balance", "allowance"}

\* The record begins with the balances and the allowances declared, and has no others.
Leading(v, world, reads, a, b) ==
  /\ a \in Nat /\ b \in Nat /\ Len(reads) \in Nat /\ a + b <= Len(reads) /\ DOMAIN reads = 1..Len(reads)
  /\ \A i \in 1..a : reads[i] = BalanceOf(v, world, i)
  /\ \A i \in 1..b : reads[a + i] = AllowanceOf(v, world, i)
  /\ \A i \in (a + b + 1)..Len(reads) : reads[i].method \notin Accessed

(* The record begins with the members, and has no other answer of the two accessors.  *)
LEMMA MembersComeFirst ==
  ASSUME NEW p, NEW v, NEW world, Recordable(p, v), DeclaredApart(p, v)
  PROVE  Leading(v, world, Recording(ReadsMade(p, v, world)), Len(v.actors), Len(v.allowances))
<1> DEFINE list  == ReadsMade(p, v, world)
           reads == Recording(list)
           a     == Len(v.actors)
           b     == Len(v.allowances)
<1>1. Listed(p, v, world, list)
  BY RecordedAre
<1>2. PICK S : list \in Seq(S)
  BY RecordedAre
<1>20. a \in Nat /\ b \in Nat /\ Len(list) \in Nat /\ a + b <= Len(list)
  <2> HIDE DEF list
  <2> QED BY <1>1 DEF Listed
<1>3. DOMAIN v.actors = 1..a /\ DOMAIN v.allowances = 1..b
  BY LenProperties DEF Recordable
<1>4. /\ \A i \in 1..a : list[i] = BalanceOf(v, world, i)
      /\ \A i \in 1..b : list[a + i] = AllowanceOf(v, world, i)
  <2> HIDE DEF list
  <2> QED BY <1>1 DEF Listed
<1> HIDE DEF list, reads, a, b
<1>21. /\ \A i \in 1..a : i \in 1..(a + b)
       /\ \A i \in 1..b : a + i \in 1..(a + b)
       /\ \A i \in 1..(a + b) : IF i <= a THEN i \in 1..a ELSE i - a \in 1..b /\ a + (i - a) = i
  BY <1>20, FirstOrAfter
<1>5. \A method, x : Performed(world, method, x).method = method /\ Performed(world, method, x).args = x
  BY DEF Performed, Entry
<1>6. /\ \A i \in 1..a : list[i].method = "balance" /\ list[i].args = <<Address(v.actors[i])>>
      /\ \A i \in 1..b : /\ list[a + i].method = "allowance"
                         /\ list[a + i].args =
                              <<Address(v.allowances[i].from), Address(v.allowances[i].spender)>>
  <2>1. ASSUME NEW i \in 1..a
        PROVE  list[i].method = "balance" /\ list[i].args = <<Address(v.actors[i])>>
    <3>1. list[i] = Performed(world, "balance", <<Address(v.actors[i])>>)
      BY <1>4 DEF BalanceOf
    <3> QED BY <1>5, <3>1
  <2>2. ASSUME NEW i \in 1..b
        PROVE  /\ list[a + i].method = "allowance"
               /\ list[a + i].args = <<Address(v.allowances[i].from), Address(v.allowances[i].spender)>>
    <3>1. list[a + i] = Performed(world, "allowance",
                                  <<Address(v.allowances[i].from), Address(v.allowances[i].spender)>>)
      BY <1>4 DEF AllowanceOf
    <3> QED BY <1>5, <3>1
  <2> QED BY <2>1, <2>2
<1>7. \A x, y : Address(x) = Address(y) => x = y
  BY DEF Address, Value
<1>8. ASSUME NEW i \in 1..(a + b), NEW j \in 1..(a + b),
             list[i].method = list[j].method, list[i].args = list[j].args
      PROVE  i = j
  <2>1. CASE i <= a /\ j <= a
    <3>1. i \in 1..a /\ j \in 1..a
      BY <1>21, <2>1
    <3>2. Address(v.actors[i]) = Address(v.actors[j])
      BY <1>6, <1>8, <3>1
    <3> QED BY <1>3, <1>7, <3>1, <3>2 DEF DeclaredApart
  <2>2. CASE ~(i <= a) /\ ~(j <= a)
    <3>1. i - a \in 1..b /\ j - a \in 1..b /\ a + (i - a) = i /\ a + (j - a) = j
      BY <1>21, <2>2
    <3> DEFINE g == v.allowances[i - a]
               h == v.allowances[j - a]
    <3>2. list[i].args = <<Address(g.from), Address(g.spender)>>
          /\ list[j].args = <<Address(h.from), Address(h.spender)>>
      <4>1. /\ list[a + (i - a)].args = <<Address(g.from), Address(g.spender)>>
            /\ list[a + (j - a)].args = <<Address(h.from), Address(h.spender)>>
        BY <1>6, <3>1
      <4> HIDE DEF g, h
      <4> QED BY <3>1, <4>1
    <3>3. g.from = h.from /\ g.spender = h.spender
      <4> HIDE DEF g, h
      <4>2. <<Address(g.from), Address(g.spender)>> = <<Address(h.from), Address(h.spender)>>
        BY <1>8, <3>2
      <4>1. Address(g.from) = Address(h.from) /\ Address(g.spender) = Address(h.spender)
        BY <4>2
      <4> QED BY <1>7, <4>1
    <3>4. i - a = j - a
      BY <1>3, <3>1, <3>3 DEF DeclaredApart
    <3> QED BY <3>1, <3>4
  <2>3. CASE i <= a /\ ~(j <= a)
    <3>1. i \in 1..a /\ j - a \in 1..b /\ a + (j - a) = j
      BY <1>21, <2>3
    <3>2. list[i].method = "balance" /\ list[a + (j - a)].method = "allowance"
      BY <1>6, <3>1
    <3> QED BY <1>8, <3>1, <3>2
  <2>4. CASE ~(i <= a) /\ j <= a
    <3>1. j \in 1..a /\ i - a \in 1..b /\ a + (i - a) = i
      BY <1>21, <2>4
    <3>2. list[j].method = "balance" /\ list[a + (i - a)].method = "allowance"
      BY <1>6, <3>1
    <3> QED BY <1>8, <3>1, <3>2
  <2> QED BY <2>1, <2>2, <2>3, <2>4
<1>9. ASSUME NEW j \in (a + b + 1)..Len(list), list[j].method \in Accessed
      PROVE  \E i \in 1..(a + b) : list[i].method = list[j].method /\ list[i].args = list[j].args
  <2>1. \/ list[j] = Performed(world, "total_supply", <<>>)
        \/ \E r \in Collected(p, v) : list[j] = CollectedRead(r, v, world)
    BY <1>1 DEF Listed, a, b
  <2>2. list[j] # Performed(world, "total_supply", <<>>)
    BY <1>5, <1>9 DEF Accessed
  <2>3. PICK r \in Collected(p, v) : list[j] = CollectedRead(r, v, world)
    BY <2>1, <2>2
  <2>4. list[j] = Performed(world, r.method, ReadArguments(r, v.inputs))
    BY <2>3 DEF CollectedRead, DeclaredApart
  <2>5. list[j].method = r.method /\ list[j].args = ReadArguments(r, v.inputs)
    BY <1>5, <2>4
  <2>6. CASE r.method = "balance"
    <3>1. PICK i \in 1..a : ReadArguments(r, v.inputs) = <<Address(v.actors[i])>>
      BY <1>3, <2>6 DEF DeclaredApart
    <3>2. i \in 1..(a + b)
      BY <1>21
    <3> QED BY <1>6, <2>5, <2>6, <3>1, <3>2
  <2>7. CASE r.method = "allowance"
    <3>1. PICK i \in 1..b : ReadArguments(r, v.inputs) =
                              <<Address(v.allowances[i].from), Address(v.allowances[i].spender)>>
      BY <1>3, <2>7 DEF DeclaredApart
    <3>2. a + i \in 1..(a + b)
      BY <1>21
    <3> QED BY <1>6, <2>5, <2>7, <3>1, <3>2
  <2> QED BY <1>9, <2>5, <2>6, <2>7 DEF Accessed
<1>10. /\ reads \in Seq(S) /\ Len(reads) \in Nat /\ Len(reads) >= a + b
       /\ \A i \in 1..(a + b) : reads[i] = list[i]
       /\ \A i \in (a + b + 1)..Len(reads) : reads[i].method \notin Accessed
  <2>1. reads = Recording(list)
    BY DEF reads
  <2> DEFINE first == a + b
  <2>2. first \in 0..Len(list)
    BY <1>20
  <2>3. /\ \A i, j \in 1..first : list[i].method = list[j].method /\ list[i].args = list[j].args => i = j
        /\ \A j \in (first + 1)..Len(list) : list[j].method \in Accessed =>
             \E i \in 1..first : list[i].method = list[j].method /\ list[i].args = list[j].args
    BY <1>8, <1>9
  <2> HIDE DEF first
  <2>4. /\ Recording(list) \in Seq(S) /\ Len(Recording(list)) \in Nat
        /\ Len(Recording(list)) >= first
        /\ \A i \in 1..first : Recording(list)[i] = list[i]
        /\ \A i \in (first + 1)..Len(Recording(list)) : Recording(list)[i].method \notin Accessed
    BY <1>2, <2>2, <2>3, RecordingBegins
  <2> QED BY <2>1, <2>4 DEF first
<1>11. /\ \A i \in 1..a : reads[i] = BalanceOf(v, world, i)
       /\ \A i \in 1..b : reads[a + i] = AllowanceOf(v, world, i)
  BY <1>4, <1>10, <1>21
<1>12. DOMAIN reads = 1..Len(reads)
  BY <1>10, LenProperties
<1>13. Leading(v, world, reads, a, b)
  BY <1>10, <1>11, <1>12, <1>20 DEF Leading
<1> QED
  BY <1>13 DEF list, reads, a, b

(* No member: the function on no place is the empty sequence.  *)
LEMMA NoPlaces ==
  ASSUME NEW f, DOMAIN f = {}, f = [i \in DOMAIN f |-> f[i]]
  PROVE  f = <<>>
<1>1. f \in [1..0 -> {}]
  OBVIOUS
<1>2. f \in Seq({}) /\ Len(f) = 0
  BY <1>1, FunctionIsSeq
<1> QED
  BY <1>2, EmptySeq

\* The contract as it was when the record was made of it.
Past(c, v) == LiveWorld(c, v.actors, v.allowances)

(* The members of the record are what the contract had.  *)
LEMMA MembersAreThen ==
  ASSUME NEW p, NEW v, NEW c, NEW world, NEW resource \in DOMAIN MemberReads,
         world = Past(c, v), Recordable(p, v), DeclaredApart(p, v),
         WorldMembers(world, resource) # <<>>
  PROVE  WorldMembers(Capture(p, v, world), resource) = WorldMembers(world, resource)
<1> DEFINE reads == Recording(ReadsMade(p, v, world))
           a     == Len(v.actors)
           b     == Len(v.allowances)
<1>1. Leading(v, world, reads, a, b)
  BY MembersComeFirst
<1>2. DOMAIN v.actors = 1..a /\ DOMAIN v.allowances = 1..b
  BY LenProperties DEF Recordable
<1>3. Capture(p, v, world).kind = "recorded" /\ Capture(p, v, world).reads = reads
  BY DEF Capture, RecordedWorld
<1> HIDE DEF reads, a, b
<1>4. world.kind = "live" /\ world.actors = v.actors /\ world.allowances = v.allowances
  BY DEF LiveWorld, Past
<1>5. /\ \A i : /\ BalanceOf(v, world, i).method = "balance"
                /\ BalanceOf(v, world, i).value = LiveRead(world, "balance", <<Address(v.actors[i])>>)
      /\ \A i : /\ AllowanceOf(v, world, i).method = "allowance"
                /\ AllowanceOf(v, world, i).value =
                     LiveRead(world, "allowance",
                              <<Address(v.allowances[i].from), Address(v.allowances[i].spender)>>)
  BY DEF BalanceOf, AllowanceOf, Performed, Entry
<1>6. a \in Nat /\ b \in Nat /\ Len(reads) \in Nat /\ a + b <= Len(reads) /\ DOMAIN reads = 1..Len(reads)
  BY <1>1 DEF Leading
<1>7. /\ \A i \in 1..a : reads[i] = BalanceOf(v, world, i)
      /\ \A i \in 1..b : reads[a + i] = AllowanceOf(v, world, i)
      /\ \A i \in (a + b + 1)..Len(reads) : reads[i].method \notin Accessed
  BY <1>1 DEF Leading
<1>8. \A i \in 1..Len(reads) : \/ i \in 1..a /\ reads[i].method = "balance"
                               \/ i \in (a + 1)..(a + b) /\ reads[i].method = "allowance"
                               \/ reads[i].method \notin Accessed
  <2> SUFFICES ASSUME NEW i \in 1..Len(reads)
               PROVE  \/ i \in 1..a /\ reads[i].method = "balance"
                      \/ i \in (a + 1)..(a + b) /\ reads[i].method = "allowance"
                      \/ reads[i].method \notin Accessed
    OBVIOUS
  <2>1. \/ i \in 1..a
        \/ i \in (a + 1)..(a + b) /\ i - a \in 1..b /\ a + (i - a) = i
        \/ i \in (a + b + 1)..Len(reads)
    BY <1>6
  <2>2. CASE i \in 1..a
    BY <1>5, <1>7, <2>2
  <2>3. CASE i \in (a + 1)..(a + b) /\ i - a \in 1..b /\ a + (i - a) = i
    <3>1. reads[a + (i - a)] = AllowanceOf(v, world, i - a)
      BY <1>7, <2>3
    <3> QED BY <1>5, <2>3, <3>1
  <2> QED BY <1>7, <2>1, <2>2, <2>3
<1>9. "balance" \in Accessed /\ "allowance" \in Accessed /\ MemberReads["balances"] = "balance"
      /\ MemberReads["allowances"] = "allowance" /\ resource \in {"balances", "allowances"}
  BY DEF Accessed, MemberReads
<1> DEFINE members == {i \in DOMAIN reads : reads[i].method = MemberReads[resource]}
<1>10. WorldMembers(Capture(p, v, world), resource) =
         IF members = {} THEN <<Failed("ExecutionError")>>
         ELSE [k \in 1..Cardinality(members) |-> reads[Place(members, k)].value]
  BY <1>3 DEF WorldMembers, RecordedMembers
<1>11. CASE resource = "balances"
  <2> DEFINE live == [i \in 1..a |-> LiveRead(world, "balance", <<Address(v.actors[i])>>)]
  <2>1. WorldMembers(world, resource) = live
    BY <1>2, <1>4, <1>11 DEF WorldMembers, LiveMembers
  <2>2. a # 0
    <3> SUFFICES ASSUME a = 0 PROVE live = <<>>
      BY <2>1
    <3>1. DOMAIN live = {} /\ live = [i \in DOMAIN live |-> live[i]]
      OBVIOUS
    <3> HIDE DEF live
    <3> QED BY <3>1, NoPlaces
  <2>3. members = (0 + 1)..(0 + a)
    <3>1. \A i \in 1..a : reads[i].method = "balance" /\ i \in 1..Len(reads)
      BY <1>5, <1>6, <1>7
    <3>2. "balance" # "allowance"
      OBVIOUS
    <3>3. \A i \in 1..Len(reads) : reads[i].method = "balance" => i \in 1..a
      BY <1>8, <1>9, <3>2
    <3>4. members = 1..a
      BY <1>6, <1>9, <1>11, <3>1, <3>3
    <3>5. 0 + 1 = 1 /\ 0 + a = a
      BY <1>6
    <3> HIDE DEF members
    <3> QED BY <3>4, <3>5
  <2>4. Cardinality(members) = a /\ \A k \in 1..a : Place(members, k) = 0 + k
    <3> HIDE DEF members
    <3> QED BY <1>6, <2>3, PlacesOfARun
  <2>5. members # {}
    BY <1>6, <2>2, <2>3
  <2> HIDE DEF members
  <2>6. \A k \in 1..a : reads[Place(members, k)].value = LiveRead(world, "balance", <<Address(v.actors[k])>>)
    <3> SUFFICES ASSUME NEW k \in 1..a
                 PROVE  reads[Place(members, k)].value = LiveRead(world, "balance", <<Address(v.actors[k])>>)
      OBVIOUS
    <3>1. Place(members, k) = k
      BY <1>6, <2>4
    <3> QED BY <1>5, <1>7, <3>1
  <2>7. WorldMembers(Capture(p, v, world), resource) = [k \in 1..a |-> reads[Place(members, k)].value]
    BY <1>10, <2>4, <2>5
  <2> QED BY <2>1, <2>6, <2>7
<1>12. CASE resource = "allowances"
  <2> DEFINE of(i) == <<Address(v.allowances[i].from), Address(v.allowances[i].spender)>>
             live  == [i \in 1..b |-> LiveRead(world, "allowance", of(i))]
  <2>1. WorldMembers(world, resource) = live
    BY <1>2, <1>4, <1>12 DEF WorldMembers, LiveMembers
  <2>2. b # 0
    <3> SUFFICES ASSUME b = 0 PROVE live = <<>>
      BY <2>1
    <3>1. DOMAIN live = {} /\ live = [i \in DOMAIN live |-> live[i]]
      OBVIOUS
    <3> HIDE DEF live
    <3> QED BY <3>1, NoPlaces
  <2>3. members = (a + 1)..(a + b)
    <3>1. \A i \in (a + 1)..(a + b) : i \in 1..Len(reads) /\ i - a \in 1..b /\ a + (i - a) = i
      BY <1>6
    <3>2. \A i \in (a + 1)..(a + b) : reads[i].method = "allowance"
      <4> SUFFICES ASSUME NEW i \in (a + 1)..(a + b) PROVE reads[i].method = "allowance"
        OBVIOUS
      <4>1. reads[a + (i - a)] = AllowanceOf(v, world, i - a)
        BY <1>7, <3>1
      <4> QED BY <1>5, <3>1, <4>1
    <3>3. "balance" # "allowance"
      OBVIOUS
    <3>4. \A i \in 1..Len(reads) : reads[i].method = "allowance" => i \in (a + 1)..(a + b)
      BY <1>8, <1>9, <3>3
    <3> QED BY <1>6, <1>9, <1>12, <3>1, <3>2, <3>4
  <2>4. Cardinality(members) = b /\ \A k \in 1..b : Place(members, k) = a + k
    <3> HIDE DEF members
    <3> QED BY <1>6, <2>3, PlacesOfARun
  <2>5. members # {}
    BY <1>6, <2>2, <2>3
  <2> HIDE DEF members
  <2>6. \A k \in 1..b : reads[Place(members, k)].value = LiveRead(world, "allowance", of(k))
    <3> SUFFICES ASSUME NEW k \in 1..b
                 PROVE  reads[Place(members, k)].value = LiveRead(world, "allowance", of(k))
      OBVIOUS
    <3>1. reads[Place(members, k)] = AllowanceOf(v, world, k)
      BY <1>7, <2>4
    <3> QED BY <1>5, <3>1
  <2>7. WorldMembers(Capture(p, v, world), resource) = [k \in 1..b |-> reads[Place(members, k)].value]
    BY <1>10, <2>4, <2>5
  <2> HIDE DEF of
  <2> QED BY <2>1, <2>6, <2>7
<1> QED
  BY <1>9, <1>11, <1>12

---------------------------------------------------------------------------
(* The record is kept. *)

AfterRecording == {"convert", "call", "judge", "judged"}

\* The record is the one that was taken of the contract as it was.
Kept ==
  pc \in AfterRecording =>
    before = Capture(disk.profile, vector, Past(opening, vector)) /\ opening \in Openings

(* It is taken once, and nothing writes to it again. *)
LEMMA KeptThroughout ==
  /\ Init => Kept
  /\ IntakeInv /\ Kept /\ [Next]_vars => Kept'
<1>1. Init => Kept
  BY DEF Init, LoadInit, Kept, AfterRecording
<1> SUFFICES ASSUME IntakeInv, Kept, [Next]_vars PROVE Kept'
  BY <1>1
<1>2. CASE Loading
  <2>1. Refused(Refusals) \/ GoesOn({"corpus", "walk", "read", "admitted"})
    BY <1>2, LoadDoes DEF Loading, IntakeInv, LoadMoves
  <2>2. pc' \in {"failed", "corpus", "walk", "read", "admitted"}
    BY <2>1 DEF Refused, GoesOn
  <2> QED BY <2>2 DEF Kept, AfterRecording
<1>3. CASE \E i \in DOMAIN vectors : Take(i)
  <2>1. pc' \notin AfterRecording
    BY <1>3 DEF Take, Proceed, Fail, AfterRecording
  <2> QED BY <2>1 DEF Kept
<1>4. CASE \E c \in Openings : Record(c)
  BY <1>4 DEF Record, Kept, Past, profile
<1>5. CASE Convert \/ Invoke \/ Judge \/ UNCHANGED vars
  <2>1. UNCHANGED <<disk, vector, before, opening>> /\ (pc' \in AfterRecording => pc \in AfterRecording)
    BY <1>5 DEF Convert, Invoke, CallReturns, Judge, Conclude, vars, loader, execution, AfterRecording
  <2> QED BY <2>1 DEF Kept
<1> QED
  BY <1>2, <1>3, <1>4, <1>5 DEF Next

RecordInv == IntakeInv /\ Kept

(* What the record was made of is what the assumptions say of a document. *)
LEMMA RecordedIsRecordable ==
  ASSUME IntakeInv, pc \in AfterRecording
  PROVE  Recordable(profile, vector) /\ \A i, j \in DOMAIN vector.actors : vector.actors[i] = vector.actors[j] => i = j
<1>1. disk \in Disks /\ Admissible(disk, vector) /\ DocumentOf(disk, vector)
  BY TestedIs DEF AfterRecording, Later
<1>2. PICK path \in DOMAIN disk.files : vector = disk.files[path]
  BY <1>1 DEF DocumentOf
<1>3. Recordable(profile, vector)
  BY <1>1, <1>2, ReadsAssumption DEF Recordable, profile
<1>4. Repeated(vector.actors) = {}
  BY <1>1 DEF Admissible
<1>5. \A i, j \in DOMAIN vector.actors : vector.actors[i] = vector.actors[j] => i = j
  <2> DEFINE actors == vector.actors
  <2>1. DOMAIN actors = 1..Len(actors) /\ Len(actors) \in Nat
    BY <1>3, LenProperties DEF Recordable
  <2>2. {actors[i] : i \in {j \in DOMAIN actors : \E k \in 1..(j - 1) : actors[k] = actors[j]}} = {}
    BY <1>4 DEF Repeated
  <2> HIDE DEF actors
  <2>3. \A j \in DOMAIN actors : \A k \in 1..(j - 1) : actors[k] # actors[j]
    BY <2>2
  <2>4. \A i, j \in DOMAIN actors : i = j \/ i \in 1..(j - 1) \/ j \in 1..(i - 1)
    BY <2>1
  <2>5. \A i, j \in DOMAIN actors : actors[i] = actors[j] => i = j
    BY <2>3, <2>4
  <2> QED BY <2>5 DEF actors
<1> QED
  BY <1>3, <1>5

(* The conditions of the property are those of the members. *)
LEMMA ApartMeans ==
  ASSUME \A i, j \in DOMAIN vector.actors : vector.actors[i] = vector.actors[j] => i = j,
         GrantedOnce, DeclaredMembers, ArgumentsAreKnown
  PROVE  DeclaredApart(profile, vector)
<1>1. \A i, j \in DOMAIN vector.allowances :
        vector.allowances[i].from = vector.allowances[j].from
        /\ vector.allowances[i].spender = vector.allowances[j].spender => i = j
  BY DEF GrantedOnce
<1>2. ASSUME NEW r \in Collected(profile, vector)
      PROVE  /\ Resolvable(r, vector)
             /\ r.method = "balance" =>
                  \E i \in DOMAIN vector.actors :
                    ReadArguments(r, vector.inputs) = <<Address(vector.actors[i])>>
             /\ r.method = "allowance" =>
                  \E i \in DOMAIN vector.allowances : ReadArguments(r, vector.inputs) =
                    <<Address(vector.allowances[i].from), Address(vector.allowances[i].spender)>>
  <2>1. Resolvable(r, vector)
    BY DEF ArgumentsAreKnown
  <2>2. /\ r.method = "balance" =>
             \E a \in ActorNames(vector) : ReadArguments(r, vector.inputs) = <<Address(a)>>
        /\ r.method = "allowance" =>
             \E i \in DOMAIN vector.allowances : ReadArguments(r, vector.inputs) =
               <<Address(vector.allowances[i].from), Address(vector.allowances[i].spender)>>
    BY <2>1 DEF DeclaredMembers
  <2>3. \A a \in ActorNames(vector) : \E i \in DOMAIN vector.actors : a = vector.actors[i]
    BY DEF ActorNames, ToSet
  <2> QED BY <2>1, <2>2, <2>3
<1> QED
  BY <1>1, <1>2 DEF DeclaredApart

---------------------------------------------------------------------------
(* What holds of every run. *)

(* No value that failed is ever passed on, and a vector is under test only once the corpus  *)
(* is admitted (engine/scenario.rs).                                                      *)
THEOREM OnlyWhatWasProducedIsPassed == Spec => []TypeOK
<1>1. ASSUME IntakeInv
      PROVE  TypeOK
  <2>1. Checked /\ Tested
    BY <1>1 DEF IntakeInv
  <2>2. pc \in {"record", "convert", "call", "judge", "judged"} =>
          AllProduced(arguments) /\ (pc \in {"call", "judge", "judged"} => AllProduced(passed))
    BY <2>1 DEF Tested, Later
  <2>3. vector = NoVector \/ vector \in {vectors[i].document : i \in DOMAIN vectors}
    BY <2>1 DEF Tested, VectorsOf
  <2>4. /\ pc \in {"load", "corpus", "walk", "read", "admitted", "record", "convert", "call", "judge",
                   "judged", "failed", "crashed"}
        /\ failure.class \in {"none", "ProfileError", "VectorError", "ExecutionError"}
    BY <2>1 DEF Checked, Loadings, Later, Refusals
  <2>5. (pc = "failed" <=> failure # NoFailure) /\ (findings # {} => pc \in {"read", "failed"})
    BY <2>1 DEF Checked
  <2>6. outcome \in {"none", "success", "failure"}
    BY <2>1 DEF Tested
  <2> QED BY <2>2, <2>3, <2>4, <2>5, <2>6 DEF TypeOK
<1> QED
  BY <1>1, IntakeStarts, IntakeKeeps, PTL DEF Spec

(* The corpus is every applicable vector below the declared trees, each once and in the      *)
(* order of its path, whatever order the disk lists them in, and whether the walk is          *)
(* refused depends on the trees alone (crates/estamora-vectors: loader.rs).                   *)
THEOREM TheCorpusIsTheTrees == Spec => []CorpusIsTheTrees
<1>1. ASSUME IntakeInv
      PROVE  CorpusIsTheTrees
  BY <1>1, LoadedAreTheTrees DEF IntakeInv
<1> QED
  BY <1>1, IntakeStarts, IntakeKeeps, PTL DEF Spec

(* No call is judged by an identifier nobody declares: the rules, the vector and the         *)
(* invariants of a judged call name what the profile has (references.rs, validate.rs).        *)
THEOREM WhatIsJudgedIsDeclared == Spec => []NothingJudgedIsUndeclared
<1>1. ASSUME IntakeInv
      PROVE  NothingJudgedIsUndeclared
  <2> SUFFICES ASSUME pc = "judged"
               PROVE  /\ Defined(profile.methods, vector.method)
                      /\ \A r \in Governing : /\ r.expects \cup r.forbids \subseteq Ids(profile.events)
                                              /\ r.invariants \subseteq Ids(profile.invariants)
                                              /\ r.failures \subseteq Ids(profile.failures)
                      /\ vector.invariants \subseteq Ids(profile.invariants)
                      /\ Announced(vector) \cup vector.forbidden \subseteq Ids(profile.events)
                      /\ vector.failure # "none" => vector.failure \in Ids(profile.failures)
    BY DEF NothingJudgedIsUndeclared, Judged
  <2>1. Admissible(disk, vector) /\ WellReferenced(disk.profile)
    BY <1>1, TestedIs DEF Later
  <2>2. Governing \in SUBSET ToSet(profile.behaviors)
    BY DEF Governing, BehaviorsFor
  <2>3. \A r \in Governing : /\ r.expects \cup r.forbids \subseteq Ids(profile.events)
                             /\ r.invariants \subseteq Ids(profile.invariants)
                             /\ r.failures \subseteq Ids(profile.failures)
    BY <2>1, <2>2 DEF WellReferenced, profile
  <2>4. /\ Defined(profile.methods, vector.method)
        /\ vector.invariants \subseteq Ids(profile.invariants)
        /\ Announced(vector) \cup vector.forbidden \subseteq Ids(profile.events)
        /\ vector.failure # "none" => vector.failure \in Ids(profile.failures)
    BY <2>1 DEF Admissible, profile
  <2> QED BY <2>3, <2>4
<1> QED
  BY <1>1, IntakeStarts, IntakeKeeps, PTL DEF Spec

(* What an argument is declared as is what the host is given: no call is refused for the     *)
(* runner's own choice of type (engine/values.rs host_argument).                              *)
THEOREM ArgumentsArePassedAsDeclared == Spec => []PassedAsDeclared
<1>1. ASSUME IntakeInv
      PROVE  PassedAsDeclared
  <2> SUFFICES ASSUME pc \in {"call", "judge", "judged"}, NEW i \in DOMAIN passed,
                      Method(vector).args[i].type \notin Loose
               PROVE  passed[i].type = HostType(Method(vector).args[i].type)
    BY DEF PassedAsDeclared, Loose
  <2>1. /\ disk \in Disks /\ Admissible(disk, vector) /\ DocumentOf(disk, vector)
        /\ arguments = ArgumentsIn(disk, vector) /\ AllProduced(arguments)
    BY <1>1, TestedIs DEF Later
  <2>2. passed = PassedIn(disk, vector, arguments) /\ AllProduced(passed)
    BY <1>1 DEF IntakeInv, Tested
  <2>3. Method(vector) = MethodIn(disk, vector)
    BY IntakeTerms
  <2> QED BY <2>1, <2>2, <2>3, PassedSuit
<1> QED
  BY <1>1, IntakeStarts, IntakeKeeps, PTL DEF Spec

(* The record answers as the contract did when it was taken, whatever the call did since:     *)
(* every read collected, and the aggregates of the members the fixture declares                *)
(* (engine/record.rs RecordedWorld; world.rs ContractWorld).                                   *)
THEOREM TheRecordStaysThePast == Spec => []TheRecordIsThePast
<1>1. ASSUME RecordInv
      PROVE  TheRecordIsThePast
  <2> DEFINE past == LiveWorld(opening, vector.actors, vector.allowances)
  <2> SUFFICES ASSUME pc \in AfterRecording
               PROVE  /\ \A r \in Collected(profile, vector) : Resolvable(r, vector) =>
                           LET args == ReadArguments(r, vector.inputs)
                           IN KeptApart(r.method, args) =>
                                RecordedRead(before, r.method, args) = LiveRead(past, r.method, args)
                      /\ (GrantedOnce /\ DeclaredMembers /\ ArgumentsAreKnown) =>
                           \A resource \in DOMAIN MemberReads : WorldMembers(past, resource) # <<>> =>
                             Aggregate(before, resource) = Aggregate(past, resource)
    BY DEF TheRecordIsThePast, AfterRecording
  <2>1. /\ Recordable(profile, vector)
        /\ \A i, j \in DOMAIN vector.actors : vector.actors[i] = vector.actors[j] => i = j
    BY <1>1, RecordedIsRecordable DEF RecordInv
  <2>2. before = Capture(profile, vector, past)
    BY <1>1 DEF RecordInv, Kept, Past, profile
  <2>3. past = Past(opening, vector)
    BY DEF Past
  <2> HIDE DEF past
  <2>4. ASSUME NEW r \in Collected(profile, vector), Resolvable(r, vector),
               KeptApart(r.method, ReadArguments(r, vector.inputs))
        PROVE  RecordedRead(before, r.method, ReadArguments(r, vector.inputs))
                 = LiveRead(past, r.method, ReadArguments(r, vector.inputs))
    <3> DEFINE args == ReadArguments(r, vector.inputs)
    <3>1. \/ args # <<>>
          \/ \A q \in Collected(profile, vector) : q.method = r.method => Resolvable(q, vector)
      BY <2>4 DEF KeptApart
    <3>2. args = ReadArguments(r, vector.inputs)
      OBVIOUS
    <3> HIDE DEF args
    <3>3. RecordedRead(Capture(profile, vector, past), r.method, args) = LiveRead(past, r.method, args)
      BY <2>1, <2>4, <3>1, <3>2, AnsweredAsThen
    <3> QED BY <2>2, <3>2, <3>3
  <2>5. ASSUME GrantedOnce, DeclaredMembers, ArgumentsAreKnown,
               NEW resource \in DOMAIN MemberReads, WorldMembers(past, resource) # <<>>
        PROVE  Aggregate(before, resource) = Aggregate(past, resource)
    <3>1. DeclaredApart(profile, vector)
      BY <2>1, <2>5, ApartMeans
    <3>2. WorldMembers(Capture(profile, vector, past), resource) = WorldMembers(past, resource)
      <4>1. Recordable(profile, vector) /\ resource \in DOMAIN MemberReads
            /\ WorldMembers(past, resource) # <<>>
        BY <2>1, <2>5
      <4> QED BY <2>3, <3>1, <4>1, MembersAreThen
    <3> QED BY <2>2, <3>2 DEF Aggregate
  <2> QED BY <2>4, <2>5
<1>2. Init => RecordInv
  BY IntakeStarts, KeptThroughout DEF RecordInv
<1>3. RecordInv /\ [Next]_vars => RecordInv'
  BY IntakeKeeps, KeptThroughout DEF RecordInv
<1> QED
  BY <1>1, <1>2, <1>3, PTL DEF Spec
=============================================================================
