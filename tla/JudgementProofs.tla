---------------------------- MODULE JudgementProofs ----------------------------
(***************************************************************************)
(* What a verdict means, whatever the profile, the vector, the contract and the     *)
(* events captured: it asks for nothing that was not read, it does not accuse a     *)
(* contract of having stood still, what it acquits was announced as required,       *)
(* what was announced as required is acquitted, and the shape a contract gives       *)
(* its payload is its own.                                                          *)
(***************************************************************************)
EXTENDS IntakeProofs

---------------------------------------------------------------------------
(* What is told from an unread answer. *)

(* Every failure there is to tell from an unread one. *)
LEMMA UnrecordedIs ==
  /\ HasFailed(Unrecorded)
  /\ \A class : Failed(class) # Unrecorded
  /\ Crash # Unrecorded
  /\ \A n : Number(n) # Unrecorded /\ ~HasFailed(Number(n))
  /\ \A b : Flag(b) # Unrecorded /\ ~HasFailed(Flag(b))
  /\ \A v : ~HasFailed(v) => v # Unrecorded
<1>1. HasFailed(Unrecorded) /\ Unrecorded.n = 1
  BY DEF HasFailed, Unrecorded, Value
<1>2. \A class : Failed(class).n = 0
  BY DEF Failed, Value
<1>7. Crash.n = 0
  BY DEF Crash, Failed, Value
<1>3. \A n : Number(n).type = "integer"
  BY DEF Number, Value
<1>4. \A b : Flag(b).type = "bool"
  BY DEF Flag, Value
<1>5. \A n : ~HasFailed(Number(n))
  BY <1>3 DEF HasFailed
<1>6. \A b : ~HasFailed(Flag(b))
  BY <1>4 DEF HasFailed
<1> QED
  BY <1>1, <1>2, <1>5, <1>6, <1>7

(* What is provided is the value, or one of the failures it was waiting for. *)
LEMMA ProvidedIs ==
  ASSUME NEW n \in Nat, NEW values, DOMAIN values = 1..n, NEW value
  PROVE  \/ AllProduced(values) /\ Provided(values, value) = value
         \/ ~AllProduced(values) /\ HasFailed(Provided(values, value))
            /\ \E i \in 1..n : Provided(values, value) = values[i]
<1>1. CASE AllProduced(values)
  BY <1>1 DEF Provided
<1>2. CASE ~AllProduced(values)
  <2>1. PICK i \in 1..n : Failure(values) = values[i] /\ HasFailed(values[i])
    BY <1>2, FailureIs
  <2>2. Provided(values, value) = Failure(values)
    BY <1>2 DEF Provided
  <2> QED BY <1>2, <2>1, <2>2
<1> QED
  BY <1>1, <1>2

---------------------------------------------------------------------------
(* Recursion by steps. *)

\* The levels of what is within x.
Levels(w, x, n) == w[0] = {x} /\ \A k \in 1..n : w[k] = w[k - 1] \cup UNION {Parts(y) : y \in w[k - 1]}

(* What is within x are the levels put together. *)
LEMMA WithinIs ==
  ASSUME NEW x
  PROVE  \E w : Levels(w, x, MaxNesting) /\ Within(x) = w[MaxNesting]
<1> DEFINE n == MaxNesting
           P == {m \in Nat : \E f : f = [k \in 0..m |-> IF k = 0 THEN {x} ELSE f[k - 1] \cup UNION {Parts(y) : y \in f[k - 1]}]}
<1>0. n \in Nat
  BY DepthAssumption
<1>1. 0 \in P
  <2> DEFINE f == [k \in 0..0 |-> {x}]
  <2>1. f = [k \in 0..0 |-> IF k = 0 THEN {x} ELSE f[k - 1] \cup UNION {Parts(y) : y \in f[k - 1]}]
    OBVIOUS
  <2> HIDE DEF f
  <2> QED BY <2>1
<1>2. ASSUME NEW m \in P
      PROVE  m + 1 \in P
  <2>1. PICK f : f = [k \in 0..m |-> IF k = 0 THEN {x} ELSE f[k - 1] \cup UNION {Parts(y) : y \in f[k - 1]}]
    OBVIOUS
  <2> DEFINE g == [k \in 0..(m + 1) |-> IF k = m + 1 THEN f[m] \cup UNION {Parts(y) : y \in f[m]} ELSE f[k]]
  <2>2. ASSUME NEW k \in 0..(m + 1)
        PROVE  g[k] = IF k = 0 THEN {x} ELSE g[k - 1] \cup UNION {Parts(y) : y \in g[k - 1]}
    <3>0. m \in Nat
      OBVIOUS
    <3>1. CASE k = 0
      BY <2>1, <3>0, <3>1
    <3>2. CASE k = m + 1
      <4>1. k # 0 /\ k - 1 = m /\ k - 1 \in 0..(m + 1) /\ k - 1 # m + 1
        BY <3>0, <3>2
      <4> QED BY <3>2, <4>1
    <3>3. CASE k # 0 /\ k # m + 1
      <4>1. k \in 0..m /\ k - 1 \in 0..(m + 1) /\ k - 1 # m + 1
        BY <3>0, <3>3
      <4>2. f[k] = f[k - 1] \cup UNION {Parts(y) : y \in f[k - 1]}
        BY <2>1, <3>3, <4>1
      <4> QED BY <3>3, <4>1, <4>2
    <3> QED BY <3>1, <3>2, <3>3
  <2>3. g = [k \in 0..(m + 1) |-> IF k = 0 THEN {x} ELSE g[k - 1] \cup UNION {Parts(y) : y \in g[k - 1]}]
    <3>1. g = [k \in 0..(m + 1) |-> g[k]]
      OBVIOUS
    <3> HIDE DEF g
    <3> QED BY <2>2, <3>1
  <2> HIDE DEF g
  <2> QED BY <2>3
<1>3. n \in P
  <2>1. P \in SUBSET Nat
    OBVIOUS
  <2> HIDE DEF P
  <2> QED BY <1>0, <1>1, <1>2, <2>1, Reaches
<1> DEFINE F == CHOOSE f : f = [k \in 0..n |-> IF k = 0 THEN {x} ELSE f[k - 1] \cup UNION {Parts(y) : y \in f[k - 1]}]
<1>4. F = [k \in 0..n |-> IF k = 0 THEN {x} ELSE F[k - 1] \cup UNION {Parts(y) : y \in F[k - 1]}]
  <2>1. \E f : f = [k \in 0..n |-> IF k = 0 THEN {x} ELSE f[k - 1] \cup UNION {Parts(y) : y \in f[k - 1]}]
    BY <1>3
  <2> HIDE DEF P, n
  <2> QED BY <2>1
<1>5. Within(x) = F[n]
  BY DEF Within
<1>6. 0 \in 0..n /\ \A k \in 1..n : k \in 0..n /\ k # 0
  BY <1>0
<1> HIDE DEF F
<1>7. Levels(F, x, n)
  <2> HIDE DEF n, P
  <2> QED BY <1>4, <1>6 DEF Levels
<1> QED
  BY <1>5, <1>7

(* An expression, or a predicate, is within itself. *)
LEMMA WithinItself ==
  ASSUME NEW x
  PROVE  x \in Within(x)
<1> DEFINE n == MaxNesting
<1>1. n \in Nat
  BY DepthAssumption
<1>2. PICK w : Levels(w, x, n) /\ Within(x) = w[n]
  BY WithinIs
<1> DEFINE P == {k \in Nat : k <= n => x \in w[k]}
<1>3. 0 \in P
  BY <1>2 DEF Levels
<1>4. ASSUME NEW k \in P
      PROVE  k + 1 \in P
  <2>1. k \in Nat
    OBVIOUS
  <2>2. CASE k + 1 <= n
    <3>1. k <= n /\ k + 1 \in 1..n /\ (k + 1) - 1 = k
      BY <1>1, <2>1, <2>2
    <3>2. w[k + 1] = w[k] \cup UNION {Parts(y) : y \in w[k]}
      BY <1>2, <3>1 DEF Levels
    <3> QED BY <3>1, <3>2
  <2>3. CASE ~(k + 1 <= n)
    BY <2>1, <2>3
  <2> QED BY <2>2, <2>3
<1>5. n \in P
  <2>1. P \in SUBSET Nat
    OBVIOUS
  <2> HIDE DEF P, n
  <2> QED BY <1>1, <1>3, <1>4, <2>1, Reaches
<1> QED
  BY <1>1, <1>2, <1>5
\* What the operands come to, one after the other.
Adding(w, op, first, operands, n) == w[0] = first /\ \A k \in 1..n : w[k] = Accumulate(op, w[k - 1], operands[k])

(* An accumulation is made operand by operand. *)
LEMMA AccumulatedIs ==
  ASSUME NEW op, NEW first, NEW operands, Len(operands) \in Nat
  PROVE  \E w : Adding(w, op, first, operands, Len(operands)) /\ Accumulated(op, first, operands) = w[Len(operands)]
<1> DEFINE n == Len(operands)
           P == {m \in Nat : \E f : f = [k \in 0..m |-> IF k = 0 THEN first ELSE Accumulate(op, f[k - 1], operands[k])]}
<1>0. n \in Nat
  OBVIOUS
<1>1. 0 \in P
  <2> DEFINE f == [k \in 0..0 |-> first]
  <2>1. f = [k \in 0..0 |-> IF k = 0 THEN first ELSE Accumulate(op, f[k - 1], operands[k])]
    OBVIOUS
  <2> HIDE DEF f
  <2> QED BY <2>1
<1>2. ASSUME NEW m \in P
      PROVE  m + 1 \in P
  <2>1. PICK f : f = [k \in 0..m |-> IF k = 0 THEN first ELSE Accumulate(op, f[k - 1], operands[k])]
    OBVIOUS
  <2> DEFINE g == [k \in 0..(m + 1) |-> IF k = m + 1 THEN Accumulate(op, f[m], operands[m + 1]) ELSE f[k]]
  <2>2. ASSUME NEW k \in 0..(m + 1)
        PROVE  g[k] = IF k = 0 THEN first ELSE Accumulate(op, g[k - 1], operands[k])
    <3>0. m \in Nat
      OBVIOUS
    <3>1. CASE k = 0
      BY <2>1, <3>0, <3>1
    <3>2. CASE k = m + 1
      <4>1. k # 0 /\ k - 1 = m /\ k - 1 \in 0..(m + 1) /\ k - 1 # m + 1
        BY <3>0, <3>2
      <4> QED BY <3>2, <4>1
    <3>3. CASE k # 0 /\ k # m + 1
      <4>1. k \in 0..m /\ k - 1 \in 0..(m + 1) /\ k - 1 # m + 1
        BY <3>0, <3>3
      <4>2. f[k] = Accumulate(op, f[k - 1], operands[k])
        BY <2>1, <3>3, <4>1
      <4> QED BY <3>3, <4>1, <4>2
    <3> QED BY <3>1, <3>2, <3>3
  <2>3. g = [k \in 0..(m + 1) |-> IF k = 0 THEN first ELSE Accumulate(op, g[k - 1], operands[k])]
    <3>1. g = [k \in 0..(m + 1) |-> g[k]]
      OBVIOUS
    <3> HIDE DEF g
    <3> QED BY <2>2, <3>1
  <2> HIDE DEF g
  <2>4. m + 1 \in Nat
    OBVIOUS
  <2>5. \E h : h = [k \in 0..(m + 1) |-> IF k = 0 THEN first ELSE Accumulate(op, h[k - 1], operands[k])]
    BY <2>3
  <2> QED BY <2>4, <2>5
<1>3. n \in P
  <2>1. P \in SUBSET Nat
    OBVIOUS
  <2> HIDE DEF P
  <2> QED BY <1>0, <1>1, <1>2, <2>1, Reaches
<1> DEFINE F == CHOOSE f : f = [k \in 0..n |-> IF k = 0 THEN first ELSE Accumulate(op, f[k - 1], operands[k])]
<1>4. F = [k \in 0..n |-> IF k = 0 THEN first ELSE Accumulate(op, F[k - 1], operands[k])]
  <2>1. \E f : f = [k \in 0..n |-> IF k = 0 THEN first ELSE Accumulate(op, f[k - 1], operands[k])]
    BY <1>3
  <2> HIDE DEF P, n
  <2> QED BY <2>1
<1>5. Accumulated(op, first, operands) = F[n]
  BY DEF Accumulated
<1>6. 0 \in 0..n /\ \A k \in 1..n : k \in 0..n /\ k # 0
  BY <1>0
<1> HIDE DEF F
<1>7. Adding(F, op, first, operands, n)
  <2> HIDE DEF n, P
  <2> QED BY <1>4, <1>6 DEF Adding
<1> QED
  BY <1>5, <1>7

\* What every expression concerned is worth, by the steps taken.
Working(w, env, X, member, n) ==
  /\ w[0] = [e \in X |-> Failed("VectorError")]
  /\ \A k \in 1..n : w[k] = [e \in X |-> Computed(env, e, member, w[k - 1])]

(* An expression is computed step by step, with all those it is computed from. *)
LEMMA ComputeIs ==
  ASSUME NEW env, NEW expr, NEW member
  PROVE  \E w : /\ Working(w, env, Concerned(env, expr), member, MaxResolutionDepth + 1)
                /\ Compute(env, expr, member) = w[MaxResolutionDepth + 1][expr]
<1> DEFINE X == Concerned(env, expr)
<1> DEFINE n == MaxResolutionDepth + 1
           P == {m \in Nat : \E f : f = [k \in 0..m |-> IF k = 0 THEN [e \in X |-> Failed("VectorError")] ELSE [e \in X |-> Computed(env, e, member, f[k - 1])]]}
<1>0. n \in Nat
  BY DepthAssumption
<1>1. 0 \in P
  <2> DEFINE f == [k \in 0..0 |-> [e \in X |-> Failed("VectorError")]]
  <2>1. f = [k \in 0..0 |-> IF k = 0 THEN [e \in X |-> Failed("VectorError")] ELSE [e \in X |-> Computed(env, e, member, f[k - 1])]]
    OBVIOUS
  <2> HIDE DEF f
  <2> QED BY <2>1
<1>2. ASSUME NEW m \in P
      PROVE  m + 1 \in P
  <2>1. PICK f : f = [k \in 0..m |-> IF k = 0 THEN [e \in X |-> Failed("VectorError")] ELSE [e \in X |-> Computed(env, e, member, f[k - 1])]]
    OBVIOUS
  <2> DEFINE g == [k \in 0..(m + 1) |-> IF k = m + 1 THEN [e \in X |-> Computed(env, e, member, f[m])] ELSE f[k]]
  <2>2. ASSUME NEW k \in 0..(m + 1)
        PROVE  g[k] = IF k = 0 THEN [e \in X |-> Failed("VectorError")] ELSE [e \in X |-> Computed(env, e, member, g[k - 1])]
    <3>0. m \in Nat
      OBVIOUS
    <3>1. CASE k = 0
      BY <2>1, <3>0, <3>1
    <3>2. CASE k = m + 1
      <4>1. k # 0 /\ k - 1 = m /\ k - 1 \in 0..(m + 1) /\ k - 1 # m + 1
        BY <3>0, <3>2
      <4> QED BY <3>2, <4>1
    <3>3. CASE k # 0 /\ k # m + 1
      <4>1. k \in 0..m /\ k - 1 \in 0..(m + 1) /\ k - 1 # m + 1
        BY <3>0, <3>3
      <4>2. f[k] = [e \in X |-> Computed(env, e, member, f[k - 1])]
        BY <2>1, <3>3, <4>1
      <4> QED BY <3>3, <4>1, <4>2
    <3> QED BY <3>1, <3>2, <3>3
  <2>3. g = [k \in 0..(m + 1) |-> IF k = 0 THEN [e \in X |-> Failed("VectorError")] ELSE [e \in X |-> Computed(env, e, member, g[k - 1])]]
    <3>1. g = [k \in 0..(m + 1) |-> g[k]]
      OBVIOUS
    <3> HIDE DEF g
    <3> QED BY <2>2, <3>1
  <2> HIDE DEF g
  <2> QED BY <2>3
<1>3. n \in P
  <2>1. P \in SUBSET Nat
    OBVIOUS
  <2> HIDE DEF P
  <2> QED BY <1>0, <1>1, <1>2, <2>1, Reaches
<1> DEFINE F == CHOOSE f : f = [k \in 0..n |-> IF k = 0 THEN [e \in X |-> Failed("VectorError")] ELSE [e \in X |-> Computed(env, e, member, f[k - 1])]]
<1>4. F = [k \in 0..n |-> IF k = 0 THEN [e \in X |-> Failed("VectorError")] ELSE [e \in X |-> Computed(env, e, member, F[k - 1])]]
  <2>1. \E f : f = [k \in 0..n |-> IF k = 0 THEN [e \in X |-> Failed("VectorError")] ELSE [e \in X |-> Computed(env, e, member, f[k - 1])]]
    BY <1>3
  <2> HIDE DEF P, n
  <2> QED BY <2>1
<1>5. Compute(env, expr, member) = F[n][expr]
  BY DEF Compute
<1>6. 0 \in 0..n /\ \A k \in 1..n : k \in 0..n /\ k # 0
  BY <1>0
<1> HIDE DEF F
<1>7. Working(F, env, X, member, n)
  <2> HIDE DEF n, P
  <2> QED BY <1>4, <1>6 DEF Working
<1> QED
  BY <1>5, <1>7

\* What every predicate inside another holds, by the steps taken.
Holding(w, env, X, member, n) ==
  /\ w[0] = [q \in X |-> Failed("VectorError")]
  /\ \A k \in 1..n : w[k] = [q \in X |-> Held(env, q, member, w[k - 1])]

(* A predicate is evaluated step by step, with all those it is composed of. *)
LEMMA EvaluateIs ==
  ASSUME NEW env, NEW p, NEW member
  PROVE  \E w : /\ Holding(w, env, Within(p), member, MaxNesting + 1)
                /\ Evaluate(env, p, member) = w[MaxNesting + 1][p]
<1> DEFINE X == Within(p)
<1> DEFINE n == MaxNesting + 1
           P == {m \in Nat : \E f : f = [k \in 0..m |-> IF k = 0 THEN [q \in X |-> Failed("VectorError")] ELSE [q \in X |-> Held(env, q, member, f[k - 1])]]}
<1>0. n \in Nat
  BY DepthAssumption
<1>1. 0 \in P
  <2> DEFINE f == [k \in 0..0 |-> [q \in X |-> Failed("VectorError")]]
  <2>1. f = [k \in 0..0 |-> IF k = 0 THEN [q \in X |-> Failed("VectorError")] ELSE [q \in X |-> Held(env, q, member, f[k - 1])]]
    OBVIOUS
  <2> HIDE DEF f
  <2> QED BY <2>1
<1>2. ASSUME NEW m \in P
      PROVE  m + 1 \in P
  <2>1. PICK f : f = [k \in 0..m |-> IF k = 0 THEN [q \in X |-> Failed("VectorError")] ELSE [q \in X |-> Held(env, q, member, f[k - 1])]]
    OBVIOUS
  <2> DEFINE g == [k \in 0..(m + 1) |-> IF k = m + 1 THEN [q \in X |-> Held(env, q, member, f[m])] ELSE f[k]]
  <2>2. ASSUME NEW k \in 0..(m + 1)
        PROVE  g[k] = IF k = 0 THEN [q \in X |-> Failed("VectorError")] ELSE [q \in X |-> Held(env, q, member, g[k - 1])]
    <3>0. m \in Nat
      OBVIOUS
    <3>1. CASE k = 0
      BY <2>1, <3>0, <3>1
    <3>2. CASE k = m + 1
      <4>1. k # 0 /\ k - 1 = m /\ k - 1 \in 0..(m + 1) /\ k - 1 # m + 1
        BY <3>0, <3>2
      <4> QED BY <3>2, <4>1
    <3>3. CASE k # 0 /\ k # m + 1
      <4>1. k \in 0..m /\ k - 1 \in 0..(m + 1) /\ k - 1 # m + 1
        BY <3>0, <3>3
      <4>2. f[k] = [q \in X |-> Held(env, q, member, f[k - 1])]
        BY <2>1, <3>3, <4>1
      <4> QED BY <3>3, <4>1, <4>2
    <3> QED BY <3>1, <3>2, <3>3
  <2>3. g = [k \in 0..(m + 1) |-> IF k = 0 THEN [q \in X |-> Failed("VectorError")] ELSE [q \in X |-> Held(env, q, member, g[k - 1])]]
    <3>1. g = [k \in 0..(m + 1) |-> g[k]]
      OBVIOUS
    <3> HIDE DEF g
    <3> QED BY <2>2, <3>1
  <2> HIDE DEF g
  <2> QED BY <2>3
<1>3. n \in P
  <2>1. P \in SUBSET Nat
    OBVIOUS
  <2> HIDE DEF P
  <2> QED BY <1>0, <1>1, <1>2, <2>1, Reaches
<1> DEFINE F == CHOOSE f : f = [k \in 0..n |-> IF k = 0 THEN [q \in X |-> Failed("VectorError")] ELSE [q \in X |-> Held(env, q, member, f[k - 1])]]
<1>4. F = [k \in 0..n |-> IF k = 0 THEN [q \in X |-> Failed("VectorError")] ELSE [q \in X |-> Held(env, q, member, F[k - 1])]]
  <2>1. \E f : f = [k \in 0..n |-> IF k = 0 THEN [q \in X |-> Failed("VectorError")] ELSE [q \in X |-> Held(env, q, member, f[k - 1])]]
    BY <1>3
  <2> HIDE DEF P, n
  <2> QED BY <2>1
<1>5. Evaluate(env, p, member) = F[n][p]
  BY DEF Evaluate
<1>6. 0 \in 0..n /\ \A k \in 1..n : k \in 0..n /\ k # 0
  BY <1>0
<1> HIDE DEF F
<1>7. Holding(F, env, X, member, n)
  <2> HIDE DEF n, P
  <2> QED BY <1>4, <1>6 DEF Holding
<1> QED
  BY <1>5, <1>7

(* An argument is followed step by step. *)
LEMMA FollowingIs ==
  ASSUME NEW expr, NEW inputs, IsFiniteSet(DOMAIN inputs)
  PROVE  \E w : Chain(w, expr, inputs, Cardinality(DOMAIN inputs)) /\ Followed(expr, inputs) = w[Cardinality(DOMAIN inputs)]
<1> DEFINE n == Cardinality(DOMAIN inputs)
           P == {m \in Nat : \E f : f = [k \in 0..m |-> IF k = 0 THEN expr ELSE Followed1(f[k - 1], inputs)]}
<1>0. n \in Nat
  BY FS_CardinalityType
<1>1. 0 \in P
  <2> DEFINE f == [k \in 0..0 |-> expr]
  <2>1. f = [k \in 0..0 |-> IF k = 0 THEN expr ELSE Followed1(f[k - 1], inputs)]
    OBVIOUS
  <2> HIDE DEF f
  <2> QED BY <2>1
<1>2. ASSUME NEW m \in P
      PROVE  m + 1 \in P
  <2>1. PICK f : f = [k \in 0..m |-> IF k = 0 THEN expr ELSE Followed1(f[k - 1], inputs)]
    OBVIOUS
  <2> DEFINE g == [k \in 0..(m + 1) |-> IF k = m + 1 THEN Followed1(f[m], inputs) ELSE f[k]]
  <2>2. ASSUME NEW k \in 0..(m + 1)
        PROVE  g[k] = IF k = 0 THEN expr ELSE Followed1(g[k - 1], inputs)
    <3>0. m \in Nat
      OBVIOUS
    <3>1. CASE k = 0
      BY <2>1, <3>0, <3>1
    <3>2. CASE k = m + 1
      <4>1. k # 0 /\ k - 1 = m /\ k - 1 \in 0..(m + 1) /\ k - 1 # m + 1
        BY <3>0, <3>2
      <4> QED BY <3>2, <4>1
    <3>3. CASE k # 0 /\ k # m + 1
      <4>1. k \in 0..m /\ k - 1 \in 0..(m + 1) /\ k - 1 # m + 1
        BY <3>0, <3>3
      <4>2. f[k] = Followed1(f[k - 1], inputs)
        BY <2>1, <3>3, <4>1
      <4> QED BY <3>3, <4>1, <4>2
    <3> QED BY <3>1, <3>2, <3>3
  <2>3. g = [k \in 0..(m + 1) |-> IF k = 0 THEN expr ELSE Followed1(g[k - 1], inputs)]
    <3>1. g = [k \in 0..(m + 1) |-> g[k]]
      OBVIOUS
    <3> HIDE DEF g
    <3> QED BY <2>2, <3>1
  <2> HIDE DEF g
  <2> QED BY <2>3
<1>3. n \in P
  <2>1. P \in SUBSET Nat
    OBVIOUS
  <2> HIDE DEF P
  <2> QED BY <1>0, <1>1, <1>2, <2>1, Reaches
<1> DEFINE F == CHOOSE f : f = [k \in 0..n |-> IF k = 0 THEN expr ELSE Followed1(f[k - 1], inputs)]
<1>4. F = [k \in 0..n |-> IF k = 0 THEN expr ELSE Followed1(F[k - 1], inputs)]
  <2>1. \E f : f = [k \in 0..n |-> IF k = 0 THEN expr ELSE Followed1(f[k - 1], inputs)]
    BY <1>3
  <2> HIDE DEF P, n
  <2> QED BY <2>1
<1>5. Followed(expr, inputs) = F[n]
  BY DEF Followed, Followed1
<1>6. 0 \in 0..n /\ \A k \in 1..n : k \in 0..n /\ k # 0
  BY <1>0
<1> HIDE DEF F
<1>7. Chain(F, expr, inputs, n)
  <2> HIDE DEF n, P
  <2> QED BY <1>4, <1>6 DEF Chain
<1> QED
  BY <1>5, <1>7

---------------------------------------------------------------------------
(* What a contract answers. *)

(* What cannot be passed into the host is refused there. *)
LEMMA RefusedByTheHost ==
  ASSUME NEW v, NEW actors, NEW h, h = ToHost(actors, v)
  PROVE  /\ HasFailed(h) => h = Failed("ExecutionError")
         /\ h.type = "address" => h.n \in actors
<1>1. CASE v.type = "integer"
  <2>1. h = Value("i128", "none", v.n)
    BY <1>1, Zenon DEF ToHost
  <2> QED BY <2>1 DEF Value, HasFailed
<1>2. CASE v.type = "bool"
  <2>1. h = Value("bool", "none", v.n)
    BY <1>2, Zenon DEF ToHost
  <2> QED BY <2>1 DEF Value, HasFailed
<1>3. CASE v.type = "text"
  <2>1. h = Value("string", v.form, v.n)
    BY <1>3, Zenon DEF ToHost
  <2> QED BY <2>1 DEF Value, HasFailed
<1>4. CASE v.type = "address"
  <2>1. h = IF v.form = "word" /\ v.n \in actors THEN v ELSE Failed("ExecutionError")
    BY <1>4, Zenon DEF ToHost
  <2>2. Failed("ExecutionError").type = "error"
    BY DEF Failed, Value
  <2> QED BY <1>4, <2>1, <2>2 DEF HasFailed
<1>5. CASE v.type = "sequence"
  <2>1. h = Value("vec", "none", v.n)
    BY <1>5, Zenon DEF ToHost
  <2> QED BY <2>1 DEF Value, HasFailed
<1>6. CASE v.type \notin {"integer", "bool", "text", "address", "sequence"}
  <2>1. h = Failed("ExecutionError")
    BY <1>6, Zenon DEF ToHost
  <2> QED BY <2>1 DEF Failed, Value
<1> QED
  BY <1>1, <1>2, <1>3, <1>4, <1>5, <1>6

\* An answer a world can give: a value, the refusal of the host or of the contract, or the end
\* of the process.
Answer(x) == x \in {Failed("ExecutionError"), Crash} \/ ~HasFailed(x)

(* What comes out of the host is a value a document could have stated, refused, or fatal. *)
LEMMA OutOfTheHost ==
  ASSUME NEW host, NEW v, v = FromHost(host)
  PROVE  /\ Answer(v)
         /\ host.n \in Int => HasFailed(v) \/ IsValue(v)
         /\ host.type = "i128" => v = Number(host.n)
<1>0. CASE Garbled(host)
  <2>1. v = Crash /\ host.type # "i128"
    BY <1>0 DEF FromHost, Garbled
  <2> QED BY <2>1, FailuresAre DEF Answer
<1> SUFFICES ASSUME ~Garbled(host)
             PROVE  /\ v = Failed("ExecutionError") \/ ~HasFailed(v)
                    /\ host.n \in Int => v = Failed("ExecutionError") \/ IsValue(v)
                    /\ host.type = "i128" => v = Number(host.n)
  BY <1>0, FailuresAre DEF Answer
<1>1. CASE host.type = "void"
  <2>1. v = Absent
    BY <1>1, Zenon DEF FromHost
  <2> QED BY <1>1, <2>1 DEF Absent, Value, HasFailed, IsValue, DocumentTypes
<1>2. CASE host.type \in {"i128", "u32", "u64"}
  <2>1. v = Number(host.n)
    BY <1>2, Zenon DEF FromHost
  <2> QED BY <2>1 DEF Number, Value, HasFailed, IsValue, DocumentTypes
<1>3. CASE host.type = "bool"
  <2>1. v = Value("bool", "none", host.n)
    BY <1>3, Zenon DEF FromHost
  <2> QED BY <1>3, <2>1 DEF Value, HasFailed, IsValue, DocumentTypes
<1>4. CASE host.type = "address"
  <2>1. v = Address(host.n)
    BY <1>4, Zenon DEF FromHost
  <2> QED BY <1>4, <2>1 DEF Address, Value, HasFailed, IsValue, DocumentTypes
<1>5. CASE host.type \in {"symbol", "string"}
  <2>1. v = Value("text", host.form, host.n)
    BY <1>5, Zenon DEF FromHost
  <2> QED BY <1>5, <2>1 DEF Value, HasFailed, IsValue, DocumentTypes
<1>6. CASE host.type = "vec"
  <2>1. v = Value("sequence", "none", host.n)
    BY <1>6, Zenon DEF FromHost
  <2> QED BY <1>6, <2>1 DEF Value, HasFailed, IsValue, DocumentTypes
<1>7. CASE host.type = "map"
  <2>1. v = Struct(host.form, host.n)
    BY <1>7, Zenon DEF FromHost
  <2> QED BY <1>7, <2>1 DEF Struct, Value, HasFailed, IsValue, DocumentTypes
<1>8. CASE host.type \notin {"void", "i128", "u32", "u64", "bool", "address", "symbol", "string", "vec", "map"}
  <2>1. v = Failed("ExecutionError")
    BY <1>8, Zenon DEF FromHost
  <2> QED BY <1>8, <2>1
<1> QED
  BY <1>1, <1>2, <1>3, <1>4, <1>5, <1>6, <1>7, <1>8

\* The types of the arguments of a call.
TypesOf(args) == [i \in DOMAIN args |-> args[i].type]

(* A contract answers with a quantity it keeps, with its supply, or not at all. *)
LEMMA ReplyIs ==
  ASSUME NEW c, NEW method, NEW args, NEW host, host = Reply(c, method, args)
  PROVE  \/ TypesOf(args) = <<"address">> /\ host = Value("i128", "none", c.balance[args[1].n])
         \/ /\ TypesOf(args) = <<"address", "address">>
            /\ host = Value("i128", "none", c.allowance[<<args[1].n, args[2].n>>])
         \/ TypesOf(args) = <<>> /\ host = c.supply
         \/ host = Failed("ExecutionError")
<1> DEFINE types == TypesOf(args)
           role  == IF method \in DOMAIN c.names THEN c.names[method] ELSE "none"
           Is(h) == h = CASE role = "balance" /\ types = <<"address">> ->
                               Value("i128", "none", c.balance[args[1].n])
                          [] role = "allowance" /\ types = <<"address", "address">> ->
                               Value("i128", "none", c.allowance[<<args[1].n, args[2].n>>])
                          [] role = "supply" /\ types = <<>> -> c.supply
                          [] OTHER -> Failed("ExecutionError")
<1>1. Is(host)
  BY Zenon DEF Reply, TypesOf
<1> HIDE DEF types, role
<1>2. CASE role = "balance" /\ types = <<"address">>
  <2>1. role # "allowance" /\ role # "supply"
    BY <1>2
  <2>2. host = Value("i128", "none", c.balance[args[1].n])
    BY <1>1, <1>2, <2>1, Zenon
  <2> QED BY <1>2, <2>2 DEF types
<1>3. CASE role = "allowance" /\ types = <<"address", "address">>
  <2>1. role # "balance" /\ role # "supply"
    BY <1>3
  <2>2. host = Value("i128", "none", c.allowance[<<args[1].n, args[2].n>>])
    BY <1>1, <1>3, <2>1, Zenon
  <2> QED BY <1>3, <2>2 DEF types
<1>4. CASE role = "supply" /\ types = <<>>
  <2>1. role # "balance" /\ role # "allowance"
    BY <1>4
  <2>2. host = c.supply
    BY <1>1, <1>4, <2>1, Zenon
  <2> QED BY <1>4, <2>2 DEF types
<1>5. CASE /\ ~(role = "balance" /\ types = <<"address">>)
           /\ ~(role = "allowance" /\ types = <<"address", "address">>)
           /\ ~(role = "supply" /\ types = <<>>)
  BY <1>1, <1>5, Zenon
<1> QED
  BY <1>2, <1>3, <1>4, <1>5

(* What is called by its name answers, and by a name that is none the process ends. *)
LEMMA CallAnswers ==
  ASSUME NEW c, NEW method, NEW args
  PROVE  /\ Answer(Call(c, method, args))
         /\ HasFailed(Call(c, method, args)) \/ Call(c, method, args) = FromHost(Reply(c, method, args))
<1>1. Answer(FromHost(Reply(c, method, args))) /\ Answer(Crash) /\ HasFailed(Crash)
  BY OutOfTheHost, FailuresAre DEF Answer
<1> QED
  BY <1>1 DEF Call

(* A contract that is read fails with an error of its own, or takes the process with it. *)
LEMMA LiveReadIs ==
  ASSUME NEW world, NEW method, NEW args, NEW n \in Nat, DOMAIN args = 1..n
  PROVE  Answer(LiveRead(world, method, args))
<1> DEFINE hosts == [i \in DOMAIN args |-> ToHost(ToSet(world.actors), args[i])]
           value == Call(world.contract, method, hosts)
<1>1. LiveRead(world, method, args) = Provided(hosts, value)
  BY DEF LiveRead
<1>2. \A i \in 1..n : Answer(hosts[i])
  BY RefusedByTheHost DEF Answer
<1>3. DOMAIN hosts = 1..n
  OBVIOUS
<1>4. Answer(value)
  BY CallAnswers
<1> HIDE DEF hosts, value
<1>5. \/ Provided(hosts, value) = value
      \/ \E i \in 1..n : Provided(hosts, value) = hosts[i]
  BY <1>3, ProvidedIs
<1> QED
  BY <1>1, <1>2, <1>4, <1>5

\* A contract that keeps amounts of the actors.
Amounts(c, actors) ==
  /\ c.supply.n \in Int
  /\ \A a, b \in actors : c.balance[a] \in AmountType /\ c.allowance[<<a, b>>] \in AmountType

(* What a contract answers is a value a document could have stated. *)
LEMMA LiveReadMeans ==
  ASSUME NEW world, NEW method, NEW args, NEW n \in Nat, DOMAIN args = 1..n,
         Amounts(world.contract, ToSet(world.actors)), ~HasFailed(LiveRead(world, method, args))
  PROVE  /\ IsValue(LiveRead(world, method, args))
         /\ n # 0 => \E amount \in Int : LiveRead(world, method, args) = Number(amount)
<1> DEFINE actors == ToSet(world.actors)
           c      == world.contract
           hosts  == [i \in DOMAIN args |-> ToHost(actors, args[i])]
           answer == Reply(c, method, hosts)
           called == Call(c, method, hosts)
<1>1. LiveRead(world, method, args) = Provided(hosts, called)
  BY DEF LiveRead
<1>0. HasFailed(called) \/ called = FromHost(answer)
  BY CallAnswers
<1>2. \A i \in 1..n : hosts[i].type = "address" => hosts[i].n \in actors
  BY RefusedByTheHost
<1>3. DOMAIN hosts = 1..n
  OBVIOUS
<1>4. \/ TypesOf(hosts) = <<"address">> /\ answer = Value("i128", "none", c.balance[hosts[1].n])
      \/ /\ TypesOf(hosts) = <<"address", "address">>
         /\ answer = Value("i128", "none", c.allowance[<<hosts[1].n, hosts[2].n>>])
      \/ TypesOf(hosts) = <<>> /\ answer = c.supply
      \/ answer = Failed("ExecutionError")
  <2> HIDE DEF hosts, c
  <2> QED BY ReplyIs
<1>10. Amounts(c, actors)
  OBVIOUS
<1>12. \A a \in actors : c.balance[a] \in Int
  <2>1. \A a \in actors : c.balance[a] \in AmountType
    <3> HIDE DEF c, actors
    <3> QED BY <1>10 DEF Amounts
  <2> QED BY <2>1 DEF AmountType
<1> HIDE DEF hosts, answer, called, actors, c
<1>5. LiveRead(world, method, args) = FromHost(answer) /\ ~HasFailed(FromHost(answer))
  <2>1. \/ AllProduced(hosts) /\ Provided(hosts, called) = called
        \/ HasFailed(Provided(hosts, called))
    BY <1>3, ProvidedIs
  <2> QED BY <1>0, <1>1, <2>1
<1>6. DOMAIN TypesOf(hosts) = 1..n /\ \A i \in 1..n : TypesOf(hosts)[i] = hosts[i].type
  BY <1>3 DEF TypesOf
<1>7. CASE TypesOf(hosts) = <<"address">> /\ answer = Value("i128", "none", c.balance[hosts[1].n])
  <2>1. 1 \in 1..n /\ hosts[1].type = "address"
    BY <1>6, <1>7
  <2>2. c.balance[hosts[1].n] \in Int
    BY <1>2, <1>12, <2>1
  <2>3. answer.type = "i128" /\ answer.n = c.balance[hosts[1].n]
    BY <1>7 DEF Value
  <2>4. FromHost(answer) = Number(answer.n) /\ IsValue(FromHost(answer))
    BY <1>5, <2>2, <2>3, OutOfTheHost, FailuresAre
  <2> QED BY <1>5, <2>2, <2>3, <2>4
<1>8. CASE /\ TypesOf(hosts) = <<"address", "address">>
           /\ answer = Value("i128", "none", c.allowance[<<hosts[1].n, hosts[2].n>>])
  <2>1. 1 \in 1..n /\ 2 \in 1..n /\ hosts[1].type = "address" /\ hosts[2].type = "address"
    <3>1. 1 \in DOMAIN TypesOf(hosts) /\ 2 \in DOMAIN TypesOf(hosts)
          /\ TypesOf(hosts)[1] = "address" /\ TypesOf(hosts)[2] = "address"
      BY <1>8
    <3> QED BY <1>6, <3>1
  <2> DEFINE amount == c.allowance[<<hosts[1].n, hosts[2].n>>]
  <2>2. amount \in Int
    BY <1>2, <1>10, <2>1 DEF Amounts, AmountType
  <2>3. answer.type = "i128" /\ answer.n = amount
    BY <1>8 DEF Value
  <2>4. FromHost(answer) = Number(answer.n) /\ IsValue(FromHost(answer))
    BY <1>5, <2>2, <2>3, OutOfTheHost, FailuresAre
  <2> QED BY <1>5, <2>2, <2>3, <2>4
<1>9. CASE TypesOf(hosts) = <<>> /\ answer = c.supply
  <2>1. n = 0
    BY <1>6, <1>9
  <2>2. answer.n \in Int
    BY <1>9, <1>10 DEF Amounts
  <2> QED BY <1>5, <2>1, <2>2, OutOfTheHost, FailuresAre
<1>11. CASE answer = Failed("ExecutionError")
  <2>1. answer.type = "error"
    BY <1>11 DEF Failed, Value
  <2>2. FromHost(answer) = Failed("ExecutionError")
    <3>1. ~Garbled(answer)
      BY <2>1 DEF Garbled
    <3> QED BY <2>1, <3>1, Zenon DEF FromHost
  <2> QED BY <1>5, <2>2, FailuresAre
<1> QED
  BY <1>4, <1>7, <1>8, <1>9, <1>11

(* What a document states is a value, and one that is produced. *)
LEMMA StatedValues ==
  /\ \A v : IsValue(v) => ~HasFailed(v) /\ v # Unrecorded
  /\ \A n \in Int : IsValue(Number(n)) /\ Number(n).n = n /\ IsQuantity(Number(n))
  /\ \A n \in Int : IsValue(Address(n))
  /\ \A n : ~HasFailed(Address(n)) /\ Address(n) # Unrecorded
  /\ IsValue(Absent)
<1>1. \A v : IsValue(v) => ~HasFailed(v)
  BY FailuresAre DEF IsValue
<1>2. \A n \in Int : IsValue(Number(n)) /\ Number(n).n = n /\ IsQuantity(Number(n))
  <2>1. \A n : Number(n).type = "integer" /\ Number(n).n = n
    BY DEF Number, Value
  <2>2. \A n : IsQuantity(Number(n))
    BY <2>1 DEF IsQuantity, AsInteger
  <2> QED BY <2>1, <2>2 DEF IsValue, DocumentTypes
<1>3. \A n : Address(n).type = "address" /\ Address(n).n = n
  BY DEF Address, Value
<1>4. \A n \in Int : IsValue(Address(n))
  BY <1>3 DEF IsValue, DocumentTypes
<1>5. \A n : ~HasFailed(Address(n))
  BY <1>3 DEF HasFailed
<1>6. IsValue(Absent)
  <2>1. Absent.type = "absent" /\ Absent.n = 0
    BY DEF Absent, Value
  <2> QED BY <2>1 DEF IsValue, DocumentTypes
<1> QED
  BY <1>1, <1>2, <1>4, <1>5, <1>6, UnrecordedIs

\* A total so far: what it began with, an amount, or the error.
Totals(first, v) == v = first \/ (\E n \in AmountType : v = Number(n)) \/ v = Failed("ExecutionError")

(* Whatever is accumulated comes to an amount or to the error of it. *)
LEMMA AccumulatedMeans ==
  ASSUME NEW op, NEW first, NEW operands, Len(operands) \in Nat
  PROVE  Totals(first, Accumulated(op, first, operands))
<1> DEFINE n == Len(operands)
<1>1. PICK w : Adding(w, op, first, operands, n) /\ Accumulated(op, first, operands) = w[n]
  BY AccumulatedIs
<1>2. n \in Nat
  OBVIOUS
<1> HIDE DEF n
<1> DEFINE P == {k \in Nat : k <= n => Totals(first, w[k])}
<1>3. 0 \in P
  BY <1>1 DEF Adding, Totals
<1>4. ASSUME NEW k \in P
      PROVE  k + 1 \in P
  <2> SUFFICES ASSUME k + 1 <= n PROVE Totals(first, w[k + 1])
    OBVIOUS
  <2>1. k \in Nat /\ k <= n /\ k + 1 \in 1..n /\ (k + 1) - 1 = k
    BY <1>2
  <2>2. w[k + 1] = Accumulate(op, w[k], operands[k + 1]) /\ Totals(first, w[k])
    BY <1>1, <2>1 DEF Adding
  <2>3. \A t, q : Step(op, t, q) = Failed("ExecutionError") \/ \E m \in AmountType : Step(op, t, q) = Number(m)
    BY DEF Step
  <2>4. \/ w[k + 1] = w[k] \/ w[k + 1] = Failed("ExecutionError")
        \/ w[k + 1] = Step(op, w[k].n, operands[k + 1].n)
    BY <2>2 DEF Accumulate
  <2> QED BY <2>2, <2>3, <2>4 DEF Totals
<1>5. n \in P
  <2>1. P \in SUBSET Nat
    OBVIOUS
  <2> HIDE DEF P
  <2> QED BY <1>2, <1>3, <1>4, <2>1, Reaches
<1> QED
  BY <1>1, <1>2, <1>5

\* The places of a list of results.
Listing(values, n) == n \in Nat /\ DOMAIN values = 1..n /\ Len(values) = n

(* Arithmetic comes to a number or to an error of its own. *)
LEMMA ArithmeticIs ==
  ASSUME NEW op, NEW n, NEW S, NEW operands \in Seq(S), Listing(operands, n)
  PROVE  /\ ApplyArithmetic(op, operands) # Unrecorded
         /\ (\A i \in 1..n : operands[i].n \in Int) =>
              HasFailed(ApplyArithmetic(op, operands)) \/ IsValue(ApplyArithmetic(op, operands))
<1>1. CASE operands = <<>> \/ \E i \in DOMAIN operands : ~IsQuantity(operands[i])
  <2>1. ApplyArithmetic(op, operands) = Failed("ExecutionError")
    BY <1>1 DEF ApplyArithmetic
  <2> QED BY <2>1, FailuresAre, UnrecordedIs
<1>2. CASE ~(operands = <<>> \/ \E i \in DOMAIN operands : ~IsQuantity(operands[i]))
  <2> DEFINE first == Number(operands[1].n)
             total == Accumulated(op, first, Tail(operands))
  <2>1. ApplyArithmetic(op, operands) = total
    BY <1>2 DEF ApplyArithmetic
  <2>2. operands # <<>>
    BY <1>2
  <2>3. Len(Tail(operands)) \in Nat /\ 1 \in 1..n
    BY <2>2, HeadTailProperties, EmptySeq, LenProperties DEF Listing
  <2>4. Totals(first, total)
    BY <2>3, AccumulatedMeans
  <2>5. total # Unrecorded
    BY <2>4, UnrecordedIs DEF Totals
  <2>6. (\A i \in 1..n : operands[i].n \in Int) => HasFailed(total) \/ IsValue(total)
    <3>1. AmountType \in SUBSET Int
      BY AmountTypeAssumption DEF AmountType
    <3> HIDE DEF total
    <3> QED BY <2>3, <2>4, <3>1, StatedValues, FailuresAre DEF Totals
  <2> QED BY <2>1, <2>5, <2>6
<1> QED
  BY <1>1, <1>2

(* A total comes to an amount, or fails as a member does or as a sum. *)
LEMMA TotalledIs ==
  ASSUME NEW n, NEW members, Listing(members, n), \A i \in 1..n : members[i] # Unrecorded
  PROVE  /\ Totalled(members) # Unrecorded
         /\ HasFailed(Totalled(members)) \/ \E amount \in AmountType : Totalled(members) = Number(amount)
<1> DEFINE first == Number(0)
           total == Accumulated("+", first, members)
<1>1. Totalled(members) = Provided(members, total)
  BY DEF Totalled
<1>2. Totals(first, total)
  BY AccumulatedMeans DEF Listing
<1>3. 0 \in AmountType
  BY AmountTypeAssumption DEF AmountType
<1>4. total = Failed("ExecutionError") \/ \E amount \in AmountType : total = Number(amount)
  <2> HIDE DEF total
  <2> QED BY <1>2, <1>3 DEF Totals
<1> HIDE DEF total, first
<1>5. n \in Nat /\ DOMAIN members = 1..n
  BY DEF Listing
<1>6. \/ Provided(members, total) = total
      \/ HasFailed(Provided(members, total)) /\ \E i \in 1..n : Provided(members, total) = members[i]
  BY <1>5, ProvidedIs
<1> QED
  BY <1>1, <1>4, <1>6, UnrecordedIs, FailuresAre

---------------------------------------------------------------------------
(* What the record answers. *)

\* The reads collected are written as the format has it.
ReadsFormed(p, v) == \A r \in Collected(p, v) : \E n \in Nat : DOMAIN r.args = 1..n

(* What stands in the record was an answer. *)
LEMMA RecordedAreAnswers ==
  ASSUME NEW p, NEW v, NEW world, NEW list, Listed(p, v, world, list), ReadsFormed(p, v),
         NEW i \in 1..Len(list)
  PROVE  Answer(list[i].value)
<1> DEFINE a == Len(v.actors)
           b == Len(v.allowances)
<1>1. a \in Nat /\ b \in Nat /\ Len(list) \in Nat
  BY DEF Listed
<1>2. \A method, args, n : n \in Nat /\ DOMAIN args = 1..n => Answer(Performed(world, method, args).value)
  BY LiveReadIs DEF Performed, Entry, Answer
<1>3. \A x, y : DOMAIN <<x>> = 1..1 /\ DOMAIN <<x, y>> = 1..2 /\ DOMAIN <<>> = 1..0
  OBVIOUS
<1>4. /\ \A k \in 1..a : list[k] = BalanceOf(v, world, k)
      /\ \A k \in 1..b : list[a + k] = AllowanceOf(v, world, k)
      /\ \A k \in (a + b + 1)..Len(list) :
           \/ list[k] = Performed(world, "total_supply", <<>>)
           \/ \E r \in Collected(p, v) : list[k] = CollectedRead(r, v, world)
  BY DEF Listed
<1>5. \A k : Answer(BalanceOf(v, world, k).value) /\ Answer(AllowanceOf(v, world, k).value)
  <2>1. 1 \in Nat /\ 2 \in Nat
    OBVIOUS
  <2> QED BY <1>2, <1>3, <2>1 DEF BalanceOf, AllowanceOf
<1>6. Answer(Performed(world, "total_supply", <<>>).value)
  <2>1. 0 \in Nat
    OBVIOUS
  <2> QED BY <1>2, <1>3, <2>1
<1> HIDE DEF a, b
<1>7. /\ \A k \in 1..(a + b) : IF k <= a THEN k \in 1..a ELSE k - a \in 1..b /\ a + (k - a) = k
      /\ \A k \in 1..Len(list) : IF k <= a + b THEN k \in 1..(a + b) ELSE k \in (a + b + 1)..Len(list)
  BY <1>1, FirstOrAfter
<1>8. ASSUME NEW r \in Collected(p, v)
      PROVE  Answer(CollectedRead(r, v, world).value)
  <2>1. PICK n \in Nat : DOMAIN r.args = 1..n
    BY DEF ReadsFormed
  <2>2. CASE Resolvable(r, v)
    <3>1. DOMAIN ReadArguments(r, v.inputs) = 1..n
      BY <2>1 DEF ReadArguments
    <3>2. CollectedRead(r, v, world) = Performed(world, r.method, ReadArguments(r, v.inputs))
      BY <2>2 DEF CollectedRead
    <3> QED BY <1>2, <3>1, <3>2
  <2>3. CASE ~Resolvable(r, v)
    <3>1. CollectedRead(r, v, world) = Entry(r.method, <<>>, Failed("ExecutionError"))
      BY <2>3 DEF CollectedRead
    <3> QED BY <3>1 DEF Entry, Answer
  <2> QED BY <2>2, <2>3
<1>9. CASE i <= a + b
  <2>1. CASE i <= a
    BY <1>4, <1>5, <1>7, <1>9, <2>1
  <2>2. CASE ~(i <= a)
    <3>1. i - a \in 1..b /\ a + (i - a) = i
      BY <1>7, <1>9, <2>2
    <3>2. list[a + (i - a)] = AllowanceOf(v, world, i - a)
      BY <1>4, <3>1
    <3> QED BY <1>5, <3>1, <3>2
  <2> QED BY <2>1, <2>2
<1>10. CASE ~(i <= a + b)
  <2>1. i \in (a + b + 1)..Len(list)
    BY <1>7, <1>10
  <2>2. \/ list[i] = Performed(world, "total_supply", <<>>)
        \/ \E r \in Collected(p, v) : list[i] = CollectedRead(r, v, world)
    BY <1>4, <2>1
  <2> QED BY <1>6, <1>8, <2>2
<1> QED
  BY <1>9, <1>10

\* The record of a vector's world.
RecordOf(p, v, world) == Capture(p, v, world).reads

(* What the record is made of is in it, and it has nothing else. *)
LEMMA RecordIs ==
  ASSUME NEW p, NEW v, NEW world, Recordable(p, v)
  PROVE  /\ Capture(p, v, world).kind = "recorded"
         /\ \E n \in Nat : DOMAIN RecordOf(p, v, world) = 1..n
         /\ Listed(p, v, world, ReadsMade(p, v, world))
         /\ Holds(RecordOf(p, v, world), ReadsMade(p, v, world), Len(ReadsMade(p, v, world)))
<1> DEFINE list == ReadsMade(p, v, world)
<1>1. Listed(p, v, world, list)
  BY RecordedAre
<1>2. PICK S : list \in Seq(S)
  BY RecordedAre
<1>3. Capture(p, v, world).kind = "recorded" /\ RecordOf(p, v, world) = Recording(list)
  BY DEF Capture, RecordedWorld, RecordOf
<1> HIDE DEF list
<1>4. Recording(list) \in Seq(S) /\ Holds(Recording(list), list, Len(list))
  BY <1>2, RecordingHolds
<1>5. DOMAIN Recording(list) = 1..Len(Recording(list)) /\ Len(Recording(list)) \in Nat
  BY <1>4, LenProperties
<1> QED
  BY <1>1, <1>3, <1>4, <1>5 DEF list

(* A read of the record is none of it, or one of its answers. *)
LEMMA RecordAnswers ==
  ASSUME NEW p, NEW v, NEW world, Recordable(p, v), NEW method, NEW args
  PROVE  LET reads == RecordOf(p, v, world)
             value == RecordedRead(Capture(p, v, world), method, args)
         IN \/ value = Unrecorded /\ ~Answers(reads, method, args)
            \/ \E i \in DOMAIN reads : /\ reads[i].method = method /\ reads[i].args = args
                                       /\ value = reads[i].value
<1> DEFINE reads  == RecordOf(p, v, world)
           places == Entries(reads, method, args)
           value  == RecordedRead(Capture(p, v, world), method, args)
<1>1. PICK n \in Nat : DOMAIN reads = 1..n
  BY RecordIs
<1>2. value = IF places = {} THEN Unrecorded ELSE reads[Min(places)].value
  BY DEF RecordedRead, RecordOf
<1> HIDE DEF reads, value
<1>3. /\ places \in SUBSET Nat
      /\ \A i \in places : i \in DOMAIN reads /\ reads[i].method = method /\ reads[i].args = args
      /\ places = {} => ~Answers(reads, method, args)
  BY <1>1 DEF Entries, Answers
<1> HIDE DEF places
<1>4. places # {} => Min(places) \in places
  BY <1>3, LeastExists
<1> QED
  BY <1>2, <1>3, <1>4 DEF value, reads

(* What the record answers, if it does, was an answer; of what the fixture declares it does. *)
LEMMA RecordIsOfAnswers ==
  ASSUME NEW p, NEW v, NEW world, Recordable(p, v), ReadsFormed(p, v)
  PROVE  LET record == Capture(p, v, world)
         IN /\ \A i \in DOMAIN RecordOf(p, v, world) : Answer(RecordOf(p, v, world)[i].value)
            /\ \A i \in DOMAIN v.actors : Answer(RecordedRead(record, "balance", <<Address(v.actors[i])>>))
            /\ \A i \in DOMAIN v.allowances :
                 Answer(RecordedRead(record, "allowance", <<Address(v.allowances[i].from),
                                                            Address(v.allowances[i].spender)>>))
            /\ \A r \in Collected(p, v) : Resolvable(r, v) =>
                 Answer(RecordedRead(record, r.method, ReadArguments(r, v.inputs)))
<1> DEFINE record == Capture(p, v, world)
           list   == ReadsMade(p, v, world)
           reads  == RecordOf(p, v, world)
           a      == Len(v.actors)
           b      == Len(v.allowances)
<1>1. /\ Listed(p, v, world, list) /\ Holds(reads, list, Len(list))
      /\ \E n \in Nat : DOMAIN reads = 1..n
  BY RecordIs
<1>2. DOMAIN v.actors = 1..a /\ DOMAIN v.allowances = 1..b
  BY LenProperties DEF Recordable
<1>3. \A method, args :
        \/ RecordedRead(record, method, args) = Unrecorded /\ ~Answers(reads, method, args)
        \/ \E i \in DOMAIN reads : RecordedRead(record, method, args) = reads[i].value
  BY RecordAnswers
<1> HIDE DEF list, reads, record, a, b
<1>4. \A j \in 1..Len(list) : Answer(list[j].value)
  BY <1>1, RecordedAreAnswers
<1>5. ASSUME NEW i \in DOMAIN reads
      PROVE  Answer(reads[i].value)
  <2>1. PICK j \in 1..Len(list) : reads[i] = list[j]
    BY <1>1 DEF Holds
  <2> QED BY <1>4, <2>1
<1>6. \A j \in 1..Len(list) : Answers(reads, list[j].method, list[j].args)
  BY <1>1 DEF Holds
<1>7. \A j \in 1..Len(list) : Answer(RecordedRead(record, list[j].method, list[j].args))
  BY <1>3, <1>5, <1>6
<1>8. \A method, args : /\ Performed(world, method, args).method = method
                        /\ Performed(world, method, args).args = args
  BY DEF Performed, Entry
<1>9. /\ a \in Nat /\ b \in Nat /\ Len(list) \in Nat /\ a + b <= Len(list)
      /\ \A i \in 1..a : list[i] = BalanceOf(v, world, i)
      /\ \A i \in 1..b : list[a + i] = AllowanceOf(v, world, i)
      /\ \A r \in Collected(p, v) : \E i \in 1..Len(list) : list[i] = CollectedRead(r, v, world)
  BY <1>1 DEF Listed, a, b
<1>10. ASSUME NEW i \in DOMAIN v.actors
       PROVE  Answer(RecordedRead(record, "balance", <<Address(v.actors[i])>>))
  <2>1. i \in 1..a /\ i \in 1..Len(list)
    BY <1>2, <1>9
  <2>2. list[i] = BalanceOf(v, world, i)
    BY <1>9, <2>1
  <2>3. list[i].method = "balance" /\ list[i].args = <<Address(v.actors[i])>>
    BY <1>8, <2>2 DEF BalanceOf
  <2> QED BY <1>7, <2>1, <2>3
<1>11. ASSUME NEW i \in DOMAIN v.allowances
       PROVE  Answer(RecordedRead(record, "allowance", <<Address(v.allowances[i].from),
                                                         Address(v.allowances[i].spender)>>))
  <2>1. i \in 1..b /\ a + i \in 1..Len(list)
    BY <1>2, <1>9
  <2>2. list[a + i] = AllowanceOf(v, world, i)
    BY <1>9, <2>1
  <2>3. /\ list[a + i].method = "allowance"
        /\ list[a + i].args = <<Address(v.allowances[i].from), Address(v.allowances[i].spender)>>
    BY <1>8, <2>2 DEF AllowanceOf
  <2> QED BY <1>7, <2>1, <2>3
<1>12. ASSUME NEW r \in Collected(p, v), Resolvable(r, v)
       PROVE  Answer(RecordedRead(record, r.method, ReadArguments(r, v.inputs)))
  <2>1. PICK j \in 1..Len(list) : list[j] = CollectedRead(r, v, world)
    BY <1>9
  <2>2. list[j] = Performed(world, r.method, ReadArguments(r, v.inputs))
    BY <1>12, <2>1 DEF CollectedRead
  <2>3. list[j].method = r.method /\ list[j].args = ReadArguments(r, v.inputs)
    BY <1>8, <2>2
  <2> QED BY <1>7, <2>3
<1> QED
  BY <1>5, <1>10, <1>11, <1>12 DEF record, reads

(* Where every read can be resolved, the record answers nothing that the contract did not. *)
LEMMA RecordIsOfThen ==
  ASSUME NEW p, NEW v, NEW world, Recordable(p, v), \A r \in Collected(p, v) : Resolvable(r, v),
         NEW method, NEW args
  PROVE  \/ RecordedRead(Capture(p, v, world), method, args) = Unrecorded
         \/ RecordedRead(Capture(p, v, world), method, args) = LiveRead(world, method, args)
<1> DEFINE value == RecordedRead(Capture(p, v, world), method, args)
           list  == ReadsMade(p, v, world)
           reads == RecordOf(p, v, world)
<1>1. Listed(p, v, world, list) /\ Holds(reads, list, Len(list))
  BY RecordIs
<1>2. \/ value = Unrecorded
      \/ \E i \in DOMAIN reads : /\ reads[i].method = method /\ reads[i].args = args
                                 /\ value = reads[i].value
  BY RecordAnswers
<1> HIDE DEF list, reads, value
<1>3. ASSUME NEW i \in DOMAIN reads, reads[i].method = method, reads[i].args = args, value = reads[i].value
      PROVE  value = LiveRead(world, method, args)
  <2>1. PICK j \in 1..Len(list) : reads[i] = list[j]
    BY <1>1 DEF Holds
  <2>2. list[j] = Performed(world, list[j].method, list[j].args)
    BY <1>1, EntriesAre
  <2>3. list[j].value = LiveRead(world, method, args)
    BY <1>3, <2>1, <2>2 DEF Performed, Entry
  <2> QED BY <1>3, <2>1, <2>3
<1> QED
  BY <1>2, <1>3 DEF value

\* The members of a resource set, each of them an answer.
Members(values) == \E n : Listing(values, n) /\ \A i \in 1..n : Answer(values[i])

(* A list of as many answers as there are places. *)
LEMMA ListedAnswers ==
  ASSUME NEW n \in Nat, NEW values, DOMAIN values = 1..n, values = [i \in DOMAIN values |-> values[i]],
         \A i \in 1..n : Answer(values[i])
  PROVE  Members(values)
<1> DEFINE T == {values[i] : i \in 1..n}
<1>1. values \in [1..n -> T]
  OBVIOUS
<1>2. Len(values) = n
  <2> HIDE DEF T
  <2> QED BY <1>1, FunctionIsSeq
<1>3. Listing(values, n)
  BY <1>2 DEF Listing
<1> QED
  BY <1>3 DEF Members

(* No resource of that name: the list of one refusal. *)
LEMMA NoMembers ==
  Members(<<Failed("ExecutionError")>>) /\ ~AllProduced(<<Failed("ExecutionError")>>)
<1> DEFINE values == <<Failed("ExecutionError")>>
<1>1. DOMAIN values = 1..1 /\ Len(values) = 1 /\ values[1] = Failed("ExecutionError")
  OBVIOUS
<1> HIDE DEF values
<1>2. Listing(values, 1)
  BY <1>1 DEF Listing
<1>3. \A i \in 1..1 : Answer(values[i])
  BY <1>1 DEF Answer
<1>4. ~AllProduced(values)
  BY <1>1, FailuresAre DEF AllProduced
<1> QED
  BY <1>2, <1>3, <1>4 DEF Members, values

(* The members of the contract are answers. *)
LEMMA LiveMembersAre ==
  ASSUME NEW p, NEW v, Recordable(p, v), NEW c, NEW resource
  PROVE  Members(WorldMembers(Past(c, v), resource))
<1> DEFINE world   == Past(c, v)
           members == WorldMembers(world, resource)
           a       == Len(v.actors)
           b       == Len(v.allowances)
<1>1. world.kind = "live" /\ world.actors = v.actors /\ world.allowances = v.allowances
  BY DEF Past, LiveWorld
<1>2. a \in Nat /\ b \in Nat /\ DOMAIN v.actors = 1..a /\ DOMAIN v.allowances = 1..b
  BY LenProperties DEF Recordable
<1>3. members = LiveMembers(world, resource)
  BY <1>1 DEF WorldMembers
<1>4. \A x, y : DOMAIN <<x>> = 1..1 /\ DOMAIN <<x, y>> = 1..2
  OBVIOUS
<1>5. \A method, x, y : Answer(LiveRead(world, method, <<x>>)) /\ Answer(LiveRead(world, method, <<x, y>>))
  <2>1. 1 \in Nat /\ 2 \in Nat
    OBVIOUS
  <2> HIDE DEF world
  <2> QED BY <1>4, <2>1, LiveReadIs DEF Answer
<1> HIDE DEF world, members, a, b
<1>6. CASE resource = "balances"
  <2>1. members = [i \in DOMAIN world.actors |-> LiveRead(world, "balance", <<Address(world.actors[i])>>)]
    BY <1>3, <1>6, Zenon DEF LiveMembers
  <2>2. DOMAIN members = 1..a /\ members = [i \in DOMAIN members |-> members[i]]
    BY <1>1, <1>2, <2>1
  <2>3. \A i \in 1..a : Answer(members[i])
    BY <1>1, <1>2, <1>5, <2>1
  <2> QED BY <1>2, <2>2, <2>3, ListedAnswers DEF members, world
<1>7. CASE resource = "allowances"
  <2>1. members = [i \in DOMAIN world.allowances |->
                     LiveRead(world, "allowance",
                       <<Address(world.allowances[i].from), Address(world.allowances[i].spender)>>)]
    BY <1>3, <1>7, Zenon DEF LiveMembers
  <2>2. DOMAIN members = 1..b /\ members = [i \in DOMAIN members |-> members[i]]
    BY <1>1, <1>2, <2>1
  <2>3. \A i \in 1..b : Answer(members[i])
    BY <1>1, <1>2, <1>5, <2>1
  <2> QED BY <1>2, <2>2, <2>3, ListedAnswers DEF members, world
<1>8. CASE resource \notin {"balances", "allowances"}
  <2>1. members = <<Failed("ExecutionError")>>
    BY <1>3, <1>8, Zenon DEF LiveMembers
  <2> QED BY <2>1, NoMembers DEF members, world
<1> QED
  BY <1>6, <1>7, <1>8

(* So are those of the record. *)
LEMMA RecordedMembersAre ==
  ASSUME NEW p, NEW v, NEW world, Recordable(p, v), ReadsFormed(p, v), NEW resource
  PROVE  Members(WorldMembers(Capture(p, v, world), resource))
<1> DEFINE record  == Capture(p, v, world)
           reads   == RecordOf(p, v, world)
           places  == {i \in DOMAIN reads : reads[i].method = MemberReads[resource]}
           members == WorldMembers(record, resource)
<1>1. record.kind = "recorded" /\ record.reads = reads
  BY RecordIs DEF RecordOf
<1>2. PICK n \in Nat : DOMAIN reads = 1..n
  BY RecordIs
<1>3. \A i \in DOMAIN reads : Answer(reads[i].value)
  BY RecordIsOfAnswers
<1>4. members = RecordedMembers(record, resource)
  BY <1>1 DEF WorldMembers
<1> HIDE DEF record, reads, members
<1>5. members = IF resource \notin DOMAIN MemberReads \/ places = {} THEN <<Failed("ExecutionError")>>
                ELSE [k \in 1..Cardinality(places) |-> reads[Place(places, k)].value]
  BY <1>1, <1>4 DEF RecordedMembers
<1>6. places \in SUBSET Nat /\ IsFiniteSet(places) /\ places \in SUBSET DOMAIN reads
  <2>1. IsFiniteSet(1..n)
    BY FS_Interval
  <2>2. places \in SUBSET (1..n)
    BY <1>2
  <2>3. IsFiniteSet(places)
    <3> HIDE DEF places
    <3> QED BY <2>1, <2>2, FS_Subset
  <2> QED BY <1>2, <2>2, <2>3
<1> HIDE DEF places
<1>7. CASE resource \notin DOMAIN MemberReads \/ places = {}
  BY <1>5, <1>7, NoMembers DEF members, record
<1>8. CASE ~(resource \notin DOMAIN MemberReads \/ places = {})
  <2> DEFINE m == Cardinality(places)
  <2>1. m \in Nat /\ \A k \in 1..m : Place(places, k) \in places
    BY <1>6, PlacesAre
  <2> HIDE DEF m
  <2>2. members = [k \in 1..m |-> reads[Place(places, k)].value]
    BY <1>5, <1>8 DEF m
  <2>3. DOMAIN members = 1..m /\ members = [k \in DOMAIN members |-> members[k]]
    BY <2>2
  <2>4. \A k \in 1..m : Answer(members[k])
    BY <1>3, <1>6, <2>1, <2>2
  <2> QED BY <2>1, <2>3, <2>4, ListedAnswers DEF members, record
<1> QED
  BY <1>7, <1>8

(* An aggregate of answers is a number, or one of the failures. *)
LEMMA AggregateIs ==
  ASSUME NEW world, NEW resource, Members(WorldMembers(world, resource))
  PROVE  /\ Aggregate(world, resource) # Unrecorded
         /\ \/ HasFailed(Aggregate(world, resource))
            \/ \E amount \in AmountType : Aggregate(world, resource) = Number(amount)
<1> DEFINE members == WorldMembers(world, resource)
<1>1. PICK n : Listing(members, n) /\ \A i \in 1..n : Answer(members[i])
  BY DEF Members
<1>2. Aggregate(world, resource) = Totalled(members)
  BY DEF Aggregate
<1> HIDE DEF members
<1>3. \A i \in 1..n : members[i] # Unrecorded
  BY <1>1, UnrecordedIs DEF Answer
<1> QED
  BY <1>1, <1>2, <1>3, TotalledIs

(* The record of a set without members has none either. *)
LEMMA NoMembersThen ==
  ASSUME NEW p, NEW v, NEW c, NEW resource, Recordable(p, v), DeclaredApart(p, v),
         resource \in DOMAIN MemberReads => WorldMembers(Past(c, v), resource) = <<>>
  PROVE  WorldMembers(Capture(p, v, Past(c, v)), resource) = <<Failed("ExecutionError")>>
<1> DEFINE world  == Past(c, v)
           record == Capture(p, v, world)
           reads  == Recording(ReadsMade(p, v, world))
           a      == Len(v.actors)
           b      == Len(v.allowances)
           places == {i \in DOMAIN reads : reads[i].method = MemberReads[resource]}
<1>1. record.kind = "recorded" /\ record.reads = reads
  BY DEF Capture, RecordedWorld
<1>2. Leading(v, world, reads, a, b)
  BY MembersComeFirst
<1>3. world.kind = "live" /\ world.actors = v.actors /\ world.allowances = v.allowances
  BY DEF Past, LiveWorld
<1>4. a \in Nat /\ b \in Nat /\ DOMAIN v.actors = 1..a /\ DOMAIN v.allowances = 1..b
  BY LenProperties DEF Recordable
<1>13. DOMAIN <<>> = {}
  OBVIOUS
<1>15. resource \in DOMAIN MemberReads => WorldMembers(world, resource) = <<>>
  OBVIOUS
<1> HIDE DEF world, record, reads, a, b
<1>5. WorldMembers(record, resource) = RecordedMembers(record, resource)
      /\ WorldMembers(world, resource) = LiveMembers(world, resource)
  BY <1>1, <1>3 DEF WorldMembers
<1>6. CASE resource \notin DOMAIN MemberReads
  BY <1>5, <1>6 DEF RecordedMembers, record, world
<1>14. /\ DOMAIN reads = 1..Len(reads) /\ Len(reads) \in Nat
       /\ \A i \in 1..a : reads[i] = BalanceOf(v, world, i)
       /\ \A i \in 1..b : reads[a + i] = AllowanceOf(v, world, i)
       /\ \A i \in (a + b + 1)..Len(reads) : reads[i].method \notin Accessed
  BY <1>2 DEF Leading
<1>7. /\ \A i : BalanceOf(v, world, i).method = "balance"
      /\ \A i : AllowanceOf(v, world, i).method = "allowance"
  BY DEF BalanceOf, AllowanceOf, Performed, Entry
<1>8. /\ \A k \in 1..(a + b) : IF k <= a THEN k \in 1..a ELSE k - a \in 1..b /\ a + (k - a) = k
      /\ \A k \in 1..Len(reads) : IF k <= a + b THEN k \in 1..(a + b) ELSE k \in (a + b + 1)..Len(reads)
  BY <1>4, <1>14, FirstOrAfter
<1>9. DOMAIN MemberReads = {"balances", "allowances"} /\ MemberReads["balances"] = "balance"
      /\ MemberReads["allowances"] = "allowance"
  BY DEF MemberReads
<1>10. ASSUME NEW i \in DOMAIN reads
       PROVE  \/ i \in 1..a /\ reads[i].method = "balance"
              \/ i - a \in 1..b /\ reads[i].method = "allowance"
              \/ reads[i].method \notin Accessed
  <2>1. CASE i <= a + b /\ i <= a
    BY <1>7, <1>8, <1>14, <2>1
  <2>2. CASE i <= a + b /\ ~(i <= a)
    <3>1. i - a \in 1..b /\ a + (i - a) = i
      BY <1>8, <1>14, <2>2
    <3>2. reads[a + (i - a)] = AllowanceOf(v, world, i - a)
      BY <1>14, <3>1
    <3> QED BY <1>7, <3>1, <3>2
  <2>3. CASE ~(i <= a + b)
    BY <1>8, <1>14, <2>3
  <2> QED BY <2>1, <2>2, <2>3
<1>11. CASE resource = "balances"
  <2>1. LiveMembers(world, resource) =
          [i \in DOMAIN world.actors |-> LiveRead(world, "balance", <<Address(world.actors[i])>>)]
    BY <1>11, Zenon DEF LiveMembers
  <2>2. 1..a = {}
    BY <1>3, <1>4, <1>5, <1>9, <1>11, <1>13, <1>15, <2>1
  <2>3. places = {}
    BY <1>9, <1>10, <1>11, <2>2 DEF Accessed
  <2> QED BY <1>1, <1>5, <1>9, <1>11, <2>3 DEF RecordedMembers, record, world
<1>12. CASE resource = "allowances"
  <2>1. LiveMembers(world, resource) =
          [i \in DOMAIN world.allowances |->
             LiveRead(world, "allowance",
               <<Address(world.allowances[i].from), Address(world.allowances[i].spender)>>)]
    BY <1>12, Zenon DEF LiveMembers
  <2>2. 1..b = {}
    BY <1>3, <1>4, <1>5, <1>9, <1>12, <1>13, <1>15, <2>1
  <2>3. places = {}
    BY <1>9, <1>10, <1>12, <2>2 DEF Accessed
  <2> QED BY <1>1, <1>5, <1>9, <1>12, <2>3 DEF RecordedMembers, record, world
<1> QED
  BY <1>6, <1>9, <1>11, <1>12

(* Where the members are the same, the aggregates are, unless the record has none. *)
LEMMA AggregatesAgree ==
  ASSUME NEW p, NEW v, NEW c, NEW resource, Recordable(p, v), ReadsFormed(p, v), DeclaredApart(p, v)
  PROVE  LET then == Aggregate(Capture(p, v, Past(c, v)), resource)
         IN HasFailed(then) \/ /\ then = Aggregate(Past(c, v), resource)
                               /\ \E amount \in AmountType : then = Number(amount)
<1> DEFINE world  == Past(c, v)
           record == Capture(p, v, world)
           then   == Aggregate(record, resource)
<1>1. CASE resource \in DOMAIN MemberReads /\ WorldMembers(world, resource) # <<>>
  <2>1. WorldMembers(record, resource) = WorldMembers(world, resource)
    BY <1>1, MembersAreThen
  <2>2. Members(WorldMembers(record, resource))
    BY RecordedMembersAre
  <2>3. HasFailed(then) \/ \E amount \in AmountType : then = Number(amount)
    <3> HIDE DEF record
    <3> QED BY <2>2, AggregateIs
  <2>4. then = Aggregate(world, resource)
    BY <2>1 DEF Aggregate
  <2> QED BY <2>3, <2>4
<1>2. CASE ~(resource \in DOMAIN MemberReads /\ WorldMembers(world, resource) # <<>>)
  <2>1. WorldMembers(record, resource) = <<Failed("ExecutionError")>>
    BY <1>2, NoMembersThen
  <2>2. then = Provided(<<Failed("ExecutionError")>>, Accumulated("+", Number(0), <<Failed("ExecutionError")>>))
    BY <2>1 DEF Aggregate, Totalled
  <2>3. then = Failure(<<Failed("ExecutionError")>>)
    BY <2>2, NoMembers DEF Provided
  <2>4. DOMAIN <<Failed("ExecutionError")>> = 1..1 /\ <<Failed("ExecutionError")>>[1] = Failed("ExecutionError")
        /\ 1 \in Nat
    OBVIOUS
  <2>5. \E i \in 1..1 : then = <<Failed("ExecutionError")>>[i] /\ HasFailed(<<Failed("ExecutionError")>>[i])
    BY <2>3, <2>4, NoMembers, FailureIs
  <2> QED BY <2>5
<1> QED
  BY <1>1, <1>2

---------------------------------------------------------------------------
(* What an expression is worth. *)

(* What each kind of expression is, given what it is computed from. *)
LEMMA AppliedIs ==
  ASSUME NEW env, NEW e, NEW args, NEW source, NEW member, NEW value,
         value = Applied(env, e, args, source, member)
  PROVE  /\ e.kind = "literal" => value = e.literal
         /\ e.kind = "actor" => value = Address(e.actor)
         /\ e.kind = "input" => value = IF e.name \in DOMAIN env.inputs THEN source ELSE Failed("VectorError")
         /\ e.kind = "read" => value = WorldRead(env.after, e.method, args)
         /\ e.kind = "sum" => value = Aggregate(env.after, e.over)
         /\ e.kind = "field" =>
              value = IF HasFailed(source) THEN source
                      ELSE IF source.type = "record" /\ source.form = e.field THEN Number(source.n)
                      ELSE Failed("ExecutionError")
         /\ e.kind = "ledger_sequence" => value = Number(env.sequence)
         /\ e.kind = "allowance_expiry" =>
              value = IF args[1].type = "address" /\ args[2].type = "address"
                      THEN AllowanceExpiry(env.after, args[1].n, args[2].n) ELSE Failed("ExecutionError")
         /\ e.kind = "resource_member" => value = IF member = NoMember THEN Failed("VectorError") ELSE member
         /\ e.kind = "arithmetic" => value = ApplyArithmetic(e.op, args)
<1>1. CASE e.kind = "literal"
  BY <1>1, Zenon DEF Applied
<1>2. CASE e.kind = "actor"
  BY <1>2, Zenon DEF Applied
<1>3. CASE e.kind = "input"
  BY <1>3, Zenon DEF Applied
<1>4. CASE e.kind = "read"
  BY <1>4, Zenon DEF Applied
<1>5. CASE e.kind = "sum"
  BY <1>5, Zenon DEF Applied
<1>6. CASE e.kind = "field"
  BY <1>6, Zenon DEF Applied
<1>7. CASE e.kind = "ledger_sequence"
  BY <1>7, Zenon DEF Applied
<1>8. CASE e.kind = "allowance_expiry"
  BY <1>8, Zenon DEF Applied
<1>9. CASE e.kind = "resource_member"
  BY <1>9, Zenon DEF Applied
<1>10. CASE e.kind = "arithmetic"
  BY <1>10, Zenon DEF Applied
<1> QED
  BY <1>1, <1>2, <1>3, <1>4, <1>5, <1>6, <1>7, <1>8, <1>9, <1>10

\* What the arguments of an expression are worth.
ArgumentsOf(e, worth) ==
  IF "args" \in DOMAIN e THEN [i \in DOMAIN e.args |-> worth[e.args[i]]] ELSE <<>>

\* How an expression is computed from its arguments.
ComputedFrom(env, e, member, worth, args) ==
  /\ \E n : Listing(args, n) /\ args \in Seq({worth[y] : y \in Parts(e)})
  /\ \A i \in DOMAIN args : i \in DOMAIN e.args /\ e.args[i] \in Parts(e) /\ args[i] = worth[e.args[i]]
  /\ e.kind \in {"read", "allowance_expiry", "arithmetic"} =>
       "args" \in DOMAIN e /\ DOMAIN args = DOMAIN e.args /\ \E n \in Nat : DOMAIN e.args = 1..n
  /\ e.kind \notin {"read", "allowance_expiry", "arithmetic"} => args = <<>>
  /\ \/ /\ AllProduced(args)
        /\ Computed(env, e, member, worth) = Applied(env, e, args, worth[Source(env, e)], member)
     \/ /\ HasFailed(Computed(env, e, member, worth))
        /\ \E i \in DOMAIN args : Computed(env, e, member, worth) = args[i]

(* What an expression is computed to: what is made of its arguments, or one that failed. *)
LEMMA ComputedIs ==
  ASSUME NEW env, NEW e, NEW member, NEW worth, IsExpression(e)
  PROVE  ComputedFrom(env, e, member, worth, ArgumentsOf(e, worth))
<1> DEFINE args == ArgumentsOf(e, worth)
<1>0. args = ArgumentsOf(e, worth)
  OBVIOUS
<1> HIDE DEF args
<1>1. Computed(env, e, member, worth) = Provided(args, Applied(env, e, args, worth[Source(env, e)], member))
  BY <1>0 DEF Computed, ArgumentsOf
<1>2. "args" \in DOMAIN e <=> e.kind \in {"read", "allowance_expiry", "arithmetic"}
  BY DEF IsExpression
<1> DEFINE T == {worth[y] : y \in Parts(e)}
<1>3. CASE "args" \in DOMAIN e
  <2>1. e.args \in Seq(ToSet(e.args))
    BY <1>3 DEF IsExpression
  <2> DEFINE n == Len(e.args)
  <2>2. n \in Nat /\ DOMAIN e.args = 1..n /\ \A i \in 1..n : e.args[i] \in ToSet(e.args)
    BY <2>1, LenProperties, ElementOfSeq
  <2>3. ToSet(e.args) \in SUBSET Parts(e)
    BY <1>3 DEF Parts
  <2> HIDE DEF n
  <2>4. args = [i \in 1..n |-> worth[e.args[i]]]
    BY <1>0, <1>3, <2>2 DEF ArgumentsOf
  <2>5. args \in [1..n -> T]
    BY <2>2, <2>3, <2>4
  <2>6. args \in Seq(T) /\ Len(args) = n
    <3> HIDE DEF T
    <3> QED BY <2>2, <2>5, FunctionIsSeq
  <2>7. DOMAIN args = 1..n
    BY <2>4
  <2>8. \A i \in DOMAIN args : i \in DOMAIN e.args /\ e.args[i] \in Parts(e) /\ args[i] = worth[e.args[i]]
    BY <2>2, <2>3, <2>4
  <2>9. Listing(args, n)
    BY <2>2, <2>6, <2>7 DEF Listing
  <2>10. \/ /\ AllProduced(args)
            /\ Computed(env, e, member, worth) = Applied(env, e, args, worth[Source(env, e)], member)
         \/ /\ HasFailed(Computed(env, e, member, worth))
            /\ \E i \in DOMAIN args : Computed(env, e, member, worth) = args[i]
    BY <1>1, <2>2, <2>7, ProvidedIs
  <2>11. ComputedFrom(env, e, member, worth, args)
    BY <1>2, <1>3, <2>2, <2>6, <2>7, <2>8, <2>9, <2>10 DEF ComputedFrom
  <2> QED BY <2>11 DEF args
<1>4. CASE "args" \notin DOMAIN e
  <2>1. args = <<>>
    BY <1>0, <1>4 DEF ArgumentsOf
  <2>2. DOMAIN args = {} /\ Len(args) = 0 /\ args \in Seq(T) /\ DOMAIN args = 1..0
    BY <2>1
  <2>3. Listing(args, 0)
    BY <2>2 DEF Listing
  <2>4. AllProduced(args)
    BY <2>2 DEF AllProduced
  <2>5. Computed(env, e, member, worth) = Applied(env, e, args, worth[Source(env, e)], member)
    BY <1>1, <2>4 DEF Provided
  <2>6. ComputedFrom(env, e, member, worth, args)
    BY <1>2, <1>4, <2>1, <2>2, <2>3, <2>4, <2>5 DEF ComputedFrom
  <2> QED BY <2>6 DEF args
<1> QED
  BY <1>3, <1>4

(* What an argument is resolved to, by the expression it ends at. *)
LEMMA ScalarAt ==
  ASSUME NEW expr, NEW inputs, NEW last, last = Followed(expr, inputs)
  PROVE  /\ last.kind = "literal" => Scalar(expr, inputs) = last.literal
         /\ last.kind = "actor" => Scalar(expr, inputs) = Address(last.actor)
         /\ last.kind \notin {"literal", "actor"} => HasFailed(Scalar(expr, inputs))
<1>1. CASE last.kind = "literal"
  BY <1>1, Zenon DEF Scalar
<1>2. CASE last.kind = "actor"
  BY <1>2, Zenon DEF Scalar
<1>3. CASE /\ last.kind \notin {"literal", "actor"}
           /\ last.kind = "input" /\ last.name \in DOMAIN inputs /\ inputs[last.name] # last
  <2>1. Scalar(expr, inputs) = Crash
    BY <1>3, Zenon DEF Scalar
  <2> QED BY <1>3, <2>1, FailuresAre
<1>4. CASE /\ last.kind \notin {"literal", "actor"}
           /\ ~(last.kind = "input" /\ last.name \in DOMAIN inputs /\ inputs[last.name] # last)
  <2>1. Scalar(expr, inputs) = Failed("VectorError")
    BY <1>4, Zenon DEF Scalar
  <2> QED BY <1>4, <2>1, FailuresAre
<1> QED
  BY <1>1, <1>2, <1>3, <1>4

(* An argument that is resolved is a literal, an actor, or what an input is defined as. *)
LEMMA ScalarSteps ==
  ASSUME NEW inputs, IsFiniteSet(DOMAIN inputs), NEW e, ~HasFailed(Scalar(e, inputs))
  PROVE  \/ e.kind = "literal" /\ Scalar(e, inputs) = e.literal
         \/ e.kind = "actor" /\ Scalar(e, inputs) = Address(e.actor)
         \/ /\ e.kind = "input" /\ e.name \in DOMAIN inputs
            /\ Scalar(e, inputs) = Scalar(inputs[e.name], inputs)
<1> DEFINE n == Cardinality(DOMAIN inputs)
<1>1. n \in Nat
  BY FS_CardinalityType
<1>2. PICK w : Chain(w, e, inputs, n) /\ Followed(e, inputs) = w[n]
  BY FollowingIs
<1> HIDE DEF n
<1>3. w[n].kind \in {"literal", "actor"}
  BY <1>2, ScalarAt
<1>4. CASE ~(e.kind = "input" /\ e.name \in DOMAIN inputs)
  <2>1. w[0] = e /\ Followed1(w[0], inputs) = w[0] /\ 0 \in 0..n
    BY <1>1, <1>2, <1>4 DEF Chain, Followed1
  <2>2. w[n] = e
    BY <1>1, <1>2, <2>1, ChainStops
  <2> QED BY <1>2, <1>3, <2>2, ScalarAt
<1>5. CASE e.kind = "input" /\ e.name \in DOMAIN inputs
  <2> DEFINE of == inputs[e.name]
  <2>1. PICK u : Chain(u, of, inputs, n) /\ Followed(of, inputs) = u[n]
    BY FollowingIs DEF n
  <2>2. n >= 1
    <3>1. n # 0
      BY <1>5, FS_EmptySet DEF n
    <3> QED BY <1>1, <3>1
  <2> HIDE DEF of
  <2> DEFINE P == {k \in Nat : k + 1 <= n => u[k] = w[k + 1]}
  <2>3. 0 \in P
    <3>1. 1 \in 1..n /\ 1 - 1 = 0
      BY <1>1, <2>2
    <3>2. w[1] = Followed1(w[0], inputs) /\ w[0] = e
      <4>1. w[1] = Followed1(w[1 - 1], inputs) /\ w[0] = e
        BY <1>2, <3>1 DEF Chain
      <4> QED BY <3>1, <4>1
    <3>3. u[0] = w[1]
      BY <1>5, <2>1, <3>2 DEF Chain, Followed1, of
    <3> QED BY <3>3
  <2>4. ASSUME NEW k \in P
        PROVE  k + 1 \in P
    <3> SUFFICES ASSUME (k + 1) + 1 <= n PROVE u[k + 1] = w[(k + 1) + 1]
      OBVIOUS
    <3>1. k \in Nat /\ k + 1 <= n /\ k + 1 \in 1..n /\ (k + 1) + 1 \in 1..n
          /\ (k + 1) - 1 = k /\ ((k + 1) + 1) - 1 = k + 1
      BY <1>1
    <3>2. u[k + 1] = Followed1(u[k], inputs) /\ w[(k + 1) + 1] = Followed1(w[k + 1], inputs)
      BY <1>2, <2>1, <3>1 DEF Chain
    <3> QED BY <3>1, <3>2
  <2>5. P = Nat
    <3>1. P \in SUBSET Nat
      OBVIOUS
    <3> HIDE DEF P
    <3> QED BY <2>3, <2>4, <3>1, Reaches
  <2>6. n - 1 \in Nat /\ (n - 1) + 1 = n /\ n \in 1..n
    BY <1>1, <2>2
  <2>7. u[n - 1] = w[n]
    BY <2>5, <2>6
  <2>8. u[n] = Followed1(w[n], inputs)
    BY <2>1, <2>6, <2>7 DEF Chain
  <2>9. u[n] = w[n]
    BY <1>3, <2>8 DEF Followed1
  <2>10. Scalar(e, inputs) = Scalar(of, inputs)
    BY <1>2, <1>3, <2>1, <2>9, ScalarAt
  <2> QED BY <1>5, <2>10 DEF of
<1> QED
  BY <1>4, <1>5

\* Expressions of the format, with all that is inside them and inside the inputs.
Closed(inputs, S) ==
  /\ \A x \in S : IsExpression(x) /\ Parts(x) \in SUBSET S
  /\ \A name \in DOMAIN inputs : inputs[name] \in S

(* What an expression is computed to is what it is resolved to before the call, if it is both. *)
LEMMA WorthIsScalar ==
  ASSUME NEW env, NEW X, NEW member, NEW n \in Nat, NEW w, Working(w, env, X, member, n),
         NEW S \in SUBSET X, Closed(env.inputs, S), IsFiniteSet(DOMAIN env.inputs)
  PROVE  \A k \in 0..n : \A e \in S :
           HasFailed(w[k][e]) \/ HasFailed(Scalar(e, env.inputs)) \/ w[k][e] = Scalar(e, env.inputs)
<1> DEFINE inputs == env.inputs
           Same(k) == \A e \in S : HasFailed(w[k][e]) \/ HasFailed(Scalar(e, inputs)) \/ w[k][e] = Scalar(e, inputs)
           P == {k \in Nat : k <= n => Same(k)}
<1>1. 0 \in P
  <2>1. \A e \in S : w[0][e] = Failed("VectorError")
    BY DEF Working
  <2> QED BY <2>1, FailuresAre
<1>2. ASSUME NEW k \in P
      PROVE  k + 1 \in P
  <2> SUFFICES ASSUME k + 1 <= n, NEW e \in S,
                      ~HasFailed(w[k + 1][e]), ~HasFailed(Scalar(e, inputs))
               PROVE  w[k + 1][e] = Scalar(e, inputs)
    OBVIOUS
  <2>1. k \in Nat /\ k <= n /\ k + 1 \in 1..n /\ (k + 1) - 1 = k
    OBVIOUS
  <2>2. Same(k)
    BY <2>1
  <2>3. w[k + 1][e] = Computed(env, e, member, w[k])
    <3>1. w[k + 1] = [x \in X |-> Computed(env, x, member, w[(k + 1) - 1])]
      BY <2>1 DEF Working
    <3> QED BY <2>1, <3>1
  <2>4. IsExpression(e)
    BY DEF Closed
  <2>5. \/ e.kind = "literal" /\ Scalar(e, inputs) = e.literal
        \/ e.kind = "actor" /\ Scalar(e, inputs) = Address(e.actor)
        \/ /\ e.kind = "input" /\ e.name \in DOMAIN inputs
           /\ Scalar(e, inputs) = Scalar(inputs[e.name], inputs)
    BY ScalarSteps
  <2>6. DOMAIN ArgumentsOf(e, w[k]) = {}
    <3>1. "args" \notin DOMAIN e
      BY <2>4, <2>5 DEF IsExpression
    <3>2. ArgumentsOf(e, w[k]) = <<>>
      BY <3>1 DEF ArgumentsOf
    <3> QED BY <3>2
  <2>7. w[k + 1][e] = Applied(env, e, ArgumentsOf(e, w[k]), w[k][Source(env, e)], member)
    BY <2>3, <2>4, <2>6, ComputedIs DEF ComputedFrom
  <2>8. CASE e.kind = "literal"
    BY <2>5, <2>7, <2>8, AppliedIs
  <2>9. CASE e.kind = "actor"
    BY <2>5, <2>7, <2>9, AppliedIs
  <2>10. CASE e.kind = "input"
    <3>1. e.name \in DOMAIN inputs /\ Scalar(e, inputs) = Scalar(inputs[e.name], inputs)
      BY <2>5, <2>10
    <3>2. Source(env, e) = inputs[e.name] /\ inputs[e.name] \in S
      BY <2>10, <3>1 DEF Source, Closed
    <3>3. w[k + 1][e] = w[k][inputs[e.name]]
      BY <2>7, <2>10, <3>1, <3>2, AppliedIs
    <3> QED BY <2>2, <3>1, <3>2, <3>3
  <2> QED BY <2>5, <2>8, <2>9, <2>10
<1>3. P = Nat
  <2>1. P \in SUBSET Nat
    OBVIOUS
  <2> HIDE DEF P
  <2> QED BY <1>1, <1>2, <2>1, Reaches
<1>4. \A k \in 0..n : k \in Nat /\ k <= n
  OBVIOUS
<1> QED
  BY <1>3, <1>4

(* The arguments of a read that is performed are what they are resolved to before the call. *)
LEMMA ArgumentsResolved ==
  ASSUME NEW e, NEW inputs, NEW S, Closed(inputs, S), e \in S, e.kind = "read", NEW worth,
         \A x \in S : HasFailed(worth[x]) \/ HasFailed(Scalar(x, inputs)) \/ worth[x] = Scalar(x, inputs),
         AllProduced(ReadArguments(e, inputs)), AllProduced(ArgumentsOf(e, worth))
  PROVE  ArgumentsOf(e, worth) = ReadArguments(e, inputs)
<1>1. "args" \in DOMAIN e /\ Parts(e) \in SUBSET S
  BY DEF Closed, IsExpression
<1>2. ArgumentsOf(e, worth) = [i \in DOMAIN e.args |-> worth[e.args[i]]]
  BY <1>1 DEF ArgumentsOf
<1>3. \A i \in DOMAIN e.args : e.args[i] \in S
  <2>1. \A i \in DOMAIN e.args : e.args[i] \in ToSet(e.args)
    BY DEF ToSet
  <2>2. ToSet(e.args) \in SUBSET Parts(e)
    BY <1>1 DEF Parts
  <2> QED BY <1>1, <2>1, <2>2
<1>4. ASSUME NEW i \in DOMAIN e.args
      PROVE  worth[e.args[i]] = Scalar(e.args[i], inputs)
  <2>1. ~HasFailed(worth[e.args[i]])
    <3>1. ~HasFailed(ArgumentsOf(e, worth)[i])
      BY <1>2 DEF AllProduced
    <3> QED BY <1>2, <3>1
  <2>2. ~HasFailed(Scalar(e.args[i], inputs))
    <3>1. \A j \in DOMAIN ReadArguments(e, inputs) : ~HasFailed(ReadArguments(e, inputs)[j])
      BY DEF AllProduced
    <3> QED BY <3>1 DEF ReadArguments
  <2> QED BY <1>3, <2>1, <2>2
<1> QED
  BY <1>2, <1>4 DEF ReadArguments

(* Whatever step is taken, a computation is unread only if a read is. *)
LEMMA StepIsRecorded ==
  ASSUME NEW env, NEW e, NEW member, NEW worth, NEW S, Closed(env.inputs, S), e \in S,
         \A x \in S : worth[x] # Unrecorded, member # Unrecorded,
         e.kind = "read" /\ AllProduced(ArgumentsOf(e, worth)) =>
           WorldRead(env.after, e.method, ArgumentsOf(e, worth)) # Unrecorded,
         \A resource : Aggregate(env.after, resource) # Unrecorded
  PROVE  Computed(env, e, member, worth) # Unrecorded
<1> DEFINE args   == ArgumentsOf(e, worth)
           source == worth[Source(env, e)]
           value  == Applied(env, e, args, source, member)
<1>1. IsExpression(e) /\ Parts(e) \in SUBSET S
  BY DEF Closed
<1>2. /\ \E n : Listing(args, n) /\ args \in Seq({worth[y] : y \in Parts(e)})
      /\ \A i \in DOMAIN args : args[i] \in {worth[y] : y \in Parts(e)}
      /\ \/ AllProduced(args) /\ Computed(env, e, member, worth) = value
         \/ \E i \in DOMAIN args : Computed(env, e, member, worth) = args[i]
  <2>0. args = ArgumentsOf(e, worth)
    OBVIOUS
  <2> HIDE DEF args
  <2>1. /\ \E n : Listing(args, n) /\ args \in Seq({worth[y] : y \in Parts(e)})
        /\ \A i \in DOMAIN args : e.args[i] \in Parts(e) /\ args[i] = worth[e.args[i]]
        /\ \/ AllProduced(args) /\ Computed(env, e, member, worth) = Applied(env, e, args, worth[Source(env, e)], member)
           \/ \E i \in DOMAIN args : Computed(env, e, member, worth) = args[i]
    <3>1. ComputedFrom(env, e, member, worth, args)
      BY <1>1, <2>0, ComputedIs
    <3> QED BY <3>1 DEF ComputedFrom
  <2> QED BY <2>1
<1> HIDE DEF args
<1>3. \A i \in DOMAIN args : args[i] # Unrecorded
  BY <1>1, <1>2
<1>4. SUFFICES ASSUME AllProduced(args)
               PROVE  value # Unrecorded
  BY <1>2, <1>3
<1>5. /\ e.kind \in {"literal", "actor", "input", "read", "sum", "field", "ledger_sequence",
                     "allowance_expiry", "resource_member", "arithmetic"}
      /\ e.kind = "literal" => IsValue(e.literal)
  BY <1>1 DEF IsExpression
<1> HIDE DEF source
<1>6. CASE e.kind = "literal"
  BY <1>5, <1>6, AppliedIs, StatedValues
<1>7. CASE e.kind = "actor"
  BY <1>7, AppliedIs, StatedValues
<1>8. CASE e.kind = "input"
  <2>1. e.name \in DOMAIN env.inputs => source # Unrecorded
    BY <1>8 DEF source, Source, Closed
  <2> QED BY <1>8, <2>1, AppliedIs, UnrecordedIs
<1>9. CASE e.kind = "read"
  <2>1. value = WorldRead(env.after, e.method, args)
    BY <1>9, AppliedIs
  <2> QED BY <1>4, <1>9, <2>1 DEF args
<1>10. CASE e.kind = "sum"
  BY <1>10, AppliedIs
<1>11. CASE e.kind = "field"
  <2>1. e.of \in Parts(e)
    BY <1>11 DEF Parts
  <2>2. source # Unrecorded
    BY <1>1, <1>11, <2>1 DEF source, Source
  <2> QED BY <1>11, <2>2, AppliedIs, UnrecordedIs
<1>12. CASE e.kind = "ledger_sequence"
  BY <1>12, AppliedIs, UnrecordedIs
<1>13. CASE e.kind = "allowance_expiry"
  <2>1. \A world, from, spender : AllowanceExpiry(world, from, spender) # Unrecorded
    BY UnrecordedIs, StatedValues DEF AllowanceExpiry
  <2> QED BY <1>13, <2>1, AppliedIs, UnrecordedIs
<1>14. CASE e.kind = "resource_member"
  BY <1>14, AppliedIs, UnrecordedIs
<1>15. CASE e.kind = "arithmetic"
  BY <1>2, <1>15, AppliedIs, ArithmeticIs
<1> QED
  BY <1>5, <1>6, <1>7, <1>8, <1>9, <1>10, <1>11, <1>12, <1>13, <1>14, <1>15

\* A world that answers every read among the expressions, whose arguments are known.
Asks(world, inputs, S) ==
  /\ \A x \in S : x.kind = "read" =>
       /\ AllProduced(ReadArguments(x, inputs))
       /\ WorldRead(world, x.method, ReadArguments(x, inputs)) # Unrecorded
  /\ \A resource : Aggregate(world, resource) # Unrecorded

(* What every read is recorded of is not undecided for the want of one. *)
LEMMA ComputeIsRecorded ==
  ASSUME NEW env, NEW expr, NEW member, member # Unrecorded, NEW S \in SUBSET Concerned(env, expr),
         expr \in S, Closed(env.inputs, S), IsFiniteSet(DOMAIN env.inputs), Asks(env.after, env.inputs, S)
  PROVE  Compute(env, expr, member) # Unrecorded
<1> DEFINE n == MaxResolutionDepth + 1
           X == Concerned(env, expr)
           inputs == env.inputs
<1>1. n \in Nat
  BY DepthAssumption
<1>2. PICK w : Working(w, env, X, member, n) /\ Compute(env, expr, member) = w[n][expr]
  BY ComputeIs
<1> HIDE DEF n, X
<1>3. \A k \in 0..n : \A e \in S : HasFailed(w[k][e]) \/ HasFailed(Scalar(e, inputs)) \/ w[k][e] = Scalar(e, inputs)
  BY <1>1, <1>2, WorthIsScalar DEF X
<1> DEFINE P == {k \in Nat : k <= n => \A e \in S : w[k][e] # Unrecorded}
<1>4. 0 \in P
  <2>1. \A e \in S : w[0][e] = Failed("VectorError")
    BY <1>2 DEF Working, X
  <2> QED BY <2>1, UnrecordedIs
<1>5. ASSUME NEW k \in P
      PROVE  k + 1 \in P
  <2> SUFFICES ASSUME k + 1 <= n, NEW e \in S
               PROVE  w[k + 1][e] # Unrecorded
    OBVIOUS
  <2>1. k \in Nat /\ k <= n /\ k \in 0..n /\ k + 1 \in 1..n /\ (k + 1) - 1 = k /\ e \in X
    BY <1>1 DEF X
  <2>2. \A x \in S : w[k][x] # Unrecorded
    BY <2>1
  <2>3. w[k + 1][e] = Computed(env, e, member, w[k])
    <3>1. w[k + 1] = [x \in X |-> Computed(env, x, member, w[(k + 1) - 1])]
      BY <1>2, <2>1 DEF Working
    <3> QED BY <2>1, <3>1
  <2> DEFINE worth == w[k]
             args  == ArgumentsOf(e, worth)
  <2>4. ASSUME e.kind = "read", AllProduced(args)
        PROVE  WorldRead(env.after, e.method, args) # Unrecorded
    <3>1. /\ AllProduced(ReadArguments(e, inputs))
          /\ WorldRead(env.after, e.method, ReadArguments(e, inputs)) # Unrecorded
      BY <2>4 DEF Asks
    <3>2. \A x \in S : HasFailed(worth[x]) \/ HasFailed(Scalar(x, inputs)) \/ worth[x] = Scalar(x, inputs)
      BY <1>3, <2>1
    <3> HIDE DEF worth
    <3>3. args = ReadArguments(e, inputs)
      BY <2>4, <3>1, <3>2, ArgumentsResolved
    <3> QED BY <3>1, <3>3
  <2>5. \A resource : Aggregate(env.after, resource) # Unrecorded
    BY DEF Asks
  <2> HIDE DEF worth
  <2>6. Computed(env, e, member, worth) # Unrecorded
    BY <2>2, <2>4, <2>5, StepIsRecorded DEF worth
  <2> QED BY <2>3, <2>6 DEF worth
<1>6. n \in P
  <2>1. P \in SUBSET Nat
    OBVIOUS
  <2> HIDE DEF P
  <2> QED BY <1>1, <1>4, <1>5, <2>1, Reaches
<1> QED
  BY <1>1, <1>2, <1>6

---------------------------------------------------------------------------
(* What a judgement comes to. *)

\* The predicates it evaluates, and the expressions it computes.
Requiring(p, v) ==
  v.state \cup v.assertions
  \cup (UNION {ToSet(r.preconditions) \cup ToSet(r.postconditions) : r \in BehaviorsFor(p, v.method)})
  \cup UNION {ToSet(i.predicate) : i \in ToSet(p.invariants)}

Judging(p, v) == (UNION {OperandsOf(q) : q \in Requiring(p, v)}) \cup Stated(v)

\* Expressions, and predicates, of the format with all that is inside them.
WellFormed(e) == \A x \in Within(e) : IsExpression(x) /\ Parts(x) \in SUBSET Within(e)
Composes(q) == \A x \in Within(q) : IsPredicate(x) /\ Parts(x) \in SUBSET Within(q)

(* What a judgement comes to is of the format, and its reads are collected. *)
LEMMA JudgingIs ==
  ASSUME NEW p, NEW v, InFormat(p, v)
  PROVE  /\ \A e \in Judging(p, v) : WellFormed(e) /\ ReadsOf(e) \in SUBSET Collected(p, v)
         /\ \A q \in Requiring(p, v) : Composes(q) /\ OperandsOf(q) \in SUBSET Judging(p, v)
         /\ \A name \in DOMAIN v.inputs : WellFormed(v.inputs[name])
         /\ ReadsFormed(p, v)
<1>1. /\ \A e \in Terms(p, v) : WellFormed(e)
      /\ \A q \in Predicates(p, v) : Composes(q)
  BY DEF InFormat, WellFormed, Composes
<1>2. BehaviorsFor(p, v.method) \in SUBSET ToSet(p.behaviors)
  BY DEF BehaviorsFor
<1>3. Requiring(p, v) \in SUBSET Predicates(p, v)
  BY <1>2 DEF Requiring, Predicates
<1>4. /\ Judging(p, v) \in SUBSET Terms(p, v) /\ v.returns \in SUBSET Terms(p, v)
      /\ \A name \in DOMAIN v.inputs : v.inputs[name] \in Terms(p, v)
  <2> DEFINE R == Requiring(p, v)
             Q == Predicates(p, v)
  <2>1. UNION {OperandsOf(q) : q \in R} \in SUBSET UNION {OperandsOf(q) : q \in Q}
    <3>1. R \in SUBSET Q
      BY <1>3
    <3> HIDE DEF R, Q
    <3> QED BY <3>1
  <2> DEFINE I == {v.inputs[name] : name \in DOMAIN v.inputs}
             J == UNION {OperandsOf(q) : q \in R}
             T == UNION {OperandsOf(q) : q \in Q}
  <2>2. Judging(p, v) = J \cup Stated(v) /\ Terms(p, v) = T \cup Stated(v) \cup v.returns \cup I
    BY Zenon DEF Judging, Terms
  <2>3. \A name \in DOMAIN v.inputs : v.inputs[name] \in I
    OBVIOUS
  <2>4. J \in SUBSET T
    BY <2>1
  <2> HIDE DEF I, J, T, R, Q
  <2> QED BY <2>2, <2>3, <2>4
<1>5. \A q \in Requiring(p, v) : OperandsOf(q) \in SUBSET Judging(p, v)
  BY DEF Judging
<1>6. \A r \in BehaviorsFor(p, v.method) :
        ToSet(r.preconditions \o r.postconditions) = ToSet(r.preconditions) \cup ToSet(r.postconditions)
  <2> SUFFICES ASSUME NEW r \in BehaviorsFor(p, v.method)
               PROVE  ToSet(r.preconditions \o r.postconditions) = ToSet(r.preconditions) \cup ToSet(r.postconditions)
    OBVIOUS
  <2> DEFINE s == r.preconditions
             t == r.postconditions
             S == ToSet(s) \cup ToSet(t)
  <2>1. s \in Seq(ToSet(s)) /\ t \in Seq(ToSet(t))
    BY <1>2 DEF InFormat
  <2>2. s \in Seq(S) /\ t \in Seq(S)
    BY <2>1
  <2> HIDE DEF s, t, S
  <2>3. ToSet(s \o t) = ToSet(s) \cup ToSet(t)
    BY <2>2, HeldByBoth
  <2> QED BY <2>3 DEF s, t
<1> DEFINE D == (UNION {OperandsOf(q) : q \in v.state \cup v.assertions})
                \cup Stated(v) \cup v.returns
                \cup (UNION {UNION {OperandsOf(q) : q \in ToSet(r.preconditions \o r.postconditions)} :
                             r \in BehaviorsFor(p, v.method)})
                \cup UNION {UNION {OperandsOf(q) : q \in ToSet(i.predicate)} : i \in ToSet(p.invariants)}
<1>7. Collected(p, v) = UNION {ReadsOf(e) : e \in D}
  BY DEF Collected
<1>8. ASSUME NEW e \in Judging(p, v)
      PROVE  e \in D
  <2>1. CASE e \in Stated(v)
    BY <2>1
  <2>2. CASE \E q \in Requiring(p, v) : e \in OperandsOf(q)
    <3>1. PICK q \in Requiring(p, v) : e \in OperandsOf(q)
      BY <2>2
    <3>2. CASE q \in v.state \cup v.assertions
      BY <3>1, <3>2
    <3>3. CASE \E r \in BehaviorsFor(p, v.method) : q \in ToSet(r.preconditions) \cup ToSet(r.postconditions)
      <4>1. PICK r \in BehaviorsFor(p, v.method) : q \in ToSet(r.preconditions \o r.postconditions)
        BY <1>6, <3>3
      <4> QED BY <3>1, <4>1
    <3>4. CASE \E i \in ToSet(p.invariants) : q \in ToSet(i.predicate)
      BY <3>1, <3>4
    <3>5. \/ q \in v.state \cup v.assertions
          \/ \E r \in BehaviorsFor(p, v.method) : q \in ToSet(r.preconditions) \cup ToSet(r.postconditions)
          \/ \E i \in ToSet(p.invariants) : q \in ToSet(i.predicate)
      <4>1. q \in Requiring(p, v)
        BY <3>1
      <4> QED BY <4>1, Zenon DEF Requiring
    <3> HIDE DEF D
    <3> QED BY <3>2, <3>3, <3>4, <3>5
  <2> QED BY <2>1, <2>2 DEF Judging
<1>9. \A e \in Judging(p, v) : ReadsOf(e) \in SUBSET Collected(p, v)
  <2> HIDE DEF D
  <2> QED BY <1>7, <1>8
<1>10. D \in SUBSET Terms(p, v)
  <2> SUFFICES ASSUME NEW e \in D PROVE e \in Judging(p, v) \/ e \in v.returns
    <3> HIDE DEF D
    <3> QED BY <1>4
  <2>1. \/ e \in Stated(v) \cup v.returns
        \/ \E q \in v.state \cup v.assertions : e \in OperandsOf(q)
        \/ \E r \in BehaviorsFor(p, v.method) :
             \E q \in ToSet(r.preconditions \o r.postconditions) : e \in OperandsOf(q)
        \/ \E i \in ToSet(p.invariants) : \E q \in ToSet(i.predicate) : e \in OperandsOf(q)
    OBVIOUS
  <2>2. \A q \in Requiring(p, v) : \A x \in OperandsOf(q) : x \in Judging(p, v)
    BY <1>5
  <2>3. Stated(v) \in SUBSET Judging(p, v)
    BY DEF Judging
  <2>4. /\ v.state \cup v.assertions \in SUBSET Requiring(p, v)
        /\ \A r \in BehaviorsFor(p, v.method) : ToSet(r.preconditions \o r.postconditions) \in SUBSET Requiring(p, v)
        /\ \A i \in ToSet(p.invariants) : ToSet(i.predicate) \in SUBSET Requiring(p, v)
    BY <1>6 DEF Requiring
  <2> HIDE DEF D
  <2> QED BY <2>1, <2>2, <2>3, <2>4
<1>11. ReadsFormed(p, v)
  <2> HIDE DEF D
  <2> SUFFICES ASSUME NEW r \in Collected(p, v) PROVE \E n \in Nat : DOMAIN r.args = 1..n
    BY DEF ReadsFormed
  <2>1. PICK e \in Terms(p, v) : r \in ReadsOf(e)
    BY <1>7, <1>10
  <2>2. r \in Within(e) /\ r.kind = "read" /\ WellFormed(e)
    BY <1>1, <2>1 DEF ReadsOf
  <2>3. IsExpression(r)
    BY <2>2 DEF WellFormed
  <2>4. r.args \in Seq(ToSet(r.args))
    BY <2>2, <2>3 DEF IsExpression
  <2> QED BY <2>4, LenProperties
<1> QED
  BY <1>1, <1>3, <1>4, <1>5, <1>9, <1>11

\* The inputs of a vector whose arguments could all be made.
Known(inputs) ==
  IsFiniteSet(DOMAIN inputs) /\ \A name \in DOMAIN inputs : inputs[name].kind \in {"literal", "actor", "input"}

(* A vector that is called with its arguments has inputs that come to a value. *)
LEMMA InputsAreKnown ==
  ASSUME NEW d \in Disks, NEW v, Admissible(d, v), AllProduced(ArgumentsIn(d, v))
  PROVE  Known(v.inputs)
<1> DEFINE m == MethodIn(d, v)
<1>1. IsFiniteSet(DOMAIN v.inputs)
  BY MethodIs
<1>2. DOMAIN v.inputs = {m.args[i].name : i \in DOMAIN m.args}
  BY DEF Admissible, ArgumentNames, MethodIn
<1>3. ASSUME NEW name \in DOMAIN v.inputs
      PROVE  v.inputs[name].kind \in {"literal", "actor", "input"}
  <2>1. PICK i \in DOMAIN m.args : name = m.args[i].name
    BY <1>2
  <2> DEFINE s == Scalar(v.inputs[name], v.inputs)
             a == ArgumentsIn(d, v)
  <2>2. i \in DOMAIN a /\ a[i] = Typed(s, m.args[i].type)
    BY <2>1 DEF ArgumentsIn, Argument
  <2>3. ~HasFailed(a[i])
    <3> HIDE DEF a
    <3> QED BY <2>2 DEF AllProduced, a
  <2> HIDE DEF s, a
  <2>4. ~HasFailed(s)
    <3> SUFFICES ASSUME HasFailed(s) PROVE FALSE
      OBVIOUS
    <3>1. Typed(s, m.args[i].type) = s
      BY Zenon DEF Typed
    <3> QED BY <2>2, <2>3, <3>1
  <2> QED BY <1>1, <2>4, ScalarSteps DEF s
<1> QED
  BY <1>1, <1>3 DEF Known

\* All an expression can come to: what is inside it, and the inputs.
Grounds(inputs, e) == Within(e) \cup {inputs[name] : name \in DOMAIN inputs}

(* What a judgement computes comes to expressions of the format only, with reads that were *)
(* collected.                                                                              *)
LEMMA GroundsAre ==
  ASSUME NEW p, NEW v, InFormat(p, v), Known(v.inputs), NEW e \in Judging(p, v), NEW env, env.inputs = v.inputs
  PROVE  LET S == Grounds(v.inputs, e)
         IN /\ S \in SUBSET Concerned(env, e) /\ e \in S /\ Closed(v.inputs, S)
            /\ \A x \in S : x.kind = "read" => x \in Collected(p, v)
<1> DEFINE inputs == v.inputs
           S == Grounds(inputs, e)
<1>1. WellFormed(e) /\ ReadsOf(e) \in SUBSET Collected(p, v) /\ \A name \in DOMAIN inputs : WellFormed(inputs[name])
  BY JudgingIs
<1>2. e \in Within(e) /\ \A name \in DOMAIN inputs : inputs[name] \in Within(inputs[name])
  BY WithinItself
<1>3. \A name \in DOMAIN inputs : /\ IsExpression(inputs[name]) /\ Parts(inputs[name]) = {}
                                  /\ inputs[name].kind # "read"
  <2> SUFFICES ASSUME NEW name \in DOMAIN inputs
               PROVE  /\ IsExpression(inputs[name]) /\ Parts(inputs[name]) = {} /\ inputs[name].kind # "read"
    OBVIOUS
  <2> DEFINE x == inputs[name]
  <2>1. IsExpression(x) /\ x.kind \in {"literal", "actor", "input"}
    BY <1>1, <1>2 DEF WellFormed, Known
  <2> HIDE DEF x
  <2>2. "args" \notin DOMAIN x /\ x.kind # "field" /\ x.kind \notin Composed /\ x.kind # "read"
    BY <2>1 DEF IsExpression, Composed
  <2>3. Parts(x) = {}
    BY <2>2 DEF Parts
  <2> QED BY <2>1, <2>2, <2>3 DEF x
<1>4. S \in SUBSET Concerned(env, e)
  BY <1>2 DEF Grounds, Concerned
<1>5. \A x \in Within(e) : IsExpression(x) /\ Parts(x) \in SUBSET S
  BY <1>1 DEF WellFormed, Grounds
<1>6. Closed(inputs, S)
  BY <1>3, <1>5 DEF Closed, Grounds
<1>7. \A x \in S : x.kind = "read" => x \in Collected(p, v)
  BY <1>1, <1>3 DEF Grounds, ReadsOf
<1> QED
  BY <1>2, <1>4, <1>6, <1>7 DEF Grounds

---------------------------------------------------------------------------
(* What the worlds of a judgement hold. *)

\* A world that answers every read that was collected, and sums whatever it is asked to.
Answering(p, v, world) ==
  /\ \A r \in Collected(p, v) :
       /\ AllProduced(ReadArguments(r, v.inputs))
       /\ WorldRead(world, r.method, ReadArguments(r, v.inputs)) # Unrecorded
  /\ \A resource : Aggregate(world, resource) # Unrecorded

(* What a judgement computes over such a world is never unread. *)
LEMMA ComputedIsRecorded ==
  ASSUME NEW p, NEW v, InFormat(p, v), Known(v.inputs), NEW e \in Judging(p, v), NEW env, env.inputs = v.inputs,
         Answering(p, v, env.after), NEW member, member # Unrecorded
  PROVE  Compute(env, e, member) # Unrecorded
<1> DEFINE S == Grounds(v.inputs, e)
<1>1. /\ S \in SUBSET Concerned(env, e) /\ e \in S /\ Closed(v.inputs, S)
      /\ \A x \in S : x.kind = "read" => x \in Collected(p, v)
  BY GroundsAre
<1> HIDE DEF S
<1>2. Asks(env.after, env.inputs, S)
  BY <1>1 DEF Asks, Answering
<1>3. IsFiniteSet(DOMAIN env.inputs) /\ Closed(env.inputs, S)
  BY <1>1 DEF Known
<1> QED
  BY <1>1, <1>2, <1>3, ComputeIsRecorded

(* What is provided from results is one of them, or the value. *)
LEMMA ProvidedAmong ==
  ASSUME NEW T, Unrecorded \notin T, NEW values \in Seq(T), NEW value, value # Unrecorded
  PROVE  Provided(values, value) # Unrecorded
<1> DEFINE n == Len(values)
<1>1. n \in Nat /\ DOMAIN values = 1..n /\ \A i \in 1..n : values[i] \in T
  BY LenProperties, ElementOfSeq
<1> HIDE DEF n
<1>2. Provided(values, value) = value \/ \E i \in 1..n : Provided(values, value) = values[i]
  BY <1>1, ProvidedIs
<1> QED
  BY <1>1, <1>2

\* The operands of a predicate as they are computed, and those after the first.
Computes(env, q, member) == [i \in DOMAIN q.operands |-> Compute(env, q.operands[i], member)]
Adds(env, q, member)     == [i \in 1..(Len(q.operands) - 1) |-> Compute(env, q.operands[i + 1], member)]

(* A comparison or a movement is unread only if an operand is. *)
LEMMA SimpleIsRecorded ==
  ASSUME NEW env, NEW q, NEW member, IsPredicate(q), q.kind \notin Composed,
         \A o \in ToSet(q.operands) : /\ Compute(env, o, member) # Unrecorded
                                      /\ Compute(AgainstBefore(env), o, member) # Unrecorded
  PROVE  EvaluateSimple(env, q, member) # Unrecorded
<1> DEFINE n == Len(q.operands)
           T == {x \in {Compute(env, o, member) : o \in ToSet(q.operands)}
                       \cup {Compute(AgainstBefore(env), o, member) : o \in ToSet(q.operands)} : x # Unrecorded}
           from == Compute(AgainstBefore(env), q.operands[1], member)
           to   == Compute(env, q.operands[1], member)
           all  == Computes(env, q, member)
           by   == Adds(env, q, member)
<1>1. q.operands \in Seq(ToSet(q.operands)) /\ q.operands # <<>>
  BY DEF IsPredicate
<1>2. n \in Nat /\ DOMAIN q.operands = 1..n /\ (\A i \in 1..n : q.operands[i] \in ToSet(q.operands)) /\ n # 0
  BY <1>1, LenProperties, ElementOfSeq, EmptySeq
<1>3. \A o \in ToSet(q.operands) : Compute(env, o, member) \in T /\ Compute(AgainstBefore(env), o, member) \in T
  OBVIOUS
<1>4. Unrecorded \notin T
  OBVIOUS
<1> HIDE DEF T, n
<1>5. from \in T /\ to \in T
  BY <1>2, <1>3
<1>6. all \in Seq(T)
  <2>1. all \in [1..n -> T]
    BY <1>2, <1>3 DEF Computes
  <2> HIDE DEF all
  <2> QED BY <1>2, <2>1, FunctionIsSeq
<1>7. by \in Seq(T)
  <2>1. n - 1 \in Nat /\ \A i \in 1..(n - 1) : i + 1 \in 1..n
    BY <1>2
  <2>2. by \in [1..(n - 1) -> T]
    BY <1>2, <1>3, <2>1 DEF Adds, n
  <2> HIDE DEF by
  <2> QED BY <2>1, <2>2, FunctionIsSeq
<1>8. CASE q.kind = "delta"
  <2>1. EvaluateSimple(env, q, member) = Movement(from, to, q.direction, by)
    BY <1>8 DEF EvaluateSimple, EvaluateDelta, Adds
  <2> HIDE DEF from, to, by, all
  <2>2. <<from, to>> \o by \in Seq(T)
    <3>1. <<from, to>> \in Seq(T)
      BY <1>5
    <3> QED BY <1>7, <3>1, ConcatProperties
  <2>3. \A value : value # Unrecorded => Provided(<<from, to>> \o by, value) # Unrecorded
    BY <1>4, <2>2, ProvidedAmong
  <2>4. Movement(from, to, q.direction, by) # Unrecorded
    <3> DEFINE moved == Moved(from.n, to.n, q.direction, [i \in DOMAIN by |-> by[i].n])
    <3>1. Movement(from, to, q.direction, by) =
            IF AllProduced(<<from, to>>) /\ ~(IsQuantity(from) /\ IsQuantity(to)) THEN Failed("ExecutionError")
            ELSE Provided(<<from, to>> \o by,
                          IF \E i \in DOMAIN by : ~IsQuantity(by[i]) THEN Failed("ExecutionError") ELSE Flag(moved))
      BY DEF Movement
    <3> HIDE DEF moved
    <3>2. Failed("ExecutionError") # Unrecorded /\ Flag(moved) # Unrecorded
      BY UnrecordedIs
    <3> QED BY <2>3, <3>1, <3>2
  <2> QED BY <2>1, <2>4
<1>9. CASE q.kind # "delta"
  <2> DEFINE start == IF q.kind = "unchanged" THEN <<from>> ELSE <<>>
             list  == start \o all
  <2>1. EvaluateSimple(env, q, member) = Comparing(q.kind, list)
    BY <1>9 DEF EvaluateSimple, EvaluateBasic, Computes
  <2>2. start \in Seq(T)
    <3> HIDE DEF from
    <3> QED BY <1>5
  <2> HIDE DEF start, all
  <2>3. list \in Seq(T)
    BY <1>6, <2>2, ConcatProperties
  <2> HIDE DEF list
  <2>4. \E b : Comparing(q.kind, list) = Provided(list, Flag(b))
    BY DEF Comparing
  <2>5. Comparing(q.kind, list) # Unrecorded
    BY <1>4, <2>3, <2>4, ProvidedAmong, UnrecordedIs
  <2> QED BY <2>1, <2>5
<1> QED
  BY <1>8, <1>9

(* A predicate is unread only if an operand of it, or of one inside it, is. *)
LEMMA EvaluateIsRecorded ==
  ASSUME NEW env, NEW p, NEW member, Composes(p),
         \A o \in OperandsOf(p) : /\ Compute(env, o, member) # Unrecorded
                                  /\ Compute(AgainstBefore(env), o, member) # Unrecorded
  PROVE  Evaluate(env, p, member) # Unrecorded
<1> DEFINE n == MaxNesting + 1
           X == Within(p)
<1>1. n \in Nat
  BY DepthAssumption
<1>2. PICK w : Holding(w, env, X, member, n) /\ Evaluate(env, p, member) = w[n][p]
  BY EvaluateIs
<1>3. p \in X
  BY WithinItself
<1>4. ASSUME NEW q \in X
      PROVE  /\ IsPredicate(q) /\ Parts(q) \in SUBSET X
             /\ q.kind \notin Composed => EvaluateSimple(env, q, member) # Unrecorded
  <2>1. IsPredicate(q) /\ Parts(q) \in SUBSET X
    BY DEF Composes
  <2>2. ASSUME q.kind \notin Composed
        PROVE  EvaluateSimple(env, q, member) # Unrecorded
    <3>1. ToSet(q.operands) \in SUBSET OperandsOf(p)
      BY <2>2 DEF OperandsOf
    <3> QED BY <2>1, <2>2, <3>1, SimpleIsRecorded
  <2> QED BY <2>1, <2>2
<1> HIDE DEF n, X
<1> DEFINE P == {k \in Nat : k <= n => \A q \in X : w[k][q] # Unrecorded}
<1>5. 0 \in P
  <2>1. \A q \in X : w[0][q] = Failed("VectorError")
    BY <1>2 DEF Holding
  <2> QED BY <2>1, UnrecordedIs
<1>6. ASSUME NEW k \in P
      PROVE  k + 1 \in P
  <2> SUFFICES ASSUME k + 1 <= n, NEW q \in X
               PROVE  w[k + 1][q] # Unrecorded
    OBVIOUS
  <2>1. k \in Nat /\ k <= n /\ k + 1 \in 1..n /\ (k + 1) - 1 = k
    BY <1>1
  <2> DEFINE u == w[k]
  <2>2. \A x \in X : u[x] # Unrecorded
    BY <2>1
  <2>3. w[k + 1][q] = Held(env, q, member, u)
    <3>1. w[k + 1] = [x \in X |-> Held(env, x, member, w[(k + 1) - 1])]
      BY <1>2, <2>1 DEF Holding
    <3> QED BY <2>1, <3>1
  <2> HIDE DEF u
  <2>4. CASE q.kind \notin Composed
    <3>1. Held(env, q, member, u) = EvaluateSimple(env, q, member)
      BY <2>4 DEF Held
    <3> QED BY <1>4, <2>3, <2>4, <3>1
  <2>5. CASE q.kind \in Composed
    <3> DEFINE inner == [i \in DOMAIN q.predicates |-> u[q.predicates[i]]]
               m == Len(q.predicates)
               T == {u[x] : x \in X}
    <3>1. q.predicates \in Seq(ToSet(q.predicates))
      BY <1>4, <2>5 DEF IsPredicate
    <3>2. m \in Nat /\ DOMAIN q.predicates = 1..m /\ \A i \in 1..m : q.predicates[i] \in ToSet(q.predicates)
      BY <3>1, LenProperties, ElementOfSeq
    <3>3. ToSet(q.predicates) \in SUBSET X
      <4>1. ToSet(q.predicates) \in SUBSET Parts(q)
        BY <2>5 DEF Parts
      <4> QED BY <1>4, <4>1
    <3> HIDE DEF m
    <3>4. inner \in [1..m -> T]
      BY <3>2, <3>3
    <3>5. Unrecorded \notin T
      BY <2>2
    <3>6. Held(env, q, member, u) = Composition(q, inner)
      BY <2>5 DEF Held
    <3> HIDE DEF inner, T
    <3>7. inner \in Seq(T)
      BY <3>2, <3>4, FunctionIsSeq
    <3>8. \E b : Composition(q, inner) = Provided(inner, Flag(b))
      BY DEF Composition
    <3>9. Composition(q, inner) # Unrecorded
      BY <3>5, <3>7, <3>8, ProvidedAmong, UnrecordedIs
    <3> QED BY <2>3, <3>6, <3>9
  <2> QED BY <2>4, <2>5
<1>7. n \in P
  <2>1. P \in SUBSET Nat
    OBVIOUS
  <2> HIDE DEF P
  <2> QED BY <1>1, <1>5, <1>6, <2>1, Reaches
<1> QED
  BY <1>1, <1>2, <1>3, <1>7

---------------------------------------------------------------------------
(* What is evaluated over them has been read. *)

(* Both the record and the contract answer what was collected. *)
LEMMA WorldsAnswer ==
  ASSUME NEW p, NEW v, Recordable(p, v), InFormat(p, v), \A r \in Collected(p, v) : Resolvable(r, v), NEW c
  PROVE  Answering(p, v, Past(c, v)) /\ Answering(p, v, Capture(p, v, Past(c, v)))
<1> DEFINE live   == Past(c, v)
           record == Capture(p, v, live)
<1>1. ReadsFormed(p, v)
  BY JudgingIs
<1>2. /\ live.kind = "live"
      /\ \A resource : Members(WorldMembers(live, resource))
  BY <1>1, LiveMembersAre DEF Past, LiveWorld
<1>3. /\ record.kind = "recorded"
      /\ \A resource : Members(WorldMembers(record, resource))
  BY <1>1, RecordIs, RecordedMembersAre
<1>4. \A r \in Collected(p, v) : Answer(RecordedRead(record, r.method, ReadArguments(r, v.inputs)))
  BY <1>1, RecordIsOfAnswers
<1> HIDE DEF live, record
<1>5. ASSUME NEW r \in Collected(p, v)
      PROVE  /\ AllProduced(ReadArguments(r, v.inputs))
             /\ WorldRead(live, r.method, ReadArguments(r, v.inputs)) # Unrecorded
             /\ WorldRead(record, r.method, ReadArguments(r, v.inputs)) # Unrecorded
  <2>1. PICK n \in Nat : DOMAIN r.args = 1..n
    BY <1>1 DEF ReadsFormed
  <2> DEFINE args == ReadArguments(r, v.inputs)
  <2>2. DOMAIN args = 1..n
    BY <2>1 DEF ReadArguments
  <2>3. AllProduced(args)
    BY DEF Resolvable
  <2> HIDE DEF args
  <2>4. Answer(LiveRead(live, r.method, args))
    BY <2>2, LiveReadIs
  <2>5. WorldRead(live, r.method, args) # Unrecorded
    BY <1>2, <2>4, UnrecordedIs DEF WorldRead, Answer
  <2>6. WorldRead(record, r.method, args) # Unrecorded
    BY <1>3, <1>4, UnrecordedIs DEF WorldRead, Answer, args
  <2> QED BY <2>3, <2>5, <2>6 DEF args
<1>6. \A resource : Aggregate(live, resource) # Unrecorded /\ Aggregate(record, resource) # Unrecorded
  BY <1>2, <1>3, AggregateIs
<1> QED
  BY <1>5, <1>6 DEF Answering, live, record

\* An environment of the vector between two worlds that answer.
Equipped(p, v, env) ==
  /\ env.inputs = v.inputs /\ Answering(p, v, env.after)
  /\ AgainstBefore(env).inputs = v.inputs /\ Answering(p, v, AgainstBefore(env).after)

(* Nothing that a judgement evaluates is unread. *)
LEMMA JudgementIsRecorded ==
  ASSUME NEW p, NEW v, InFormat(p, v), Known(v.inputs), NEW env, Equipped(p, v, env),
         NEW member, member # Unrecorded
  PROVE  /\ \A e \in Judging(p, v) : Compute(env, e, member) # Unrecorded
         /\ \A q \in Requiring(p, v) : Evaluate(env, q, member) # Unrecorded
<1>1. /\ env.inputs = v.inputs /\ Answering(p, v, env.after)
      /\ AgainstBefore(env).inputs = v.inputs /\ Answering(p, v, AgainstBefore(env).after)
  BY DEF Equipped
<1>2. \A e \in Judging(p, v) : Compute(env, e, member) # Unrecorded
  BY <1>1, ComputedIsRecorded
<1>3. \A e \in Judging(p, v) : Compute(AgainstBefore(env), e, member) # Unrecorded
  <2> DEFINE then == AgainstBefore(env)
  <2>1. then.inputs = v.inputs /\ Answering(p, v, then.after)
    BY <1>1
  <2> HIDE DEF then
  <2>2. \A e \in Judging(p, v) : Compute(then, e, member) # Unrecorded
    BY <2>1, ComputedIsRecorded
  <2> QED BY <2>2 DEF then
<1>4. ASSUME NEW q \in Requiring(p, v)
      PROVE  Evaluate(env, q, member) # Unrecorded
  <2>1. Composes(q) /\ OperandsOf(q) \in SUBSET Judging(p, v)
    BY JudgingIs
  <2> QED BY <1>2, <1>3, <2>1, EvaluateIsRecorded
<1> QED
  BY <1>2, <1>4

\* Statements that are all decided by what was read.
AllRead(statements) == \A s \in statements : s.value # Unrecorded

(* What a vector states of its events is decided by what was read. *)
LEMMA EventsAreRecorded ==
  ASSUME NEW p, NEW v, NEW env, NEW observed,
         v.required \in Seq(ToSet(v.required)),
         \A e \in ToSet(v.required) : e.topics \in Seq(ToSet(e.topics)) /\ e.data \in Seq(ToSet(e.data)),
         \A e \in Stated(v) : Compute(env, e, NoMember) # Unrecorded
  PROVE  AllRead(EventResults(p, v, env, observed))
<1>1. ASSUME NEW i \in DOMAIN v.required, NEW s \in RequiredEvent(p, v.required[i], i, env, observed)
      PROVE  s.value # Unrecorded
  <2> DEFINE e == v.required[i]
             topics == e.topics
             data == e.data
             S == ToSet(topics) \cup ToSet(data)
             wanted == [k \in DOMAIN data |-> Compute(env, data[k], NoMember)]
  <2>1. topics \in Seq(ToSet(topics)) /\ data \in Seq(ToSet(data))
    <3>1. e \in ToSet(v.required)
      BY DEF ToSet
    <3> HIDE DEF e
    <3> QED BY <3>1
  <2>2. topics \in Seq(S) /\ data \in Seq(S)
    <3> HIDE DEF topics, data
    <3> QED BY <2>1
  <2>3. ToSet(topics \o data) = ToSet(topics) \cup ToSet(data)
    <3> HIDE DEF topics, data, S
    <3> QED BY <2>2, HeldByBoth
  <2>4. ToSet(topics \o data) \in SUBSET Stated(v)
    BY DEF Stated
  <2>5. \A x \in ToSet(topics) \cup ToSet(data) : Compute(env, x, NoMember) # Unrecorded
    BY <2>3, <2>4
  <2> DEFINE n == Len(data)
  <2>6. n \in Nat /\ DOMAIN data = 1..n
    <3> HIDE DEF data
    <3> QED BY <2>1, LenProperties
  <2>7. /\ \A k \in DOMAIN topics : Compute(env, topics[k], NoMember) # Unrecorded
        /\ \A k \in DOMAIN data : Compute(env, data[k], NoMember) # Unrecorded
    BY <2>5 DEF ToSet
  <2>8. \A x, statement : Statement(statement, x).value = x
    BY DEF Statement
  <2>9. ASSUME NEW at, s \in TopicResults(e, i, env, at)
        PROVE  s.value # Unrecorded
    <3>1. PICK k \in DOMAIN topics :
            s = Statement(Check("topic", e.event, i, k),
                          Matching(Compute(env, topics[k], NoMember),
                                   IF k \in DOMAIN at.topics THEN at.topics[k] ELSE Absent))
      <4> HIDE DEF e
      <4> QED BY <2>9 DEF TopicResults
    <3>2. PICK x : s.value = Matching(Compute(env, topics[k], NoMember), x)
      BY <2>8, <3>1
    <3> QED BY <2>7, <3>2, UnrecordedIs DEF Matching
  <2>10. ASSUME NEW event, NEW at, s \in DataResults(event, e, i, env, at)
         PROVE  s.value # Unrecorded
    <3>1. (\E b : s.value = Flag(b)) \/ (~AllProduced(wanted) /\ s.value = Failure(wanted))
      <4>1. CASE AllProduced(wanted)
        <5>1. DataResults(event, e, i, env, at) =
                {Statement(Check("data", e.event, i, k),
                   Flag(IF HasItem(event.fields[k], k, at.payload)
                        THEN SameValue(wanted[k], ItemOf(event.fields[k], k, at.payload))
                        ELSE event.fields[k].optional)) : k \in Compared(event, e, at.payload)}
          BY <4>1 DEF DataResults
        <5> HIDE DEF wanted, e, data
        <5>2. PICK k \in Compared(event, e, at.payload) : s = Statement(Check("data", e.event, i, k),
                   Flag(IF HasItem(event.fields[k], k, at.payload)
                        THEN SameValue(wanted[k], ItemOf(event.fields[k], k, at.payload))
                        ELSE event.fields[k].optional))
          BY <2>10, <5>1
        <5> QED BY <2>8, <5>2
      <4>2. CASE ~AllProduced(wanted)
        <5>1. DataResults(event, e, i, env, at) = {Statement(Check("data", e.event, i, 0), Failure(wanted))}
          BY <4>2 DEF DataResults
        <5> HIDE DEF wanted
        <5> QED BY <2>8, <2>10, <4>2, <5>1
      <4> QED BY <4>1, <4>2
    <3>2. DOMAIN wanted = 1..n /\ \A k \in 1..n : wanted[k] # Unrecorded
      BY <2>6, <2>7
    <3> HIDE DEF wanted
    <3>3. ~AllProduced(wanted) => Failure(wanted) # Unrecorded
      BY <2>6, <3>2, FailureIs
    <3> QED BY <3>1, <3>3, UnrecordedIs
  <2>11. \/ \E b : s.value = Flag(b)
         \/ s.value = Failed("VectorError")
         \/ \E at : s \in TopicResults(e, i, env, at)
         \/ \E event, at : s \in DataResults(event, e, i, env, at)
    <3> HIDE DEF e
    <3>1. s \in RequiredEvent(p, e, i, env, observed)
      BY DEF e
    <3> DEFINE event   == Definition(p.events, e.event)
               at      == EventsNamed(observed, event.name)
               count   == {Statement(Check("cardinality", e.event, i, 0), Flag(InNumber(event, observed)))}
               none    == {Statement(Check("values", e.event, i, 0), Flag(FALSE))}
               said    == observed[CounterpartAt(at, i)]
               values  == IF i > Cardinality(at) THEN none
                          ELSE TopicResults(e, i, env, said) \cup DataResults(event, e, i, env, said)
               order   == {Statement(Check("ordering", e.event, i, 0),
                                     Flag(InOrder(event, Definition(p.events, other), observed))) :
                             other \in event.before \cap Ids(p.events)}
    <3>2. RequiredEvent(p, e, i, env, observed) =
            IF ~Defined(p.events, e.event)
            THEN {Statement(Check("required", e.event, i, 0), Failed("VectorError"))}
            ELSE count \cup values \cup order
      BY DEF RequiredEvent
    <3>3. \A x \in count \cup none : \E b : x.value = Flag(b)
      BY <2>8
    <3>4. \A x \in order : \E b : x.value = Flag(b)
      BY <2>8
    <3> HIDE DEF event, at, count, none, said, order
    <3>5. s \in values => \/ s \in none \/ s \in TopicResults(e, i, env, said)
                         \/ s \in DataResults(event, e, i, env, said)
      OBVIOUS
    <3> HIDE DEF values
    <3> QED BY <2>8, <3>1, <3>2, <3>3, <3>4, <3>5
  <2> QED BY <2>9, <2>10, <2>11, UnrecordedIs
<1>2. ASSUME NEW id
      PROVE  Silent(p, id, observed) # Unrecorded
  BY UnrecordedIs DEF Silent
<1>3. ASSUME NEW s \in EventResults(p, v, env, observed)
      PROVE  s.value # Unrecorded
  <2>1. \/ \E i \in DOMAIN v.required : s \in RequiredEvent(p, v.required[i], i, env, observed)
        \/ \E id \in v.forbidden : s = Statement(Check("forbidden", id, 0, 0), Silent(p, id, observed))
    BY DEF EventResults
  <2> QED BY <1>1, <1>2, <2>1 DEF Statement
<1> QED
  BY <1>3 DEF AllRead

(* A rule is decided by what was read if its conditions are. *)
LEMMA RulesAreRecorded ==
  ASSUME NEW r, NEW start, NEW end, NEW observed,
         \A q \in ToSet(r.preconditions) : Evaluate(start, q, NoMember) # Unrecorded,
         \A q \in ToSet(r.postconditions) : Evaluate(end, q, NoMember) # Unrecorded
  PROVE  AllRead(RuleResults(r, start, end, observed))
<1> DEFINE opened   == {Statement(q, Evaluate(start, q, NoMember)) : q \in ToSet(r.preconditions)}
           required == {Statement(q, Evaluate(end, q, NoMember)) : q \in ToSet(r.postconditions)}
           events   == RuleEventResults(profile, r, observed)
<1>1. \A x, statement : Statement(statement, x).value = x
  BY DEF Statement
<1>2. \A s \in opened \cup required : s.value # Unrecorded
  BY <1>1
<1>3. \A s \in events : s.value # Unrecorded
  <2>1. \A s \in events : \E b : s.value = Flag(b)
    BY <1>1 DEF RuleEventResults
  <2> HIDE DEF events
  <2> QED BY <2>1, UnrecordedIs
<1>4. RuleResults(r, start, end, observed) =
        IF ~Describes(r) THEN {} ELSE Applicable(opened, required \cup events)
  BY DEF RuleResults
<1> HIDE DEF opened, required, events
<1>5. Applicable(opened, required \cup events) \in SUBSET (opened \cup required \cup events)
  BY DEF Applicable
<1> QED
  BY <1>2, <1>3, <1>4, <1>5 DEF AllRead

(* An invariant is, if the sums, the members and the reads it is about are. *)
LEMMA InvariantsAreRecorded ==
  ASSUME NEW i, NEW start, NEW end, NEW env, i.kind \in Families,
         i.kind \in Predicated => i.predicate \in Seq(ToSet(i.predicate)) /\ i.predicate # <<>>,
         \A q \in ToSet(i.predicate) : \A member : member # Unrecorded => Evaluate(env, q, member) # Unrecorded,
         Members(WorldMembers(end, i.resource)),
         Aggregate(start, i.resource) # Unrecorded, Aggregate(end, i.resource) # Unrecorded,
         Accessor(profile, "balance") # "none" =>
           \A read \in DeclaredReads : /\ WorldRead(start, read[1], read[2]) # Unrecorded
                                       /\ WorldRead(end, read[1], read[2]) # Unrecorded
  PROVE  AllRead(InvariantResults(i, start, end, env))
<1> DEFINE all     == InvariantResults(i, start, end, env)
           members == WorldMembers(end, i.resource)
<1>1. \A x, statement : Statement(statement, x).value = x
  BY DEF Statement
<1>2. \A x, y, b : x # Unrecorded /\ y # Unrecorded => Provided(<<x, y>>, Flag(b)) # Unrecorded
  <2> SUFFICES ASSUME NEW x, NEW y, NEW b, x # Unrecorded, y # Unrecorded
               PROVE  Provided(<<x, y>>, Flag(b)) # Unrecorded
    OBVIOUS
  <2>1. <<x, y>> \in Seq({x, y}) /\ Unrecorded \notin {x, y}
    OBVIOUS
  <2> QED BY <2>1, ProvidedAmong, UnrecordedIs
<1>3. i.kind \in Predicated => i.predicate[1] \in ToSet(i.predicate)
  BY HeldByTail DEF ToSet
<1>4. \A s \in UnchangedResults(i, start, end) : s.value # Unrecorded
  <2>1. CASE Accessor(profile, "balance") = "none"
    <3>1. UnchangedResults(i, start, end) = {Statement(i, Failed("ProfileError"))}
      BY <2>1 DEF UnchangedResults
    <3> QED BY <1>1, <3>1, UnrecordedIs
  <2>2. CASE Accessor(profile, "balance") # "none"
    <3>1. UnchangedResults(i, start, end) =
            {Statement(i, Pair(start, end, read[1], read[2])) : read \in DeclaredReads}
      BY <2>2 DEF UnchangedResults
    <3>2. ASSUME NEW read \in DeclaredReads
          PROVE  Pair(start, end, read[1], read[2]) # Unrecorded
      <4>1. \E b : Pair(start, end, read[1], read[2]) =
              Provided(<<WorldRead(start, read[1], read[2]), WorldRead(end, read[1], read[2])>>, Flag(b))
        BY DEF Pair
      <4> QED BY <1>2, <2>2, <4>1
    <3> QED BY <1>1, <3>1, <3>2
  <2> QED BY <2>1, <2>2
<1>5. CASE i.kind \in {"conservation", "monotonic"}
  <2>1. all = {Statement(i, AggregateResult(i, start, end))}
    BY <1>5, Zenon DEF InvariantResults
  <2>2. \E b : AggregateResult(i, start, end) =
                 Provided(<<Aggregate(start, i.resource), Aggregate(end, i.resource)>>, Flag(b))
    BY DEF AggregateResult, Aggregates
  <2> HIDE DEF all
  <2>3. AggregateResult(i, start, end) # Unrecorded
    BY <1>2, <2>2
  <2>4. \A s \in all : s.value # Unrecorded
    BY <1>1, <2>1, <2>3
  <2> QED BY <2>4 DEF AllRead, all
<1>6. CASE i.kind = "bounds"
  <2>1. all = IF AllProduced(members)
              THEN {Statement(i, Evaluate(env, i.predicate[1], members[k])) : k \in DOMAIN members}
              ELSE {Statement(i, Failure(members))}
    BY <1>6, Zenon DEF InvariantResults
  <2>2. PICK n : Listing(members, n) /\ \A k \in 1..n : Answer(members[k])
    BY DEF Members
  <2> HIDE DEF all, members
  <2>3. n \in Nat /\ DOMAIN members = 1..n /\ \A k \in 1..n : members[k] # Unrecorded
    BY <2>2, UnrecordedIs DEF Listing, Answer
  <2>4. i.kind \in Predicated
    BY <1>6 DEF Predicated
  <2>5. \A k \in 1..n : Evaluate(env, i.predicate[1], members[k]) # Unrecorded
    BY <1>3, <2>3, <2>4
  <2>6. ~AllProduced(members) => Failure(members) # Unrecorded
    BY <2>3, FailureIs
  <2>7. \A s \in all : s.value # Unrecorded
    <3>1. CASE AllProduced(members)
      BY <1>1, <2>1, <2>3, <2>5, <3>1
    <3>2. CASE ~AllProduced(members)
      BY <1>1, <2>1, <2>6, <3>2
    <3> QED BY <3>1, <3>2
  <2> QED BY <2>7 DEF AllRead, all
<1>7. CASE i.kind = "predicate"
  <2>1. all = {Statement(i, Evaluate(env, i.predicate[1], NoMember))}
    BY <1>7, Zenon DEF InvariantResults
  <2> HIDE DEF all
  <2>2. i.kind \in Predicated /\ NoMember # Unrecorded
    BY <1>7 DEF Predicated, NoMember, Unrecorded, Value
  <2>3. \A s \in all : s.value # Unrecorded
    BY <1>1, <1>3, <2>1, <2>2
  <2> QED BY <2>3 DEF AllRead, all
<1>8. CASE i.kind = "state_unchanged"
  <2>1. all = UnchangedResults(i, start, end)
    BY <1>8, Zenon DEF InvariantResults
  <2> QED BY <1>4, <2>1 DEF AllRead
<1>9. CASE i.kind = "authorization_blocks_mutation"
  <2>1. all = IF outcome = "success" THEN {} ELSE UnchangedResults(i, start, end)
    BY <1>9, Zenon DEF InvariantResults
  <2> HIDE DEF all
  <2>2. \A s \in all : s.value # Unrecorded
    BY <1>4, <2>1
  <2> QED BY <2>2 DEF AllRead, all
<1> QED
  BY <1>5, <1>6, <1>7, <1>8, <1>9 DEF Families, Ranging, Predicated

---------------------------------------------------------------------------
(* A judgement of an admitted corpus. *)

(* Where no method has another's identifier for its name, the rules that govern are those the *)
(* reads were collected of.                                                                *)
LEMMA GoverningAre ==
  ASSUME NamesDoNotCross, disk \in Disks, Defined(profile.methods, vector.method)
  PROVE  Governing = BehaviorsFor(profile, vector.method)
<1> DEFINE methods == profile.methods
           byName  == {i \in DOMAIN methods : methods[i].name = vector.method}
<1>1. methods \in Seq(ToSet(methods))
  BY DocumentsAre DEF profile
<1>2. DOMAIN methods \in SUBSET Nat /\ \A i \in DOMAIN methods : methods[i] \in ToSet(methods)
  BY <1>1, LenProperties, ElementOfSeq
<1>3. PICK n \in ToSet(methods) : n.id = vector.method
  BY <1>2 DEF Defined, Ids
<1>4. MethodId(profile, vector.method) = IF byName = {} THEN vector.method ELSE methods[Min(byName)].id
  BY DEF MethodId
<1>5. byName \in SUBSET Nat
  BY <1>2
<1>6. \A i \in byName : methods[i].id = vector.method
  BY <1>2, <1>3 DEF NamesDoNotCross
<1> HIDE DEF byName
<1>7. MethodId(profile, vector.method) = vector.method
  BY <1>4, <1>5, <1>6, LeastExists
<1> QED
  BY <1>7 DEF Governing

(* What an invariant reads of the fixture is one of the two accessors the record is made by. *)
LEMMA DeclaredReadsAre ==
  ASSUME AccessorsKeepTheirNames, Accessor(profile, "balance") # "none",
         vector.balances \subseteq ActorNames(vector), NEW read \in DeclaredReads
  PROVE  \/ \E i \in DOMAIN vector.actors : read = <<"balance", <<Address(vector.actors[i])>>>>
         \/ \E i \in DOMAIN vector.allowances :
              read = <<"allowance", <<Address(vector.allowances[i].from), Address(vector.allowances[i].spender)>>>>
<1>1. Accessor(profile, "balance") = "balance" /\ Accessor(profile, "allowance") \in {"allowance", "none"}
  BY DEF AccessorsKeepTheirNames
<1>2. CASE \E a \in vector.balances : read = <<Accessor(profile, "balance"), <<Address(a)>>>>
  <2>1. PICK a \in vector.balances : read = <<"balance", <<Address(a)>>>>
    BY <1>1, <1>2
  <2>2. PICK i \in DOMAIN vector.actors : a = vector.actors[i]
    BY <2>1 DEF ActorNames, ToSet
  <2> QED BY <2>1, <2>2
<1>3. CASE /\ Accessor(profile, "allowance") # "none"
           /\ \E i \in DOMAIN vector.allowances :
                read = <<Accessor(profile, "allowance"),
                         <<Address(vector.allowances[i].from), Address(vector.allowances[i].spender)>>>>
  BY <1>1, <1>3
<1>4. \/ \E a \in vector.balances : read = <<Accessor(profile, "balance"), <<Address(a)>>>>
      \/ /\ Accessor(profile, "allowance") # "none"
         /\ \E i \in DOMAIN vector.allowances :
              read = <<Accessor(profile, "allowance"),
                       <<Address(vector.allowances[i].from), Address(vector.allowances[i].spender)>>>>
  BY DEF DeclaredReads
<1> QED
  BY <1>2, <1>3, <1>4

(* And the record, and the contract, answer it. *)
LEMMA DeclaredReadsAnswer ==
  ASSUME AccessorsKeepTheirNames, Accessor(profile, "balance") # "none",
         vector.balances \subseteq ActorNames(vector), Recordable(profile, vector), ReadsFormed(profile, vector),
         NEW c, NEW read \in DeclaredReads
  PROVE  /\ WorldRead(Capture(profile, vector, Past(c, vector)), read[1], read[2]) # Unrecorded
         /\ WorldRead(Past(c, vector), read[1], read[2]) # Unrecorded
<1> DEFINE live   == Past(c, vector)
           record == Capture(profile, vector, live)
<1>1. live.kind = "live"
  BY DEF Past, LiveWorld
<1>2. record.kind = "recorded"
  BY RecordIs
<1>3. /\ \A i \in DOMAIN vector.actors : Answer(RecordedRead(record, "balance", <<Address(vector.actors[i])>>))
      /\ \A i \in DOMAIN vector.allowances :
           Answer(RecordedRead(record, "allowance", <<Address(vector.allowances[i].from),
                                                      Address(vector.allowances[i].spender)>>))
  BY RecordIsOfAnswers
<1> HIDE DEF live, record
<1>4. \A method, x, y : LiveRead(live, method, <<x>>) # Unrecorded /\ LiveRead(live, method, <<x, y>>) # Unrecorded
  <2>1. \A x, y : DOMAIN <<x>> = 1..1 /\ DOMAIN <<x, y>> = 1..2
    OBVIOUS
  <2>2. 1 \in Nat /\ 2 \in Nat
    OBVIOUS
  <2> QED BY <2>1, <2>2, LiveReadIs, UnrecordedIs DEF Answer
<1>5. \A x : Answer(x) => x # Unrecorded
  BY UnrecordedIs DEF Answer
<1>6. CASE \E i \in DOMAIN vector.actors : read = <<"balance", <<Address(vector.actors[i])>>>>
  <2>1. PICK i \in DOMAIN vector.actors : read[1] = "balance" /\ read[2] = <<Address(vector.actors[i])>>
    BY <1>6
  <2> QED BY <1>1, <1>2, <1>3, <1>4, <1>5, <2>1 DEF WorldRead, live, record
<1>7. CASE \E i \in DOMAIN vector.allowances :
             read = <<"allowance", <<Address(vector.allowances[i].from), Address(vector.allowances[i].spender)>>>>
  <2>1. PICK i \in DOMAIN vector.allowances :
          /\ read[1] = "allowance"
          /\ read[2] = <<Address(vector.allowances[i].from), Address(vector.allowances[i].spender)>>
    BY <1>7
  <2> QED BY <1>1, <1>2, <1>3, <1>4, <1>5, <2>1 DEF WorldRead, live, record
<1> QED
  BY <1>6, <1>7, DeclaredReadsAre

\* The two worlds of a judgement, and what is known of the documents it is by.
Judges ==
  /\ disk \in Disks /\ Admissible(disk, vector) /\ WellReferenced(profile)
  /\ Recordable(profile, vector) /\ InFormat(profile, vector) /\ Known(vector.inputs)
  /\ vector.required \in Seq(ToSet(vector.required))
  /\ \A e \in ToSet(vector.required) : e.topics \in Seq(ToSet(e.topics)) /\ e.data \in Seq(ToSet(e.data))
  /\ opening \in Openings /\ before = Capture(profile, vector, Past(opening, vector))
  /\ DOMAIN vector.actors = 1..Len(vector.actors) /\ Distinct(vector.actors)
  /\ \E path \in DOMAIN disk.files : vector = disk.files[path]

(* They are known by the time a call is judged. *)
LEMMA JudgedBy ==
  ASSUME RecordInv, pc \in AfterRecording
  PROVE  Judges
<1>1. IntakeInv /\ Kept /\ pc \in Later
  BY DEF RecordInv, AfterRecording, Later
<1>2. /\ disk \in Disks /\ Admissible(disk, vector) /\ DocumentOf(disk, vector)
      /\ arguments = ArgumentsIn(disk, vector) /\ AllProduced(arguments)
      /\ WellReferenced(disk.profile)
  BY <1>1, TestedIs
<1>3. PICK path \in DOMAIN disk.files : vector = disk.files[path]
  BY <1>2 DEF DocumentOf
<1>4. InFormat(profile, vector)
  BY <1>2, <1>3, FormatAssumption DEF profile
<1>5. Known(vector.inputs)
  BY <1>2, InputsAreKnown
<1>6. vector.required \in Seq(ToSet(vector.required))
      /\ \A e \in ToSet(vector.required) : e.data \in Seq(ToSet(e.data))
  BY <1>2, <1>3, DocumentsAre
<1>7. \A e \in ToSet(vector.required) : e.topics \in Seq(ToSet(e.topics))
  BY <1>4 DEF InFormat
<1>8. Recordable(profile, vector)
      /\ \A i, j \in DOMAIN vector.actors : vector.actors[i] = vector.actors[j] => i = j
  BY <1>1, RecordedIsRecordable
<1>9. DOMAIN vector.actors = 1..Len(vector.actors) /\ Distinct(vector.actors)
  BY <1>8, LenProperties DEF Recordable, Distinct
<1>10. before = Capture(profile, vector, Past(opening, vector)) /\ opening \in Openings
  BY <1>1 DEF Kept, profile
<1> QED
  BY <1>2, <1>3, <1>4, <1>5, <1>6, <1>7, <1>8, <1>9, <1>10 DEF Judges, profile

(* Both sides of a judgement are equipped for everything it asks. *)
LEMMA JudgesAreEquipped ==
  ASSUME Judges, ArgumentsAreKnown
  PROVE  /\ Equipped(profile, vector, Environment(before, LiveNow(vector)))
         /\ Equipped(profile, vector, Environment(before, before))
<1> DEFINE live == LiveNow(vector)
           env  == Environment(before, live)
           env0 == Environment(before, before)
<1>1. live = Past(contract, vector)
  BY DEF LiveNow, Past
<1>2. before = Capture(profile, vector, Past(opening, vector))
  BY DEF Judges
<1>3. \A r \in Collected(profile, vector) : Resolvable(r, vector)
  BY DEF ArgumentsAreKnown
<1>4. Recordable(profile, vector) /\ InFormat(profile, vector)
  BY DEF Judges
<1>5. Answering(profile, vector, live) /\ Answering(profile, vector, before)
  BY <1>1, <1>2, <1>3, <1>4, WorldsAnswer
<1> HIDE DEF live
<1>6. /\ env.inputs = vector.inputs /\ env.after = live
      /\ AgainstBefore(env).inputs = vector.inputs /\ AgainstBefore(env).after = before
      /\ env0.inputs = vector.inputs /\ env0.after = before
      /\ AgainstBefore(env0).inputs = vector.inputs /\ AgainstBefore(env0).after = before
  BY DEF Environment, AgainstBefore
<1> HIDE DEF env, env0
<1>7. Equipped(profile, vector, env) /\ Equipped(profile, vector, env0)
  BY <1>5, <1>6 DEF Equipped
<1> QED
  BY <1>7 DEF live, env, env0

(* Whatever is judged is decided by what was read. *)
LEMMA ResultsAreRecorded ==
  ASSUME Judges, NamesDoNotCross, AccessorsKeepTheirNames, ArgumentsAreKnown, NEW observed
  PROVE  AllRead(Results(before, LiveNow(vector), observed))
<1> DEFINE live == LiveNow(vector)
           env  == Environment(before, live)
           env0 == Environment(before, before)
<1>1. /\ \A q \in Requiring(profile, vector) : \A member : member # Unrecorded => Evaluate(env, q, member) # Unrecorded
      /\ \A e \in Judging(profile, vector) : Compute(env, e, NoMember) # Unrecorded
      /\ \A q \in Requiring(profile, vector) : Evaluate(env0, q, NoMember) # Unrecorded
  <2>1. Equipped(profile, vector, env) /\ Equipped(profile, vector, env0)
    BY JudgesAreEquipped
  <2>2. NoMember # Unrecorded
    BY DEF NoMember, Unrecorded, Value
  <2>3. InFormat(profile, vector) /\ Known(vector.inputs)
    BY DEF Judges
  <2> HIDE DEF env, env0, live
  <2>4. \A q \in Requiring(profile, vector) : \A member : member # Unrecorded => Evaluate(env, q, member) # Unrecorded
    BY <2>1, <2>3, JudgementIsRecorded
  <2>5. \A e \in Judging(profile, vector) : Compute(env, e, NoMember) # Unrecorded
    BY <2>1, <2>2, <2>3, JudgementIsRecorded
  <2>6. \A q \in Requiring(profile, vector) : Evaluate(env0, q, NoMember) # Unrecorded
    BY <2>1, <2>2, <2>3, JudgementIsRecorded
  <2> QED BY <2>4, <2>5, <2>6
<1>2. live = Past(contract, vector) /\ before = Capture(profile, vector, Past(opening, vector))
  BY DEF Judges, LiveNow, Past
<1>3. Stated(vector) \in SUBSET Judging(profile, vector)
  BY DEF Judging
<1>4. Governing = BehaviorsFor(profile, vector.method)
  <2>1. disk \in Disks /\ Defined(profile.methods, vector.method)
    BY DEF Judges, Admissible, profile
  <2> QED BY <2>1, GoverningAre
<1> HIDE DEF live, env, env0
<1>5. ASSUME NEW r \in Governing
      PROVE  AllRead(RuleResults(r, env0, env, observed))
  <2>1. ToSet(r.preconditions) \in SUBSET Requiring(profile, vector)
        /\ ToSet(r.postconditions) \in SUBSET Requiring(profile, vector)
    BY <1>4 DEF Requiring
  <2> QED BY <1>1, <2>1, RulesAreRecorded, UnrecordedIs DEF NoMember, Unrecorded, Value
<1>6. AllRead(EventResults(profile, vector, env, observed))
  <2>1. /\ vector.required \in Seq(ToSet(vector.required))
        /\ \A e \in ToSet(vector.required) : e.topics \in Seq(ToSet(e.topics)) /\ e.data \in Seq(ToSet(e.data))
    BY DEF Judges
  <2> QED BY <1>1, <1>3, <2>1, EventsAreRecorded
<1>7. ASSUME NEW i \in Chosen
      PROVE  AllRead(InvariantResults(i, before, live, env))
  <2>1. i \in ToSet(profile.invariants)
    BY DEF Chosen, InvariantsFor
  <2>2. i.kind \in Families /\ i.predicate \in Seq(ToSet(i.predicate))
    BY <2>1 DEF Judges, InFormat
  <2>3. i.kind \in Predicated => i.predicate # <<>>
    BY <2>1 DEF Judges, WellReferenced
  <2>4. ToSet(i.predicate) \in SUBSET Requiring(profile, vector)
    BY <2>1 DEF Requiring
  <2>5. ReadsFormed(profile, vector) /\ Recordable(profile, vector) /\ vector.balances \subseteq ActorNames(vector)
    BY JudgingIs DEF Judges, Admissible
  <2>6. /\ Members(WorldMembers(live, i.resource)) /\ Aggregate(live, i.resource) # Unrecorded
        /\ Aggregate(before, i.resource) # Unrecorded
    <3>2. Members(WorldMembers(live, i.resource))
      BY <1>2, <2>5, LiveMembersAre
    <3>3. Members(WorldMembers(before, i.resource))
      BY <1>2, <2>5, RecordedMembersAre
    <3> QED BY <3>2, <3>3, AggregateIs
  <2>7. Accessor(profile, "balance") # "none" =>
          \A read \in DeclaredReads : /\ WorldRead(before, read[1], read[2]) # Unrecorded
                                      /\ WorldRead(live, read[1], read[2]) # Unrecorded
    <3> SUFFICES ASSUME Accessor(profile, "balance") # "none", NEW read \in DeclaredReads
                 PROVE  /\ WorldRead(before, read[1], read[2]) # Unrecorded
                        /\ WorldRead(live, read[1], read[2]) # Unrecorded
      OBVIOUS
    <3>1. \A c : /\ WorldRead(Capture(profile, vector, Past(c, vector)), read[1], read[2]) # Unrecorded
                 /\ WorldRead(Past(c, vector), read[1], read[2]) # Unrecorded
      BY <2>5, DeclaredReadsAnswer
    <3> QED BY <1>2, <3>1
  <2>8. \A q \in ToSet(i.predicate) : \A member : member # Unrecorded => Evaluate(env, q, member) # Unrecorded
    BY <1>1, <2>4
  <2> QED BY <2>2, <2>3, <2>6, <2>7, <2>8, InvariantsAreRecorded
<1>8. \A q \in vector.state \cup vector.assertions : Evaluate(env, q, NoMember) # Unrecorded
  BY <1>1 DEF Requiring, NoMember, Unrecorded, Value
<1>9. ASSUME NEW s \in Results(before, live, observed)
      PROVE  s.value # Unrecorded
  <2>1. \/ \E r \in Governing : s \in RuleResults(r, env0, env, observed)
        \/ s \in EventResults(profile, vector, env, observed)
        \/ \E q \in vector.state \cup vector.assertions : s = Statement(q, Evaluate(env, q, NoMember))
        \/ \E i \in Chosen : s \in InvariantResults(i, before, live, env)
    BY DEF Results, env, env0
  <2>2. \A q, x : Statement(q, x).value = x
    BY DEF Statement
  <2> QED BY <1>5, <1>6, <1>7, <1>8, <2>1, <2>2 DEF AllRead
<1> QED
  BY <1>9 DEF AllRead, live

---------------------------------------------------------------------------
(* Nothing that is asked is unread. *)

(* A call is judged in one step, of the requirements and of nothing else, and what was judged *)
(* stays.                                                                                      *)
LEMMA JudgedAtOnce ==
  ASSUME IntakeInv, [Next]_vars, pc' = "judged"
  PROVE  \/ pc = "judged" /\ UNCHANGED vars
         \/ /\ pc = "judge" /\ results' \subseteq Results(before, LiveNow(vector), Observed)
            /\ UNCHANGED <<disk, walk, corpus, failure, vector, arguments, passed, contract, before,
                           outcome, emitted, opening>>
<1>1. CASE Loading
  <2>1. Refused(Refusals) \/ GoesOn({"corpus", "walk", "read", "admitted"})
    BY <1>1, LoadDoes DEF Loading, IntakeInv, LoadMoves
  <2>2. pc' \in {"failed", "corpus", "walk", "read", "admitted"}
    BY <2>1 DEF Refused, GoesOn
  <2> QED BY <2>2
<1>2. ASSUME NEW i \in DOMAIN vectors, Take(i)
      PROVE  FALSE
  BY <1>2 DEF Take, Proceed, Fail
<1>3. ASSUME NEW c \in Openings, Record(c)
      PROVE  FALSE
  BY <1>3 DEF Record
<1>4. CASE Convert
  BY <1>4 DEF Convert, Proceed, Fail
<1>5. CASE Invoke
  BY <1>5 DEF Invoke, CallReturns
<1>6. CASE Judge
  BY <1>6 DEF Judge, Conclude
<1>7. CASE UNCHANGED vars
  BY <1>7 DEF vars, loader
<1> QED
  BY <1>1, <1>2, <1>3, <1>4, <1>5, <1>6, <1>7 DEF Next

(* No requirement is left undecided because nobody had read the state it compares with:       *)
(* where the rules, the accessors and the arguments are as they are named, the list the        *)
(* record is made by has everything the evaluation asks (engine/record.rs capture; eval.rs,    *)
(* behavior.rs, state.rs, invariants.rs).                                                      *)
THEOREM NothingAskedIsUnread == Spec => []WhatIsAskedWasRecorded
<1> DEFINE Inv == RecordInv /\ WhatIsAskedWasRecorded
<1>1. Init => WhatIsAskedWasRecorded
  BY DEF Init, LoadInit, WhatIsAskedWasRecorded, Judged
<1>2. ASSUME RecordInv, WhatIsAskedWasRecorded, [Next]_vars
      PROVE  WhatIsAskedWasRecorded'
  <2> SUFFICES ASSUME pc' = "judged", NamesDoNotCross', AccessorsKeepTheirNames', ArgumentsAreKnown',
                      NEW s \in results'
               PROVE  s.value # Unrecorded
    BY DEF WhatIsAskedWasRecorded, Judged
  <2>1. \/ pc = "judged" /\ UNCHANGED vars
        \/ /\ pc = "judge" /\ results' \subseteq Results(before, LiveNow(vector), Observed)
           /\ UNCHANGED <<disk, walk, corpus, failure, vector, arguments, passed, contract, before,
                          outcome, emitted, opening>>
    BY <1>2, JudgedAtOnce DEF RecordInv
  <2>2. disk' = disk /\ vector' = vector
    BY <2>1 DEF vars, loader, execution
  <2>3. NamesDoNotCross
    BY <2>2 DEF NamesDoNotCross, profile
  <2>4. AccessorsKeepTheirNames
    BY <2>2 DEF AccessorsKeepTheirNames, profile
  <2>5. ArgumentsAreKnown
    BY <2>2 DEF ArgumentsAreKnown, profile
  <2>6. CASE pc = "judged" /\ UNCHANGED vars
    <3>1. results' = results
      BY <2>6 DEF vars, execution
    <3> QED BY <1>2, <2>3, <2>4, <2>5, <2>6, <3>1 DEF WhatIsAskedWasRecorded, Judged
  <2>7. CASE pc = "judge" /\ results' \subseteq Results(before, LiveNow(vector), Observed)
    <3>1. Judges
      BY <1>2, <2>7, JudgedBy DEF AfterRecording
    <3>2. AllRead(Results(before, LiveNow(vector), Observed))
      BY <2>3, <2>4, <2>5, <3>1, ResultsAreRecorded
    <3> QED BY <2>7, <3>2 DEF AllRead
  <2> QED BY <2>1, <2>6, <2>7
<1>3. Init => RecordInv
  BY IntakeStarts, KeptThroughout DEF RecordInv
<1>4. RecordInv /\ [Next]_vars => RecordInv'
  BY IntakeKeeps, KeptThroughout DEF RecordInv
<1> QED
  BY <1>1, <1>2, <1>3, <1>4, PTL DEF Spec

---------------------------------------------------------------------------
(* What a call that moved nothing is judged by. *)

\* What the record makes of an expression is what the contract does, unless it makes nothing.
Concurs(x, y) == HasFailed(x) \/ (x = y /\ IsValue(y))

\* Two worlds of which the first answers what it does as the second.
Echoes(one, other) ==
  \A method, args : (\E n \in Nat : DOMAIN args = 1..n) =>
    Concurs(WorldRead(one, method, args), WorldRead(other, method, args))

\* Two environments of the vector that differ in the world after the call only.
Alike(one, other, inputs) ==
  /\ one.inputs = inputs /\ other.inputs = inputs
  /\ one.sequence = other.sequence /\ other.sequence \in Nat /\ Echoes(one.after, other.after)
  /\ \A resource : Concurs(Aggregate(one.after, resource), Aggregate(other.after, resource))
  /\ \A from, spender : Concurs(AllowanceExpiry(one.after, from, spender), AllowanceExpiry(other.after, from, spender))

(* Whatever step is taken, the two computations agree if those it is made from do. *)
LEMMA StepAgrees ==
  ASSUME NEW one, NEW other, NEW inputs, Alike(one, other, inputs), NEW S, Closed(inputs, S), NEW e \in S,
         NEW then, NEW now, \A x \in S : Concurs(then[x], now[x])
  PROVE  Concurs(Computed(one, e, NoMember, then), Computed(other, e, NoMember, now))
<1> DEFINE args   == ArgumentsOf(e, then)
           again  == ArgumentsOf(e, now)
           source == then[Source(one, e)]
           copy   == now[Source(other, e)]
           value  == Applied(one, e, args, source, NoMember)
           answer == Applied(other, e, again, copy, NoMember)
<1>0. /\ one.inputs = inputs /\ other.inputs = inputs
      /\ one.sequence = other.sequence /\ other.sequence \in Nat /\ Echoes(one.after, other.after)
      /\ \A resource : Concurs(Aggregate(one.after, resource), Aggregate(other.after, resource))
      /\ \A from, spender : Concurs(AllowanceExpiry(one.after, from, spender), AllowanceExpiry(other.after, from, spender))
  BY DEF Alike
<1>1. IsExpression(e) /\ Parts(e) \in SUBSET S /\ \A name \in DOMAIN inputs : inputs[name] \in S
  BY DEF Closed
<1>2. SUFFICES ASSUME ~HasFailed(Computed(one, e, NoMember, then))
               PROVE  Concurs(Computed(one, e, NoMember, then), Computed(other, e, NoMember, now))
  BY DEF Concurs
<1>3. ComputedFrom(one, e, NoMember, then, args) /\ ComputedFrom(other, e, NoMember, now, again)
  BY <1>1, ComputedIs
<1>4. AllProduced(args) /\ Computed(one, e, NoMember, then) = value
  <2> HIDE DEF args
  <2> QED BY <1>2, <1>3 DEF ComputedFrom
<1>5. /\ \E n : Listing(args, n) /\ args \in Seq({then[y] : y \in Parts(e)})
      /\ \A i \in DOMAIN args : e.args[i] \in Parts(e) /\ args[i] = then[e.args[i]]
  <2> HIDE DEF args
  <2> QED BY <1>3 DEF ComputedFrom
<1>6. \A i \in DOMAIN args : args[i] = now[e.args[i]] /\ IsValue(args[i])
  <2> SUFFICES ASSUME NEW i \in DOMAIN args
               PROVE  args[i] = now[e.args[i]] /\ IsValue(args[i])
    OBVIOUS
  <2> HIDE DEF args
  <2>1. e.args[i] \in S /\ args[i] = then[e.args[i]] /\ ~HasFailed(args[i])
    BY <1>1, <1>4, <1>5 DEF AllProduced
  <2> QED BY <2>1 DEF Concurs
<1>7. again = args
  <2>1. CASE "args" \in DOMAIN e
    <3>1. args = [i \in DOMAIN e.args |-> then[e.args[i]]] /\ again = [i \in DOMAIN e.args |-> now[e.args[i]]]
      BY <2>1 DEF ArgumentsOf
    <3>2. \A i \in DOMAIN e.args : then[e.args[i]] = now[e.args[i]]
      <4> HIDE DEF again
      <4>1. \A i \in DOMAIN e.args : i \in DOMAIN args /\ args[i] = then[e.args[i]]
        BY <3>1
      <4> QED BY <1>6, <4>1
    <3> QED BY <3>1, <3>2
  <2>2. CASE "args" \notin DOMAIN e
    BY <2>2 DEF ArgumentsOf
  <2> QED BY <2>1, <2>2
<1>8. Computed(other, e, NoMember, now) = answer
  <2>1. \/ AllProduced(again) /\ Computed(other, e, NoMember, now) = answer
        \/ ~AllProduced(again)
    <3> HIDE DEF again
    <3>1. \/ AllProduced(again) /\ Computed(other, e, NoMember, now) = answer
          \/ /\ HasFailed(Computed(other, e, NoMember, now))
             /\ \E i \in DOMAIN again : Computed(other, e, NoMember, now) = again[i]
      BY <1>3 DEF ComputedFrom
    <3> QED BY <3>1 DEF AllProduced
  <2> HIDE DEF args, again
  <2> QED BY <1>4, <1>7, <2>1
<1> HIDE DEF args, again
<1>9. SUFFICES ASSUME ~HasFailed(value)
               PROVE  answer = value /\ IsValue(value)
  BY <1>2, <1>4, <1>8 DEF Concurs
<1>10. /\ e.kind \in {"literal", "actor", "input", "read", "sum", "field", "ledger_sequence",
                      "allowance_expiry", "resource_member", "arithmetic"}
       /\ e.kind = "literal" => IsValue(e.literal)
       /\ e.kind = "actor" => e.actor \in Int
  BY <1>1 DEF IsExpression
<1>11. Source(other, e) = Source(one, e)
  BY <1>0 DEF Source
<1>12. Source(one, e) \in S => Concurs(source, copy)
  BY <1>11
<1> HIDE DEF source, copy
<1>13. CASE e.kind = "literal"
  BY <1>10, <1>13, AppliedIs
<1>14. CASE e.kind = "actor"
  BY <1>10, <1>14, AppliedIs, StatedValues
<1>15. CASE e.kind = "input"
  <2>1. e.name \in DOMAIN inputs => Concurs(source, copy)
    BY <1>0, <1>1, <1>12, <1>15 DEF Source
  <2>2. /\ value = IF e.name \in DOMAIN inputs THEN source ELSE Failed("VectorError")
        /\ answer = IF e.name \in DOMAIN inputs THEN copy ELSE Failed("VectorError")
    BY <1>0, <1>15, AppliedIs
  <2>3. HasFailed(Failed("VectorError"))
    BY DEF HasFailed, Failed, Value
  <2> HIDE DEF value, answer
  <2> QED BY <1>9, <2>1, <2>2, <2>3 DEF Concurs
<1>16. CASE e.kind = "read"
  <2>1. value = WorldRead(one.after, e.method, args) /\ answer = WorldRead(other.after, e.method, again)
    BY <1>16, AppliedIs
  <2>2. Concurs(WorldRead(one.after, e.method, args), WorldRead(other.after, e.method, args))
    <3>1. \E n \in Nat : DOMAIN args = 1..n
      BY <1>5 DEF Listing
    <3> QED BY <1>0, <3>1 DEF Echoes
  <2> HIDE DEF value, answer
  <2> QED BY <1>7, <1>9, <2>1, <2>2 DEF Concurs
<1>17. CASE e.kind = "sum"
  <2>1. value = Aggregate(one.after, e.over) /\ answer = Aggregate(other.after, e.over)
    BY <1>17, AppliedIs
  <2> HIDE DEF value, answer
  <2> QED BY <1>0, <1>9, <2>1 DEF Concurs
<1>18. CASE e.kind = "field"
  <2>1. e.of \in Parts(e)
    BY <1>18 DEF Parts
  <2>2. Concurs(source, copy)
    BY <1>1, <1>12, <1>18, <2>1 DEF Source
  <2>3. /\ value = IF HasFailed(source) THEN source
                   ELSE IF source.type = "record" /\ source.form = e.field THEN Number(source.n)
                   ELSE Failed("ExecutionError")
        /\ answer = IF HasFailed(copy) THEN copy
                    ELSE IF copy.type = "record" /\ copy.form = e.field THEN Number(copy.n)
                    ELSE Failed("ExecutionError")
    BY <1>18, AppliedIs
  <2>4. HasFailed(Failed("ExecutionError"))
    BY DEF HasFailed, Failed, Value
  <2> HIDE DEF value, answer
  <2>5. ~HasFailed(source) /\ value = Number(source.n)
    BY <1>9, <2>3, <2>4
  <2>6. copy = source /\ source.n \in Int
    BY <2>2, <2>5 DEF Concurs, IsValue
  <2> QED BY <2>3, <2>5, <2>6, StatedValues
<1>19. CASE e.kind = "ledger_sequence"
  BY <1>0, <1>19, AppliedIs, StatedValues
<1>20. CASE e.kind = "allowance_expiry"
  <2>1. /\ value = IF args[1].type = "address" /\ args[2].type = "address"
                   THEN AllowanceExpiry(one.after, args[1].n, args[2].n) ELSE Failed("ExecutionError")
        /\ answer = IF again[1].type = "address" /\ again[2].type = "address"
                    THEN AllowanceExpiry(other.after, again[1].n, again[2].n) ELSE Failed("ExecutionError")
    BY <1>20, AppliedIs
  <2>2. HasFailed(Failed("ExecutionError"))
    BY DEF HasFailed, Failed, Value
  <2> HIDE DEF value, answer
  <2> QED BY <1>0, <1>7, <1>9, <2>1, <2>2 DEF Concurs
<1>21. CASE e.kind = "resource_member"
  <2>1. value = Failed("VectorError")
    BY <1>21, AppliedIs
  <2>2. HasFailed(Failed("VectorError"))
    BY DEF HasFailed, Failed, Value
  <2> HIDE DEF value, answer
  <2> QED BY <1>9, <2>1, <2>2
<1>22. CASE e.kind = "arithmetic"
  <2>1. value = ApplyArithmetic(e.op, args) /\ answer = ApplyArithmetic(e.op, again)
    BY <1>22, AppliedIs
  <2>2. PICK n : Listing(args, n) /\ args \in Seq({then[y] : y \in Parts(e)})
    BY <1>5
  <2>3. \A i \in 1..n : args[i].n \in Int
    BY <1>6, <2>2 DEF Listing, IsValue
  <2> HIDE DEF value, answer
  <2>4. HasFailed(ApplyArithmetic(e.op, args)) \/ IsValue(ApplyArithmetic(e.op, args))
    BY <2>2, <2>3, ArithmeticIs
  <2> QED BY <1>7, <1>9, <2>1, <2>4
<1> QED
  BY <1>10, <1>13, <1>14, <1>15, <1>16, <1>17, <1>18, <1>19, <1>20, <1>21, <1>22

(* What is evaluated is of the format, and so is all it is computed from. *)
LEMMA TermsAre ==
  ASSUME NEW p, NEW v, InFormat(p, v)
  PROVE  /\ \A q \in Predicates(p, v) : Composes(q) /\ OperandsOf(q) \in SUBSET Terms(p, v)
         /\ \A e \in Terms(p, v) : \A env : env.inputs = v.inputs => Closed(v.inputs, Concerned(env, e)) /\ e \in Concerned(env, e)
<1>1. /\ \A e \in Terms(p, v) : WellFormed(e)
      /\ \A q \in Predicates(p, v) : Composes(q)
  BY DEF InFormat, WellFormed, Composes
<1>2. \A q \in Predicates(p, v) : OperandsOf(q) \in SUBSET Terms(p, v)
  BY DEF Terms
<1>3. \A name \in DOMAIN v.inputs : v.inputs[name] \in Terms(p, v)
  BY DEF Terms
<1>4. ASSUME NEW e \in Terms(p, v), NEW env, env.inputs = v.inputs
      PROVE  Closed(v.inputs, Concerned(env, e)) /\ e \in Concerned(env, e)
  <2> DEFINE S == Concerned(env, e)
  <2>1. S = Within(e) \cup UNION {Within(v.inputs[name]) : name \in DOMAIN v.inputs}
    BY <1>4 DEF Concerned
  <2> HIDE DEF S
  <2>2. e \in S /\ \A name \in DOMAIN v.inputs : v.inputs[name] \in S
    BY <2>1, WithinItself
  <2>3. \A x \in Within(e) : IsExpression(x) /\ Parts(x) \in SUBSET S
    BY <1>1, <2>1 DEF WellFormed
  <2>4. \A name \in DOMAIN v.inputs : \A x \in Within(v.inputs[name]) : IsExpression(x) /\ Parts(x) \in SUBSET S
    BY <1>1, <1>3, <2>1 DEF WellFormed
  <2>5. Closed(v.inputs, S)
    BY <2>1, <2>2, <2>3, <2>4 DEF Closed
  <2> QED BY <2>2, <2>5 DEF S
<1> QED
  BY <1>1, <1>2, <1>4

(* What is computed is the same in both, where the first comes to anything. *)
LEMMA ComputesAlike ==
  ASSUME NEW p, NEW v, InFormat(p, v), NEW expr \in Terms(p, v), NEW one, NEW other, Alike(one, other, v.inputs)
  PROVE  Concurs(Compute(one, expr, NoMember), Compute(other, expr, NoMember))
<1> DEFINE n == MaxResolutionDepth + 1
           inputs == v.inputs
           S == Concerned(one, expr)
<1>1. n \in Nat
  BY DepthAssumption
<1>2. one.inputs = inputs /\ other.inputs = inputs
  BY DEF Alike
<1>3. Concerned(other, expr) = S
  BY <1>2 DEF Concerned
<1>4. expr \in S /\ Closed(inputs, S)
  BY <1>2, TermsAre
<1>5. PICK w : Working(w, one, S, NoMember, n) /\ Compute(one, expr, NoMember) = w[n][expr]
  BY ComputeIs
<1>6. PICK u : Working(u, other, S, NoMember, n) /\ Compute(other, expr, NoMember) = u[n][expr]
  <2>1. \E h : /\ Working(h, other, Concerned(other, expr), NoMember, MaxResolutionDepth + 1)
               /\ Compute(other, expr, NoMember) = h[MaxResolutionDepth + 1][expr]
    BY ComputeIs
  <2> HIDE DEF S
  <2> QED BY <1>3, <2>1
<1> HIDE DEF n, S
<1> DEFINE P == {k \in Nat : k <= n => \A e \in S : Concurs(w[k][e], u[k][e])}
<1>7. 0 \in P
  <2>1. \A e \in S : w[0][e] = Failed("VectorError")
    BY <1>4, <1>5 DEF Working
  <2> QED BY <2>1 DEF Concurs, HasFailed, Failed, Value
<1>8. ASSUME NEW k \in P
      PROVE  k + 1 \in P
  <2> SUFFICES ASSUME k + 1 <= n, NEW e \in S
               PROVE  Concurs(w[k + 1][e], u[k + 1][e])
    OBVIOUS
  <2>1. k \in Nat /\ k <= n /\ k \in 0..n /\ k + 1 \in 1..n /\ (k + 1) - 1 = k
    BY <1>1
  <2> DEFINE then == w[k]
             now  == u[k]
  <2>2. \A x \in S : Concurs(then[x], now[x])
    BY <2>1
  <2>3. w[k + 1][e] = Computed(one, e, NoMember, then)
    <3>1. w[k + 1] = [x \in S |-> Computed(one, x, NoMember, w[(k + 1) - 1])]
      BY <1>5, <2>1 DEF Working
    <3> QED BY <2>1, <3>1
  <2>4. u[k + 1][e] = Computed(other, e, NoMember, now)
    <3>1. u[k + 1] = [x \in S |-> Computed(other, x, NoMember, u[(k + 1) - 1])]
      BY <1>6, <2>1 DEF Working
    <3> QED BY <2>1, <3>1
  <2> HIDE DEF then, now
  <2>5. Concurs(Computed(one, e, NoMember, then), Computed(other, e, NoMember, now))
    BY <1>4, <2>2, StepAgrees
  <2> QED BY <2>3, <2>4, <2>5
<1>9. n \in P
  <2>1. P \in SUBSET Nat
    OBVIOUS
  <2> HIDE DEF P
  <2> QED BY <1>1, <1>7, <1>8, <2>1, Reaches
<1> QED
  BY <1>1, <1>4, <1>5, <1>6, <1>9

(* The record, where nothing was granted twice and nobody else was read of, is an echo of the  *)
(* contract it was taken of.                                                                *)
LEMMA TheRecordEchoes ==
  ASSUME NEW p, NEW v, Recordable(p, v), InFormat(p, v), DeclaredApart(p, v),
         \A r \in Collected(p, v) : Resolvable(r, v), NEW c, Amounts(c, ToSet(v.actors))
  PROVE  /\ Echoes(Capture(p, v, Past(c, v)), Past(c, v))
         /\ \A resource : Concurs(Aggregate(Capture(p, v, Past(c, v)), resource), Aggregate(Past(c, v), resource))
<1> DEFINE live   == Past(c, v)
           record == Capture(p, v, live)
<1>1. ReadsFormed(p, v)
  BY JudgingIs
<1>2. live.kind = "live" /\ live.contract = c /\ live.actors = v.actors
  BY DEF Past, LiveWorld
<1>3. record.kind = "recorded"
  BY RecordIs
<1>4. \A resource : Concurs(Aggregate(record, resource), Aggregate(live, resource))
  <2> SUFFICES ASSUME NEW resource
               PROVE  Concurs(Aggregate(record, resource), Aggregate(live, resource))
    OBVIOUS
  <2>1. \/ HasFailed(Aggregate(record, resource))
        \/ /\ Aggregate(record, resource) = Aggregate(live, resource)
           /\ \E amount \in AmountType : Aggregate(record, resource) = Number(amount)
    BY <1>1, AggregatesAgree
  <2> HIDE DEF record, live
  <2>2. AmountType \in SUBSET Int
    BY AmountTypeAssumption DEF AmountType
  <2> QED BY <2>1, <2>2, StatedValues DEF Concurs
<1>5. \A method, args : (\E n \in Nat : DOMAIN args = 1..n) =>
        Concurs(WorldRead(record, method, args), WorldRead(live, method, args))
  <2> SUFFICES ASSUME NEW method, NEW args, NEW n \in Nat, DOMAIN args = 1..n
               PROVE  Concurs(WorldRead(record, method, args), WorldRead(live, method, args))
    OBVIOUS
  <2>1. RecordedRead(record, method, args) = Unrecorded \/ RecordedRead(record, method, args) = LiveRead(live, method, args)
    BY RecordIsOfThen
  <2> HIDE DEF record, live
  <2>2. HasFailed(LiveRead(live, method, args)) \/ IsValue(LiveRead(live, method, args))
    <3>1. Amounts(live.contract, ToSet(live.actors))
      BY <1>2
    <3> QED BY <3>1, LiveReadMeans
  <2>3. Concurs(RecordedRead(record, method, args), LiveRead(live, method, args))
    BY <2>1, <2>2, UnrecordedIs DEF Concurs
  <2> QED BY <1>2, <1>3, <2>3 DEF WorldRead
<1> QED
  BY <1>4, <1>5 DEF Echoes

---------------------------------------------------------------------------
(* What stands still. *)

(* A value is what it is: on any scale but those of records and sequences. *)
LEMMA SameAsItself ==
  ASSUME NEW x, IsValue(x), x.type \notin {"record", "sequence"}
  PROVE  SameValue(x, x)
<1>1. /\ x.type \in {"integer", "bool", "text", "address", "absent"} /\ x.n \in Int
      /\ x.type = "absent" => x = Absent
  BY DEF IsValue, DocumentTypes
<1>2. FromOrdering(x.n, x.n) = "equal"
  <2>1. ~(x.n < x.n) /\ ~(x.n > x.n)
    BY <1>1
  <2> QED BY <2>1, Zenon DEF FromOrdering
<1>3. IsTextual(x) => CompareText(x, x) = "equal"
  BY <1>2 DEF CompareText
<1>4. CASE IsQuantity(x)
  <2>1. ~(IsFlag(x)) /\ x # Absent
    BY <1>4 DEF IsQuantity, AsInteger, IsFlag, AsBool, Absent, Value
  <2> QED BY <1>2, <1>4, <2>1, Zenon DEF SameValue, Compare
<1>5. CASE IsFlag(x)
  <2>1. ~(IsQuantity(x)) /\ x # Absent
    BY <1>5 DEF IsQuantity, AsInteger, IsFlag, AsBool, Absent, Value
  <2> QED BY <1>2, <1>5, <2>1, Zenon DEF SameValue, Compare
<1>6. CASE ~IsQuantity(x) /\ ~IsFlag(x) /\ IsTextual(x)
  <2>1. x # Absent
    BY <1>6 DEF IsTextual, Absent, Value
  <2> QED BY <1>3, <1>6, <2>1, Zenon DEF SameValue, Compare
<1>7. CASE ~IsQuantity(x) /\ ~IsFlag(x) /\ ~IsTextual(x)
  <2>1. x = Absent
    BY <1>1, <1>7 DEF IsQuantity, AsInteger, IsFlag, AsBool, IsTextual
  <2> QED BY <1>7, <2>1, Zenon DEF SameValue, Compare
<1> QED
  BY <1>4, <1>5, <1>6, <1>7

(* The flags are two, and neither is a failure. *)
LEMMA FlagsDiffer ==
  /\ Flag(TRUE) # Flag(FALSE)
  /\ \A x : HasFailed(x) => x # Flag(FALSE)
  /\ \A class : Failed(class) # Flag(FALSE)
  BY DEF Flag, Failed, HasFailed, Value

(* What waits for a list holds of it, or fails with it. *)
LEMMA ProvidedHolds ==
  ASSUME NEW S, NEW list \in Seq(S), NEW value, AllProduced(list) => value # Flag(FALSE)
  PROVE  Provided(list, value) # Flag(FALSE)
<1>1. PICK n \in Nat : DOMAIN list = 1..n
  BY LenProperties
<1> QED
  BY <1>1, ProvidedIs, FlagsDiffer

\* A requirement that a standstill satisfies, where what it is about comes to what env has it.
Standing(q, env) ==
  \/ q.kind = "unchanged" /\ Compute(env, q.operands[1], NoMember).type \notin {"record", "sequence"}
  \/ q.kind = "delta" /\ Len(q.operands) = 1 /\ q.direction = "unchanged"
  \/ q.kind = "delta" /\ Len(q.operands) = 2 /\ Compute(env, q.operands[2], NoMember).n = 0

(* What did not move is not found to have moved. *)
LEMMA MovedNowhere ==
  ASSUME NEW n \in Int, NEW direction, NEW by,
         (by = <<>> /\ direction = "unchanged") \/ (DOMAIN by = 1..1 /\ by # <<>> /\ by[1] = 0)
  PROVE  Moved(n, n, direction, by)
<1>1. n - n = 0 /\ (\A m : m = 0 => -m = 0) /\ 0 \in AmountType
  <2>1. \A m \in Nat : 0 \in (-m - 1)..m
    OBVIOUS
  <2>2. 0 \in AmountType
    BY <2>1, AmountTypeAssumption DEF AmountType
  <2>3. \A m : m = 0 => -m = 0
    <3> SUFFICES ASSUME NEW m, m = 0 PROVE -m = 0
      OBVIOUS
    <3> DEFINE k == -m
    <3>1. k \in Int /\ k + m = 0
      OBVIOUS
    <3> HIDE DEF k
    <3>2. k = 0
      BY <3>1
    <3> QED BY <3>2 DEF k
  <2> QED BY <2>2, <2>3
<1>2. CASE by = <<>> /\ direction = "unchanged"
  BY <1>2 DEF Moved
<1>3. CASE by # <<>> /\ by[1] = 0
  <2>1. -by[1] = 0
    BY <1>1, <1>3, Zenon
  <2>2. by[1] = 0 /\ n - n = 0 /\ 0 \in AmountType
    BY <1>1, <1>3
  <2> QED BY <1>3, <2>1, <2>2, Zenon DEF Moved
<1> QED
  BY <1>2, <1>3

(* A movement or a standstill that is required of what stood still is not found wanting. *)
LEMMA StandingHolds ==
  ASSUME NEW env, NEW wanted, NEW q, IsPredicate(q), q.kind \notin Composed, Standing(q, wanted),
         \A o \in ToSet(q.operands) :
           /\ Concurs(Compute(env, o, NoMember), Compute(wanted, o, NoMember))
           /\ Concurs(Compute(AgainstBefore(env), o, NoMember), Compute(wanted, o, NoMember))
  PROVE  EvaluateSimple(env, q, NoMember) # Flag(FALSE)
<1> DEFINE n == Len(q.operands)
           from == Compute(AgainstBefore(env), q.operands[1], NoMember)
           to   == Compute(env, q.operands[1], NoMember)
           held == Compute(wanted, q.operands[1], NoMember)
           all  == Computes(env, q, NoMember)
           by   == Adds(env, q, NoMember)
<1>1. q.operands \in Seq(ToSet(q.operands)) /\ q.operands # <<>>
  BY DEF IsPredicate
<1>2. n \in Nat /\ DOMAIN q.operands = 1..n /\ (\A i \in 1..n : q.operands[i] \in ToSet(q.operands)) /\ n # 0
  BY <1>1, LenProperties, ElementOfSeq, EmptySeq
<1> HIDE DEF n
<1>3. Concurs(from, held) /\ Concurs(to, held)
  BY <1>2
<1>4. all \in Seq({all[i] : i \in 1..n}) /\ by \in Seq({by[i] : i \in 1..(n - 1)})
  <2>1. DOMAIN all = 1..n /\ all = [i \in 1..n |-> all[i]]
    BY <1>2 DEF Computes
  <2>2. DOMAIN by = 1..(n - 1) /\ by = [i \in 1..(n - 1) |-> by[i]] /\ n - 1 \in Nat
    BY <1>2 DEF Adds, n
  <2> HIDE DEF all, by
  <2>3. all \in [1..n -> {all[i] : i \in 1..n}] /\ by \in [1..(n - 1) -> {by[i] : i \in 1..(n - 1)}]
    BY <2>1, <2>2
  <2> QED BY <1>2, <2>2, <2>3, FunctionIsSeq
<1>5. CASE q.kind = "unchanged"
  <2>1. EvaluateSimple(env, q, NoMember) = Comparing("unchanged", <<from>> \o all)
    BY <1>5 DEF EvaluateSimple, EvaluateBasic, Computes
  <2>2. held.type \notin {"record", "sequence"}
    BY <1>5 DEF Standing
  <2>3. all[1] = to /\ Len(all) = n
    <3>1. 1 \in 1..n
      BY <1>2
    <3>2. DOMAIN all = 1..n
      BY <1>2 DEF Computes
    <3>3. all[1] = to
      BY <1>2, <3>1 DEF Computes
    <3> HIDE DEF all
    <3> QED BY <1>2, <1>4, <3>2, <3>3, LenProperties
  <2> DEFINE T == {from} \cup {all[i] : i \in 1..n}
             list == <<from>> \o all
  <2> HIDE DEF from, to, held, all
  <2>4. <<from>> \in Seq(T) /\ all \in Seq(T)
    BY <1>4
  <2>5. list \in Seq(T) /\ list[1] = from /\ list[2] = to /\ DOMAIN list = 1..(n + 1)
    <3> HIDE DEF T
    <3> QED BY <1>2, <2>3, <2>4
  <2> HIDE DEF list, T
  <2>6. AllProduced(list) => SameValue(list[1], list[2])
    <3> SUFFICES ASSUME AllProduced(list) PROVE SameValue(list[1], list[2])
      OBVIOUS
    <3>1. ~HasFailed(from) /\ ~HasFailed(to)
      <4>1. 1 \in DOMAIN list /\ 2 \in DOMAIN list
        BY <1>2, <2>5
      <4> QED BY <2>5, <4>1 DEF AllProduced
    <3>2. from = held /\ to = held /\ IsValue(held)
      BY <1>3, <3>1 DEF Concurs
    <3> QED BY <2>2, <2>5, <3>2, SameAsItself
  <2>7. Comparing("unchanged", list) = Provided(list, Flag(SameValue(list[1], list[2])))
    <3>1. "unchanged" \notin DOMAIN Admits
      BY DEF Admits
    <3> QED BY <3>1, Zenon DEF Comparing
  <2>8. AllProduced(list) => Flag(SameValue(list[1], list[2])) # Flag(FALSE)
    BY <2>6 DEF Flag, Value
  <2> QED BY <2>1, <2>5, <2>7, <2>8, ProvidedHolds DEF list
<1>6. CASE q.kind = "delta"
  <2>1. EvaluateSimple(env, q, NoMember) = Movement(from, to, q.direction, by)
    BY <1>6 DEF EvaluateSimple, EvaluateDelta, Adds
  <2>2. n = 1 => by = <<>> /\ DOMAIN by = 1..0
    BY DEF Adds, n
  <2>3. n = 2 => DOMAIN by = 1..1 /\ Concurs(by[1], Compute(wanted, q.operands[2], NoMember))
    <3> SUFFICES ASSUME n = 2
                 PROVE  DOMAIN by = 1..1 /\ Concurs(by[1], Compute(wanted, q.operands[2], NoMember))
      OBVIOUS
    <3>1. DOMAIN by = 1..1 /\ by[1] = Compute(env, q.operands[2], NoMember)
      BY DEF Adds, n
    <3> HIDE DEF by
    <3> QED BY <1>2, <3>1
  <2>4. \/ n = 1 /\ q.direction = "unchanged"
        \/ n = 2 /\ Compute(wanted, q.operands[2], NoMember).n = 0
    BY <1>6 DEF Standing, n
  <2> DEFINE T == {from, to} \cup {by[i] : i \in 1..(n - 1)}
             list == <<from, to>> \o by
             ns == [i \in DOMAIN by |-> by[i].n]
  <2> HIDE DEF from, to, held, all, by
  <2>5. <<from, to>> \in Seq(T) /\ by \in Seq(T)
    BY <1>4
  <2>6. list \in Seq(T) /\ list[1] = from /\ list[2] = to /\ DOMAIN list = 1..(2 + Len(by))
        /\ \A i \in 1..Len(by) : list[2 + i] = by[i]
    <3> HIDE DEF T
    <3> QED BY <2>5
  <2>7. Len(by) \in Nat /\ DOMAIN by = 1..Len(by)
    BY <2>5, LenProperties
  <2> DEFINE value == IF \E i \in DOMAIN by : ~IsQuantity(by[i]) THEN Failed("ExecutionError")
                      ELSE Flag(Moved(from.n, to.n, q.direction, ns))
  <2>8. Movement(from, to, q.direction, by) =
          IF AllProduced(<<from, to>>) /\ ~(IsQuantity(from) /\ IsQuantity(to)) THEN Failed("ExecutionError")
          ELSE Provided(list, value)
    BY DEF Movement
  <2> HIDE DEF list, T, ns
  <2>9. AllProduced(list) => value # Flag(FALSE)
    <3> SUFFICES ASSUME AllProduced(list), \A i \in DOMAIN by : IsQuantity(by[i])
                 PROVE  Flag(Moved(from.n, to.n, q.direction, ns)) # Flag(FALSE)
      BY FlagsDiffer
    <3>1. ~HasFailed(from) /\ ~HasFailed(to) /\ \A i \in DOMAIN by : ~HasFailed(by[i])
      <4>1. 1 \in DOMAIN list /\ 2 \in DOMAIN list /\ \A i \in 1..Len(by) : 2 + i \in DOMAIN list
        BY <2>6, <2>7
      <4> QED BY <2>6, <2>7, <4>1 DEF AllProduced
    <3>2. from = held /\ to = held /\ held.n \in Int
      BY <1>3, <3>1 DEF Concurs, IsValue
    <3>3. CASE n = 1
      <4>1. ns = <<>> /\ q.direction = "unchanged"
        BY <2>2, <2>4, <3>3 DEF ns
      <4>2. Moved(from.n, to.n, q.direction, ns)
        BY <3>2, <4>1, MovedNowhere
      <4> QED BY <4>2, FlagsDiffer
    <3>4. CASE n = 2
      <4>1. DOMAIN by = 1..1 /\ by[1].n = 0
        BY <2>3, <2>4, <3>1, <3>4 DEF Concurs
      <4>2. DOMAIN ns = 1..1 /\ ns[1] = 0 /\ ns # <<>>
        BY <4>1 DEF ns
      <4>3. Moved(from.n, to.n, q.direction, ns)
        BY <3>2, <4>2, MovedNowhere
      <4> QED BY <4>3, FlagsDiffer
    <3> QED BY <2>4, <3>3, <3>4
  <2> HIDE DEF value
  <2>10. Provided(list, value) # Flag(FALSE)
    BY <2>6, <2>9, ProvidedHolds
  <2> QED BY <2>1, <2>8, <2>10, FlagsDiffer
<1> QED
  BY <1>5, <1>6 DEF Standing

(* When an allowance lapses is the fixture's own word, whichever world is asked. *)
LEMMA ExpiriesConcur ==
  ASSUME NEW one, NEW other, one.allowances = other.allowances, DOMAIN other.allowances \in SUBSET Nat,
         \A i \in DOMAIN other.allowances : other.allowances[i].expiry \in Nat, NEW from, NEW spender
  PROVE  Concurs(AllowanceExpiry(one, from, spender), AllowanceExpiry(other, from, spender))
<1> DEFINE granted == {i \in DOMAIN other.allowances :
                         other.allowances[i].from = from /\ other.allowances[i].spender = spender}
           expiry  == IF granted = {} THEN 0 ELSE other.allowances[Min(granted)].expiry
           lapses  == IF expiry = 0 THEN Absent ELSE Number(expiry)
<1>1. AllowanceExpiry(one, from, spender) = lapses /\ AllowanceExpiry(other, from, spender) = lapses
  BY DEF AllowanceExpiry
<1>2. granted \in SUBSET Nat /\ granted \in SUBSET DOMAIN other.allowances
  OBVIOUS
<1> HIDE DEF granted
<1>3. granted # {} => Min(granted) \in DOMAIN other.allowances
  BY <1>2, LeastExists
<1>4. expiry \in Int
  BY <1>3
<1> HIDE DEF expiry
<1>5. IsValue(lapses)
  BY <1>4, StatedValues
<1> QED
  BY <1>1, <1>5 DEF Concurs

(* The contract is an echo of itself. *)
LEMMA TheContractEchoes ==
  ASSUME NEW p, NEW v, Recordable(p, v), NEW c, Amounts(c, ToSet(v.actors))
  PROVE  /\ Echoes(Past(c, v), Past(c, v))
         /\ \A resource : Concurs(Aggregate(Past(c, v), resource), Aggregate(Past(c, v), resource))
<1> DEFINE live == Past(c, v)
<1>1. live.kind = "live" /\ live.contract = c /\ live.actors = v.actors
  BY DEF Past, LiveWorld
<1>2. \A resource : Concurs(Aggregate(live, resource), Aggregate(live, resource))
  <2> SUFFICES ASSUME NEW resource
               PROVE  Concurs(Aggregate(live, resource), Aggregate(live, resource))
    OBVIOUS
  <2>1. Members(WorldMembers(live, resource))
    BY LiveMembersAre
  <2> HIDE DEF live
  <2>2. AmountType \in SUBSET Int
    BY AmountTypeAssumption DEF AmountType
  <2> QED BY <2>1, <2>2, AggregateIs, StatedValues DEF Concurs
<1>3. \A method, args : (\E n \in Nat : DOMAIN args = 1..n) =>
        Concurs(WorldRead(live, method, args), WorldRead(live, method, args))
  <2> SUFFICES ASSUME NEW method, NEW args, NEW n \in Nat, DOMAIN args = 1..n
               PROVE  Concurs(WorldRead(live, method, args), WorldRead(live, method, args))
    OBVIOUS
  <2> HIDE DEF live
  <2>1. Amounts(live.contract, ToSet(live.actors))
    BY <1>1
  <2>2. HasFailed(LiveRead(live, method, args)) \/ IsValue(LiveRead(live, method, args))
    BY <2>1, LiveReadMeans
  <2> QED BY <1>1, <2>2 DEF WorldRead, Concurs
<1> QED
  BY <1>2, <1>3 DEF Echoes

\* A judgement of a call that moved nothing, by a record that has the members of the contract.
Still ==
  /\ Judges /\ contract = opening
  /\ DeclaredApart(profile, vector) /\ \A r \in Collected(profile, vector) : Resolvable(r, vector)

(* The worlds of such a judgement are one another's echo. *)
LEMMA StillWorlds ==
  ASSUME Still
  PROVE  /\ LiveNow(vector) = Past(opening, vector) /\ before = Capture(profile, vector, Past(opening, vector))
         /\ Recordable(profile, vector) /\ InFormat(profile, vector) /\ Amounts(opening, ToSet(vector.actors))
         /\ DOMAIN vector.allowances \in SUBSET Nat
         /\ LiveNow(vector).allowances = vector.allowances /\ before.allowances = vector.allowances
<1>1. /\ Judges /\ contract = opening
  BY DEF Still
<1>2. LiveNow(vector) = Past(opening, vector) /\ before = Capture(profile, vector, Past(opening, vector))
      /\ Recordable(profile, vector) /\ InFormat(profile, vector)
  BY <1>1 DEF Judges, LiveNow, Past
<1>3. LiveNow(vector).allowances = vector.allowances
  BY DEF LiveNow, LiveWorld
<1>4. before.allowances = vector.allowances
  BY <1>2 DEF Capture, RecordedWorld
<1>5. Amounts(opening, ToSet(vector.actors))
  <2>1. PICK path \in DOMAIN disk.files : vector = disk.files[path]
    BY <1>1 DEF Judges
  <2>2. opening \in Openings /\ disk \in Disks
    BY <1>1 DEF Judges
  <2> QED BY <2>1, <2>2, OpeningsAssumption DEF Amounts, ActorNames
<1>6. DOMAIN vector.allowances \in SUBSET Nat
  <2>1. vector.allowances \in Seq(ToSet(vector.allowances))
    BY <1>2 DEF Recordable
  <2> QED BY <2>1, LenProperties
<1> QED
  BY <1>2, <1>3, <1>4, <1>5, <1>6

\* An environment that comes to what is wanted.
Comes(env) == \A e \in Terms(profile, vector) : /\ Concurs(Compute(env, e, NoMember), Wanted(e))
                                                /\ Concurs(Compute(AgainstBefore(env), e, NoMember), Wanted(e))

(* Before the call or after it, what is computed is what is wanted. *)
LEMMA StillComes ==
  ASSUME Still
  PROVE  Comes(Environment(before, LiveNow(vector))) /\ Comes(Environment(before, before))
<1> DEFINE live  == LiveNow(vector)
           env   == Environment(before, live)
           env0  == Environment(before, before)
           start == AgainstBefore(env)
           first == AgainstBefore(env0)
<1>1. /\ live = Past(opening, vector) /\ before = Capture(profile, vector, Past(opening, vector))
      /\ Recordable(profile, vector) /\ InFormat(profile, vector) /\ Amounts(opening, ToSet(vector.actors))
      /\ DOMAIN vector.allowances \in SUBSET Nat
      /\ live.allowances = vector.allowances /\ before.allowances = vector.allowances
  BY StillWorlds
<1>2. DeclaredApart(profile, vector) /\ (\A r \in Collected(profile, vector) : Resolvable(r, vector))
  BY DEF Still
<1>3. vector.sequence \in Nat /\ \A i \in DOMAIN vector.allowances : vector.allowances[i].expiry \in Nat
  BY <1>1 DEF InFormat
<1>4. /\ env.inputs = vector.inputs /\ env.after = live /\ env.sequence = vector.sequence
      /\ env0.inputs = vector.inputs /\ env0.after = before /\ env0.sequence = vector.sequence
      /\ start.inputs = vector.inputs /\ start.after = before /\ start.sequence = vector.sequence
      /\ first.inputs = vector.inputs /\ first.after = before /\ first.sequence = vector.sequence
  <2> HIDE DEF live
  <2> QED BY DEF Environment, AgainstBefore
<1>5. /\ Echoes(before, live)
      /\ \A resource : Concurs(Aggregate(before, resource), Aggregate(live, resource))
  <2> HIDE DEF live
  <2>1. /\ Echoes(Capture(profile, vector, Past(opening, vector)), Past(opening, vector))
        /\ \A resource : Concurs(Aggregate(Capture(profile, vector, Past(opening, vector)), resource),
                                 Aggregate(Past(opening, vector), resource))
    BY <1>1, <1>2, TheRecordEchoes
  <2> QED BY <1>1, <2>1
<1>6. /\ Echoes(live, live)
      /\ \A resource : Concurs(Aggregate(live, resource), Aggregate(live, resource))
  <2> HIDE DEF live
  <2>1. /\ Echoes(Past(opening, vector), Past(opening, vector))
        /\ \A resource : Concurs(Aggregate(Past(opening, vector), resource), Aggregate(Past(opening, vector), resource))
    BY <1>1, <1>2, TheContractEchoes
  <2> QED BY <1>1, <2>1
<1>7. \A from, spender : /\ Concurs(AllowanceExpiry(before, from, spender), AllowanceExpiry(live, from, spender))
                         /\ Concurs(AllowanceExpiry(live, from, spender), AllowanceExpiry(live, from, spender))
  <2> HIDE DEF live
  <2>1. DOMAIN live.allowances \in SUBSET Nat /\ (\A i \in DOMAIN live.allowances : live.allowances[i].expiry \in Nat)
        /\ before.allowances = live.allowances
    BY <1>1, <1>3
  <2> QED BY <2>1, ExpiriesConcur
<1> HIDE DEF live, start, first, env0
<1>8. \A e : Wanted(e) = Compute(env, e, NoMember)
  BY DEF Wanted, live
<1> HIDE DEF env
<1>9. /\ Alike(env, env, vector.inputs)
       /\ Alike(start, env, vector.inputs)
       /\ Alike(env0, env, vector.inputs)
       /\ Alike(first, env, vector.inputs)
  BY <1>3, <1>4, <1>5, <1>6, <1>7 DEF Alike
<1>10. ASSUME NEW e \in Terms(profile, vector)
       PROVE  /\ Concurs(Compute(env, e, NoMember), Compute(env, e, NoMember))
              /\ Concurs(Compute(start, e, NoMember), Compute(env, e, NoMember))
              /\ Concurs(Compute(env0, e, NoMember), Compute(env, e, NoMember))
              /\ Concurs(Compute(first, e, NoMember), Compute(env, e, NoMember))
  BY <1>1, <1>2, <1>9, ComputesAlike
<1>11. Comes(env) /\ Comes(env0)
  BY <1>8, <1>10 DEF Comes, start, first
<1> QED
  BY <1>11 DEF env, env0, live

---------------------------------------------------------------------------
(* What is required of a standstill. *)

(* A predicate that is no composition is evaluated as it stands. *)
LEMMA EvaluatedSimply ==
  ASSUME NEW env, NEW q, NEW member, q.kind \notin Composed
  PROVE  Evaluate(env, q, member) = EvaluateSimple(env, q, member)
<1> DEFINE n == MaxNesting + 1
           X == Within(q)
<1>1. n \in 1..n /\ n - 1 \in Nat
  BY DepthAssumption
<1>2. PICK w : Holding(w, env, X, member, n) /\ Evaluate(env, q, member) = w[n][q]
  BY EvaluateIs
<1>3. q \in X
  BY WithinItself
<1> HIDE DEF n, X
<1>4. w[n] = [x \in X |-> Held(env, x, member, w[n - 1])]
  BY <1>1, <1>2 DEF Holding
<1>5. w[n][q] = Held(env, q, member, w[n - 1])
  BY <1>3, <1>4
<1> QED
  BY <1>2, <1>5 DEF Held

\* The kinds of a predicate that no invariant and no check of an event has, and the other way round.
Relative == {"unchanged", "delta"}
Guarded  == {"conservation", "monotonic", "state_unchanged", "authorization_blocks_mutation"}

(* A predicate of a still judgement that a standstill satisfies is not found wanting. *)
LEMMA PredicatesStandStill ==
  ASSUME NEW env, Comes(env), InFormat(profile, vector), NEW q \in Predicates(profile, vector), HoldsStandingStill(q)
  PROVE  Evaluate(env, q, NoMember) # Flag(FALSE)
<1> DEFINE wanted == Environment(before, LiveNow(vector))
<1>1. Composes(q) /\ OperandsOf(q) \in SUBSET Terms(profile, vector) /\ q \in Within(q)
  BY TermsAre, WithinItself
<1>2. IsPredicate(q)
  BY <1>1 DEF Composes
<1>3. q.kind \in Composed \cup DOMAIN Admits \cup {"one_of", "in_range", "delta", "unchanged"}
  BY <1>2 DEF IsPredicate
<1>4. q.kind \notin Guarded
  BY <1>3 DEF Guarded, Composed, Admits
<1>5. q.kind \in Relative /\ Standing(q, wanted)
  <2>1. /\ q.kind = "unchanged" => TRUE
        /\ \A e : Wanted(e) = Compute(wanted, e, NoMember)
    BY DEF Wanted
  <2> HIDE DEF wanted
  <2> QED BY <1>4, <2>1 DEF HoldsStandingStill, Standing, Guarded, Relative
<1>6. q.kind \notin Composed
  BY <1>5 DEF Relative, Composed
<1>7. ToSet(q.operands) \in SUBSET Terms(profile, vector)
  BY <1>1, <1>6 DEF OperandsOf
<1>8. \A o \in ToSet(q.operands) :
        /\ Concurs(Compute(env, o, NoMember), Compute(wanted, o, NoMember))
        /\ Concurs(Compute(AgainstBefore(env), o, NoMember), Compute(wanted, o, NoMember))
  BY <1>7 DEF Comes, Wanted
<1> HIDE DEF wanted
<1>9. EvaluateSimple(env, q, NoMember) # Flag(FALSE)
  BY <1>2, <1>5, <1>6, <1>8, StandingHolds
<1> QED
  BY <1>6, <1>9, EvaluatedSimply

\* A value that is no accusation.
Spared(x) == x # Flag(FALSE)

(* A sum of a still judgement is what it was. *)
LEMMA SumsStandStill ==
  ASSUME Still, NEW i, i.direction \in {"none", "non_decreasing", "non_increasing"}, NEW live, live = LiveNow(vector)
  PROVE  Spared(AggregateResult(i, before, live))
<1> DEFINE then == Aggregate(before, i.resource)
           now  == Aggregate(live, i.resource)
           sums == <<then, now>>
           holds == CASE i.direction = "none"           -> SameValue(sums[1], sums[2])
                      [] i.direction = "non_decreasing" -> sums[2].n >= sums[1].n
                      [] i.direction = "non_increasing" -> sums[2].n <= sums[1].n
<1>1. live = Past(opening, vector) /\ before = Capture(profile, vector, Past(opening, vector))
      /\ Recordable(profile, vector) /\ InFormat(profile, vector)
  BY StillWorlds
<1>2. DeclaredApart(profile, vector) /\ ReadsFormed(profile, vector)
  BY <1>1, JudgingIs DEF Still
<1>3. HasFailed(then) \/ (then = now /\ \E amount \in AmountType : then = Number(amount))
  BY <1>1, <1>2, AggregatesAgree
<1>4. AggregateResult(i, before, live) = Provided(sums, Flag(holds))
  BY DEF AggregateResult, Aggregates
<1> HIDE DEF then, now
<1>5. sums \in Seq({then, now}) /\ sums[1] = then /\ sums[2] = now /\ 1 \in DOMAIN sums
  OBVIOUS
<1> HIDE DEF sums
<1>6. AllProduced(sums) => holds
  <2> SUFFICES ASSUME AllProduced(sums) PROVE holds
    OBVIOUS
  <2>1. ~HasFailed(then)
    BY <1>5 DEF AllProduced
  <2>2. PICK amount \in AmountType : then = now /\ then = Number(amount)
    BY <1>3, <2>1
  <2>3. amount \in Int
    BY <2>2, AmountTypeAssumption DEF AmountType
  <2>4. then.n \in Int /\ IsValue(then) /\ then.type \notin {"record", "sequence"}
    BY <2>2, <2>3, StatedValues DEF Number, Value
  <2>5. SameValue(sums[1], sums[2]) /\ sums[2].n >= sums[1].n /\ sums[2].n <= sums[1].n
    BY <1>5, <2>2, <2>4, SameAsItself
  <2>6. CASE i.direction = "none"
    BY <2>5, <2>6, Zenon
  <2>7. CASE i.direction = "non_decreasing"
    <3>1. i.direction # "none" /\ i.direction # "non_increasing"
      BY <2>7
    <3> QED BY <2>5, <2>7, <3>1, Zenon
  <2>8. CASE i.direction = "non_increasing"
    <3>1. i.direction # "none" /\ i.direction # "non_decreasing"
      BY <2>8
    <3> QED BY <2>5, <2>8, <3>1, Zenon
  <2> QED BY <2>6, <2>7, <2>8
<1> HIDE DEF holds
<1>7. AllProduced(sums) => Flag(holds) # Flag(FALSE)
  BY <1>6, FlagsDiffer
<1> QED
  BY <1>4, <1>5, <1>7, ProvidedHolds DEF Spared

(* Nor is a declared balance or allowance found to have changed. *)
LEMMA ReadsStandStill ==
  ASSUME Still, NEW i, NEW s \in UnchangedResults(i, before, LiveNow(vector))
  PROVE  s.value # Flag(FALSE)
<1> DEFINE live == LiveNow(vector)
<1>1. live = Past(opening, vector) /\ before = Capture(profile, vector, Past(opening, vector))
      /\ Recordable(profile, vector) /\ Amounts(opening, ToSet(vector.actors))
  BY StillWorlds
<1>2. live.kind = "live" /\ live.contract = opening /\ live.actors = vector.actors
  BY <1>1 DEF Past, LiveWorld
<1>3. before.kind = "recorded"
  BY <1>1, RecordIs
<1> HIDE DEF live
<1>4. \A x : Statement(i, x).value = x
  BY DEF Statement
<1>5. \A method, args : (DOMAIN args = 1..1 \/ DOMAIN args = 1..2) => Pair(before, live, method, args) # Flag(FALSE)
  <2> SUFFICES ASSUME NEW method, NEW args, DOMAIN args = 1..1 \/ DOMAIN args = 1..2
               PROVE  Pair(before, live, method, args) # Flag(FALSE)
    OBVIOUS
  <2> DEFINE then == WorldRead(before, method, args)
             now  == WorldRead(live, method, args)
             both == <<then, now>>
  <2>1. Pair(before, live, method, args) = Provided(both, Flag(SameValue(both[1], both[2])))
    BY DEF Pair
  <2>2. then = Unrecorded \/ then = LiveRead(live, method, args)
    <3>1. \/ RecordedRead(Capture(profile, vector, Past(opening, vector)), method, args) = Unrecorded
          \/ RecordedRead(Capture(profile, vector, Past(opening, vector)), method, args)
               = LiveRead(Past(opening, vector), method, args)
      BY <1>1, RecordIsOfThen DEF Still
    <3> QED BY <1>1, <1>3, <3>1 DEF WorldRead
  <2>3. now = LiveRead(live, method, args)
    BY <1>2 DEF WorldRead
  <2>4. HasFailed(now) \/ \E amount \in Int : now = Number(amount)
    <3>1. Amounts(live.contract, ToSet(live.actors))
      BY <1>1, <1>2
    <3>2. PICK n \in Nat : DOMAIN args = 1..n /\ n # 0
      <4>1. 1 \in Nat /\ 2 \in Nat /\ 1 # 0 /\ 2 # 0
        OBVIOUS
      <4> QED BY <4>1, Zenon
    <3> HIDE DEF now
    <3> QED BY <2>3, <3>1, <3>2, LiveReadMeans
  <2> HIDE DEF then, now
  <2>5. both \in Seq({then, now}) /\ both[1] = then /\ both[2] = now /\ 1 \in DOMAIN both /\ 2 \in DOMAIN both
    OBVIOUS
  <2> HIDE DEF both
  <2>6. AllProduced(both) => SameValue(both[1], both[2])
    <3> SUFFICES ASSUME AllProduced(both) PROVE SameValue(both[1], both[2])
      OBVIOUS
    <3>1. ~HasFailed(then) /\ ~HasFailed(now)
      BY <2>5 DEF AllProduced
    <3>2. PICK amount \in Int : now = Number(amount) /\ then = now
      BY <2>2, <2>3, <2>4, <3>1, UnrecordedIs
    <3>3. IsValue(now) /\ now.type \notin {"record", "sequence"}
      BY <3>2, StatedValues DEF Number, Value
    <3> QED BY <2>5, <3>2, <3>3, SameAsItself
  <2>7. AllProduced(both) => Flag(SameValue(both[1], both[2])) # Flag(FALSE)
    BY <2>6, FlagsDiffer
  <2> QED BY <2>1, <2>5, <2>7, ProvidedHolds
<1>6. CASE Accessor(profile, "balance") = "none"
  <2>1. s = Statement(i, Failed("ProfileError"))
    BY <1>6 DEF UnchangedResults
  <2> QED BY <1>4, <2>1, FlagsDiffer
<1>7. CASE Accessor(profile, "balance") # "none"
  <2>1. PICK read \in DeclaredReads : s = Statement(i, Pair(before, live, read[1], read[2]))
    BY <1>7 DEF UnchangedResults, live
  <2>2. DOMAIN read[2] = 1..1 \/ DOMAIN read[2] = 1..2
    <3>1. \A x, y : DOMAIN <<x>> = 1..1 /\ DOMAIN <<x, y>> = 1..2
      OBVIOUS
    <3>2. \/ \E a \in vector.balances : read = <<Accessor(profile, "balance"), <<Address(a)>>>>
          \/ \E j \in DOMAIN vector.allowances :
               read = <<Accessor(profile, "allowance"),
                        <<Address(vector.allowances[j].from), Address(vector.allowances[j].spender)>>>>
      BY DEF DeclaredReads
    <3>3. (\E x : read[2] = <<x>>) \/ (\E x, y : read[2] = <<x, y>>)
      BY <3>2
    <3> QED BY <3>1, <3>3
  <2>3. Pair(before, live, read[1], read[2]) # Flag(FALSE)
    BY <1>5, <2>2
  <2> QED BY <1>4, <2>1, <2>3
<1> QED
  BY <1>6, <1>7

(* An invariant of a still judgement that a standstill satisfies is not found broken. *)
LEMMA InvariantsStandStill ==
  ASSUME Still, NEW i \in Chosen, NEW env, NEW s \in InvariantResults(i, before, LiveNow(vector), env)
  PROVE  s.statement = i /\ (i.kind \in Guarded => s.value # Flag(FALSE)) /\ i.kind \notin Relative
<1> DEFINE live == LiveNow(vector)
           all  == InvariantResults(i, before, live, env)
           unchanged == UnchangedResults(i, before, live)
<1>1. i.kind \in Families /\ i.direction \in {"none", "non_decreasing", "non_increasing"}
  <2>1. InFormat(profile, vector)
    BY StillWorlds
  <2>2. i \in ToSet(profile.invariants)
    BY DEF Chosen, InvariantsFor
  <2> QED BY <2>1, <2>2 DEF InFormat
<1>2. \A x : Statement(i, x).statement = i /\ Statement(i, x).value = x
  BY DEF Statement
<1>3. \A x \in unchanged : x.statement = i /\ x.value # Flag(FALSE)
  <2>1. \A x \in unchanged : x.statement = i
    <3>1. \A x \in unchanged : \E v : x = Statement(i, v)
      BY DEF UnchangedResults
    <3> HIDE DEF unchanged
    <3> QED BY <1>2, <3>1
  <2> QED BY <2>1, ReadsStandStill
<1>4. s \in all
  OBVIOUS
<1> HIDE DEF unchanged
<1>5. CASE i.kind \in {"conservation", "monotonic"}
  <2>1. all = {Statement(i, AggregateResult(i, before, live))}
    BY <1>5, Zenon DEF InvariantResults
  <2>2. AggregateResult(i, before, live) # Flag(FALSE)
    <3>1. live = LiveNow(vector)
      OBVIOUS
    <3> HIDE DEF all, live
    <3>2. Spared(AggregateResult(i, before, live))
      BY <1>1, <3>1, SumsStandStill
    <3> QED BY <3>2 DEF Spared
  <2> HIDE DEF all
  <2>3. s = Statement(i, AggregateResult(i, before, live))
    BY <1>4, <2>1
  <2> QED BY <1>2, <1>5, <2>2, <2>3 DEF Relative
<1>6. CASE i.kind \in {"bounds", "predicate"}
  <2>1. \A x \in all : \E v : x = Statement(i, v)
    <3>1. CASE i.kind = "bounds"
      <4> DEFINE members == WorldMembers(live, i.resource)
      <4>1. all = IF AllProduced(members)
                  THEN {Statement(i, Evaluate(env, i.predicate[1], members[k])) : k \in DOMAIN members}
                  ELSE {Statement(i, Failure(members))}
        BY <3>1, Zenon DEF InvariantResults
      <4> HIDE DEF all, members
      <4> QED BY <4>1
    <3>2. CASE i.kind = "predicate"
      <4>1. all = {Statement(i, Evaluate(env, i.predicate[1], NoMember))}
        BY <3>2, Zenon DEF InvariantResults
      <4> HIDE DEF all
      <4> QED BY <4>1
    <3> QED BY <1>6, <3>1, <3>2
  <2>2. i.kind \notin Guarded /\ i.kind \notin Relative
    BY <1>6 DEF Guarded, Relative
  <2> HIDE DEF all
  <2> QED BY <1>2, <1>4, <2>1, <2>2
<1>7. CASE i.kind = "state_unchanged"
  <2>1. all = unchanged
    BY <1>7, Zenon DEF InvariantResults, unchanged
  <2> HIDE DEF all
  <2> QED BY <1>3, <1>4, <1>7, <2>1 DEF Relative
<1>8. CASE i.kind = "authorization_blocks_mutation"
  <2>1. all = IF outcome = "success" THEN {} ELSE unchanged
    BY <1>8, Zenon DEF InvariantResults, unchanged
  <2> HIDE DEF all
  <2> QED BY <1>3, <1>4, <1>8, <2>1 DEF Relative
<1> QED
  BY <1>1, <1>5, <1>6, <1>7, <1>8 DEF Families, Ranging, Predicated

(* What a rule comes to is a predicate of it, before the call or after, or a check of events. *)
LEMMA RuleResultsAre ==
  ASSUME NEW r, NEW start, NEW end, NEW observed, NEW s \in RuleResults(r, start, end, observed)
  PROVE  \/ \E q \in ToSet(r.preconditions) : s = Statement(q, Evaluate(start, q, NoMember))
         \/ \E q \in ToSet(r.postconditions) : s = Statement(q, Evaluate(end, q, NoMember))
         \/ s.statement.kind = "event"
<1> DEFINE opened   == {Statement(q, Evaluate(start, q, NoMember)) : q \in ToSet(r.preconditions)}
           required == {Statement(q, Evaluate(end, q, NoMember)) : q \in ToSet(r.postconditions)}
           events   == RuleEventResults(profile, r, observed)
<1>1. \A x \in events : x.statement.kind = "event"
  <2>1. \A x \in events : \E check, owner, at, part, v : x = Statement(Check(check, owner, at, part), v)
    BY DEF RuleEventResults
  <2> HIDE DEF events
  <2> QED BY <2>1 DEF Statement, Check
<1>2. RuleResults(r, start, end, observed) =
        IF ~Describes(r) THEN {} ELSE Applicable(opened, required \cup events)
  BY DEF RuleResults
<1>3. /\ \A x \in opened : \E q \in ToSet(r.preconditions) : x = Statement(q, Evaluate(start, q, NoMember))
      /\ \A x \in required : \E q \in ToSet(r.postconditions) : x = Statement(q, Evaluate(end, q, NoMember))
  OBVIOUS
<1> HIDE DEF opened, required, events
<1>4. Applicable(opened, required \cup events) \in SUBSET (opened \cup required \cup events)
  BY DEF Applicable
<1> QED
  BY <1>1, <1>2, <1>3, <1>4

(* What the vector states of its events comes to checks of events. *)
LEMMA EventResultsAre ==
  ASSUME NEW p, NEW v, NEW env, NEW observed, NEW s \in EventResults(p, v, env, observed)
  PROVE  s.statement.kind = "event"
<1> DEFINE Checks == \E check, owner, at, part, x : s = Statement(Check(check, owner, at, part), x)
<1>1. SUFFICES Checks
  BY DEF Statement, Check
<1>2. CASE \E id \in v.forbidden : s = Statement(Check("forbidden", id, 0, 0), Silent(p, id, observed))
  BY <1>2
<1>3. CASE \E i \in DOMAIN v.required : s \in RequiredEvent(p, v.required[i], i, env, observed)
  <2>1. PICK i \in DOMAIN v.required : s \in RequiredEvent(p, v.required[i], i, env, observed)
    BY <1>3
  <2> DEFINE e == v.required[i]
  <2>2. s \in RequiredEvent(p, e, i, env, observed)
    BY <2>1
  <2> HIDE DEF e
  <2>3. ASSUME NEW at, s \in TopicResults(e, i, env, at)
        PROVE  Checks
    BY <2>3 DEF TopicResults
  <2>4. ASSUME NEW event, NEW at, s \in DataResults(event, e, i, env, at)
        PROVE  Checks
    <3> DEFINE wanted == [k \in DOMAIN e.data |-> Compute(env, e.data[k], NoMember)]
    <3>1. CASE AllProduced(wanted)
      <4>1. DataResults(event, e, i, env, at) =
              {Statement(Check("data", e.event, i, k),
                 Flag(IF HasItem(event.fields[k], k, at.payload)
                      THEN SameValue(wanted[k], ItemOf(event.fields[k], k, at.payload))
                      ELSE event.fields[k].optional)) : k \in Compared(event, e, at.payload)}
        BY <3>1 DEF DataResults
      <4> HIDE DEF wanted
      <4>2. PICK k \in Compared(event, e, at.payload) : s = Statement(Check("data", e.event, i, k),
                 Flag(IF HasItem(event.fields[k], k, at.payload)
                      THEN SameValue(wanted[k], ItemOf(event.fields[k], k, at.payload))
                      ELSE event.fields[k].optional))
        BY <2>4, <4>1
      <4> QED BY <4>2
    <3>2. CASE ~AllProduced(wanted)
      <4>1. DataResults(event, e, i, env, at) = {Statement(Check("data", e.event, i, 0), Failure(wanted))}
        BY <3>2 DEF DataResults
      <4> HIDE DEF wanted
      <4> QED BY <2>4, <4>1
    <3> QED BY <3>1, <3>2
  <2> DEFINE event   == Definition(p.events, e.event)
             at      == EventsNamed(observed, event.name)
             count   == {Statement(Check("cardinality", e.event, i, 0), Flag(InNumber(event, observed)))}
             none    == {Statement(Check("values", e.event, i, 0), Flag(FALSE))}
             said    == observed[CounterpartAt(at, i)]
             values  == IF i > Cardinality(at) THEN none
                        ELSE TopicResults(e, i, env, said) \cup DataResults(event, e, i, env, said)
             order   == {Statement(Check("ordering", e.event, i, 0),
                                   Flag(InOrder(event, Definition(p.events, other), observed))) :
                           other \in event.before \cap Ids(p.events)}
  <2>5. RequiredEvent(p, e, i, env, observed) =
          IF ~Defined(p.events, e.event)
          THEN {Statement(Check("required", e.event, i, 0), Failed("VectorError"))}
          ELSE count \cup values \cup order
    BY DEF RequiredEvent
  <2>6. s \in count \cup none \cup order => Checks
    OBVIOUS
  <2>7. s \in {Statement(Check("required", e.event, i, 0), Failed("VectorError"))} => Checks
    OBVIOUS
  <2> HIDE DEF Checks, event, at, count, none, said, order
  <2>8. s \in values => \/ s \in none \/ s \in TopicResults(e, i, env, said)
                        \/ s \in DataResults(event, e, i, env, said)
    OBVIOUS
  <2> HIDE DEF values
  <2> QED BY <2>2, <2>3, <2>4, <2>5, <2>6, <2>7, <2>8
<1>4. \/ \E i \in DOMAIN v.required : s \in RequiredEvent(p, v.required[i], i, env, observed)
      \/ \E id \in v.forbidden : s = Statement(Check("forbidden", id, 0, 0), Silent(p, id, observed))
  BY DEF EventResults
<1> QED
  BY <1>2, <1>3, <1>4

(* Nothing that a standstill satisfies is found wanting of a call that moved nothing. *)
LEMMA ResultsStandStill ==
  ASSUME Still, NEW observed, NEW s \in Results(before, LiveNow(vector), observed), HoldsStandingStill(s.statement)
  PROVE  s.value # Flag(FALSE)
<1> DEFINE live == LiveNow(vector)
           env  == Environment(before, live)
           env0 == Environment(before, before)
<1>1. InFormat(profile, vector) /\ Comes(env) /\ Comes(env0)
  BY StillWorlds, StillComes
<1>2. \/ \E r \in Governing : s \in RuleResults(r, env0, env, observed)
      \/ s \in EventResults(profile, vector, env, observed)
      \/ \E q \in vector.state \cup vector.assertions : s = Statement(q, Evaluate(env, q, NoMember))
      \/ \E i \in Chosen : s \in InvariantResults(i, before, live, env)
  BY DEF Results, env, env0
<1>3. s.statement.kind \in Guarded \cup Relative
  BY DEF HoldsStandingStill, Guarded, Relative
<1>4. s.statement.kind # "event"
  BY <1>3 DEF Guarded, Relative
<1>5. CASE \E i \in Chosen : s \in InvariantResults(i, before, live, env)
  <2>1. PICK i \in Chosen : s \in InvariantResults(i, before, LiveNow(vector), env)
    BY <1>5
  <2> HIDE DEF live, env, env0
  <2>2. s.statement = i /\ (i.kind \in Guarded => s.value # Flag(FALSE)) /\ i.kind \notin Relative
    BY <2>1, InvariantsStandStill
  <2> QED BY <1>3, <2>2
<1> HIDE DEF live, env, env0
<1>6. ASSUME NEW q \in Predicates(profile, vector), NEW when, Comes(when), s = Statement(q, Evaluate(when, q, NoMember))
      PROVE  s.value # Flag(FALSE)
  <2>1. s.statement = q /\ s.value = Evaluate(when, q, NoMember)
    BY <1>6 DEF Statement
  <2>2. HoldsStandingStill(q)
    BY <2>1
  <2> QED BY <1>1, <1>6, <2>1, <2>2, PredicatesStandStill
<1>7. CASE \E r \in Governing : s \in RuleResults(r, env0, env, observed)
  <2>1. PICK r \in Governing : s \in RuleResults(r, env0, env, observed)
    BY <1>7
  <2>2. r \in ToSet(profile.behaviors)
    BY DEF Governing, BehaviorsFor
  <2>3. ToSet(r.preconditions) \cup ToSet(r.postconditions) \in SUBSET Predicates(profile, vector)
    BY <2>2 DEF Predicates
  <2>4. \/ \E q \in ToSet(r.preconditions) : s = Statement(q, Evaluate(env0, q, NoMember))
        \/ \E q \in ToSet(r.postconditions) : s = Statement(q, Evaluate(env, q, NoMember))
        \/ s.statement.kind = "event"
    BY <2>1, RuleResultsAre
  <2> QED BY <1>1, <1>4, <1>6, <2>3, <2>4
<1>8. CASE s \in EventResults(profile, vector, env, observed)
  BY <1>4, <1>8, EventResultsAre
<1>9. CASE \E q \in vector.state \cup vector.assertions : s = Statement(q, Evaluate(env, q, NoMember))
  <2>1. vector.state \cup vector.assertions \in SUBSET Predicates(profile, vector)
    BY DEF Predicates
  <2> QED BY <1>1, <1>6, <1>9, <2>1
<1> QED
  BY <1>2, <1>5, <1>7, <1>8, <1>9

(* A call that changed nothing is not accused of having moved something: what a standstill     *)
(* satisfies holds, or is undecided (eval.rs evaluate_delta, invariants.rs, state.rs), where    *)
(* the members of each set are the same in the record as in the contract.                      *)
THEOREM NoStandstillIsAccused == Spec => []AStandstillIsNotAccused
<1> DEFINE Inv == RecordInv /\ AStandstillIsNotAccused
<1>1. Init => AStandstillIsNotAccused
  BY DEF Init, LoadInit, AStandstillIsNotAccused, Judged
<1>2. ASSUME RecordInv, AStandstillIsNotAccused, [Next]_vars
      PROVE  AStandstillIsNotAccused'
  <2> SUFFICES ASSUME pc' = "judged", (contract = opening)', GrantedOnce', DeclaredMembers', ArgumentsAreKnown',
                      NEW s \in results', HoldsStandingStill(s.statement)'
               PROVE  s.value # Flag(FALSE)
    BY DEF AStandstillIsNotAccused, Judged
  <2>1. \/ pc = "judged" /\ UNCHANGED vars
        \/ /\ pc = "judge" /\ results' \subseteq Results(before, LiveNow(vector), Observed)
           /\ UNCHANGED <<disk, walk, corpus, failure, vector, arguments, passed, contract, before,
                          outcome, emitted, opening>>
    BY <1>2, JudgedAtOnce DEF RecordInv
  <2>2. disk' = disk /\ vector' = vector /\ contract' = contract /\ opening' = opening /\ before' = before
    BY <2>1 DEF vars, loader, execution
  <2>3. GrantedOnce
    BY <2>2 DEF GrantedOnce
  <2>4. ArgumentsAreKnown
    BY <2>2 DEF ArgumentsAreKnown, profile
  <2>5. DeclaredMembers
    BY <2>2 DEF DeclaredMembers, profile
  <2>6. HoldsStandingStill(s.statement)
    BY <2>2 DEF HoldsStandingStill, Wanted, Environment, LiveNow
  <2>7. CASE pc = "judged" /\ UNCHANGED vars
    <3>1. results' = results
      BY <2>7 DEF vars, execution
    <3> QED BY <1>2, <2>2, <2>3, <2>4, <2>5, <2>6, <2>7, <3>1 DEF AStandstillIsNotAccused, Judged
  <2>8. CASE pc = "judge" /\ results' \subseteq Results(before, LiveNow(vector), Observed)
    <3>1. Judges
      BY <1>2, <2>8, JudgedBy DEF AfterRecording
    <3>2. \A i, j \in DOMAIN vector.actors : vector.actors[i] = vector.actors[j] => i = j
      BY <3>1 DEF Judges, Distinct
    <3>3. DeclaredApart(profile, vector)
      BY <2>3, <2>4, <2>5, <3>2, ApartMeans
    <3>4. \A r \in Collected(profile, vector) : Resolvable(r, vector)
      BY <2>4 DEF ArgumentsAreKnown
    <3>5. Still
      BY <2>2, <3>1, <3>3, <3>4 DEF Still
    <3> QED BY <2>6, <2>8, <3>5, ResultsStandStill
  <2> QED BY <2>1, <2>7, <2>8
<1>3. Init => RecordInv
  BY IntakeStarts, KeptThroughout DEF RecordInv
<1>4. RecordInv /\ [Next]_vars => RecordInv'
  BY IntakeKeeps, KeptThroughout DEF RecordInv
<1> QED
  BY <1>1, <1>2, <1>3, <1>4, PTL DEF Spec

---------------------------------------------------------------------------
(* What a payload says. *)

\* A payload a host can have emitted.
Shaped(payload) ==
  /\ payload.shape \in {"map", "vec", "scalar"}
  /\ payload.shape = "map" =>
       /\ payload.keys \in Seq(ToSet(payload.keys)) /\ DOMAIN payload.keys = DOMAIN payload.items
       /\ \A i, j \in DOMAIN payload.keys : payload.keys[i] = payload.keys[j] => i = j

\* What it says of the field of a name.
SaidOf(event, k, payload) == {m[2] : m \in {m \in Meaning(event, payload) : m[1] = event.fields[k].name}}

\* No other field of an event has the name of this one.
NamedOnce(event) ==
  \A j, k \in DOMAIN event.fields : event.fields[j].name = event.fields[k].name => j = k

(* The dimension looks where a payload says something of a field, and takes what it says. *)
LEMMA SaidIs ==
  ASSUME NEW event, NamedOnce(event), NEW k \in DOMAIN event.fields, NEW payload, Shaped(payload)
  PROVE  SaidOf(event, k, payload) = IF HasItem(event.fields[k], k, payload)
                                     THEN {ItemOf(event.fields[k], k, payload)} ELSE {}
<1> DEFINE name == event.fields[k].name
<1>1. CASE payload.shape = "map"
  <2>1. Meaning(event, payload) = {<<payload.keys[i], payload.items[i]>> : i \in DOMAIN payload.keys}
    BY <1>1 DEF Meaning
  <2>2. \A x : x \in SaidOf(event, k, payload) <=>
                 \E i \in DOMAIN payload.keys : payload.keys[i] = name /\ x = payload.items[i]
    <3>1. \A x : x \in SaidOf(event, k, payload) <=>
                   \E m \in Meaning(event, payload) : m[1] = name /\ x = m[2]
      BY DEF SaidOf
    <3> HIDE DEF name
    <3>2. ASSUME NEW x
          PROVE  (\E m \in Meaning(event, payload) : m[1] = name /\ x = m[2]) <=>
                 \E i \in DOMAIN payload.keys : payload.keys[i] = name /\ x = payload.items[i]
      <4>1. \A i \in DOMAIN payload.keys :
              <<payload.keys[i], payload.items[i]>> \in Meaning(event, payload)
        BY <2>1
      <4>2. \A m \in Meaning(event, payload) : \E i \in DOMAIN payload.keys :
              m[1] = payload.keys[i] /\ m[2] = payload.items[i]
        BY <2>1
      <4>3. \A a, b : <<a, b>>[1] = a /\ <<a, b>>[2] = b
        OBVIOUS
      <4>4. ASSUME NEW m \in Meaning(event, payload), m[1] = name, x = m[2]
            PROVE  \E i \in DOMAIN payload.keys : payload.keys[i] = name /\ x = payload.items[i]
        <5>1. PICK i \in DOMAIN payload.keys : m[1] = payload.keys[i] /\ m[2] = payload.items[i]
          BY <4>2
        <5> QED BY <4>4, <5>1
      <4>5. ASSUME NEW i \in DOMAIN payload.keys, payload.keys[i] = name, x = payload.items[i]
            PROVE  \E m \in Meaning(event, payload) : m[1] = name /\ x = m[2]
        <5> DEFINE m == <<payload.keys[i], payload.items[i]>>
        <5>1. m \in Meaning(event, payload)
          BY <4>1
        <5>2. m[1] = name /\ x = m[2]
          BY <4>3, <4>5
        <5> HIDE DEF m
        <5> QED BY <5>1, <5>2
      <4> QED BY <4>4, <4>5
    <3> QED BY <3>1, <3>2
  <2>3. HasItem(event.fields[k], k, payload) <=> \E i \in DOMAIN payload.keys : payload.keys[i] = name
    BY <1>1 DEF HasItem, ToSet
  <2>4. CASE \E i \in DOMAIN payload.keys : payload.keys[i] = name
    <3>1. PICK i \in DOMAIN payload.keys : payload.keys[i] = name
      BY <2>4
    <3>2. \A j \in DOMAIN payload.keys : payload.keys[j] = name => j = i
      BY <1>1, <3>1 DEF Shaped
    <3>3. (CHOOSE j \in DOMAIN payload.keys : payload.keys[j] = name) = i
      BY <3>1, <3>2
    <3>4. ItemOf(event.fields[k], k, payload) = payload.items[i]
      BY <1>1, <3>3 DEF ItemOf
    <3>5. \A x : x \in SaidOf(event, k, payload) <=> x = payload.items[i]
      BY <2>2, <3>1, <3>2
    <3> QED BY <2>3, <2>4, <3>4, <3>5
  <2>5. CASE ~(\E i \in DOMAIN payload.keys : payload.keys[i] = name)
    BY <2>2, <2>3, <2>5
  <2> QED BY <2>4, <2>5
<1>2. CASE payload.shape # "map"
  <2>1. Meaning(event, payload) =
          {<<event.fields[j].name, payload.items[j]>> : j \in DOMAIN event.fields \cap DOMAIN payload.items}
    BY <1>2 DEF Meaning
  <2>2. \A x : x \in SaidOf(event, k, payload) <=>
                 \E j \in DOMAIN event.fields \cap DOMAIN payload.items :
                   event.fields[j].name = name /\ x = payload.items[j]
    <3>1. \A x : x \in SaidOf(event, k, payload) <=>
                   \E m \in Meaning(event, payload) : m[1] = name /\ x = m[2]
      BY DEF SaidOf
    <3> HIDE DEF name
    <3>2. ASSUME NEW x
          PROVE  (\E m \in Meaning(event, payload) : m[1] = name /\ x = m[2]) <=>
                 \E i \in DOMAIN event.fields \cap DOMAIN payload.items : event.fields[i].name = name /\ x = payload.items[i]
      <4>1. \A i \in DOMAIN event.fields \cap DOMAIN payload.items :
              <<event.fields[i].name, payload.items[i]>> \in Meaning(event, payload)
        BY <2>1
      <4>2. \A m \in Meaning(event, payload) : \E i \in DOMAIN event.fields \cap DOMAIN payload.items :
              m[1] = event.fields[i].name /\ m[2] = payload.items[i]
        BY <2>1
      <4>3. \A a, b : <<a, b>>[1] = a /\ <<a, b>>[2] = b
        OBVIOUS
      <4>4. ASSUME NEW m \in Meaning(event, payload), m[1] = name, x = m[2]
            PROVE  \E i \in DOMAIN event.fields \cap DOMAIN payload.items : event.fields[i].name = name /\ x = payload.items[i]
        <5>1. PICK i \in DOMAIN event.fields \cap DOMAIN payload.items : m[1] = event.fields[i].name /\ m[2] = payload.items[i]
          BY <4>2
        <5> QED BY <4>4, <5>1
      <4>5. ASSUME NEW i \in DOMAIN event.fields \cap DOMAIN payload.items, event.fields[i].name = name, x = payload.items[i]
            PROVE  \E m \in Meaning(event, payload) : m[1] = name /\ x = m[2]
        <5> DEFINE m == <<event.fields[i].name, payload.items[i]>>
        <5>1. m \in Meaning(event, payload)
          BY <4>1
        <5>2. m[1] = name /\ x = m[2]
          BY <4>3, <4>5
        <5> HIDE DEF m
        <5> QED BY <5>1, <5>2
      <4> QED BY <4>4, <4>5
    <3> QED BY <3>1, <3>2
  <2>3. \A j \in DOMAIN event.fields : event.fields[j].name = name => j = k
    BY DEF NamedOnce
  <2>4. \A x : x \in SaidOf(event, k, payload) <=> (k \in DOMAIN payload.items /\ x = payload.items[k])
    BY <2>2, <2>3
  <2>5. /\ HasItem(event.fields[k], k, payload) <=> k \in DOMAIN payload.items
        /\ ItemOf(event.fields[k], k, payload) = payload.items[k]
    BY <1>2 DEF HasItem, ItemOf
  <2> QED BY <2>4, <2>5
<1> QED
  BY <1>1, <1>2

\* What was captured so far is nothing, or what a contract announced.
Captured == emitted = <<>> \/ \E after \in Aftermaths : emitted = after.emitted

(* The events captured are carried over with the shape of their payload. *)
LEMMA ObservedAre ==
  ASSUME Captured
  PROVE  /\ DOMAIN Observed = 1..Len(emitted) /\ Len(emitted) \in Nat
         /\ \A i \in DOMAIN Observed :
              /\ Observed[i] = [name |-> Observed[i].name, topics |-> Observed[i].topics,
                                payload |-> Observed[i].payload]
              /\ Shaped(Observed[i].payload)
<1>1. emitted \in Seq(ToSet(emitted))
  BY AnnouncementsAssumption, EmptySeq DEF Captured
<1>2. DOMAIN Observed = 1..Len(emitted) /\ Len(emitted) \in Nat
  BY <1>1, LenProperties DEF Observed
<1> SUFFICES ASSUME NEW i \in DOMAIN Observed
             PROVE  /\ Observed[i] = [name |-> Observed[i].name, topics |-> Observed[i].topics,
                                      payload |-> Observed[i].payload]
                    /\ Shaped(Observed[i].payload)
  BY <1>2
<1>3. i \in DOMAIN emitted /\ Observed[i] = EventOf(emitted[i])
  BY DEF Observed
<1> DEFINE payload == emitted[i].payload
           items == Converted(payload.items)
<1>4. /\ payload = Payload(payload.shape, payload.keys, payload.items)
      /\ Shaped(payload)
  <2>1. emitted[i] \in ToSet(emitted)
    BY <1>3 DEF ToSet
  <2>2. emitted # <<>>
    BY <1>3
  <2>3. PICK after \in Aftermaths : emitted = after.emitted
    BY <2>2 DEF Captured
  <2> QED BY <2>1, <2>3, AnnouncementsAssumption DEF Shaped
<1>5. Observed[i].payload = IF AllProduced(items) THEN [payload EXCEPT !.items = items] ELSE Alone(Absent)
  BY <1>3 DEF EventOf
<1>6. Observed[i] = [name |-> Observed[i].name, topics |-> Observed[i].topics, payload |-> Observed[i].payload]
  BY <1>3 DEF EventOf
<1>9. DOMAIN items = DOMAIN payload.items
  BY DEF Converted
<1>7. Shaped(Alone(Absent))
  BY DEF Shaped, Alone, Payload
<1>8. Shaped([payload EXCEPT !.items = items])
  <2>1. DOMAIN items = DOMAIN payload.items
    BY <1>9
  <2> HIDE DEF items, payload
  <2>2. [payload EXCEPT !.items = items] = Payload(payload.shape, payload.keys, items)
    BY <1>4 DEF Payload
  <2>3. Shaped(Payload(payload.shape, payload.keys, items))
    BY <1>4, <2>1 DEF Shaped, Payload
  <2> QED BY <2>2, <2>3
<1> QED
  BY <1>5, <1>6, <1>7, <1>8

---------------------------------------------------------------------------
(* What the statements about an event come to. *)

AllHold(statements)  == \A s \in statements : s.value = Flag(TRUE)
NoneFail(statements) == \A s \in statements : ~HasFailed(s.value)

(* A flag is one of two, and no failure. *)
LEMMA FlagsAre ==
  /\ Flag(TRUE) # Flag(FALSE)
  /\ \A holds : ~HasFailed(Flag(holds))
  /\ \A p, value : Statement(p, value).value = value
<1>1. \A n : Value("bool", "none", n).n = n /\ Value("bool", "none", n).type = "bool"
  BY DEF Value
<1>2. Flag(TRUE) = Value("bool", "none", 1) /\ Flag(FALSE) = Value("bool", "none", 0)
  BY DEF Flag
<1>3. Flag(TRUE) # Flag(FALSE)
  <2>1. Value("bool", "none", 1) # Value("bool", "none", 0)
    BY DEF Value
  <2> QED BY <1>2, <2>1
<1>4. \A holds : ~HasFailed(Flag(holds))
  BY <1>1 DEF HasFailed, Flag
<1>5. \A p, value : Statement(p, value).value = value
  BY DEF Statement
<1> QED
  BY <1>3, <1>4, <1>5

\* The topics are the ones wanted.
TopicsAre(e, env, o) ==
  \A k \in DOMAIN e.topics :
    SameValue(Compute(env, e.topics[k], NoMember), IF k \in DOMAIN o.topics THEN o.topics[k] ELSE Absent)

(* The statements about the topics hold where the topics are the ones wanted. *)
LEMMA TopicsMean ==
  ASSUME NEW e, NEW i, NEW env, NEW o, NoneFail(TopicResults(e, i, env, o))
  PROVE  AllHold(TopicResults(e, i, env, o)) <=> TopicsAre(e, env, o)
<1> DEFINE W(k) == Compute(env, e.topics[k], NoMember)
           O(k) == IF k \in DOMAIN o.topics THEN o.topics[k] ELSE Absent
           S(k) == Statement(Check("topic", e.event, i, k), Matching(W(k), O(k)))
<1>1. TopicResults(e, i, env, o) = {S(k) : k \in DOMAIN e.topics}
  BY DEF TopicResults
<1>2. TopicsAre(e, env, o) <=> \A k \in DOMAIN e.topics : SameValue(W(k), O(k))
  BY DEF TopicsAre
<1>3. \A k : S(k).value = Matching(W(k), O(k))
  BY FlagsAre
<1> HIDE DEF S, W, O
<1>4. \A k \in DOMAIN e.topics : ~HasFailed(Matching(W(k), O(k)))
  BY <1>1, <1>3 DEF NoneFail
<1>5. ASSUME NEW k \in DOMAIN e.topics
      PROVE  Matching(W(k), O(k)) = Flag(TRUE) <=> SameValue(W(k), O(k))
  <2>1. ~HasFailed(W(k))
    BY <1>4 DEF Matching
  <2>2. Matching(W(k), O(k)) = Flag(SameValue(W(k), O(k)))
    BY <2>1 DEF Matching
  <2>3. CASE SameValue(W(k), O(k))
    BY <2>2, <2>3 DEF Flag
  <2>4. CASE ~SameValue(W(k), O(k))
    <3>1. Matching(W(k), O(k)) = Flag(FALSE)
      BY <2>2, <2>4 DEF Flag
    <3> QED BY <2>4, <3>1, FlagsAre
  <2> QED BY <2>3, <2>4
<1>6. AllHold(TopicResults(e, i, env, o)) <=> \A k \in DOMAIN e.topics : S(k).value = Flag(TRUE)
  BY <1>1 DEF AllHold
<1> QED
  BY <1>2, <1>3, <1>5, <1>6

\* A field is what is wanted of it.
FieldIs(event, e, env, o, k) ==
  IF HasItem(event.fields[k], k, o.payload)
  THEN SameValue(Compute(env, e.data[k], NoMember), ItemOf(event.fields[k], k, o.payload))
  ELSE event.fields[k].optional

(* The statements about the fields hold where what is compared is what is wanted. *)
LEMMA DataMean ==
  ASSUME NEW event, NEW e, NEW i, NEW env, NEW o, NEW n \in Nat, DOMAIN e.data = 1..n,
         NoneFail(DataResults(event, e, i, env, o))
  PROVE  /\ AllHold(DataResults(event, e, i, env, o)) =>
              \A k \in DOMAIN e.data \cap DOMAIN event.fields : FieldIs(event, e, env, o, k)
         /\ (/\ DOMAIN event.fields = DOMAIN e.data
             /\ \A k \in DOMAIN e.data \cap DOMAIN event.fields : FieldIs(event, e, env, o, k))
            => AllHold(DataResults(event, e, i, env, o))
<1> DEFINE W == [k \in DOMAIN e.data |-> Compute(env, e.data[k], NoMember)]
           C == Compared(event, e, o.payload)
           H(k) == IF HasItem(event.fields[k], k, o.payload)
                   THEN SameValue(W[k], ItemOf(event.fields[k], k, o.payload))
                   ELSE event.fields[k].optional
           S(k) == Statement(Check("data", e.event, i, k), Flag(H(k)))
           broken == Statement(Check("data", e.event, i, 0), Failure(W))
<1>1. DataResults(event, e, i, env, o) = IF ~AllProduced(W) THEN {broken} ELSE {S(k) : k \in C}
  BY DEF DataResults
<1>2. AllProduced(W)
  <2> SUFFICES ASSUME ~AllProduced(W) PROVE FALSE
    OBVIOUS
  <2>1. DOMAIN W = 1..n
    OBVIOUS
  <2>2. broken.value = Failure(W)
    BY FlagsAre
  <2> HIDE DEF W
  <2>3. HasFailed(Failure(W))
    BY <2>1, FailureIs
  <2>4. broken \in DataResults(event, e, i, env, o)
    BY <1>1
  <2> HIDE DEF broken
  <2> QED BY <2>2, <2>3, <2>4 DEF NoneFail
<1>3. \A k : S(k).value = Flag(H(k))
  BY FlagsAre
<1>4. \A k \in DOMAIN e.data : W[k] = Compute(env, e.data[k], NoMember)
  OBVIOUS
<1>5. \A k \in DOMAIN e.data : H(k) <=> FieldIs(event, e, env, o, k)
  BY <1>4 DEF FieldIs
<1>6. /\ \A k \in DOMAIN e.data \cap DOMAIN event.fields : k \in C
      /\ \A k \in C : k \in DOMAIN event.fields
  BY DEF Compared
<1> HIDE DEF W, C, H, S
<1>7. AllHold(DataResults(event, e, i, env, o)) <=> \A k \in C : S(k).value = Flag(TRUE)
  BY <1>1, <1>2 DEF AllHold
<1>8. ASSUME NEW k
      PROVE  S(k).value = Flag(TRUE) <=> H(k)
  <2>1. CASE H(k)
    BY <1>3, <2>1 DEF Flag
  <2>2. CASE ~H(k)
    <3>1. S(k).value = Flag(FALSE)
      BY <1>3, <2>2 DEF Flag
    <3> QED BY <2>2, <3>1, FlagsAre
  <2> QED BY <2>1, <2>2
<1>9. AllHold(DataResults(event, e, i, env, o)) <=> \A k \in C : H(k)
  BY <1>7, <1>8
<1> QED
  BY <1>5, <1>6, <1>9

(* The statements about the values of an event hold where it conveys what is wanted. *)
LEMMA ConveyedIs ==
  ASSUME NEW event, NamedOnce(event), NEW e, NEW n \in Nat, DOMAIN e.data = 1..n, NEW i,
         NEW o, Shaped(o.payload), NEW env, env = Environment(before, LiveNow(vector)),
         NoneFail(TopicResults(e, i, env, o)), NoneFail(DataResults(event, e, i, env, o))
  PROVE  /\ AllHold(TopicResults(e, i, env, o)) /\ AllHold(DataResults(event, e, i, env, o)) =>
              Conveys(event, e, o)
         /\ Conveys(event, e, o) /\ DOMAIN event.fields = DOMAIN e.data =>
              AllHold(TopicResults(e, i, env, o)) /\ AllHold(DataResults(event, e, i, env, o))
<1> DEFINE Found(k) == IF SaidOf(event, k, o.payload) = {} THEN event.fields[k].optional
                       ELSE \A v \in SaidOf(event, k, o.payload) : SameValue(Wanted(e.data[k]), v)
<1>1. \A x : Wanted(x) = Compute(env, x, NoMember)
  BY DEF Wanted
<1>2. Conveys(event, e, o) <=>
        /\ \A k \in DOMAIN e.topics :
             SameValue(Wanted(e.topics[k]), IF k \in DOMAIN o.topics THEN o.topics[k] ELSE Absent)
        /\ \A k \in DOMAIN e.data \cap DOMAIN event.fields : Found(k)
  BY DEF Conveys, SaidOf
<1>3. TopicsAre(e, env, o) <=>
        \A k \in DOMAIN e.topics :
          SameValue(Wanted(e.topics[k]), IF k \in DOMAIN o.topics THEN o.topics[k] ELSE Absent)
  BY <1>1 DEF TopicsAre
<1>4. ASSUME NEW k \in DOMAIN e.data \cap DOMAIN event.fields
      PROVE  Found(k) <=> FieldIs(event, e, env, o, k)
  <2>1. SaidOf(event, k, o.payload) = IF HasItem(event.fields[k], k, o.payload)
                                      THEN {ItemOf(event.fields[k], k, o.payload)} ELSE {}
    BY SaidIs
  <2>2. CASE HasItem(event.fields[k], k, o.payload)
    <3>1. SaidOf(event, k, o.payload) = {ItemOf(event.fields[k], k, o.payload)}
      BY <2>1, <2>2
    <3>2. Found(k) <=> SameValue(Wanted(e.data[k]), ItemOf(event.fields[k], k, o.payload))
      BY <3>1
    <3>3. FieldIs(event, e, env, o, k) <=>
            SameValue(Compute(env, e.data[k], NoMember), ItemOf(event.fields[k], k, o.payload))
      BY <2>2 DEF FieldIs
    <3> QED BY <1>1, <3>2, <3>3
  <2>3. CASE ~HasItem(event.fields[k], k, o.payload)
    <3>1. SaidOf(event, k, o.payload) = {}
      BY <2>1, <2>3
    <3> QED BY <2>3, <3>1 DEF FieldIs
  <2> QED BY <2>2, <2>3
<1> HIDE DEF Found
<1>5. Conveys(event, e, o) <=>
        /\ TopicsAre(e, env, o)
        /\ \A k \in DOMAIN e.data \cap DOMAIN event.fields : FieldIs(event, e, env, o, k)
  BY <1>2, <1>3, <1>4
<1> QED
  BY <1>5, TopicsMean, DataMean

\* What the events of one name have to be to come before those of another.
Precedes(event, other, observed) ==
  LET late == {j \in DOMAIN observed : observed[j].name = other.name}
  IN /\ other.id \in event.strict => late # {}
     /\ \A j \in late : \E i \in 1..(j - 1) : observed[i].name = event.name

(* The first of a name is the least place it is at. *)
LEMMA FirstIs ==
  ASSUME NEW observed, NEW n \in Nat, DOMAIN observed = 1..n, NEW name
  PROVE  /\ First(observed, name) \in 0..n
         /\ First(observed, name) = 0 <=> EventsNamed(observed, name) = {}
         /\ First(observed, name) # 0 => First(observed, name) \in EventsNamed(observed, name)
         /\ \A j \in EventsNamed(observed, name) : First(observed, name) <= j
<1>1. EventsNamed(observed, name) \in SUBSET (1..n)
  BY DEF EventsNamed
<1>2. CASE EventsNamed(observed, name) = {}
  <2>1. First(observed, name) = 0
    BY <1>2 DEF First
  <2> QED BY <1>2, <2>1
<1>3. CASE EventsNamed(observed, name) # {}
  <2>1. First(observed, name) = Min(EventsNamed(observed, name))
    BY <1>3 DEF First
  <2>2. EventsNamed(observed, name) \in SUBSET Nat
    BY <1>1
  <2>3. /\ Min(EventsNamed(observed, name)) \in EventsNamed(observed, name)
        /\ \A j \in EventsNamed(observed, name) : Min(EventsNamed(observed, name)) <= j
    BY <1>3, <2>2, LeastExists
  <2> QED BY <1>1, <1>3, <2>1, <2>3
<1> QED
  BY <1>2, <1>3

(* Comparing the first of one name with the first of the other decides about all of them. *)
LEMMA OrderIsOfTheFirst ==
  ASSUME NEW observed, NEW n \in Nat, DOMAIN observed = 1..n, NEW event, NEW other,
         EventsNamed(observed, event.name) # {}
  PROVE  InOrder(event, other, observed) <=> Precedes(event, other, observed)
<1> DEFINE this == First(observed, event.name)
           that == First(observed, other.name)
           late == EventsNamed(observed, other.name)
<1>1. this \in 1..n /\ observed[this].name = event.name
      /\ \A j \in 1..n : observed[j].name = event.name => this <= j
  <2>1. this \in 0..n /\ this # 0 /\ this \in EventsNamed(observed, event.name)
        /\ \A j \in EventsNamed(observed, event.name) : this <= j
    BY FirstIs
  <2> HIDE DEF this
  <2> QED BY <2>1 DEF EventsNamed
<1>2. that \in 0..n /\ (that = 0 <=> late = {}) /\ (that # 0 => that \in late)
      /\ \A j \in late : that <= j
  BY FirstIs
<1>3. InOrder(event, other, observed) <=> IF that = 0 THEN other.id \notin event.strict ELSE this < that
  BY <1>1 DEF InOrder
<1>4. Precedes(event, other, observed) <=>
        /\ other.id \in event.strict => late # {}
        /\ \A j \in late : \E i \in 1..(j - 1) : observed[i].name = event.name
  BY DEF Precedes, EventsNamed
<1>5. late \in SUBSET (1..n)
  BY DEF EventsNamed
<1> HIDE DEF this, that, late
<1>6. CASE that = 0
  BY <1>2, <1>3, <1>4, <1>6
<1>7. CASE that # 0
  <2>1. that \in late /\ that \in 1..n /\ late # {}
    BY <1>2, <1>7
  <2>2. ASSUME this < that
        PROVE  \A j \in late : \E i \in 1..(j - 1) : observed[i].name = event.name
    <3> SUFFICES ASSUME NEW j \in late PROVE \E i \in 1..(j - 1) : observed[i].name = event.name
      OBVIOUS
    <3>1. j \in 1..n /\ that <= j
      BY <1>2, <1>5
    <3>2. this \in 1..(j - 1)
      BY <1>1, <2>1, <2>2, <3>1
    <3> QED BY <1>1, <3>2
  <2>3. ASSUME \A j \in late : \E i \in 1..(j - 1) : observed[i].name = event.name
        PROVE  this < that
    <3>1. PICK i \in 1..(that - 1) : observed[i].name = event.name
      BY <2>1, <2>3
    <3>2. i \in 1..n /\ i < that
      BY <2>1, <3>1
    <3>3. this <= i
      BY <1>1, <3>1, <3>2
    <3> QED BY <1>1, <2>1, <3>2, <3>3
  <2> QED BY <1>3, <1>4, <1>7, <2>1, <2>2, <2>3
<1> QED
  BY <1>6, <1>7

(* A list of statements holds where its parts do, and one of a flag where the flag does. *)
LEMMA HoldingIs ==
  /\ \A A, B : AllHold(A \cup B) <=> AllHold(A) /\ AllHold(B)
  /\ \A A, B : NoneFail(A \cup B) => NoneFail(A) /\ NoneFail(B)
  /\ \A p : AllHold({Statement(p, Flag(TRUE))}) /\ ~AllHold({Statement(p, Flag(FALSE))})
<1>1. /\ \A A, B : AllHold(A \cup B) <=> AllHold(A) /\ AllHold(B)
      /\ \A A, B : NoneFail(A \cup B) => NoneFail(A) /\ NoneFail(B)
  BY DEF AllHold, NoneFail
<1>2. \A p, value : AllHold({Statement(p, value)}) <=> value = Flag(TRUE)
  BY FlagsAre DEF AllHold
<1>3. ASSUME NEW p
      PROVE  AllHold({Statement(p, Flag(TRUE))}) /\ ~AllHold({Statement(p, Flag(FALSE))})
  <2>1. AllHold({Statement(p, Flag(TRUE))})
    BY <1>2
  <2>2. ~AllHold({Statement(p, Flag(FALSE))})
    <3> DEFINE no == Flag(FALSE)
    <3>1. no # Flag(TRUE)
      BY FlagsAre
    <3> HIDE DEF no
    <3>2. Statement(p, no).value = no
      BY FlagsAre
    <3>3. \E s \in {Statement(p, no)} : s.value # Flag(TRUE)
      BY <3>1, <3>2
    <3>4. ~AllHold({Statement(p, no)})
      BY <3>3 DEF AllHold
    <3> QED BY <3>4 DEF no
  <2> QED BY <2>1, <2>2
<1> QED
  BY <1>1, <1>3

(* The events of a name are finitely many. *)
LEMMA NamedAre ==
  ASSUME NEW observed, NEW n \in Nat, DOMAIN observed = 1..n, NEW name
  PROVE  /\ EventsNamed(observed, name) \in SUBSET (1..n) /\ EventsNamed(observed, name) \in SUBSET Nat
         /\ IsFiniteSet(EventsNamed(observed, name)) /\ Cardinality(EventsNamed(observed, name)) \in Nat
         /\ Cardinality(EventsNamed(observed, name)) > 0 => EventsNamed(observed, name) # {}
<1>1. EventsNamed(observed, name) \in SUBSET (1..n)
  BY DEF EventsNamed
<1>2. IsFiniteSet(1..n)
  BY FS_Interval
<1>3. IsFiniteSet(EventsNamed(observed, name))
  BY <1>1, <1>2, FS_Subset
<1> QED
  BY <1>1, <1>3, FS_CardinalityType, FS_EmptySet

\* What the statements about a required event come to, given the event it is compared with.
ComesTo(p, e, i, env, observed, event, said, o) ==
  /\ AllHold(RequiredEvent(p, e, i, env, observed)) <=>
       /\ Cardinality(said) >= event.min /\ Cardinality(said) <= event.max
       /\ ~(i > Cardinality(said))
       /\ AllHold(TopicResults(e, i, env, o)) /\ AllHold(DataResults(event, e, i, env, o))
       /\ \A id \in event.before : InOrder(event, Definition(p.events, id), observed)
  /\ NoneFail(RequiredEvent(p, e, i, env, observed)) /\ ~(i > Cardinality(said)) =>
       NoneFail(TopicResults(e, i, env, o)) /\ NoneFail(DataResults(event, e, i, env, o))

(* What all the statements about one required event come to. *)
LEMMA RequiredMeans ==
  ASSUME NEW p, NEW e, NEW i, NEW env, NEW observed, NEW n \in Nat, DOMAIN observed = 1..n,
         Defined(p.events, e.event), NEW event, event = Definition(p.events, e.event),
         event.before \subseteq Ids(p.events), event.min \in Nat, event.max \in Nat,
         NEW said, said = EventsNamed(observed, event.name), NEW o, o = observed[CounterpartAt(said, i)]
  PROVE  ComesTo(p, e, i, env, observed, event, said, o)
<1> USE DEF ComesTo
<1> DEFINE C == {Statement(Check("cardinality", e.event, i, 0), Flag(InNumber(event, observed)))}
           V == {Statement(Check("values", e.event, i, 0), Flag(FALSE))}
           T == TopicResults(e, i, env, o)
           D == DataResults(event, e, i, env, o)
           S(id) == Statement(Check("ordering", e.event, i, 0),
                              Flag(InOrder(event, Definition(p.events, id), observed)))
           O == {S(id) : id \in event.before}
<1>1. RequiredEvent(p, e, i, env, observed) =
        C \cup (IF i > Cardinality(said) THEN V ELSE T \cup D) \cup O
  <2>1. event.before \cap Ids(p.events) = event.before
    OBVIOUS
  <2>2. {S(id) : id \in event.before \cap Ids(p.events)} = O
    BY <2>1
  <2> QED BY <2>2 DEF RequiredEvent
<1>2. AllHold(C) <=> Cardinality(said) >= event.min /\ Cardinality(said) <= event.max
  <2>1. Cardinality(said) \in Nat
    BY NamedAre
  <2>2. InNumber(event, observed) <=> Cardinality(said) >= event.min /\ Cardinality(said) <= event.max
    BY <2>1 DEF InNumber
  <2>3. CASE InNumber(event, observed)
    <3>1. C = {Statement(Check("cardinality", e.event, i, 0), Flag(TRUE))}
      BY <2>3 DEF Flag
    <3>2. AllHold(C)
      BY <3>1, HoldingIs
    <3> QED BY <2>2, <2>3, <3>2
  <2>4. CASE ~InNumber(event, observed)
    <3>1. C = {Statement(Check("cardinality", e.event, i, 0), Flag(FALSE))}
      BY <2>4 DEF Flag
    <3>2. ~AllHold(C)
      BY <3>1, HoldingIs
    <3> QED BY <2>2, <2>4, <3>2
  <2> QED BY <2>3, <2>4
<1>3. ~AllHold(V)
  BY HoldingIs
<1>4. AllHold(O) <=> \A id \in event.before : InOrder(event, Definition(p.events, id), observed)
  <2>1. AllHold(O) <=> \A id \in event.before : S(id).value = Flag(TRUE)
    <3> HIDE DEF S
    <3> QED BY DEF AllHold
  <2>2. ASSUME NEW id
        PROVE  S(id).value = Flag(TRUE) <=> InOrder(event, Definition(p.events, id), observed)
    <3>1. S(id).value = Flag(InOrder(event, Definition(p.events, id), observed))
      BY FlagsAre
    <3> HIDE DEF S
    <3>2. CASE InOrder(event, Definition(p.events, id), observed)
      BY <3>1, <3>2 DEF Flag
    <3>3. CASE ~InOrder(event, Definition(p.events, id), observed)
      <4>1. S(id).value = Flag(FALSE)
        BY <3>1, <3>3 DEF Flag
      <4> QED BY <3>3, <4>1, FlagsAre
    <3> QED BY <3>2, <3>3
  <2> HIDE DEF S, O
  <2> QED BY <2>1, <2>2
<1> HIDE DEF C, V, O
<1>5. CASE i > Cardinality(said)
  <2>1. RequiredEvent(p, e, i, env, observed) = C \cup V \cup O
    BY <1>1, <1>5
  <2>2. ~AllHold(RequiredEvent(p, e, i, env, observed))
    BY <1>3, <2>1, HoldingIs
  <2> QED BY <1>5, <2>2
<1>6. CASE ~(i > Cardinality(said))
  <2>1. RequiredEvent(p, e, i, env, observed) = C \cup (T \cup D) \cup O
    BY <1>1, <1>6
  <2> HIDE DEF T, D
  <2>2. /\ AllHold(RequiredEvent(p, e, i, env, observed)) <=>
             AllHold(C) /\ AllHold(T) /\ AllHold(D) /\ AllHold(O)
        /\ NoneFail(RequiredEvent(p, e, i, env, observed)) => NoneFail(T) /\ NoneFail(D)
    <3>1. AllHold(RequiredEvent(p, e, i, env, observed)) <=>
            AllHold(C \cup (T \cup D)) /\ AllHold(O)
      BY <2>1, HoldingIs
    <3>2. AllHold(C \cup (T \cup D)) <=> AllHold(C) /\ AllHold(T \cup D)
      BY HoldingIs
    <3>3. AllHold(T \cup D) <=> AllHold(T) /\ AllHold(D)
      BY HoldingIs
    <3>4. NoneFail(RequiredEvent(p, e, i, env, observed)) => NoneFail(T) /\ NoneFail(D)
      BY <2>1 DEF NoneFail
    <3> QED BY <3>1, <3>2, <3>3, <3>4
  <2> USE DEF T, D
  <2> QED BY <1>2, <1>4, <1>6, <2>2
<1> QED
  BY <1>5, <1>6

---------------------------------------------------------------------------
(* What a judged vector is judged by. *)

\* The event a vector requires at one place of its list.
EventAt(i) == Definition(profile.events, vector.required[i].event)

(* What admission leaves to be relied on, of the events a judged vector names. *)
LEMMA JudgedIs ==
  ASSUME IntakeInv, pc = "judged"
  PROVE  /\ \E n \in Nat : DOMAIN vector.required = 1..n
         /\ \A i \in DOMAIN vector.required :
              /\ Defined(profile.events, vector.required[i].event)
              /\ EventAt(i).id = vector.required[i].event
              /\ EventAt(i).before \subseteq Ids(profile.events)
              /\ EventAt(i).min \in Nat /\ EventAt(i).max \in Nat
              /\ EventAt(i).fields \in Seq(ToSet(EventAt(i).fields))
              /\ vector.required[i].data \in Seq(ToSet(vector.required[i].data))
         /\ \A id \in vector.forbidden : Defined(profile.events, id)
         /\ profile.events \in Seq(ToSet(profile.events))
<1>1. /\ disk \in Disks /\ Admissible(disk, vector) /\ DocumentOf(disk, vector)
      /\ WellReferenced(disk.profile)
  BY TestedIs DEF Later
<1>2. profile = disk.profile
  BY DEF profile
<1>3. PICK p \in DOMAIN disk.files : vector = disk.files[p]
  BY <1>1 DEF DocumentOf
<1>4. /\ vector.required \in Seq(ToSet(vector.required))
      /\ \A e \in ToSet(vector.required) : e.data \in Seq(ToSet(e.data))
  BY <1>1, <1>3, DocumentsAre
<1>5. \E n \in Nat : DOMAIN vector.required = 1..n
  BY <1>4, LenProperties
<1>6. /\ profile.events \in Seq(ToSet(profile.events))
      /\ \A e \in ToSet(profile.events) :
           e.fields \in Seq(ToSet(e.fields)) /\ e.min \in Nat /\ e.max \in Nat
  BY <1>1, <1>2, DocumentsAre
<1>7. Announced(vector) \cup vector.forbidden \subseteq Ids(profile.events)
  BY <1>1, <1>2 DEF Admissible
<1>8. ASSUME NEW i \in DOMAIN vector.required
      PROVE  /\ Defined(profile.events, vector.required[i].event)
             /\ EventAt(i).id = vector.required[i].event /\ EventAt(i) \in ToSet(profile.events)
             /\ vector.required[i] \in ToSet(vector.required)
  <2>1. Defined(profile.events, vector.required[i].event)
    BY <1>7 DEF Announced, Defined
  <2>2. vector.required[i] \in ToSet(vector.required)
    BY DEF ToSet
  <2> QED BY <1>6, <2>1, <2>2, DefinitionIs DEF EventAt
<1>9. \A e \in ToSet(profile.events) : e.before \subseteq Ids(profile.events)
  BY <1>1, <1>2 DEF WellReferenced
<1>10. \A id \in vector.forbidden : Defined(profile.events, id)
  BY <1>7 DEF Defined
<1> QED
  BY <1>4, <1>5, <1>6, <1>8, <1>9, <1>10

\* The statements about the event required at one place.
StatementsAt(i, observed) ==
  RequiredEvent(profile, vector.required[i], i, Environment(before, LiveNow(vector)), observed)

(* Every statement of the dimension holds where each about a required event does, and no      *)
(* forbidden event was announced.                                                          *)
LEMMA JudgementsMean ==
  ASSUME NEW observed, \A id \in vector.forbidden : Defined(profile.events, id)
  PROVE  /\ AllHold(EventJudgements(observed)) <=>
              /\ \A i \in DOMAIN vector.required : AllHold(StatementsAt(i, observed))
              /\ \A id \in vector.forbidden : \A j \in DOMAIN observed :
                   observed[j].name # Definition(profile.events, id).name
         /\ NoneFail(EventJudgements(observed)) =>
              \A i \in DOMAIN vector.required : NoneFail(StatementsAt(i, observed))
<1> DEFINE S(id) == Statement(Check("forbidden", id, 0, 0), Silent(profile, id, observed))
           R == UNION {StatementsAt(i, observed) : i \in DOMAIN vector.required}
           F == {S(id) : id \in vector.forbidden}
<1>1. EventJudgements(observed) = R \cup F
  BY DEF EventJudgements, EventResults, StatementsAt
<1>2. /\ AllHold(R) <=> \A i \in DOMAIN vector.required : AllHold(StatementsAt(i, observed))
      /\ NoneFail(R) => \A i \in DOMAIN vector.required : NoneFail(StatementsAt(i, observed))
  BY DEF AllHold, NoneFail
<1>3. ASSUME NEW id \in vector.forbidden
      PROVE  S(id).value = Flag(TRUE) <=>
               \A j \in DOMAIN observed : observed[j].name # Definition(profile.events, id).name
  <2> DEFINE said == EventsNamed(observed, Definition(profile.events, id).name)
  <2>1. S(id).value = Flag(said = {})
    <3>1. S(id).value = Silent(profile, id, observed)
      BY FlagsAre
    <3>2. Silent(profile, id, observed) = Flag(said = {})
      BY DEF Silent
    <3> QED BY <3>1, <3>2
  <2>2. said = {} <=> \A j \in DOMAIN observed : observed[j].name # Definition(profile.events, id).name
    BY DEF EventsNamed
  <2> HIDE DEF said, S
  <2>3. CASE said = {}
    BY <2>1, <2>2, <2>3 DEF Flag
  <2>4. CASE said # {}
    <3>1. S(id).value = Flag(FALSE)
      BY <2>1, <2>4 DEF Flag
    <3> QED BY <2>2, <2>4, <3>1, FlagsAre
  <2> QED BY <2>3, <2>4
<1>4. AllHold(F) <=> \A id \in vector.forbidden : S(id).value = Flag(TRUE)
  <2>1. \A x : x \in F <=> \E id \in vector.forbidden : x = S(id)
    OBVIOUS
  <2>2. AllHold(F) <=> \A x \in F : x.value = Flag(TRUE)
    BY DEF AllHold
  <2>3. ASSUME AllHold(F), NEW id \in vector.forbidden
        PROVE  S(id).value = Flag(TRUE)
    <3>1. S(id) \in F
      OBVIOUS
    <3> HIDE DEF S, F
    <3> QED BY <2>2, <2>3, <3>1
  <2>4. ASSUME \A id \in vector.forbidden : S(id).value = Flag(TRUE), NEW x \in F
        PROVE  x.value = Flag(TRUE)
    <3>1. PICK id \in vector.forbidden : x = S(id)
      BY <2>1
    <3>2. S(id).value = Flag(TRUE)
      BY <2>4
    <3> HIDE DEF S, F
    <3> QED BY <3>1, <3>2
  <2> HIDE DEF F
  <2> QED BY <2>2, <2>3, <2>4
<1> HIDE DEF S, R, F
<1>5. /\ AllHold(EventJudgements(observed)) <=> AllHold(R) /\ AllHold(F)
      /\ NoneFail(EventJudgements(observed)) => NoneFail(R)
  BY <1>1, HoldingIs
<1> QED
  BY <1>2, <1>3, <1>4, <1>5

\* Events as a host can have emitted them.
Emitted(observed) ==
  /\ \E n \in Nat : DOMAIN observed = 1..n
  /\ \A j \in DOMAIN observed : Shaped(observed[j].payload)

\* What the event required at one place has to be, the event it is compared with included.
RequiredIsMet(i, observed) ==
  LET said == EventsNamed(observed, EventAt(i).name)
  IN /\ Cardinality(said) >= EventAt(i).min /\ Cardinality(said) <= EventAt(i).max
     /\ i <= Cardinality(said)
     /\ Conveys(EventAt(i), vector.required[i], observed[Place(said, i)])
     /\ \A id \in EventAt(i).before : Precedes(EventAt(i), Definition(profile.events, id), observed)

(* The statements about one required event hold where it is met, and, where all its fields    *)
(* are stated, only there.                                                                 *)
LEMMA StatementsMean ==
  ASSUME IntakeInv, pc = "judged", FieldsNamedOnce, NEW observed, Emitted(observed),
         NEW i \in DOMAIN vector.required, NoneFail(StatementsAt(i, observed))
  PROVE  /\ AllHold(StatementsAt(i, observed)) => RequiredIsMet(i, observed)
         /\ RequiredIsMet(i, observed) /\ Len(vector.required[i].data) = Len(EventAt(i).fields) =>
              AllHold(StatementsAt(i, observed))
<1> DEFINE e     == vector.required[i]
           event == EventAt(i)
           said  == EventsNamed(observed, event.name)
           o     == observed[CounterpartAt(said, i)]
           env   == Environment(before, LiveNow(vector))
<1>1. PICK n \in Nat : DOMAIN observed = 1..n
  BY DEF Emitted
<1>2. PICK m \in Nat : DOMAIN vector.required = 1..m
  BY JudgedIs
<1>3. /\ Defined(profile.events, e.event) /\ event = Definition(profile.events, e.event)
      /\ event.before \subseteq Ids(profile.events) /\ event.min \in Nat /\ event.max \in Nat
      /\ event.fields \in Seq(ToSet(event.fields)) /\ e.data \in Seq(ToSet(e.data))
  BY JudgedIs DEF EventAt
<1>4. NamedOnce(event)
  <2>1. e.event \in Announced(vector)
    BY DEF Announced
  <2> QED BY <1>3, <2>1 DEF FieldsNamedOnce, NamedOnce
<1>5. /\ Len(e.data) \in Nat /\ DOMAIN e.data = 1..Len(e.data)
      /\ Len(event.fields) \in Nat /\ DOMAIN event.fields = 1..Len(event.fields)
  BY <1>3, LenProperties
<1>6. i \in Nat /\ i > 0
  BY <1>2
<1>7. o = observed[Place(said, i)]
  BY DEF CounterpartAt
<1> HIDE DEF e, event, said, o, env
<1>8. /\ AllHold(StatementsAt(i, observed)) <=>
           /\ Cardinality(said) >= event.min /\ Cardinality(said) <= event.max
           /\ ~(i > Cardinality(said))
           /\ AllHold(TopicResults(e, i, env, o)) /\ AllHold(DataResults(event, e, i, env, o))
           /\ \A id \in event.before : InOrder(event, Definition(profile.events, id), observed)
      /\ ~(i > Cardinality(said)) =>
           NoneFail(TopicResults(e, i, env, o)) /\ NoneFail(DataResults(event, e, i, env, o))
  <2>1. StatementsAt(i, observed) = RequiredEvent(profile, e, i, env, observed)
    BY DEF StatementsAt, e, env
  <2>2. said = EventsNamed(observed, event.name) /\ o = observed[CounterpartAt(said, i)]
    BY DEF said, o
  <2>3. ComesTo(profile, e, i, env, observed, event, said, o)
    BY <1>1, <1>3, <2>2, RequiredMeans
  <2> QED BY <2>1, <2>3 DEF ComesTo
<1>9. /\ Cardinality(said) \in Nat /\ said \in SUBSET (1..n) /\ said \in SUBSET Nat /\ IsFiniteSet(said)
      /\ Cardinality(said) > 0 => said # {}
  BY <1>1, NamedAre DEF said
<1>10. ~(i > Cardinality(said)) <=> i <= Cardinality(said)
  BY <1>6, <1>9
<1>11. RequiredIsMet(i, observed) <=>
         /\ Cardinality(said) >= event.min /\ Cardinality(said) <= event.max
         /\ i <= Cardinality(said)
         /\ Conveys(event, e, o)
         /\ \A id \in event.before : Precedes(event, Definition(profile.events, id), observed)
  BY <1>7 DEF RequiredIsMet, said, event, e
<1>12. ASSUME i <= Cardinality(said)
       PROVE  /\ \A id \in event.before : InOrder(event, Definition(profile.events, id), observed)
                   <=> Precedes(event, Definition(profile.events, id), observed)
              /\ AllHold(TopicResults(e, i, env, o)) /\ AllHold(DataResults(event, e, i, env, o)) =>
                   Conveys(event, e, o)
              /\ Conveys(event, e, o) /\ DOMAIN event.fields = DOMAIN e.data =>
                   AllHold(TopicResults(e, i, env, o)) /\ AllHold(DataResults(event, e, i, env, o))
  <2>1. said # {}
    <3>1. Cardinality(said) > 0
      BY <1>6, <1>9, <1>12
    <3> QED BY <1>9, <3>1
  <2>2. \A id \in event.before : InOrder(event, Definition(profile.events, id), observed)
                   <=> Precedes(event, Definition(profile.events, id), observed)
    BY <1>1, <2>1, OrderIsOfTheFirst DEF said
  <2>3. Shaped(o.payload)
    <3>1. i \in 1..Cardinality(said)
      BY <1>6, <1>9, <1>12
    <3>2. Place(said, i) \in said
      BY <1>9, <3>1, PlacesAre
    <3> QED BY <1>1, <1>7, <1>9, <3>2 DEF Emitted
  <2>4. NoneFail(TopicResults(e, i, env, o)) /\ NoneFail(DataResults(event, e, i, env, o))
    BY <1>8, <1>10, <1>12
  <2>5. env = Environment(before, LiveNow(vector))
    BY DEF env
  <2> QED BY <1>4, <1>5, <2>2, <2>3, <2>4, <2>5, ConveyedIs
<1>13. Len(e.data) = Len(event.fields) => DOMAIN event.fields = DOMAIN e.data
  BY <1>5
<1>14. AllHold(StatementsAt(i, observed)) => RequiredIsMet(i, observed)
  BY <1>8, <1>10, <1>11, <1>12
<1>15. RequiredIsMet(i, observed) /\ Len(e.data) = Len(event.fields) => AllHold(StatementsAt(i, observed))
  BY <1>8, <1>10, <1>11, <1>12, <1>13
<1> QED
  BY <1>14, <1>15 DEF e, event

\* What a kind of event that is required has to have been announced as.
AnnouncedAs(id, observed) ==
  LET event == Definition(profile.events, id)
      said  == EventsNamed(observed, event.name)
      asked == ExpectationsOf(id)
  IN /\ Cardinality(said) >= event.min /\ Cardinality(said) <= event.max
     /\ \E m \in [asked -> said] :
          InOrderOf(m) /\ \A i \in asked : Conveys(event, vector.required[i], observed[m[i]])
     /\ \A other \in event.before : Precedes(event, Definition(profile.events, other), observed)

(* Announced as required is what it says of each kind, and of what is forbidden. *)
LEMMA AnnouncedMeans ==
  ASSUME IntakeInv, pc = "judged", NEW observed
  PROVE  AnnouncedAsRequired(observed) <=>
           /\ \A id \in Announced(vector) : AnnouncedAs(id, observed)
           /\ \A id \in vector.forbidden : \A i \in DOMAIN observed :
                observed[i].name # Definition(profile.events, id).name
<1> DEFINE Before(id, other) ==
             LET late == {j \in DOMAIN observed :
                            observed[j].name = Definition(profile.events, other).name}
             IN /\ other \in Definition(profile.events, id).strict => late # {}
                /\ \A j \in late : \E i \in 1..(j - 1) :
                     observed[i].name = Definition(profile.events, id).name
           Said(id) == EventsNamed(observed, Definition(profile.events, id).name)
           As(id) ==
             /\ Cardinality(Said(id)) >= Definition(profile.events, id).min
             /\ Cardinality(Said(id)) <= Definition(profile.events, id).max
             /\ \E m \in [ExpectationsOf(id) -> Said(id)] :
                  /\ InOrderOf(m)
                  /\ \A i \in ExpectationsOf(id) :
                       Conveys(Definition(profile.events, id), vector.required[i], observed[m[i]])
<1>1. AnnouncedAsRequired(observed) <=>
        /\ \A id \in Announced(vector) :
             As(id) /\ \A other \in Definition(profile.events, id).before : Before(id, other)
        /\ \A id \in vector.forbidden : \A i \in DOMAIN observed :
             observed[i].name # Definition(profile.events, id).name
  BY DEF AnnouncedAsRequired
<1>2. \A id : AnnouncedAs(id, observed) <=>
        /\ As(id)
        /\ \A other \in Definition(profile.events, id).before :
             Precedes(Definition(profile.events, id), Definition(profile.events, other), observed)
  BY DEF AnnouncedAs
<1>3. ASSUME NEW id \in Announced(vector), NEW other \in Definition(profile.events, id).before
      PROVE  Before(id, other) <=>
               Precedes(Definition(profile.events, id), Definition(profile.events, other), observed)
  <2>1. PICK i \in DOMAIN vector.required : vector.required[i].event = id
    BY DEF Announced
  <2>2. Defined(profile.events, other)
    BY <2>1, JudgedIs DEF EventAt, Defined
  <2>3. profile.events \in Seq(ToSet(profile.events))
    BY JudgedIs
  <2>4. Definition(profile.events, other).id = other
    BY <2>2, <2>3, DefinitionIs
  <2> QED BY <2>4 DEF Precedes
<1> HIDE DEF As, Before
<1> QED
  BY <1>1, <1>2, <1>3

(* A vector whose required events are all met was announced as required. *)
LEMMA MetIsAnnounced ==
  ASSUME IntakeInv, pc = "judged", NEW observed, Emitted(observed),
         \A i \in DOMAIN vector.required : RequiredIsMet(i, observed),
         NEW id \in Announced(vector)
  PROVE  AnnouncedAs(id, observed)
<1> DEFINE event == Definition(profile.events, id)
           said  == EventsNamed(observed, event.name)
           asked == ExpectationsOf(id)
           m     == [i \in asked |-> Place(said, i)]
<1>1. PICK n \in Nat : DOMAIN observed = 1..n
  BY DEF Emitted
<1>2. PICK k \in Nat : DOMAIN vector.required = 1..k
  BY JudgedIs
<1>3. PICK first \in DOMAIN vector.required : vector.required[first].event = id
  BY DEF Announced
<1>4. ASSUME NEW i \in asked
      PROVE  i \in DOMAIN vector.required /\ EventAt(i) = event
  BY DEF ExpectationsOf, EventAt
<1>5. first \in asked
  BY <1>3 DEF ExpectationsOf
<1>6. said \in SUBSET Nat /\ IsFiniteSet(said) /\ Cardinality(said) \in Nat
  BY <1>1, NamedAre
<1>7. ASSUME NEW i \in asked
      PROVE  /\ Cardinality(said) >= event.min /\ Cardinality(said) <= event.max
             /\ i \in 1..Cardinality(said) /\ i \in Nat
             /\ Conveys(event, vector.required[i], observed[Place(said, i)])
             /\ \A other \in event.before : Precedes(event, Definition(profile.events, other), observed)
  <2>1. i \in DOMAIN vector.required /\ EventAt(i) = event
    BY <1>4
  <2>2. RequiredIsMet(i, observed)
    BY <2>1
  <2>3. i \in Nat /\ i > 0
    BY <1>2, <2>1
  <2>4. i <= Cardinality(said)
    BY <2>1, <2>2 DEF RequiredIsMet
  <2>5. i \in 1..Cardinality(said)
    <3> HIDE DEF said
    <3> QED BY <1>6, <2>3, <2>4
  <2> QED BY <2>1, <2>2, <2>3, <2>5 DEF RequiredIsMet
<1> HIDE DEF event, said, asked
<1>8. m \in [asked -> said]
  BY <1>6, <1>7, PlacesAre
<1>9. InOrderOf(m)
  <2>1. \A i, j \in 1..Cardinality(said) : i < j => Place(said, i) < Place(said, j)
    BY <1>6, PlacesAre
  <2> QED BY <1>7, <2>1 DEF InOrderOf
<1>10. \A i \in asked : Conveys(event, vector.required[i], observed[m[i]])
  BY <1>7
<1> HIDE DEF m
<1> QED
  BY <1>5, <1>7, <1>8, <1>9, <1>10 DEF AnnouncedAs, event, said, asked

(* Where one kind of event is required, all of the list requires that kind. *)
LEMMA OneKindIs ==
  ASSUME OneKindRequired, NEW n \in Nat, DOMAIN vector.required = 1..n, NEW i \in 1..n
  PROVE  ExpectationsOf(vector.required[i].event) = 1..n
<1> DEFINE S == Announced(vector)
           f == [k \in 1..n |-> vector.required[k].event]
<1>1. IsFiniteSet(1..n)
  BY FS_Interval
<1>2. S = {f[k] : k \in 1..n}
  BY DEF Announced
<1>3. \A k \in 1..n : f[k] = vector.required[k].event
  OBVIOUS
<1>4. f \in Surjection(1..n, S)
  <2>1. f \in [1..n -> S]
    BY <1>2
  <2>2. \A x \in S : \E k \in 1..n : f[k] = x
    BY <1>2
  <2> HIDE DEF f, S
  <2> QED BY <2>1, <2>2 DEF Surjection
<1> HIDE DEF f
<1>5. IsFiniteSet(S)
  <2> HIDE DEF S
  <2> QED BY <1>1, <1>4, FS_Surjection
<1>6. Cardinality(S) <= 1
  BY DEF OneKindRequired
<1>7. ASSUME NEW x \in S, NEW y \in S
      PROVE  x = y
  <2> SUFFICES ASSUME x # y PROVE FALSE
    OBVIOUS
  <2>1. IsFiniteSet({x}) /\ Cardinality({x}) = 1
    BY FS_Singleton
  <2>2. IsFiniteSet({x} \cup {y}) /\ Cardinality({x} \cup {y}) = 2
    <3>1. /\ IsFiniteSet({x} \cup {y})
          /\ Cardinality({x} \cup {y}) = IF y \in {x} THEN Cardinality({x}) ELSE Cardinality({x}) + 1
      BY <2>1, FS_AddElement
    <3>2. y \notin {x}
      OBVIOUS
    <3>3. Cardinality({x} \cup {y}) = Cardinality({x}) + 1
      BY <3>1, <3>2
    <3>4. Cardinality({x}) + 1 = 2
      BY <2>1
    <3> QED BY <3>1, <3>3, <3>4
  <2>3. {x} \cup {y} \in SUBSET S
    BY <1>7
  <2> HIDE DEF S
  <2>4. Cardinality({x} \cup {y}) <= Cardinality(S) /\ Cardinality(S) \in Nat
    BY <1>5, <2>3, FS_Subset, FS_CardinalityType
  <2> QED BY <1>6, <2>2, <2>4
<1>8. \A k \in 1..n : vector.required[k].event \in S
  BY DEF Announced
<1> HIDE DEF S
<1>9. \A k \in 1..n : vector.required[k].event = vector.required[i].event
  BY <1>7, <1>8
<1> QED
  BY <1>9 DEF ExpectationsOf

(* Events of the one kind required, announced as required and no more often than it is         *)
(* required, are met one by one.                                                            *)
LEMMA AnnouncedIsMet ==
  ASSUME IntakeInv, pc = "judged", NEW observed, Emitted(observed), OneKindRequired,
         NEW i \in DOMAIN vector.required, AnnouncedAs(vector.required[i].event, observed),
         Cardinality(EventsNamed(observed, EventAt(i).name))
           = Cardinality(ExpectationsOf(vector.required[i].event))
  PROVE  RequiredIsMet(i, observed)
<1> DEFINE id    == vector.required[i].event
           event == EventAt(i)
           said  == EventsNamed(observed, event.name)
<1>1. PICK n \in Nat : DOMAIN observed = 1..n
  BY DEF Emitted
<1>2. PICK k \in Nat : DOMAIN vector.required = 1..k
  BY JudgedIs
<1>3. ExpectationsOf(id) = 1..k
  BY <1>2, OneKindIs
<1>4. Cardinality(1..k) = k
  <2>1. Cardinality(1..k) = IF 1 > k THEN 0 ELSE k - 1 + 1
    BY <1>2, FS_Interval
  <2> QED BY <1>2, <2>1
<1>5. Cardinality(said) = k /\ i \in 1..k
  BY <1>2, <1>3, <1>4
<1>6. said \in SUBSET Nat /\ IsFiniteSet(said)
  BY <1>1, NamedAre
<1>7. /\ Cardinality(said) >= event.min /\ Cardinality(said) <= event.max
      /\ \A other \in event.before : Precedes(event, Definition(profile.events, other), observed)
      /\ \E m \in [ExpectationsOf(id) -> said] :
           /\ InOrderOf(m)
           /\ \A j \in ExpectationsOf(id) : Conveys(event, vector.required[j], observed[m[j]])
  BY DEF AnnouncedAs, EventAt
<1>8. PICK m \in [1..k -> said] :
        InOrderOf(m) /\ \A j \in 1..k : Conveys(event, vector.required[j], observed[m[j]])
  BY <1>3, <1>7
<1> HIDE DEF said, event, id
<1>9. m[i] = Place(said, i)
  <2>1. m \in [1..Cardinality(said) -> said]
    BY <1>5, <1>8
  <2>2. \A a, b \in 1..Cardinality(said) : a < b => m[a] < m[b]
    BY <1>5, <1>8 DEF InOrderOf
  <2>3. \A a \in 1..Cardinality(said) : m[a] = Place(said, a)
    BY <1>6, <2>1, <2>2, PlacesAreThe
  <2> QED BY <1>5, <2>3
<1>10. Conveys(event, vector.required[i], observed[Place(said, i)])
  BY <1>5, <1>8, <1>9
<1>11. i <= Cardinality(said)
  BY <1>2, <1>5
<1> QED
  BY <1>7, <1>10, <1>11 DEF RequiredIsMet, said, event

---------------------------------------------------------------------------
(* What is acquitted. *)

(* What was captured is nothing until the call returns, and what that announced from then on. *)
LEMMA CapturedKeeps ==
  /\ Init => Captured
  /\ Captured /\ [Next]_vars => Captured'
<1>1. Init => Captured
  BY DEF Init, Captured
<1> SUFFICES ASSUME Captured, [Next]_vars PROVE Captured'
  BY <1>1
<1>2. CASE UNCHANGED emitted
  BY <1>2 DEF Captured
<1>3. CASE Invoke
  <2>1. CASE CallReturns
    <3>1. PICK after \in Aftermaths : emitted' = after.emitted \/ emitted' = <<>>
      BY <2>1 DEF CallReturns
    <3> QED BY <3>1 DEF Captured
  <2> QED BY <1>2, <1>3, <2>1 DEF Invoke
<1>4. Invoke \/ UNCHANGED emitted
  BY DEF Next, Loading, execution, vars, Take, Record, Convert, Judge
<1> QED
  BY <1>2, <1>3, <1>4

\* Events that were captured.
EventsInv == IntakeInv /\ Captured

(* What was captured can have been emitted. *)
LEMMA ObservedEmitted ==
  ASSUME Captured
  PROVE  Emitted(Observed)
  BY ObservedAre DEF Emitted

(* No announcement is taken for another: what the event dimension acquits was announced as    *)
(* required, and a call that announced what was required, and nothing more of that kind, is    *)
(* acquitted, where the vector requires one kind of event, stated in full (events.rs           *)
(* required_event).                                                                       *)
THEOREM AnnouncedMeansAcquitted == Spec => []AcquittedAsAnnounced
<1>1. ASSUME EventsInv
      PROVE  AcquittedAsAnnounced
  <2> DEFINE holds == \A s \in EventJudgements(Observed) : s.value = Flag(TRUE)
             once  == \A id \in Announced(vector) :
                        Cardinality(EventsNamed(Observed, Definition(profile.events, id).name))
                          = Cardinality(ExpectationsOf(id))
  <2> SUFFICES ASSUME pc = "judged", FieldsNamedOnce, EventsDecided(Observed)
               PROVE  /\ holds => AnnouncedAsRequired(Observed)
                      /\ OneKindRequired /\ StatedInFull /\ AnnouncedAsRequired(Observed) /\ once => holds
    BY DEF AcquittedAsAnnounced, Judged
  <2>1. IntakeInv /\ Emitted(Observed)
    BY <1>1, ObservedEmitted DEF EventsInv
  <2>2. NoneFail(EventJudgements(Observed)) /\ (holds <=> AllHold(EventJudgements(Observed)))
    BY DEF EventsDecided, NoneFail, AllHold
  <2> HIDE DEF holds
  <2>3. \A id \in vector.forbidden : Defined(profile.events, id)
    BY <2>1, JudgedIs
  <2>4. /\ holds <=>
             /\ \A i \in DOMAIN vector.required : AllHold(StatementsAt(i, Observed))
             /\ \A id \in vector.forbidden : \A j \in DOMAIN Observed :
                  Observed[j].name # Definition(profile.events, id).name
        /\ \A i \in DOMAIN vector.required : NoneFail(StatementsAt(i, Observed))
    BY <2>2, <2>3, JudgementsMean
  <2>5. AnnouncedAsRequired(Observed) <=>
          /\ \A id \in Announced(vector) : AnnouncedAs(id, Observed)
          /\ \A id \in vector.forbidden : \A i \in DOMAIN Observed :
               Observed[i].name # Definition(profile.events, id).name
    BY <2>1, AnnouncedMeans
  <2>6. ASSUME holds
        PROVE  AnnouncedAsRequired(Observed)
    <3>1. \A i \in DOMAIN vector.required : RequiredIsMet(i, Observed)
      BY <2>1, <2>4, <2>6, StatementsMean
    <3>2. \A id \in Announced(vector) : AnnouncedAs(id, Observed)
      BY <2>1, <3>1, MetIsAnnounced
    <3> QED BY <2>4, <2>5, <2>6, <3>2
  <2>7. ASSUME OneKindRequired, StatedInFull, AnnouncedAsRequired(Observed), once
        PROVE  holds
    <3>1. ASSUME NEW i \in DOMAIN vector.required
          PROVE  AllHold(StatementsAt(i, Observed))
      <4>1. vector.required[i].event \in Announced(vector)
        BY DEF Announced
      <4>2. AnnouncedAs(vector.required[i].event, Observed)
        BY <2>5, <2>7, <4>1
      <4>3. Cardinality(EventsNamed(Observed, EventAt(i).name))
              = Cardinality(ExpectationsOf(vector.required[i].event))
        BY <2>7, <4>1 DEF EventAt
      <4>4. RequiredIsMet(i, Observed)
        BY <2>1, <2>7, <4>2, <4>3, AnnouncedIsMet
      <4>5. Len(vector.required[i].data) = Len(EventAt(i).fields)
        BY <2>7 DEF StatedInFull, EventAt
      <4> QED BY <2>1, <2>4, <4>4, <4>5, StatementsMean
    <3> QED BY <2>4, <2>5, <2>7, <3>1
  <2> QED BY <2>6, <2>7
<1>2. Init => EventsInv
  BY IntakeStarts, CapturedKeeps DEF EventsInv
<1>3. EventsInv /\ [Next]_vars => EventsInv'
  BY IntakeKeeps, CapturedKeeps DEF EventsInv
<1> QED
  BY <1>1, <1>2, <1>3, PTL DEF Spec

---------------------------------------------------------------------------
(* The shape of a payload. *)

\* An event as it is observed.
Formed(o) == /\ o = [name |-> o.name, topics |-> o.topics, payload |-> o.payload]
             /\ Shaped(o.payload)

\* Where the events are that are declared by a name.
Declared(name) == {i \in DOMAIN profile.events : profile.events[i].name = name}

\* A map whose keys are the first fields, as a sequence.
KeysOf(fields, payload) == [k \in DOMAIN payload.keys |-> fields[k].name]
ItemsOf(fields, payload) ==
  [k \in DOMAIN payload.keys |->
     payload.items[CHOOSE i \in DOMAIN payload.keys : payload.keys[i] = KeysOf(fields, payload)[k]]]

(* An event of another shape is the same event but for its payload. *)
LEMMA SequencedIs ==
  ASSUME NEW o, Formed(o), NEW fields, fields = profile.events[Min(Declared(o.name))].fields
  PROVE  /\ Sequenced(o).name = o.name /\ Sequenced(o).topics = o.topics
         /\ Declared(o.name) # {} =>
              \/ Sequenced(o).payload = o.payload
              \/ /\ o.payload.shape = "scalar"
                 /\ Sequenced(o).payload = Payload("vec", <<>>, o.payload.items)
              \/ /\ o.payload.shape = "map" /\ Len(o.payload.keys) <= Len(fields)
                 /\ ToSet(KeysOf(fields, o.payload)) = ToSet(o.payload.keys)
                 /\ Sequenced(o).payload = Payload("vec", <<>>, ItemsOf(fields, o.payload))
<1> DEFINE As(payload) == [o EXCEPT !.payload = payload]
           fits == /\ Len(o.payload.keys) <= Len(fields)
                   /\ ToSet(KeysOf(fields, o.payload)) = ToSet(o.payload.keys)
<1>1. ASSUME NEW payload
      PROVE  As(payload).name = o.name /\ As(payload).topics = o.topics /\ As(payload).payload = payload
  BY DEF Formed
<1>2. o.payload.shape \in {"map", "vec", "scalar"}
  BY DEF Formed, Shaped
<1> DEFINE vec1 == As(Payload("vec", <<>>, o.payload.items))
           vec2 == As(Payload("vec", <<>>, ItemsOf(fields, o.payload)))
<1>3. Sequenced(o) =
        CASE Declared(o.name) = {} \/ o.payload.shape = "vec" -> o
          [] Declared(o.name) # {} /\ o.payload.shape = "scalar" -> vec1
          [] Declared(o.name) # {} /\ o.payload.shape = "map" -> IF fits THEN vec2 ELSE o
  BY DEF Sequenced, Declared, KeysOf, ItemsOf
<1>4. /\ vec1.name = o.name /\ vec1.topics = o.topics
      /\ vec1.payload = Payload("vec", <<>>, o.payload.items)
      /\ vec2.name = o.name /\ vec2.topics = o.topics
      /\ vec2.payload = Payload("vec", <<>>, ItemsOf(fields, o.payload))
  BY <1>1
<1> HIDE DEF vec1, vec2, As
<1>5. CASE Declared(o.name) = {} \/ o.payload.shape = "vec"
  <2>1. Sequenced(o) = o
    <3>1. ~(Declared(o.name) # {} /\ o.payload.shape = "scalar")
      BY <1>5
    <3>2. ~(Declared(o.name) # {} /\ o.payload.shape = "map")
      BY <1>5
    <3> QED BY <1>3, <1>5, <3>1, <3>2, Zenon
  <2> QED BY <2>1
<1>6. CASE Declared(o.name) # {} /\ o.payload.shape = "scalar"
  <2>1. ~(Declared(o.name) = {} \/ o.payload.shape = "vec") /\ o.payload.shape # "map"
    BY <1>6
  <2>2. Sequenced(o) = vec1
    BY <1>3, <1>6, <2>1, Zenon
  <2> QED BY <1>4, <1>6, <2>2
<1>7. CASE Declared(o.name) # {} /\ o.payload.shape = "map"
  <2>1. ~(Declared(o.name) = {} \/ o.payload.shape = "vec") /\ o.payload.shape # "scalar"
    BY <1>7
  <2>2. Sequenced(o) = IF fits THEN vec2 ELSE o
    <3> HIDE DEF fits
    <3> QED BY <1>3, <1>7, <2>1, Zenon
  <2>3. CASE fits
    BY <1>4, <1>7, <2>2, <2>3
  <2>4. CASE ~fits
    <3>1. Sequenced(o) = o
      BY <2>2, <2>4
    <3> QED BY <3>1
  <2> QED BY <2>3, <2>4
<1> QED
  BY <1>2, <1>5, <1>6, <1>7

(* A map whose keys are the first fields has, as a sequence, each of them where it is.          *)
LEMMA KeysAreFields ==
  ASSUME NEW event, NamedOnce(event), event.fields \in Seq(ToSet(event.fields)),
         NEW payload, Shaped(payload), payload.shape = "map",
         Len(payload.keys) <= Len(event.fields),
         ToSet(KeysOf(event.fields, payload)) = ToSet(payload.keys),
         NEW other, other = Payload("vec", <<>>, ItemsOf(event.fields, payload)),
         NEW k \in DOMAIN event.fields
  PROVE  /\ HasItem(event.fields[k], k, payload) <=> HasItem(event.fields[k], k, other)
         /\ HasItem(event.fields[k], k, payload) =>
              ItemOf(event.fields[k], k, payload) = ItemOf(event.fields[k], k, other)
<1> DEFINE name  == event.fields[k].name
           items == ItemsOf(event.fields, payload)
           keys  == KeysOf(event.fields, payload)
<1>1. /\ DOMAIN payload.keys = 1..Len(payload.keys) /\ Len(payload.keys) \in Nat
      /\ DOMAIN event.fields = 1..Len(event.fields) /\ Len(event.fields) \in Nat
  BY LenProperties DEF Shaped
<1>2. DOMAIN payload.keys \in SUBSET DOMAIN event.fields
  BY <1>1
<1>3. other.shape = "vec" /\ other.items = items
  BY DEF Payload
<1>4. /\ DOMAIN keys = DOMAIN payload.keys /\ DOMAIN items = DOMAIN payload.keys
      /\ \A j \in DOMAIN payload.keys : keys[j] = event.fields[j].name
      /\ \A j \in DOMAIN payload.keys :
           items[j] = payload.items[CHOOSE i \in DOMAIN payload.keys : payload.keys[i] = keys[j]]
  BY DEF KeysOf, ItemsOf
<1> HIDE DEF items, keys
<1>5. HasItem(event.fields[k], k, payload) <=> name \in ToSet(payload.keys)
  BY DEF HasItem
<1>6. HasItem(event.fields[k], k, other) <=> k \in DOMAIN payload.keys
  BY <1>3, <1>4 DEF HasItem
<1>7. name \in ToSet(payload.keys) <=> k \in DOMAIN payload.keys
  <2>1. name \in ToSet(keys) <=> \E j \in DOMAIN payload.keys : event.fields[j].name = name
    BY <1>4 DEF ToSet
  <2>2. \A j \in DOMAIN payload.keys : event.fields[j].name = name => j = k
    BY <1>2 DEF NamedOnce
  <2>3. ToSet(keys) = ToSet(payload.keys)
    BY DEF keys
  <2> QED BY <2>1, <2>2, <2>3
<1>8. ASSUME k \in DOMAIN payload.keys
      PROVE  ItemOf(event.fields[k], k, payload) = ItemOf(event.fields[k], k, other)
  <2>1. ItemOf(event.fields[k], k, other) = items[k]
    BY <1>3 DEF ItemOf
  <2>2. ItemOf(event.fields[k], k, payload) =
          payload.items[CHOOSE i \in DOMAIN payload.keys : payload.keys[i] = name]
    BY DEF ItemOf
  <2>3. keys[k] = name
    BY <1>4, <1>8
  <2>4. items[k] = payload.items[CHOOSE i \in DOMAIN payload.keys : payload.keys[i] = keys[k]]
    BY <1>4, <1>8
  <2> HIDE DEF name
  <2>5. items[k] = payload.items[CHOOSE i \in DOMAIN payload.keys : payload.keys[i] = name]
    BY <2>3, <2>4
  <2> QED BY <2>1, <2>2, <2>5
<1> QED
  BY <1>5, <1>6, <1>7, <1>8

(* Where the definition of an event that is required is found, by its name. *)
LEMMA DeclaredIs ==
  ASSUME IntakeInv, pc = "judged", EventsNamedOnce, NEW i \in DOMAIN vector.required
  PROVE  /\ Declared(EventAt(i).name) # {}
         /\ profile.events[Min(Declared(EventAt(i).name))] = EventAt(i)
<1> DEFINE id == vector.required[i].event
           S  == {j \in DOMAIN profile.events : profile.events[j].id = id}
           D  == Declared(EventAt(i).name)
<1>1. Defined(profile.events, id) /\ profile.events \in Seq(ToSet(profile.events))
  BY JudgedIs
<1>2. DOMAIN profile.events = 1..Len(profile.events) /\ Len(profile.events) \in Nat
  BY <1>1, LenProperties
<1>3. S \in SUBSET Nat /\ S # {}
  BY <1>1, <1>2 DEF Defined, Ids
<1>4. Min(S) \in S
  <2> HIDE DEF S
  <2> QED BY <1>3, LeastExists
<1>5. EventAt(i) = profile.events[Min(S)] /\ Min(S) \in DOMAIN profile.events
  BY <1>4 DEF EventAt, Definition
<1> HIDE DEF S
<1>6. Min(S) \in D /\ \A j \in D : j = Min(S)
  BY <1>5 DEF Declared, EventsNamedOnce
<1>7. D \in SUBSET Nat
  BY <1>2 DEF Declared
<1> HIDE DEF D
<1>8. Min(D) \in D
  BY <1>6, <1>7, LeastExists
<1>9. Min(D) = Min(S)
  BY <1>6, <1>8
<1> QED
  BY <1>5, <1>6, <1>9 DEF D

(* What is looked for in an event is found in it where it is in the event of another shape.    *)
LEMMA ShapesAgree ==
  ASSUME IntakeInv, pc = "judged", FieldsNamedOnce, EventsNamedOnce,
         NEW i \in DOMAIN vector.required, NEW o, Formed(o), o.name = EventAt(i).name,
         NEW k \in DOMAIN EventAt(i).fields
  PROVE  /\ HasItem(EventAt(i).fields[k], k, o.payload) <=>
              HasItem(EventAt(i).fields[k], k, Sequenced(o).payload)
         /\ HasItem(EventAt(i).fields[k], k, o.payload) =>
              ItemOf(EventAt(i).fields[k], k, o.payload)
                = ItemOf(EventAt(i).fields[k], k, Sequenced(o).payload)
<1> DEFINE event == EventAt(i)
           p     == Sequenced(o).payload
<1>1. Declared(o.name) # {} /\ event.fields = profile.events[Min(Declared(o.name))].fields
  BY DeclaredIs
<1>2. event.fields \in Seq(ToSet(event.fields))
  BY JudgedIs
<1>3. NamedOnce(event)
  <2>1. vector.required[i].event \in Announced(vector)
    BY DEF Announced
  <2> QED BY <2>1 DEF FieldsNamedOnce, NamedOnce, EventAt
<1>4. \/ p = o.payload
      \/ o.payload.shape = "scalar" /\ p = Payload("vec", <<>>, o.payload.items)
      \/ /\ o.payload.shape = "map" /\ Len(o.payload.keys) <= Len(event.fields)
         /\ ToSet(KeysOf(event.fields, o.payload)) = ToSet(o.payload.keys)
         /\ p = Payload("vec", <<>>, ItemsOf(event.fields, o.payload))
  BY <1>1, SequencedIs
<1>5. Shaped(o.payload)
  BY DEF Formed
<1> HIDE DEF event, p
<1>6. CASE p = o.payload
  BY <1>6 DEF event, p
<1>7. CASE o.payload.shape = "scalar" /\ p = Payload("vec", <<>>, o.payload.items)
  <2>1. p.shape = "vec" /\ p.items = o.payload.items
    BY <1>7 DEF Payload
  <2>2. o.payload.shape # "map" /\ p.shape # "map"
    BY <1>7, <2>1
  <2> QED BY <2>1, <2>2 DEF HasItem, ItemOf, event, p
<1>8. CASE /\ o.payload.shape = "map" /\ Len(o.payload.keys) <= Len(event.fields)
           /\ ToSet(KeysOf(event.fields, o.payload)) = ToSet(o.payload.keys)
           /\ p = Payload("vec", <<>>, ItemsOf(event.fields, o.payload))
  <2>1. k \in DOMAIN event.fields
    BY DEF event
  <2>2. /\ HasItem(event.fields[k], k, o.payload) <=> HasItem(event.fields[k], k, p)
        /\ HasItem(event.fields[k], k, o.payload) =>
             ItemOf(event.fields[k], k, o.payload) = ItemOf(event.fields[k], k, p)
    BY <1>2, <1>3, <1>5, <1>8, <2>1, KeysAreFields
  <2> QED BY <2>2 DEF event, p
<1> QED
  BY <1>4, <1>6, <1>7, <1>8

(* Where every field is stated, the statements about the fields are the same of both shapes. *)
LEMMA DataAgree ==
  ASSUME IntakeInv, pc = "judged", FieldsNamedOnce, EventsNamedOnce, StatedInFull,
         NEW i \in DOMAIN vector.required, NEW env, NEW o, Formed(o), o.name = EventAt(i).name
  PROVE  DataResults(EventAt(i), vector.required[i], i, env, o)
           = DataResults(EventAt(i), vector.required[i], i, env, Sequenced(o))
<1> DEFINE event == EventAt(i)
           e     == vector.required[i]
           p     == o.payload
           q     == Sequenced(o).payload
           W     == [k \in DOMAIN e.data |-> Compute(env, e.data[k], NoMember)]
           Is(payload, k) == IF HasItem(event.fields[k], k, payload)
                             THEN SameValue(W[k], ItemOf(event.fields[k], k, payload))
                             ELSE event.fields[k].optional
           S(payload, k) == Statement(Check("data", e.event, i, k), Flag(Is(payload, k)))
           All(payload) == {S(payload, k) : k \in Compared(event, e, payload)}
<1>1. DOMAIN event.fields = DOMAIN e.data
  <2>1. event.fields \in Seq(ToSet(event.fields)) /\ e.data \in Seq(ToSet(e.data))
    BY JudgedIs
  <2>2. Len(e.data) = Len(event.fields)
    BY DEF StatedInFull, EventAt
  <2>3. DOMAIN event.fields = 1..Len(event.fields) /\ DOMAIN e.data = 1..Len(e.data)
    BY <2>1, LenProperties
  <2> QED BY <2>2, <2>3
<1>2. \A payload : Compared(event, e, payload) = DOMAIN event.fields
  BY <1>1 DEF Compared
<1>3. ASSUME NEW k \in DOMAIN event.fields
      PROVE  S(p, k) = S(q, k)
  <2>1. /\ HasItem(event.fields[k], k, p) <=> HasItem(event.fields[k], k, q)
        /\ HasItem(event.fields[k], k, p) =>
             ItemOf(event.fields[k], k, p) = ItemOf(event.fields[k], k, q)
    BY ShapesAgree
  <2>2. Is(p, k) = Is(q, k)
    <3> HIDE DEF event, p, q, W
    <3>1. CASE HasItem(event.fields[k], k, p)
      BY <2>1, <3>1
    <3>2. CASE ~HasItem(event.fields[k], k, p)
      BY <2>1, <3>2
    <3> QED BY <3>1, <3>2
  <2> HIDE DEF Is
  <2> QED BY <2>2
<1>4. All(p) = All(q)
  <2>1. Compared(event, e, p) = DOMAIN event.fields /\ Compared(event, e, q) = DOMAIN event.fields
    BY <1>2
  <2> HIDE DEF S, event
  <2> QED BY <1>3, <2>1
<1>5. /\ DataResults(event, e, i, env, o) =
           IF ~AllProduced(W) THEN {Statement(Check("data", e.event, i, 0), Failure(W))} ELSE All(p)
      /\ DataResults(event, e, i, env, Sequenced(o)) =
           IF ~AllProduced(W) THEN {Statement(Check("data", e.event, i, 0), Failure(W))} ELSE All(q)
  BY DEF DataResults
<1> HIDE DEF W, All
<1> QED
  BY <1>4, <1>5

\* The events with their payloads as sequences.
AsSequences(observed) == [j \in DOMAIN observed |-> Sequenced(observed[j])]

(* An event as a sequence is named as it is, and so is the first of its name. *)
LEMMA NamesAgree ==
  ASSUME NEW observed, \A j \in DOMAIN observed : Formed(observed[j])
  PROVE  /\ DOMAIN AsSequences(observed) = DOMAIN observed
         /\ \A j \in DOMAIN observed :
              /\ AsSequences(observed)[j] = Sequenced(observed[j])
              /\ AsSequences(observed)[j].name = observed[j].name
              /\ AsSequences(observed)[j].topics = observed[j].topics
         /\ \A name : EventsNamed(AsSequences(observed), name) = EventsNamed(observed, name)
         /\ \A name : First(AsSequences(observed), name) = First(observed, name)
<1>1. DOMAIN AsSequences(observed) = DOMAIN observed
  BY DEF AsSequences
<1>2. ASSUME NEW j \in DOMAIN observed
      PROVE  /\ AsSequences(observed)[j] = Sequenced(observed[j])
             /\ AsSequences(observed)[j].name = observed[j].name
             /\ AsSequences(observed)[j].topics = observed[j].topics
  <2>1. AsSequences(observed)[j] = Sequenced(observed[j])
    BY DEF AsSequences
  <2> QED BY <2>1, SequencedIs
<1>3. \A name : EventsNamed(AsSequences(observed), name) = EventsNamed(observed, name)
  BY <1>1, <1>2 DEF EventsNamed
<1>4. \A name : First(AsSequences(observed), name) = First(observed, name)
  BY <1>3 DEF First
<1> QED
  BY <1>1, <1>2, <1>3, <1>4

(* The statements about a required event are the same. *)
LEMMA StatementsAgree ==
  ASSUME IntakeInv, pc = "judged", FieldsNamedOnce, EventsNamedOnce, StatedInFull,
         NEW observed, Emitted(observed), \A j \in DOMAIN observed : Formed(observed[j]),
         NEW i \in DOMAIN vector.required
  PROVE  StatementsAt(i, observed) = StatementsAt(i, AsSequences(observed))
<1> DEFINE e     == vector.required[i]
           env   == Environment(before, LiveNow(vector))
           event == EventAt(i)
           other == AsSequences(observed)
           said  == EventsNamed(observed, event.name)
           at    == CounterpartAt(said, i)
           C(o)  == {Statement(Check("cardinality", e.event, i, 0), Flag(InNumber(event, o)))}
           V     == {Statement(Check("values", e.event, i, 0), Flag(FALSE))}
           T(o)  == TopicResults(e, i, env, o)
           D(o)  == DataResults(event, e, i, env, o)
           O(o)  == {Statement(Check("ordering", e.event, i, 0),
                               Flag(InOrder(event, Definition(profile.events, id), o))) :
                       id \in event.before \cap Ids(profile.events)}
<1>1. \A name : EventsNamed(other, name) = EventsNamed(observed, name)
  BY NamesAgree
<1>2. /\ StatementsAt(i, observed) =
           C(observed) \cup (IF i > Cardinality(said) THEN V ELSE T(observed[at]) \cup D(observed[at]))
             \cup O(observed)
      /\ StatementsAt(i, other) =
           C(other) \cup (IF i > Cardinality(said) THEN V ELSE T(other[at]) \cup D(other[at]))
             \cup O(other)
  <2>1. Defined(profile.events, e.event) /\ event = Definition(profile.events, e.event)
    BY JudgedIs DEF EventAt
  <2>2. EventsNamed(other, event.name) = said
    BY <1>1
  <2> HIDE DEF other
  <2> QED BY <2>1, <2>2 DEF StatementsAt, RequiredEvent
<1>3. C(observed) = C(other)
  <2>1. InNumber(event, observed) = InNumber(event, other)
    <3> HIDE DEF other, event
    <3> QED BY <1>1 DEF InNumber
  <2> HIDE DEF event, other
  <2> QED BY <2>1
<1>4. O(observed) = O(other)
  <2>1. \A name : First(other, name) = First(observed, name)
    BY NamesAgree
  <2>2. \A a, b : InOrder(a, b, observed) = InOrder(a, b, other)
    <3> HIDE DEF other
    <3> QED BY <2>1 DEF InOrder
  <2> HIDE DEF event, other
  <2> QED BY <2>2
<1>5. ASSUME ~(i > Cardinality(said))
      PROVE  T(observed[at]) = T(other[at]) /\ D(observed[at]) = D(other[at])
  <2>1. PICK n \in Nat : DOMAIN observed = 1..n
    BY DEF Emitted
  <2>2. said \in SUBSET Nat /\ IsFiniteSet(said) /\ Cardinality(said) \in Nat
    BY <2>1, NamedAre
  <2>3. PICK m \in Nat : DOMAIN vector.required = 1..m
    BY JudgedIs
  <2>4. i \in 1..Cardinality(said)
    <3>1. i \in Nat /\ i > 0
      BY <2>3
    <3> HIDE DEF said
    <3> QED BY <1>5, <2>2, <3>1
  <2>5. at \in said
    <3>1. \A j \in 1..Cardinality(said) : Place(said, j) \in said
      <4> HIDE DEF said
      <4> QED BY <2>2, PlacesAre
    <3> HIDE DEF said
    <3> QED BY <2>4, <3>1 DEF CounterpartAt
  <2>6. at \in DOMAIN observed /\ observed[at].name = event.name
    <3> HIDE DEF at
    <3> QED BY <2>5 DEF EventsNamed
  <2> HIDE DEF at
  <2>7. /\ other[at] = Sequenced(observed[at]) /\ other[at].topics = observed[at].topics
        /\ Formed(observed[at])
    BY <2>6, NamesAgree
  <2>8. T(observed[at]) = T(other[at])
    <3> HIDE DEF other
    <3> QED BY <2>7 DEF TopicResults
  <2>9. D(observed[at]) = D(other[at])
    <3>1. D(observed[at]) = D(Sequenced(observed[at]))
      BY <2>6, <2>7, DataAgree
    <3> HIDE DEF D, other
    <3> QED BY <2>7, <3>1
  <2> QED BY <2>8, <2>9
<1> HIDE DEF C, V, T, D, O, other, at, said
<1>6. StatementsAt(i, observed) = StatementsAt(i, other)
  BY <1>2, <1>3, <1>4, <1>5
<1> QED
  BY <1>6 DEF other

(* The shape of a payload is the contract's own choice: a map, a sequence and, where all the    *)
(* fields are stated, a value alone are judged alike when they say the same (events.rs          *)
(* value_outcomes).                                                                       *)
THEOREM TheShapeIsTheContracts == Spec => []ShapeDoesNotMatter
<1>1. ASSUME EventsInv
      PROVE  ShapeDoesNotMatter
  <2> SUFFICES ASSUME pc = "judged", FieldsNamedOnce, EventsNamedOnce, StatedInFull
               PROVE  EventJudgements(Observed) = EventJudgements(AsSequences(Observed))
    BY DEF ShapeDoesNotMatter, Judged, AsSequences
  <2>1. IntakeInv /\ Emitted(Observed) /\ \A j \in DOMAIN Observed : Formed(Observed[j])
    BY <1>1, ObservedEmitted, ObservedAre DEF EventsInv, Formed
  <2> DEFINE R(o) == {StatementsAt(i, o) : i \in DOMAIN vector.required}
             F(o) == {Statement(Check("forbidden", id, 0, 0), Silent(profile, id, o)) :
                        id \in vector.forbidden}
  <2>2. \A o : EventJudgements(o) = (UNION R(o)) \cup F(o)
    BY DEF EventJudgements, EventResults, StatementsAt
  <2>3. R(Observed) = R(AsSequences(Observed))
    BY <2>1, StatementsAgree
  <2>4. F(Observed) = F(AsSequences(Observed))
    <3>1. \A name : EventsNamed(AsSequences(Observed), name) = EventsNamed(Observed, name)
      BY <2>1, NamesAgree
    <3>2. \A id : Silent(profile, id, AsSequences(Observed)) = Silent(profile, id, Observed)
      BY <3>1 DEF Silent
    <3> QED BY <3>2
  <2> HIDE DEF R, F
  <2> QED BY <2>2, <2>3, <2>4
<1>2. Init => EventsInv
  BY IntakeStarts, CapturedKeeps DEF EventsInv
<1>3. EventsInv /\ [Next]_vars => EventsInv'
  BY IntakeKeeps, CapturedKeeps DEF EventsInv
<1> QED
  BY <1>1, <1>2, <1>3, PTL DEF Spec
=============================================================================
