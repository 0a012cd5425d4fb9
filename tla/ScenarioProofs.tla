-------------------------- MODULE ScenarioProofs --------------------------
(***************************************************************************)
(* What the execution of a vector does, and what the verdict of the seven   *)
(* dimensions means, for any accounts, opening balances, amounts and amount *)
(* type, and whatever the defect of the contract.  Where nothing was accused*)
(* nothing deviated (Tight), and a dimension accuses only of a deviation that*)
(* is its own (Fair); both are shown one family of vectors at a time.       *)
(***************************************************************************)
EXTENDS Scenario, Foundations

(* Every vector document opens its accounts with balances the amount type has. *)
LEMMA OpeningsFit == \A v \in Vectors : v.opening \in [Accounts -> 0..MaxAmount]
<1>1. \A opening \in Opening : opening \in [Accounts -> 0..MaxAmount]
  BY ProfilesAssumption DEF Opening
<1>2. \A t \in Proper : t.opening \in Opening
  BY DEF Proper, Transfers
<1>3. \A t \in Proper : /\ MovesVector(t).opening = t.opening
                        /\ BeyondVector(t).opening = t.opening
                        /\ UnsignedVector(t).opening = t.opening
                        /\ WrongActorVector(t).opening = t.opening
  BY DEF MovesVector, BeyondVector, UnsignedVector, WrongActorVector, RefusedVector, TransferVector
<1>4. \A opening \in Opening :
        /\ \A p, who : BalanceVector(p, opening, who).opening = opening
        /\ \A m : MetadataVector(m, opening).opening = opening
  BY DEF BalanceVector, MetadataVector, ReadVector
<1>5. \A v \in Vectors : \/ \E t \in Proper : v.opening = t.opening
                         \/ v.opening \in Opening
  BY <1>3, <1>4 DEF Vectors
<1> QED
  BY <1>1, <1>2, <1>5

(* A mint of a declared balance into an empty account is accepted and leaves exactly that *)
(* balance there (conformance-token's fixture_mint under scenario.rs's seed).              *)
LEMMA MintSettles ==
  ASSUME NEW who \in Accounts, NEW amount \in 0..MaxAmount, MaxAmount \in Nat,
         balance \in [Accounts -> Int], balance[who] = 0,
         Token("none")!FixtureMint(who, amount)
  PROVE  balance' = [balance EXCEPT ![who] = amount]
<1>1. Token("none")!Fits(balance[who] + amount)
  BY SMT DEF Token!Fits, Token!MinAmount
<1>2. Token("none")!Computes(balance[who] + amount)
  BY <1>1 DEF Token!Computes
<1>3. Token("none")!Narrow(balance[who] + amount) = amount
  BY <1>1, SMT DEF Token!Narrow
<1>4. balance' = Token("none")!Credited(balance, who, amount)
  BY <1>2 DEF Token!FixtureMint
<1> QED
  BY <1>3, <1>4 DEF Token!Credited

---------------------------------------------------------------------------
(* What each place in the execution of a vector has already established. *)

\* During setup: what is not minted yet is empty, what is minted is what was declared.
Seeded == pc = "seed" =>
  /\ balance = [a \in Accounts |-> IF a \in unseeded THEN 0 ELSE vector.opening[a]]
  /\ unseeded \subseteq Accounts
  /\ ~seeding => unseeded = Accounts

\* From the capture to the verdict: the recorded world is the declared one.
Recorded == pc \in {"authorize", "invoke", "evaluate"} => before.balance = vector.opening

\* From the authorization to the verdict: the host accepts the plan's signatures.
Armed == pc \in {"invoke", "evaluate"} => signers = Signers(vector.plan)

Prepared == vector \in Vectors /\ Seeded /\ Recorded /\ Armed /\ MeasuredFromItsOpening

(* Every step of scenario.rs keeps what the earlier ones established. *)
LEMMA PreparedAlways == Spec => []Prepared
<1>1. Init => Prepared
  BY DEF Init, Prepared, Seeded, Recorded, Armed, MeasuredFromItsOpening, Measured
<1>2. Prepared /\ [Next]_vars => Prepared'
  <2> SUFFICES ASSUME Prepared, [Next]_vars
               PROVE  Prepared'
    OBVIOUS
  <2>0. vector.opening \in [Accounts -> 0..MaxAmount] /\ MaxAmount \in Nat
    BY OpeningsFit, AmountTypeAssumption DEF Prepared
  <2>1. CASE \E v \in Vectors : Deploy(v)
    BY <2>1 DEF Deploy, Prepared, Seeded, Recorded, Armed, MeasuredFromItsOpening, Measured
  <2>2. CASE Skip
    BY <2>2 DEF Skip, Prepared, Seeded, Recorded, Armed, MeasuredFromItsOpening, Measured
  <2>3. CASE \E who \in Accounts : Seed(who)
    <3>1. PICK who \in Accounts : Seed(who)
      BY <2>3
    <3>2. /\ balance = [a \in Accounts |-> IF a \in unseeded THEN 0 ELSE vector.opening[a]]
          /\ unseeded \subseteq Accounts /\ who \in unseeded /\ pc = "seed" /\ seeding
      BY <3>1 DEF Seed, Prepared, Seeded
    <3>3. balance \in [Accounts -> Int] /\ balance[who] = 0 /\ vector.opening[who] \in 0..MaxAmount
      BY <2>0, <3>2
    <3>4. balance' = [balance EXCEPT ![who] = vector.opening[who]]
      BY <2>0, <3>1, <3>3, MintSettles DEF Seed
    <3>5. balance' = [a \in Accounts |-> IF a \in unseeded \ {who} THEN 0 ELSE vector.opening[a]]
      BY <3>2, <3>4
    <3> QED
      BY <3>1, <3>2, <3>5
      DEF Seed, Prepared, Seeded, Recorded, Armed, MeasuredFromItsOpening, Measured
  <2>4. CASE Capture
    <3>1. balance = vector.opening
      BY <2>0, <2>4 DEF Capture, Prepared, Seeded, DeclaresOpeningState
    <3> QED
      BY <2>4, <3>1 DEF Capture, World, Prepared, Seeded, Recorded, Armed, MeasuredFromItsOpening,
                        Measured
  <2>5. CASE Authorize
    BY <2>5 DEF Authorize, Prepared, Seeded, Recorded, Armed, MeasuredFromItsOpening, Measured
  <2>6. CASE Invoke
    BY <2>6 DEF Invoke, Prepared, Seeded, Recorded, Armed, MeasuredFromItsOpening, Measured
  <2>7. CASE Evaluate
    BY <2>7 DEF Evaluate, Prepared, Seeded, Recorded, Armed, MeasuredFromItsOpening, Measured
  <2>8. CASE UNCHANGED vars
    BY <2>8 DEF vars, host, execution, Prepared, Seeded, Recorded, Armed, MeasuredFromItsOpening,
                Measured
  <2> QED
    BY <2>1, <2>2, <2>3, <2>4, <2>5, <2>6, <2>7, <2>8 DEF Next
<1> QED
  BY <1>1, <1>2, PTL DEF Spec

(* A verdict is about the vector's own opening world: what scenario.rs deploys, seeds and   *)
(* records before the call is exactly the state the document declares, nothing of an earlier *)
(* vector in it, and the signatures armed are those of the authorization plan.               *)
THEOREM MeasuredWorldIsDeclared == Spec => []MeasuredFromItsOpening
  BY PreparedAlways, PTL DEF Prepared
---------------------------------------------------------------------------
(* Type correctness. *)

(* What every vector document states: a plan over its own accounts, and for a transfer two *)
(* of its accounts and an amount.                                                          *)
Stated(v) ==
  /\ v.plan.expected \in {"accepted", "not_required", "rejected"}
  /\ v.plan.actors \subseteq Accounts
  /\ v.method = "transfer" =>
       v.inputs.from \in Accounts /\ v.inputs.to \in Accounts /\ v.inputs.amount \in Int

LEMMA VectorsStated == \A v \in Vectors : Stated(v)
<1>1. \A t \in Proper : t.from \in Accounts /\ t.to \in Accounts /\ t.amount \in Int
  BY ProfilesAssumption DEF Proper, Transfers
<1>2. \A t \in Proper : \A plan, expects, failure, assertions, required, forbidden, invariants :
        plan.expected \in {"accepted", "rejected"} /\ plan.actors \subseteq Accounts =>
          Stated(TransferVector(t, plan, expects, failure, assertions, required, forbidden,
                                invariants))
  BY <1>1 DEF Stated, TransferVector
<1>3. \A expected, actors, substitutedFor :
        /\ Plan(expected, actors, substitutedFor).expected = expected
        /\ Plan(expected, actors, substitutedFor).actors = actors
  BY DEF Plan
<1>4. \A t \in Proper : /\ Stated(MovesVector(t)) /\ Stated(BeyondVector(t))
                        /\ Stated(UnsignedVector(t)) /\ Stated(WrongActorVector(t))
  BY <1>1, <1>2, <1>3 DEF MovesVector, BeyondVector, UnsignedVector, WrongActorVector, RefusedVector
<1>5. \A profile, method, opening, inputs, assertions, forbidden, invariants, returns :
        method # "transfer" =>
          Stated(ReadVector(profile, method, opening, inputs, assertions, forbidden, invariants,
                            returns))
  BY <1>3 DEF Stated, ReadVector
<1>6. /\ \A p, opening, who : Stated(BalanceVector(p, opening, who))
      /\ \A m \in {"decimals", "name"} : \A opening : Stated(MetadataVector(m, opening))
  BY <1>5 DEF BalanceVector, MetadataVector
<1> QED
  BY <1>4, <1>6 DEF Vectors

Amount == (-MaxAmount - 1)..MaxAmount

(* The arithmetic of the contract cannot leave the amount type, whatever its defect. *)
LEMMA AmountsNarrow ==
  ASSUME NEW defect, NEW x \in Int
  PROVE  Token(defect)!Narrow(x) \in Amount
<1> DEFINE width == 2 * (MaxAmount + 1)
           offset == x - (-MaxAmount - 1)
<1>1. MaxAmount \in Nat /\ width \in Nat \ {0} /\ offset \in Int
  BY AmountTypeAssumption
<1>2. CASE Token(defect)!Fits(x)
  BY <1>1, <1>2 DEF Token!Narrow, Token!Fits, Token!MinAmount, Amount
<1>3. CASE ~Token(defect)!Fits(x)
  <2>1. offset % width \in 0..(width - 1)
    <3> HIDE DEF width, offset
    <3> QED BY <1>1
  <2>2. PICK r \in 0..(width - 1) : Token(defect)!Narrow(x) = r + (-MaxAmount - 1)
    BY <1>3, <2>1 DEF Token!Narrow, Token!MinAmount
  <2> QED BY <1>1, <2>2 DEF Amount
<1> QED BY <1>2, <1>3

(* Nor can a balance, debited or credited. *)
LEMMA BalancesNarrow ==
  ASSUME NEW defect, NEW b \in [Accounts -> Amount], NEW who \in Accounts, NEW amount \in Int
  PROVE  /\ Token(defect)!Debited(b, who, amount) \in [Accounts -> Amount]
         /\ Token(defect)!Credited(b, who, amount) \in [Accounts -> Amount]
<1>1. b[who] \in Int
  BY AmountTypeAssumption DEF Amount
<1>2. b[who] - amount \in Int /\ b[who] + amount \in Int
  BY <1>1
<1>3. Token(defect)!Narrow(b[who] - amount) \in Amount /\ Token(defect)!Narrow(b[who] + amount) \in Amount
  BY <1>2, AmountsNarrow
<1> QED
  BY <1>3 DEF Token!Debited, Token!Credited

(* A setup call leaves amounts, and so does the call under test. *)
LEMMA CallsNarrow ==
  ASSUME balance \in [Accounts -> Amount], Stated(vector), vector.opening \in [Accounts -> Int],
         (\E who \in Accounts : Seed(who)) \/ Invoke
  PROVE  balance' \in [Accounts -> Amount]
<1>1. ASSUME NEW who \in Accounts, Token("none")!FixtureMint(who, vector.opening[who])
      PROVE  balance' \in [Accounts -> Amount]
  <2>1. CASE Token("none")!Refuse
    BY <2>1 DEF Token!Refuse
  <2>2. CASE balance' = Token("none")!Credited(balance, who, vector.opening[who])
    BY <2>2, BalancesNarrow
  <2> QED BY <1>1, <2>1, <2>2 DEF Token!FixtureMint
<1>2. ASSUME vector.method = "transfer", NEW d \in Token("none")!Defects,
             Token(d)!Transfer(signers, vector.inputs.from, vector.inputs.to, vector.inputs.amount)
      PROVE  balance' \in [Accounts -> Amount]
  <2> DEFINE from == vector.inputs.from
             to == vector.inputs.to
             amount == vector.inputs.amount
  <2>1. from \in Accounts /\ to \in Accounts /\ amount \in Int
    BY <1>2 DEF Stated
  <2>2. CASE Token(d)!Refuse
    BY <2>2 DEF Token!Refuse
  <2>3. CASE balance' = Token(d)!Moved(balance, from, to, amount, Token(d)!CreditOf(amount))
    <3>1. Token(d)!CreditOf(amount) \in Int
      BY <2>1 DEF Token!CreditOf
    <3> HIDE DEF from, to, amount
    <3> QED BY <2>1, <2>3, <3>1, BalancesNarrow DEF Token!Moved
  <2> QED BY <1>2, <2>2, <2>3 DEF Token!Transfer
<1>3. CASE Invoke
  BY <1>2, <1>3 DEF Invoke, InvokeTransfer, InvokeRead
<1> QED
  BY <1>1, <1>3 DEF Seed

\* A skipped vector accuses nobody because nothing was judged since it was deployed.
Typed == TypeOK /\ (pc # "idle" => accused = {})

(* Every step keeps the types, and judging comes last. *)
LEMMA TypedAlways == Spec => []Typed
<1> USE DEF Amount
<1>0. MaxAmount \in Nat
  BY AmountTypeAssumption
<1>1. Init => Typed
  <2>1. NoWorld \in Worlds
    BY <1>0 DEF NoWorld, Worlds
  <2> QED BY <1>0, <2>1 DEF Init, Typed, TypeOK, Token!Init
<1>2. Typed /\ [Next]_vars => Typed'
  <2> SUFFICES ASSUME Typed, [Next]_vars
               PROVE  Typed'
    OBVIOUS
  <2>1. CASE \E v \in Vectors : Deploy(v)
    <3>1. NoWorld \in Worlds
      BY <1>0 DEF NoWorld, Worlds
    <3> QED BY <1>0, <2>1, <3>1 DEF Deploy, Typed, TypeOK
  <2>2. CASE Skip
    BY <2>2 DEF Skip, Typed, TypeOK, host, Outcome!VectorStatuses
  <2>3. CASE \E who \in Accounts : Seed(who)
    <3>1. balance' \in [Accounts -> Amount]
      BY <1>0, <2>3, CallsNarrow, VectorsStated, OpeningsFit DEF Typed, TypeOK
    <3> QED BY <2>3, <3>1 DEF Seed, Typed, TypeOK
  <2>4. CASE Capture
    <3>1. World \in Worlds
      BY DEF World, Worlds, ReadMetadata, Typed, TypeOK, Contracts
    <3> QED BY <2>4, <3>1 DEF Capture, Typed, TypeOK, host
  <2>5. CASE Authorize
    <3>1. Signers(vector.plan) \subseteq Accounts
      BY VectorsStated DEF Typed, TypeOK, Stated, Signers
    <3> QED BY <2>5, <3>1 DEF Authorize, Typed, TypeOK, host
  <2>6. CASE Invoke
    <3>1. balance' \in [Accounts -> Amount]
      BY <1>0, <2>6, CallsNarrow, VectorsStated, OpeningsFit DEF Typed, TypeOK
    <3> QED BY <2>6, <3>1 DEF Invoke, Typed, TypeOK
  <2>7. CASE Evaluate
    <3> DEFINE P == ProfileOf(vector)
               undecidable == Undecidable(P, vector, Observation)
               guilty == Accused(P, vector, Observation)
    <3>1. guilty \subseteq Dimension
      BY DEF Accused
    <3>2. /\ status' = StatusOf(P, vector, Observation)
          /\ accused' = IF undecidable THEN {} ELSE guilty
      BY <2>7 DEF Evaluate
    <3>3. status' = CASE undecidable -> "error"
                      [] ~undecidable /\ guilty # {} -> "failed"
                      [] ~undecidable /\ guilty = {} -> "passed"
      BY <3>2 DEF StatusOf
    <3> HIDE DEF P, undecidable, guilty
    <3>4. /\ status' \in Outcome!VectorStatuses \cup {"none"}
          /\ accused' \subseteq Dimension /\ (accused' # {} <=> status' = "failed")
      BY <3>1, <3>2, <3>3 DEF Outcome!VectorStatuses
    <3> QED BY <2>7, <3>4 DEF Evaluate, Typed, TypeOK, host
  <2>8. CASE UNCHANGED vars
    BY <2>8 DEF vars, host, execution, Typed, TypeOK
  <2> QED
    BY <2>1, <2>2, <2>3, <2>4, <2>5, <2>6, <2>7, <2>8 DEF Next
<1> QED
  BY <1>1, <1>2, PTL DEF Spec

(* The contract only holds amounts, the runner only records worlds, and the dimensions are *)
(* accused exactly of the vectors that failed.                                             *)
THEOREM TypeCorrect == Spec => []TypeOK
  BY TypedAlways, PTL DEF Typed
---------------------------------------------------------------------------
(* What the call left, and what the dimensions made of it. *)

\* A refused call or a read: nothing written, nothing emitted, nobody's signature demanded.
Untouched == balance = vector.opening /\ last.events = <<>> /\ last.auths = {}

\* A transfer that was accepted, by a contract with whatever defect.
TransferredSomehow ==
  /\ balance \in [Accounts -> Int]
  /\ \A a \in Accounts \ {vector.inputs.from, vector.inputs.to} : balance[a] = vector.opening[a]
  /\ \E x : x.name = "transfer" /\ last.events \in {<<>>, <<x>>, <<x, x>>}
  /\ last.auths \in {{}, {vector.inputs.from}}

\* What a call left, from the opening state.
AnsweredTransfer ==
  \/ last.outcome = "refused" /\ Untouched
  \/ last.outcome = "returned" /\ TransferredSomehow

AnsweredRead ==
  /\ last.outcome = IF vector.method \in Exposed THEN "returned" ELSE "refused"
  /\ Untouched

Answered == IF vector.method = "transfer" THEN AnsweredTransfer ELSE AnsweredRead

\* The verdict kept is the one the dimensions give on the observation kept.
Judged ==
  Measured => /\ accused = Accused(ProfileOf(vector), vector, Observation)
              /\ status = "passed" => accused = {}

\* The inductive invariant of a call and its verdict.
Observed == /\ pc \in {"authorize", "invoke"} => balance = vector.opening
            /\ pc = "evaluate" \/ Measured => Answered
            /\ Judged

(* The contract's transfer, from the opening state, writes only to the two accounts it names, *)
(* and emits and demands one of the few things its defects allow; or it does nothing.          *)
LEMMA TransferAnswers ==
  ASSUME NEW d, Stated(vector), vector.method = "transfer",
         balance = vector.opening, vector.opening \in [Accounts -> 0..MaxAmount],
         vector' = vector,
         Token(d)!Transfer(signers, vector.inputs.from, vector.inputs.to, vector.inputs.amount)
  PROVE  AnsweredTransfer'
<1> DEFINE from == vector.inputs.from
           to == vector.inputs.to
           amount == vector.inputs.amount
<1>1. from \in Accounts /\ to \in Accounts /\ amount \in Int /\ MaxAmount \in Nat
  BY AmountTypeAssumption DEF Stated
<1>2. CASE Token(d)!Refuse
  BY <1>2 DEF Token!Refuse, AnsweredTransfer, Untouched
<1>3. CASE /\ balance' = Token(d)!Moved(balance, from, to, amount, Token(d)!CreditOf(amount))
           /\ Token(d)!Accept(Token(d)!EventsOf(from, to, amount), Token(d)!DemandedOf(from))
  <2>1. Token(d)!CreditOf(amount) \in Int
    BY <1>1 DEF Token!CreditOf
  <2>2. balance \in [Accounts -> Amount]
    BY <1>1 DEF Amount
  <2>3. balance' \in [Accounts -> Int]
    <3>1. Token(d)!Debited(balance, from, amount) \in [Accounts -> Amount]
      BY <1>1, <2>2, BalancesNarrow
    <3>2. balance' \in [Accounts -> Amount]
      BY <1>1, <1>3, <2>1, <3>1, BalancesNarrow DEF Token!Moved
    <3> QED BY <1>1, <3>2 DEF Amount
  <2>4. \A a \in Accounts \ {from, to} : balance'[a] = vector.opening[a]
    BY <1>1, <1>3, <2>2 DEF Token!Moved, Token!Debited, Token!Credited
  <2>5. last' = [outcome |-> "returned", events |-> Token(d)!EventsOf(from, to, amount),
                 auths |-> Token(d)!DemandedOf(from)]
    BY <1>3 DEF Token!Accept
  <2>6. \E x : x.name = "transfer" /\ Token(d)!EventsOf(from, to, amount) \in {<<>>, <<x>>, <<x, x>>}
    <3> DEFINE x == Token(d)!TransferEvent(from, to, Token(d)!Narrow(Token(d)!StatedOf(amount)))
    <3>1. x.name = "transfer"
      BY DEF Token!TransferEvent
    <3>2. Token(d)!EventsOf(from, to, amount) \in {<<>>, <<x>>, <<x, x>>}
      BY DEF Token!EventsOf
    <3> HIDE DEF x
    <3> QED BY <3>1, <3>2
  <2>7. Token(d)!DemandedOf(from) \in {{}, {from}}
    BY DEF Token!DemandedOf
  <2> QED BY <2>3, <2>4, <2>5, <2>6, <2>7 DEF AnsweredTransfer, TransferredSomehow
<1> QED
  BY <1>2, <1>3 DEF Token!Transfer

(* An observation stays what it was while the host, the contract and the record do. *)
LEMMA ObservationStays ==
  ASSUME UNCHANGED <<balance, last, contract, vector, before>>
  PROVE  /\ Observation' = Observation
         /\ Answered' = Answered
<1>1. Exposed' = Exposed
  BY DEF Exposed
<1>2. World' = World
  BY <1>1 DEF World, ReadMetadata, Carried
<1>3. ObservedCall' = ObservedCall
  BY <1>1 DEF ObservedCall, Carried
<1> QED
  BY <1>1, <1>2, <1>3 DEF Observation, Answered, AnsweredTransfer, AnsweredRead, TransferredSomehow,
                          Untouched

(* Every step keeps what the call left and what was made of it. *)
LEMMA ObservedAlways == Spec => []Observed
<1>1. Init => Observed
  BY DEF Init, Observed, Measured, Judged
<1>2. Prepared /\ Prepared' /\ Observed /\ [Next]_vars => Observed'
  <2> SUFFICES ASSUME Prepared, Prepared', Observed, [Next]_vars
               PROVE  Observed'
    OBVIOUS
  <2>1. CASE \E v \in Vectors : Deploy(v)
    BY <2>1 DEF Deploy, Observed, Measured, Judged
  <2>2. CASE Skip
    BY <2>2 DEF Skip, Observed, Measured, Judged
  <2>3. CASE \E who \in Accounts : Seed(who)
    BY <2>3 DEF Seed, Observed, Measured, Judged
  <2>4. CASE Capture
    <3>1. balance = vector.opening
      BY <2>4, OpeningsFit DEF Capture, Prepared, Seeded, DeclaresOpeningState
    <3> QED BY <2>4, <3>1 DEF Capture, Observed, Measured, Judged, host
  <2>5. CASE Authorize
    BY <2>5 DEF Authorize, Observed, Measured, Judged, host
  <2>6. CASE Invoke
    <3>1. balance = vector.opening
      BY <2>6 DEF Observed, Invoke
    <3>2. CASE InvokeTransfer
      <4>1. AnsweredTransfer'
        BY <2>6, <3>1, <3>2, TransferAnswers, VectorsStated, OpeningsFit
        DEF Invoke, InvokeTransfer, Prepared
      <4> QED BY <2>6, <3>2, <4>1 DEF Invoke, InvokeTransfer, Observed, Measured, Judged, Answered
    <3>3. CASE InvokeRead
      <4>1. Exposed' = Exposed /\ vector' = vector
        BY <2>6 DEF Invoke, Exposed
      <4>2. AnsweredRead'
        BY <3>1, <3>3, <4>1 DEF InvokeRead, AnsweredRead, Untouched
      <4> QED BY <2>6, <3>3, <4>1, <4>2 DEF Invoke, InvokeRead, Observed, Measured, Judged, Answered
    <3> QED BY <2>6, <3>2, <3>3 DEF Invoke
  <2>7. CASE Evaluate
    <3> DEFINE P == ProfileOf(vector)
               undecidable == Undecidable(P, vector, Observation)
               guilty == Accused(P, vector, Observation)
    <3>1. Answered'
      BY <2>7, ObservationStays DEF Evaluate, Observed, host
    <3>2. P' = P /\ Observation' = Observation /\ vector' = vector
      BY <2>7, ObservationStays DEF Evaluate, host
    <3>3. guilty' = guilty
      BY <3>2
    <3>4. /\ status' = CASE undecidable -> "error"
                        [] ~undecidable /\ guilty # {} -> "failed"
                        [] ~undecidable /\ guilty = {} -> "passed"
          /\ accused' = IF undecidable THEN {} ELSE guilty
      BY <2>7 DEF Evaluate, StatusOf
    <3>5. Judged'
      <4> HIDE DEF P, undecidable, guilty
      <4>1. Measured' => accused' = guilty' /\ (status' = "passed" => accused' = {})
        BY <3>3, <3>4 DEF Measured
      <4> QED BY <4>1 DEF Judged, guilty, P
    <3> QED BY <2>7, <3>1, <3>5 DEF Evaluate, Observed
  <2>8. CASE UNCHANGED vars
    <3>1. /\ UNCHANGED <<balance, last, contract, vector, before>>
          /\ UNCHANGED <<pc, status, accused>>
      BY <2>8 DEF vars, host, execution
    <3>2. Observation' = Observation /\ Answered' = Answered
      BY <3>1, ObservationStays
    <3>3. Judged' = Judged
      BY <3>1, <3>2 DEF Judged, Measured
    <3> QED BY <3>1, <3>2, <3>3 DEF Observed, Measured
  <2> QED
    BY <2>1, <2>2, <2>3, <2>4, <2>5, <2>6, <2>7, <2>8 DEF Next
<1> QED
  BY <1>1, <1>2, PreparedAlways, PTL DEF Spec

---------------------------------------------------------------------------
(* The documents, the events and the predicates. *)

TransferFields(v, t) ==
  /\ v.method = "transfer" /\ v.opening = t.opening /\ v.addresses = {"from", "to"}
  /\ v.inputs = [from |-> t.from, to |-> t.to, amount |-> t.amount]
  /\ ProfileOf(v) = ConformanceTokenProfile

(* What the documents of each family state, field by field. *)
LEMMA MovesFields ==
  ASSUME NEW t, NEW v, v = MovesVector(t)
  PROVE
    /\ TransferFields(v, t)
    /\ v.plan = Plan("accepted", {t.from}, {}) /\ v.expects = "success" /\ v.failure = "none"
    /\ v.stateAssertions =
         {Equal(BalanceRead(Actor(t.from)), Literal(t.opening[t.from] - t.amount)),
          Equal(BalanceRead(Actor(t.to)), Literal(t.opening[t.to] + t.amount))}
    /\ v.requiredEvents =
         <<[name |-> "transfer", from |-> t.from, to |-> t.to, amount |-> t.amount]>>
    /\ v.forbiddenEvents = {}
    /\ v.invariants = {"balances-are-conserved-by-transfer", "balances-are-non-negative"}
  BY DEF MovesVector, TransferVector, TransferFields, ProfileOf

(* The documents of a refused transfer differ in their plan, failure and invariants. *)
LEMMA RefusedFields ==
  ASSUME NEW t, NEW plan, NEW failure, NEW invariants,
         NEW v, v = RefusedVector(t, plan, failure, invariants)
  PROVE
    /\ TransferFields(v, t)
    /\ v.plan = plan /\ v.expects = "failure" /\ v.failure = failure
    /\ v.stateAssertions =
         {Unchanged(BalanceRead(Actor(t.from))), Unchanged(BalanceRead(Actor(t.to)))}
    /\ v.requiredEvents = <<>> /\ v.forbiddenEvents = {"transfer"}
    /\ v.invariants = invariants
  BY DEF RefusedVector, TransferVector, TransferFields, ProfileOf

(* A read arms nobody and is expected to succeed. *)
LEMMA ReadFields ==
  ASSUME NEW profile, NEW method, NEW opening, NEW inputs, NEW assertions, NEW forbidden,
         NEW invariants, NEW returns, NEW v,
         v = ReadVector(profile, method, opening, inputs, assertions, forbidden, invariants,
                        returns)
  PROVE
    /\ v.profile = profile /\ v.method = method /\ v.opening = opening /\ v.inputs = inputs
    /\ v.addresses = DOMAIN inputs
    /\ v.plan = Plan("not_required", {}, {}) /\ v.expects = "success" /\ v.failure = "none"
    /\ v.stateAssertions = assertions /\ v.requiredEvents = <<>> /\ v.forbiddenEvents = forbidden
    /\ v.invariants = invariants
  BY DEF ReadVector

(* The fixture of a transfer: two distinct accounts, and amounts that are amounts. *)
LEMMA ProperFields ==
  ASSUME NEW t \in Proper
  PROVE  /\ t.from \in Accounts /\ t.to \in Accounts /\ t.from # t.to /\ t.amount \in 0..MaxAmount
         /\ t.opening \in Opening /\ t.opening \in [Accounts -> 0..MaxAmount]
<1>1. t.opening \in Opening /\ t.from \in Accounts /\ t.to \in Accounts /\ t.amount \in Quantities
  BY DEF Proper, Transfers
<1>2. \A opening \in Opening : opening \in [Accounts -> 0..MaxAmount]
  BY ProfilesAssumption DEF Opening
<1>3. t.from # t.to
  BY DEF Proper
<1> QED BY <1>1, <1>2, <1>3, ProfilesAssumption

(* Two places are two. *)
LEMMA TwoCount == Cardinality({1} \cup {2}) = 2
<1>1. IsFiniteSet({1}) /\ Cardinality({1}) = 1
  BY FS_Singleton
<1> QED BY <1>1, FS_AddElement

(* One event of the name is counted once, at the first place. *)
LEMMA OneCounted ==
  ASSUME NEW call, NEW x, x.name = "transfer", call.events = <<x>>
  PROVE  EventsNamed(call, "transfer") = {1} /\ Cardinality(EventsNamed(call, "transfer")) = 1
<1>1. DOMAIN call.events = {1} /\ call.events[1] = x
  OBVIOUS
<1>2. EventsNamed(call, "transfer") = {1}
  BY <1>1 DEF EventsNamed
<1>3. Cardinality({1}) = 1
  BY FS_Singleton
<1> QED BY <1>2, <1>3

(* What counting the events of a call by name finds: none, the one, or the same twice. *)
LEMMA EventsCounted ==
  ASSUME NEW call, NEW x, x.name = "transfer", call.events \in {<<>>, <<x>>, <<x, x>>}
  PROVE  \/ call.events = <<>> /\ EventsNamed(call, "transfer") = {}
            /\ Cardinality(EventsNamed(call, "transfer")) = 0
         \/ call.events = <<x>> /\ EventsNamed(call, "transfer") = {1}
            /\ Cardinality(EventsNamed(call, "transfer")) = 1
         \/ call.events = <<x, x>> /\ Cardinality(EventsNamed(call, "transfer")) = 2
<1>1. CASE call.events = <<>>
  <2>1. EventsNamed(call, "transfer") = {}
    BY <1>1 DEF EventsNamed
  <2> QED BY <1>1, <2>1, FS_EmptySet
<1>2. CASE call.events = <<x>>
  BY <1>2, OneCounted
<1>3. CASE call.events = <<x, x>>
  <2>1. DOMAIN call.events = {1, 2} /\ call.events[1] = x /\ call.events[2] = x
    BY <1>3
  <2>2. EventsNamed(call, "transfer") = {1} \cup {2}
    BY <2>1 DEF EventsNamed
  <2> QED BY <1>3, <2>2, TwoCount
<1> QED BY <1>1, <1>2, <1>3

\* What stands between an observation and an accusation: where nothing departs from what the
\* standard's own contract does, no dimension that judges it finds anything.
Fair ==
  LET P == ProfileOf(vector)
      o == Observation
  IN  /\ ObservedCall.outcome = Ref.outcome /\ balance = Ref.balance => BehaviorHolds(P, vector, o)
      /\ ObservedCall.outcome = Ref.outcome /\ ObservedCall.auths = Ref.auths
           => AuthorizationHolds(P, vector, o.call)
      /\ ObservedCall.events = Ref.events => EventsHold(P, vector, o)
      /\ balance = Ref.balance => StateHolds(vector, o) /\ InvariantsHold(P, vector, o)
      /\ ObservedCall.outcome = Ref.outcome => FailureHolds(P, vector, o)

\* And where no dimension finds anything, nothing departed.
Tight ==
  (\A d \in Dimension : DimensionHolds(d, ProfileOf(vector), vector, Observation)) =>
    /\ ObservedCall.outcome = Ref.outcome /\ balance = Ref.balance
    /\ ObservedCall.events = Ref.events /\ ObservedCall.auths = Ref.auths

(* What is observed of a call is what the host saw, a read of metadata excepted. *)
LEMMA Observations ==
  /\ Observation.call = ObservedCall /\ Observation.before = before
  /\ Observation.after.balance = balance /\ Observation.published = Exposed
  /\ ObservedCall.events = last.events /\ ObservedCall.auths = last.auths
  /\ vector.method = "transfer" => ObservedCall.outcome = last.outcome /\ ObservedCall.verified
  BY DEF Observation, ObservedCall, World, Exposed, Carried, Metadata

(* The dimensions that bind a call to the standard, where none found anything. *)
LEMMA DimensionsHold ==
  ASSUME \A d \in Dimension : DimensionHolds(d, ProfileOf(vector), vector, Observation)
  PROVE  /\ AuthorizationHolds(ProfileOf(vector), vector, Observation.call)
         /\ EventsHold(ProfileOf(vector), vector, Observation)
         /\ StateHolds(vector, Observation)
         /\ FailureHolds(ProfileOf(vector), vector, Observation)
  BY DEF Dimension, DimensionHolds

(* What the predicates of the vectors say of two worlds. *)
LEMMA BalanceOfActor ==
  ASSUME NEW v, NEW w, NEW a
  PROVE  ValueOf(BalanceRead(Actor(a)), w, v) = w.balance[a]
  BY DEF ValueOf, BalanceRead, Actor, Account

(* An equality compares what its two sides are after the call. *)
LEMMA EqualHolds ==
  ASSUME NEW v, NEW b, NEW w, NEW left, NEW right
  PROVE  Holds(Equal(left, right), b, w, v) <=> ValueOf(left, w, v) = ValueOf(right, w, v)
  BY DEF Holds, Equal

(* And a target is unchanged when it is after the call what it was before. *)
LEMMA UnchangedHolds ==
  ASSUME NEW v, NEW b, NEW w, NEW target
  PROVE  Holds(Unchanged(target), b, w, v) <=> ValueOf(target, b, v) = ValueOf(target, w, v)
  BY DEF Holds, Unchanged

(* A vector states the balance an account must end with. *)
LEMMA BalanceIsLiteral ==
  ASSUME NEW v, NEW b, NEW w, NEW a, NEW n
  PROVE  Holds(Equal(BalanceRead(Actor(a)), Literal(n)), b, w, v) <=> w.balance[a] = n
<1>1. ValueOf(Literal(n), w, v) = n
  BY DEF ValueOf, Literal
<1> QED BY <1>1, BalanceOfActor, EqualHolds

(* A transfer to settle: the plan demands the success, the profile the signature, the event
   list the one event, and the state assertions the two balances. *)
LEMMA MovesTight ==
  ASSUME NEW t \in Proper, vector = MovesVector(t), t.amount <= t.opening[t.from], Answered
  PROVE  Tight
<1> SUFFICES ASSUME \A d \in Dimension : DimensionHolds(d, ProfileOf(vector), vector, Observation)
             PROVE  /\ ObservedCall.outcome = Ref.outcome /\ balance = Ref.balance
                    /\ ObservedCall.events = Ref.events /\ ObservedCall.auths = Ref.auths
  BY DEF Tight
<1> DEFINE P == ConformanceTokenProfile
           e == [name |-> "transfer", from |-> t.from, to |-> t.to, amount |-> t.amount]
<1>0. /\ TransferFields(vector, t) /\ vector.plan = Plan("accepted", {t.from}, {})
      /\ vector.expects = "success" /\ vector.failure = "none"
      /\ vector.stateAssertions =
           {Equal(BalanceRead(Actor(t.from)), Literal(t.opening[t.from] - t.amount)),
            Equal(BalanceRead(Actor(t.to)), Literal(t.opening[t.to] + t.amount))}
      /\ vector.requiredEvents = <<e>>
  BY MovesFields
<1>1. ProfileOf(vector) = P /\ vector.method = "transfer" /\ vector.opening = t.opening
      /\ vector.inputs = [from |-> t.from, to |-> t.to, amount |-> t.amount]
  BY <1>0 DEF TransferFields
<1>2. Ref = [outcome |-> "returned",
             balance |-> [t.opening EXCEPT ![t.from] = @ - t.amount, ![t.to] = @ + t.amount],
             events |-> <<e>>, auths |-> {t.from}]
  BY <1>0, <1>1 DEF Ref, Reference, Settles, Signed, Plan
<1>3. last.outcome = "returned" /\ TransferredSomehow
  <2>1. PlanHolds(vector, ObservedCall)
    BY DimensionsHold, Observations DEF AuthorizationHolds
  <2>2. Accepted(ObservedCall)
    BY <1>0, <2>1 DEF PlanHolds, Plan
  <2> QED BY <1>1, <2>2, Observations DEF Accepted, Answered, AnsweredTransfer
<1>4. last.auths = {t.from}
  <2>1. PrincipalHolds(SenderAuthorizes, vector, ObservedCall)
    <3>1. SenderAuthorizes \in P.authorizations /\ "transfer" \in SenderAuthorizes.methods
      BY DEF ConformanceTokenProfile, SenderAuthorizes
    <3>2. AuthorizationHolds(P, vector, ObservedCall) /\ Accepted(ObservedCall)
      BY <1>1, <1>3, DimensionsHold, Observations DEF Accepted
    <3> HIDE DEF P
    <3> QED BY <1>1, <3>1, <3>2 DEF AuthorizationHolds
  <2>2. t.from \in last.auths
    BY <1>1, <2>1, Observations DEF PrincipalHolds, SenderAuthorizes
  <2> QED BY <1>1, <1>3, <2>2 DEF TransferredSomehow
<1>5. last.events = <<e>>
  <2>1. PICK x : x.name = "transfer" /\ last.events \in {<<>>, <<x>>, <<x, x>>}
    BY <1>3 DEF TransferredSomehow
  <2>2. CardinalityHolds(P.events["transfer"], ObservedCall) /\ ValuesHold(e, 1, ObservedCall)
    <3>1. 1 \in DOMAIN vector.requiredEvents /\ vector.requiredEvents[1] = e
      BY <1>0
    <3> QED BY <1>1, <3>1, DimensionsHold, Observations DEF EventsHold
  <2>3. P.events["transfer"] = [name |-> "transfer", min |-> 1, max |-> 1]
    BY DEF P, ConformanceTokenProfile, Emitted
  <2>4. Cardinality(EventsNamed(ObservedCall, "transfer")) = 1
    BY <2>2, <2>3 DEF CardinalityHolds
  <2>5. last.events = <<x>> /\ EventsNamed(ObservedCall, "transfer") = {1}
    <3>1. ObservedCall.events = last.events
      BY Observations
    <3> QED BY <2>1, <2>4, <3>1, EventsCounted
  <2>6. PICK i \in EventsNamed(ObservedCall, "transfer") : ObservedCall.events[i] = e
    BY <2>2 DEF ValuesHold, e
  <2>7. x = e
    BY <2>5, <2>6, Observations
  <2> QED BY <2>5, <2>7
<1>6. balance = Ref.balance
  <2>1. /\ Observation.after.balance[t.from] = t.opening[t.from] - t.amount
        /\ Observation.after.balance[t.to] = t.opening[t.to] + t.amount
    <3>1. \A p \in vector.stateAssertions : Holds(p, before, Observation.after, vector)
      BY DimensionsHold, Observations DEF StateHolds
    <3>2. /\ Holds(Equal(BalanceRead(Actor(t.from)), Literal(t.opening[t.from] - t.amount)),
                   before, Observation.after, vector)
          /\ Holds(Equal(BalanceRead(Actor(t.to)), Literal(t.opening[t.to] + t.amount)),
                   before, Observation.after, vector)
      BY <1>0, <3>1
    <3> QED BY <3>2, BalanceIsLiteral
  <2>2. \A a \in Accounts \ {t.from, t.to} : balance[a] = t.opening[a]
    BY <1>1, <1>3 DEF TransferredSomehow
  <2> QED BY <1>2, <1>3, <2>1, <2>2, ProperFields, Observations DEF TransferredSomehow
<1> QED
  BY <1>2, <1>3, <1>4, <1>5, <1>6, <1>1, Observations

(* A transfer to refuse: the refusal, once observed, is a call that did nothing. *)
LEMMA RefusedTight ==
  ASSUME NEW t \in Proper, NEW plan, NEW failure, NEW invariants,
         vector = RefusedVector(t, plan, failure, invariants), ~Settles(vector), Answered
  PROVE  Tight
<1> SUFFICES ASSUME \A d \in Dimension : DimensionHolds(d, ProfileOf(vector), vector, Observation)
             PROVE  /\ ObservedCall.outcome = Ref.outcome /\ balance = Ref.balance
                    /\ ObservedCall.events = Ref.events /\ ObservedCall.auths = Ref.auths
  BY DEF Tight
<1>0. TransferFields(vector, t) /\ vector.expects = "failure"
  BY RefusedFields
<1>1. vector.method = "transfer" /\ vector.expects = "failure"
  BY <1>0 DEF TransferFields
<1>2. Ref = [outcome |-> "refused", balance |-> vector.opening, events |-> <<>>, auths |-> {}]
  BY <1>1 DEF Ref, Reference
<1>3. RefusalIsUnambiguous(ObservedCall)
  BY <1>1, DimensionsHold, Observations DEF FailureHolds
<1>4. last.outcome = "refused" /\ Untouched
  BY <1>1, <1>3, Observations DEF RefusalIsUnambiguous, RefusedCall, Answered, AnsweredTransfer
<1> QED
  BY <1>1, <1>2, <1>4, Observations DEF Untouched

(* A read writes nothing, so all that can go wrong is that it does not return. *)
LEMMA ReadTight ==
  ASSUME vector.method # "transfer", vector.plan = Plan("not_required", {}, {}),
         vector.expects = "success", Answered
  PROVE  Tight
<1> SUFFICES ASSUME \A d \in Dimension : DimensionHolds(d, ProfileOf(vector), vector, Observation)
             PROVE  /\ ObservedCall.outcome = Ref.outcome /\ balance = Ref.balance
                    /\ ObservedCall.events = Ref.events /\ ObservedCall.auths = Ref.auths
  BY DEF Tight
<1>1. Ref = [outcome |-> "returned", balance |-> vector.opening, events |-> <<>>, auths |-> {}]
  BY DEF Ref, Reference, Settles
<1>2. Accepted(ObservedCall)
  BY DimensionsHold, Observations DEF AuthorizationHolds, PlanHolds, Plan
<1> QED
  BY <1>1, <1>2, Observations DEF Accepted, Answered, AnsweredRead, Untouched

(* The families of Vectors, one after the other. *)
LEMMA VectorFamilies ==
  ASSUME NEW v \in Vectors
  PROVE  \/ \E t \in Proper : /\ v = MovesVector(t) /\ t.amount <= t.opening[t.from]
                              /\ t.opening[t.to] + t.amount <= MaxAmount
         \/ \E t \in Proper : v = BeyondVector(t) /\ t.amount > t.opening[t.from]
         \/ \E t \in Proper : v = UnsignedVector(t) \/ v = WrongActorVector(t)
         \/ \E p \in {"conformance-token", "token-reads"}, opening \in Opening, who \in Accounts :
              v = BalanceVector(p, opening, who)
         \/ \E m \in {"decimals", "name"}, opening \in Opening : v = MetadataVector(m, opening)
  BY DEF Vectors

(* A transfer beyond the balance is not one to settle. *)
LEMMA BeyondUnsettled ==
  ASSUME NEW t \in Proper, NEW v, v = BeyondVector(t), t.amount > t.opening[t.from]
  PROVE  ~Settles(v)
<1>1. TransferFields(v, t)
  BY RefusedFields DEF BeyondVector
<1>2. v.inputs.amount = t.amount /\ v.inputs.from = t.from /\ v.opening = t.opening
  BY <1>1 DEF TransferFields
<1> QED BY <1>2, ProperFields DEF Settles

(* Nor is one its holder has not signed for. *)
LEMMA UnsignedUnsettled ==
  ASSUME NEW t \in Proper, NEW v, v = UnsignedVector(t) \/ v = WrongActorVector(t)
  PROVE  ~Settles(v)
<1>1. v.inputs.from = t.from /\ v.plan.expected = "rejected" /\ t.from \notin v.plan.actors
  <2>1. CASE v = UnsignedVector(t)
    <3>1. TransferFields(v, t) /\ v.plan = Plan("rejected", {}, {})
      BY <2>1, RefusedFields DEF UnsignedVector
    <3> QED BY <3>1 DEF TransferFields, Plan
  <2>2. CASE v = WrongActorVector(t)
    <3>1. TransferFields(v, t) /\ v.plan = Plan("rejected", {t.to}, {t.from})
      BY <2>2, RefusedFields DEF WrongActorVector
    <3> QED BY <3>1, ProperFields DEF TransferFields, Plan
  <2> QED BY <2>1, <2>2
<1> QED BY <1>1 DEF Settles, Signed

(* No vector of the repository's families leaves a deviation room. *)
LEMMA EveryVectorIsTight ==
  ASSUME vector \in Vectors, Answered
  PROVE  Tight
<1>1. ASSUME NEW t \in Proper, vector = MovesVector(t), t.amount <= t.opening[t.from]
      PROVE  Tight
  BY <1>1, MovesTight
<1>2. ASSUME NEW t \in Proper, vector = BeyondVector(t), t.amount > t.opening[t.from]
      PROVE  Tight
  BY <1>2, RefusedTight, BeyondUnsettled DEF BeyondVector
<1>3. ASSUME NEW t \in Proper, vector = UnsignedVector(t) \/ vector = WrongActorVector(t)
      PROVE  Tight
  BY <1>3, RefusedTight, UnsignedUnsettled DEF UnsignedVector, WrongActorVector
<1>4. ASSUME NEW p, NEW opening, NEW who, vector = BalanceVector(p, opening, who)
      PROVE  Tight
  BY <1>4, ReadFields, ReadTight DEF BalanceVector
<1>5. ASSUME NEW m \in {"decimals", "name"}, NEW opening, vector = MetadataVector(m, opening)
      PROVE  Tight
  BY <1>5, ReadFields, ReadTight DEF MetadataVector
<1> QED
  BY <1>1, <1>2, <1>3, <1>4, <1>5, VectorFamilies

(* A vector passes only if the contract did what the standard says (assertions' run.rs over  *)
(* the seven dimensions): whatever the accounts, balances and amounts, and whatever its       *)
(* defect, it ended the call that way, left those balances, emitted those events and demanded *)
(* those signatures.                                                                         *)
THEOREM PassedMeansConforming == Spec => []NothingEscapes
<1>1. Prepared /\ Observed => NothingEscapes
  <2> SUFFICES ASSUME Prepared, Observed, pc = "idle", status = "passed"
               PROVE  /\ ObservedCall.outcome = Ref.outcome /\ balance = Ref.balance
                      /\ ObservedCall.events = Ref.events /\ ObservedCall.auths = Ref.auths
    BY DEF NothingEscapes
  <2>1. Answered /\ accused = {} /\ accused = Accused(ProfileOf(vector), vector, Observation)
    BY DEF Observed, Judged, Measured
  <2>2. \A d \in Dimension : DimensionHolds(d, ProfileOf(vector), vector, Observation)
    BY <2>1 DEF Accused
  <2> QED BY <2>1, <2>2, EveryVectorIsTight DEF Prepared, Tight
<1> QED
  BY <1>1, PreparedAlways, ObservedAlways, PTL

---------------------------------------------------------------------------
(* Fair: what a dimension finds, one family after the other. *)

\* The documents' two profiles.
Shipped(P) == P \in {ConformanceTokenProfile, TokenReadsProfile}

(* The documents state invariants of three kinds. *)
LEMMA InvariantKinds ==
  ASSUME NEW P, Shipped(P)
  PROVE  \A i \in P.invariants : i.kind \in {"conservation", "non_negative", "state_unchanged"}
<1>1. CASE P = ConformanceTokenProfile
  BY <1>1 DEF ConformanceTokenProfile, Invariant
<1>2. CASE P = TokenReadsProfile
  BY <1>2 DEF TokenReadsProfile, Invariant
<1> QED BY <1>1, <1>2 DEF Shipped

(* What each kind asks of the two worlds. *)
LEMMA InvariantMeans ==
  ASSUME NEW i, NEW v, NEW o
  PROVE  /\ i.kind = "conservation" =>
              InvariantHolds(i, v, o) = (Total(o.before.balance) = Total(o.after.balance))
         /\ i.kind = "non_negative" =>
              InvariantHolds(i, v, o) = (\A a \in DOMAIN o.after.balance : o.after.balance[a] >= 0)
         /\ i.kind = "state_unchanged" =>
              InvariantHolds(i, v, o) = (o.before.balance = o.after.balance)
<1>1. \A world : ValueOf(SumOfBalances, world, v) = Total(world.balance)
  BY DEF ValueOf, SumOfBalances, Total
<1>2. CASE i.kind = "conservation"
  BY <1>1, <1>2 DEF InvariantHolds
<1>3. CASE i.kind = "non_negative"
  BY <1>3 DEF InvariantHolds
<1>4. CASE i.kind = "state_unchanged"
  BY <1>4 DEF InvariantHolds, StateUnchanged
<1> QED BY <1>2, <1>3, <1>4

(* A call that moved nothing breaks no invariant of either profile. *)
LEMMA StillKeepsInvariants ==
  ASSUME vector.opening \in [Accounts -> 0..MaxAmount],
         before.balance = vector.opening, balance = vector.opening, Shipped(ProfileOf(vector))
  PROVE  InvariantsHold(ProfileOf(vector), vector, Observation)
<1> DEFINE P == ProfileOf(vector)
           o == Observation
<1>1. o.before.balance = vector.opening /\ o.after.balance = vector.opening
  BY Observations
<1>2. ASSUME NEW i \in P.invariants
      PROVE  InvariantHolds(i, vector, o)
  <2>1. i.kind \in {"conservation", "non_negative", "state_unchanged"}
    BY InvariantKinds
  <2>2. \A a \in DOMAIN o.after.balance : o.after.balance[a] >= 0
    BY <1>1
  <2> QED BY <1>1, <2>1, <2>2, InvariantMeans
<1> QED BY <1>2 DEF InvariantsHold, ChosenInvariants

(* What the predicates of the behaviour rules say of two worlds. *)
LEMMA InputPredicates ==
  ASSUME NEW v, NEW b, NEW w, NEW who, NEW n
  PROVE  /\ Holds(Decrease(BalanceRead(Input(who)), Input(n)), b, w, v)
              <=> w.balance[v.inputs[who]] - b.balance[v.inputs[who]] = (-1) * v.inputs[n]
         /\ Holds(Increase(BalanceRead(Input(who)), Input(n)), b, w, v)
              <=> w.balance[v.inputs[who]] - b.balance[v.inputs[who]] = 1 * v.inputs[n]
         /\ Holds(Unchanged(BalanceRead(Input(who))), b, w, v)
              <=> b.balance[v.inputs[who]] = w.balance[v.inputs[who]]
<1>1. \A world : ValueOf(BalanceRead(Input(who)), world, v) = world.balance[v.inputs[who]]
  BY DEF ValueOf, BalanceRead, Input, Account
<1>2. \A world : ValueOf(Input(n), world, v) = v.inputs[n]
  BY DEF ValueOf, Input
<1>3. \A target, by : Holds(Decrease(target, by), b, w, v)
                        <=> ValueOf(target, w, v) - ValueOf(target, b, v) = (-1) * ValueOf(by, w, v)
  BY DEF Holds, Decrease
<1>4. \A target, by : Holds(Increase(target, by), b, w, v)
                        <=> ValueOf(target, w, v) - ValueOf(target, b, v) = 1 * ValueOf(by, w, v)
  BY DEF Holds, Increase
<1>5. \A target : Holds(Unchanged(target), b, w, v) <=> ValueOf(target, b, v) = ValueOf(target, w, v)
  BY DEF Holds, Unchanged
<1> QED BY <1>1, <1>2, <1>3, <1>4, <1>5

(* The rule of conformance-token that governs a transfer is the one of its expectation. *)
LEMMA TransferRules ==
  ASSUME NEW v, NEW o
  PROVE  \A rule \in Governing(ConformanceTokenProfile, v, o) :
           /\ v.expects = "success" => rule = MovesTheExactAmount
           /\ v.expects = "failure" => rule = BeyondTheBalanceFails
           /\ v.expects = "failure" /\ v.failure # "none"
                => v.failure = "insufficient-transfer-balance"
           /\ v.method = "transfer"
<1> SUFFICES ASSUME NEW rule \in Governing(ConformanceTokenProfile, v, o)
             PROVE  /\ v.expects = "success" => rule = MovesTheExactAmount
                    /\ v.expects = "failure" => rule = BeyondTheBalanceFails
                    /\ v.expects = "failure" /\ v.failure # "none"
                         => v.failure = "insufficient-transfer-balance"
                    /\ v.method = "transfer"
  OBVIOUS
<1>1. rule \in {MovesTheExactAmount, BeyondTheBalanceFails}
  BY DEF Governing, RulesFor, ConformanceTokenProfile
<1>2. rule.method = v.method /\ Applicable(rule, v, o.before)
  BY DEF Governing, RulesFor
<1>3. CASE rule = MovesTheExactAmount
  BY <1>2, <1>3 DEF Applicable, MovesTheExactAmount
<1>4. CASE rule = BeyondTheBalanceFails
  BY <1>2, <1>4 DEF Applicable, BeyondTheBalanceFails
<1> QED BY <1>1, <1>3, <1>4

(* A transfer the standard settles. *)
LEMMA MovesFair ==
  ASSUME NEW t \in Proper, vector = MovesVector(t), t.amount <= t.opening[t.from],
         before.balance = vector.opening, Answered
  PROVE  Fair
<1> DEFINE P == ConformanceTokenProfile
           o == Observation
           e == [name |-> "transfer", from |-> t.from, to |-> t.to, amount |-> t.amount]
<1>0. /\ TransferFields(vector, t) /\ vector.plan = Plan("accepted", {t.from}, {})
      /\ vector.expects = "success" /\ vector.failure = "none"
      /\ vector.stateAssertions =
           {Equal(BalanceRead(Actor(t.from)), Literal(t.opening[t.from] - t.amount)),
            Equal(BalanceRead(Actor(t.to)), Literal(t.opening[t.to] + t.amount))}
      /\ vector.requiredEvents = <<e>> /\ vector.forbiddenEvents = {}
      /\ vector.invariants = {"balances-are-conserved-by-transfer", "balances-are-non-negative"}
  BY MovesFields
<1>1. ProfileOf(vector) = P /\ vector.method = "transfer" /\ vector.opening = t.opening
      /\ vector.inputs = [from |-> t.from, to |-> t.to, amount |-> t.amount]
      /\ vector.addresses = {"from", "to"}
  BY <1>0 DEF TransferFields
<1>2. Ref = [outcome |-> "returned",
             balance |-> [t.opening EXCEPT ![t.from] = @ - t.amount, ![t.to] = @ + t.amount],
             events |-> <<e>>, auths |-> {t.from}]
  BY <1>0, <1>1 DEF Ref, Reference, Settles, Signed, Plan
<1>3. /\ t.from \in Accounts /\ t.to \in Accounts /\ t.from # t.to /\ t.amount \in Nat
      /\ t.opening \in [Accounts -> 0..MaxAmount] /\ MaxAmount \in Nat
  BY ProperFields, AmountTypeAssumption
<1>4. balance = Ref.balance => /\ balance[t.from] = t.opening[t.from] - t.amount
                               /\ balance[t.to] = t.opening[t.to] + t.amount
  BY <1>2, <1>3
<1>5. \A rule \in Governing(P, vector, o) : rule = MovesTheExactAmount
  BY <1>0, TransferRules
<1>6. ASSUME ObservedCall.outcome = Ref.outcome, balance = Ref.balance
      PROVE  BehaviorHolds(P, vector, o)
  <2>1. Accepted(o.call)
    BY <1>2, <1>6, Observations DEF Accepted
  <2>2. /\ Holds(Decrease(BalanceRead(Input("from")), Input("amount")), o.before, o.after, vector)
        /\ Holds(Increase(BalanceRead(Input("to")), Input("amount")), o.before, o.after, vector)
    <3>1. o.before.balance = t.opening /\ o.after.balance = balance
      BY <1>1, Observations
    <3>2. /\ balance[t.from] - t.opening[t.from] = (-1) * t.amount
          /\ balance[t.to] - t.opening[t.to] = 1 * t.amount
      BY <1>3, <1>4, <1>6
    <3>3. /\ vector.inputs["from"] = t.from /\ vector.inputs["to"] = t.to
          /\ vector.inputs["amount"] = t.amount
      BY <1>1
    <3>4. /\ Holds(Decrease(BalanceRead(Input("from")), Input("amount")), o.before, o.after, vector)
            <=> o.after.balance[vector.inputs["from"]] - o.before.balance[vector.inputs["from"]]
                  = (-1) * vector.inputs["amount"]
          /\ Holds(Increase(BalanceRead(Input("to")), Input("amount")), o.before, o.after, vector)
            <=> o.after.balance[vector.inputs["to"]] - o.before.balance[vector.inputs["to"]]
                  = 1 * vector.inputs["amount"]
      BY InputPredicates
    <3> HIDE DEF o
    <3> QED BY <3>1, <3>2, <3>3, <3>4
  <2>3. /\ \A p \in MovesTheExactAmount.postconditions : Holds(p, o.before, o.after, vector)
        /\ MovesTheExactAmount.kind = "success" /\ MovesTheExactAmount.failures = {}
    BY <2>2 DEF MovesTheExactAmount
  <2> QED BY <1>5, <2>1, <2>3 DEF BehaviorHolds, RuleOutcomeHolds, ExpectedFailureHolds
<1>7. ASSUME ObservedCall.outcome = Ref.outcome, ObservedCall.auths = Ref.auths
      PROVE  AuthorizationHolds(P, vector, o.call)
  <2>1. Accepted(o.call) /\ o.call.auths = {t.from}
    BY <1>2, <1>7, Observations DEF Accepted
  <2>2. PlanHolds(vector, o.call)
    BY <1>0, <2>1 DEF PlanHolds, Plan
  <2>3. ASSUME NEW rule \in P.authorizations, {"transfer", "*"} \cap rule.methods # {}
        PROVE  rule = SenderAuthorizes
    BY <2>3 DEF ConformanceTokenProfile, NoAuthorization
  <2>4. PrincipalHolds(SenderAuthorizes, vector, o.call)
    BY <1>1, <2>1 DEF PrincipalHolds, SenderAuthorizes
  <2>5. CoveredArguments(o.call, vector) = {"from"}
    BY <1>1, <1>3, <2>1 DEF CoveredArguments
  <2>6. CoverageHolds(SenderAuthorizes, vector, o.call)
    BY <2>5 DEF CoverageHolds, SenderAuthorizes
  <2>7. Path(vector.plan) = "authorized"
    BY <1>0 DEF Path, Plan
  <2>8. PathHolds(SenderAuthorizes, vector, o.call)
    BY <2>7 DEF PathHolds
  <2> QED BY <1>1, <2>2, <2>3, <2>4, <2>6, <2>8 DEF AuthorizationHolds
<1>8. ASSUME ObservedCall.events = Ref.events
      PROVE  EventsHold(P, vector, o)
  <2>1. o.call.events = <<e>> /\ e.name = "transfer"
    BY <1>2, <1>8, Observations
  <2>2. EventsNamed(o.call, "transfer") = {1} /\ Cardinality(EventsNamed(o.call, "transfer")) = 1
    <3> HIDE DEF e, o
    <3> QED BY <2>1, OneCounted
  <2>3. CardinalityHolds(P.events["transfer"], o.call)
    BY <2>2 DEF CardinalityHolds, ConformanceTokenProfile, Emitted
  <2>4. ValuesHold(e, 1, o.call)
    <3>1. {j \in {1} : j <= 1} = {1}
      OBVIOUS
    <3>2. Cardinality({j \in EventsNamed(o.call, "transfer") : j <= 1}) = 1
      BY <2>2, <3>1
    <3>3. 1 \in EventsNamed(o.call, "transfer") /\ o.call.events[1] = e
      BY <2>1, <2>2
    <3> HIDE DEF e, o
    <3> QED BY <2>1, <3>2, <3>3 DEF ValuesHold
  <2>5. MovesTheExactAmount.expectEvents = {"transfer"} /\ MovesTheExactAmount.forbidEvents = {}
    BY DEF MovesTheExactAmount
  <2>6. \A rule \in Governing(P, vector, o) : EventRuleHolds(P, rule, o.call)
    BY <1>5, <2>3, <2>5 DEF EventRuleHolds
  <2>7. DOMAIN vector.requiredEvents = {1} /\ vector.requiredEvents[1] = e
    BY <1>0
  <2> HIDE DEF P, o, e
  <2> QED BY <1>0, <2>1, <2>3, <2>4, <2>6, <2>7 DEF EventsHold
<1>9. ASSUME balance = Ref.balance
      PROVE  StateHolds(vector, o)
  <2>1. /\ Holds(Equal(BalanceRead(Actor(t.from)), Literal(t.opening[t.from] - t.amount)),
                 o.before, o.after, vector)
        /\ Holds(Equal(BalanceRead(Actor(t.to)), Literal(t.opening[t.to] + t.amount)),
                 o.before, o.after, vector)
    <3>1. o.after.balance = balance
      BY Observations
    <3> HIDE DEF o
    <3> QED BY <1>4, <1>9, <3>1, BalanceIsLiteral
  <2> QED BY <1>0, <2>1 DEF StateHolds
<1>10. ASSUME balance = Ref.balance
       PROVE  InvariantsHold(P, vector, o)
  <2>1. CASE last.outcome = "refused"
    <3>1. balance = vector.opening
      BY <1>1, <2>1 DEF Answered, AnsweredTransfer, Untouched
    <3> QED BY <1>1, <1>3, <3>1, StillKeepsInvariants DEF Shipped
  <2>2. CASE last.outcome = "returned"
    <3>1. ASSUME NEW i \in ChosenInvariants(P, vector, o)
          PROVE  i.kind \in {"conservation", "non_negative"}
      <4>1. Accepted(o.call)
        BY <1>1, <2>2, Observations DEF Accepted
      <4>2. \/ InScope(i, vector, o.call) \/ i.id \in vector.invariants
            \/ i.id \in MovesTheExactAmount.invariants
        BY <1>5 DEF ChosenInvariants
      <4>3. \/ "success" \in i.outcomes
            \/ i.id \in {"balances-are-conserved-by-transfer", "balances-are-non-negative"}
        BY <1>0, <4>1, <4>2 DEF InScope, MovesTheExactAmount
      <4>4. i \in P.invariants
        BY DEF ChosenInvariants
      <4> QED BY <4>3, <4>4 DEF ConformanceTokenProfile, Invariant
    <3>2. Total(o.before.balance) = Total(o.after.balance)
      BY <1>1, <1>2, <1>3, <1>10, Observations, TotalIsConserved, ProfilesAssumption
    <3>3. \A a \in DOMAIN o.after.balance : o.after.balance[a] >= 0
      BY <1>2, <1>3, <1>10, Observations
    <3> QED BY <3>1, <3>2, <3>3, InvariantMeans DEF InvariantsHold
  <2> QED BY <1>1, <2>1, <2>2 DEF Answered, AnsweredTransfer
<1>11. FailureHolds(P, vector, o)
  BY <1>0 DEF FailureHolds
<1> QED
  BY <1>1, <1>6, <1>7, <1>8, <1>9, <1>10, <1>11 DEF Fair

(* Nothing emitted is nothing found. *)
LEMMA NothingCounted ==
  ASSUME NEW call, call.events = <<>>, NEW name
  PROVE  EventsNamed(call, name) = {}
<1>1. DOMAIN call.events = {}
  OBVIOUS
<1> QED BY <1>1 DEF EventsNamed

(* A transfer the standard refuses. *)
LEMMA RefusedFair ==
  ASSUME NEW t \in Proper, NEW plan, NEW failure, NEW invariants, failure # "none",
         vector = RefusedVector(t, plan, failure, invariants), ~Settles(vector),
         before.balance = vector.opening, Answered
  PROVE  Fair
<1> DEFINE P == ConformanceTokenProfile
           o == Observation
<1>0. /\ TransferFields(vector, t) /\ vector.expects = "failure" /\ vector.failure = failure
      /\ vector.stateAssertions =
           {Unchanged(BalanceRead(Actor(t.from))), Unchanged(BalanceRead(Actor(t.to)))}
      /\ vector.requiredEvents = <<>> /\ vector.forbiddenEvents = {"transfer"}
  BY RefusedFields
<1>1. ProfileOf(vector) = P /\ vector.method = "transfer" /\ vector.opening = t.opening
  BY <1>0 DEF TransferFields
<1>2. Ref = [outcome |-> "refused", balance |-> vector.opening, events |-> <<>>, auths |-> {}]
  BY <1>1 DEF Ref, Reference
<1>3. /\ o.call = ObservedCall /\ o.before.balance = vector.opening /\ o.after.balance = balance
      /\ vector.opening \in [Accounts -> 0..MaxAmount]
  BY <1>1, Observations, ProperFields
<1>4. \A rule \in Governing(P, vector, o) :
        rule = BeyondTheBalanceFails /\ vector.failure = "insufficient-transfer-balance"
  BY <1>0, TransferRules
<1>5. ASSUME ObservedCall.outcome = Ref.outcome
      PROVE  RefusalIsUnambiguous(o.call) /\ Untouched
  <2>1. last.outcome = "refused" /\ ObservedCall.verified /\ ObservedCall.outcome = "refused"
    BY <1>1, <1>2, <1>5, Observations
  <2> QED
    BY <1>1, <1>3, <2>1 DEF RefusalIsUnambiguous, RefusedCall, Answered, AnsweredTransfer
<1>6. ASSUME ObservedCall.outcome = Ref.outcome, balance = Ref.balance
      PROVE  BehaviorHolds(P, vector, o)
  <2>1. o.before.balance = o.after.balance
    BY <1>2, <1>3, <1>6
  <2>2. \A who : Holds(Unchanged(BalanceRead(Input(who))), o.before, o.after, vector)
    <3> HIDE DEF o
    <3> QED BY <2>1, InputPredicates
  <2>3. /\ \A p \in BeyondTheBalanceFails.postconditions : Holds(p, o.before, o.after, vector)
        /\ BeyondTheBalanceFails.kind = "failure"
        /\ BeyondTheBalanceFails.failures = {"insufficient-transfer-balance"}
    BY <2>2 DEF BeyondTheBalanceFails
  <2>4. \A rule \in Governing(P, vector, o) :
          RuleOutcomeHolds(rule, o.call) /\ ExpectedFailureHolds(rule, vector, o.call)
    BY <1>0, <1>4, <1>5, <1>6, <2>3 DEF RuleOutcomeHolds, ExpectedFailureHolds
  <2> QED BY <1>4, <2>3, <2>4 DEF BehaviorHolds
<1>7. ASSUME ObservedCall.outcome = Ref.outcome
      PROVE  AuthorizationHolds(P, vector, o.call)
  <2>1. RefusalIsUnambiguous(o.call) /\ ~Accepted(o.call)
    BY <1>5, <1>7 DEF RefusalIsUnambiguous, RefusedCall, Accepted
  <2>2. PlanHolds(vector, o.call)
    BY <1>0, <2>1 DEF PlanHolds
  <2>3. ASSUME NEW rule \in P.authorizations, {"transfer", "*"} \cap rule.methods # {}
        PROVE  rule = SenderAuthorizes
    BY <2>3 DEF ConformanceTokenProfile, NoAuthorization
  <2>4. PathHolds(SenderAuthorizes, vector, o.call)
    BY <2>1 DEF PathHolds, SenderAuthorizes, EndsAs
  <2> QED BY <1>1, <2>1, <2>2, <2>3, <2>4 DEF AuthorizationHolds
<1>8. ASSUME ObservedCall.events = Ref.events
      PROVE  EventsHold(P, vector, o)
  <2>1. EventsNamed(o.call, "transfer") = {}
    BY <1>2, <1>3, <1>8, NothingCounted
  <2>2. BeyondTheBalanceFails.expectEvents = {} /\ BeyondTheBalanceFails.forbidEvents = {"transfer"}
    BY DEF BeyondTheBalanceFails
  <2>3. \A rule \in Governing(P, vector, o) : EventRuleHolds(P, rule, o.call)
    BY <1>4, <2>1, <2>2 DEF EventRuleHolds
  <2>4. DOMAIN vector.requiredEvents = {}
    BY <1>0
  <2> QED BY <1>0, <2>1, <2>3, <2>4 DEF EventsHold
<1>9. ASSUME balance = Ref.balance
      PROVE  StateHolds(vector, o) /\ InvariantsHold(P, vector, o)
  <2>1. o.before.balance = o.after.balance
    BY <1>2, <1>3, <1>9
  <2>2. \A a : Holds(Unchanged(BalanceRead(Actor(a))), o.before, o.after, vector)
    <3> HIDE DEF o
    <3> QED BY <2>1, BalanceOfActor, UnchangedHolds
  <2>3. InvariantsHold(P, vector, o)
    BY <1>1, <1>2, <1>3, <1>9, StillKeepsInvariants DEF Shipped
  <2> QED BY <1>0, <2>2, <2>3 DEF StateHolds
<1>10. ASSUME ObservedCall.outcome = Ref.outcome
       PROVE  FailureHolds(P, vector, o)
  BY <1>3, <1>5, <1>10, Observations DEF FailureHolds, StateUnchanged, Untouched
<1> QED
  BY <1>1, <1>6, <1>7, <1>8, <1>9, <1>10 DEF Fair

(* A rule about reads asks that the call was accepted, and of its values nothing. *)
LEMMA ReadRules ==
  ASSUME NEW v, v.method # "transfer", NEW P, Shipped(P), NEW o
  PROVE  \A rule \in Governing(P, v, o) :
           /\ rule.kind = "success" /\ rule.failures = {}
           /\ \A p \in rule.postconditions : Holds(p, o.before, o.after, v)
           /\ rule.expectEvents = {} /\ rule.forbidEvents = {}
<1>1. CASE P = ConformanceTokenProfile
  BY <1>1, TransferRules
<1>2. CASE P = TokenReadsProfile
  <2>1. \A id, method, read :
          /\ ReadRule(id, method, read).kind = "success" /\ ReadRule(id, method, read).failures = {}
          /\ ReadRule(id, method, read).postconditions = {Equal(read, read)}
          /\ ReadRule(id, method, read).expectEvents = {}
          /\ ReadRule(id, method, read).forbidEvents = {}
    BY DEF ReadRule
  <2>2. \A rule \in Governing(P, v, o) : \E id, method, read : rule = ReadRule(id, method, read)
    BY <1>2 DEF Governing, RulesFor, TokenReadsProfile
  <2>3. \A read : Holds(Equal(read, read), o.before, o.after, v)
    BY EqualHolds
  <2> QED BY <2>1, <2>2, <2>3
<1> QED BY <1>1, <1>2 DEF Shipped

(* A read. *)
LEMMA ReadFair ==
  ASSUME vector.method # "transfer", vector.plan = Plan("not_required", {}, {}),
         vector.expects = "success", vector.requiredEvents = <<>>,
         vector.opening \in [Accounts -> 0..MaxAmount], Shipped(ProfileOf(vector)),
         before.balance = vector.opening,
         balance = vector.opening => StateHolds(vector, Observation),
         Answered
  PROVE  Fair
<1> DEFINE P == ProfileOf(vector)
           o == Observation
<1>1. /\ Ref = [outcome |-> "returned", balance |-> vector.opening, events |-> <<>>, auths |-> {}]
      /\ balance = vector.opening /\ o.call.events = <<>> /\ o.call.auths = {}
      /\ o.call.outcome = ObservedCall.outcome
  BY Observations DEF Ref, Reference, Settles, Answered, AnsweredRead, Untouched
<1>2. ASSUME ObservedCall.outcome = Ref.outcome
      PROVE  BehaviorHolds(P, vector, o)
  <2>1. Accepted(o.call)
    BY <1>1, <1>2 DEF Accepted
  <2> QED BY <2>1, ReadRules DEF BehaviorHolds, RuleOutcomeHolds, ExpectedFailureHolds
<1>3. ASSUME ObservedCall.outcome = Ref.outcome
      PROVE  AuthorizationHolds(P, vector, o.call)
  <2>1. Accepted(o.call)
    BY <1>1, <1>3 DEF Accepted
  <2>2. PlanHolds(vector, o.call)
    BY <2>1 DEF PlanHolds, Plan
  <2>3. ASSUME NEW rule \in P.authorizations, {vector.method, "*"} \cap rule.methods # {}
        PROVE  \E methods : rule = NoAuthorization(methods)
    <3>1. CASE P = ConformanceTokenProfile
      BY <2>3, <3>1 DEF ConformanceTokenProfile, SenderAuthorizes
    <3>2. CASE P = TokenReadsProfile
      BY <3>2 DEF TokenReadsProfile
    <3> QED BY <3>1, <3>2 DEF Shipped
  <2>4. CoveredArguments(o.call, vector) = {}
    BY <1>1 DEF CoveredArguments
  <2>5. Path(vector.plan) = "unauthorized"
    BY DEF Path, Plan
  <2>6. \A methods : /\ PrincipalHolds(NoAuthorization(methods), vector, o.call)
                     /\ CoverageHolds(NoAuthorization(methods), vector, o.call)
                     /\ PathHolds(NoAuthorization(methods), vector, o.call)
    <3>1. \A methods : PrincipalHolds(NoAuthorization(methods), vector, o.call)
      BY <1>1 DEF PrincipalHolds, NoAuthorization
    <3>2. \A methods : CoverageHolds(NoAuthorization(methods), vector, o.call)
      BY <2>4 DEF CoverageHolds, NoAuthorization
    <3>3. \A methods : PathHolds(NoAuthorization(methods), vector, o.call)
      BY <2>1, <2>5 DEF PathHolds, NoAuthorization, EndsAs
    <3> QED BY <3>1, <3>2, <3>3
  <2> QED BY <2>2, <2>3, <2>6 DEF AuthorizationHolds
<1>4. EventsHold(P, vector, o)
  <2>1. \A name : EventsNamed(o.call, name) = {}
    BY <1>1, NothingCounted
  <2>2. \A rule \in Governing(P, vector, o) : EventRuleHolds(P, rule, o.call)
    BY ReadRules DEF EventRuleHolds
  <2>3. DOMAIN vector.requiredEvents = {}
    OBVIOUS
  <2> QED BY <2>1, <2>2, <2>3 DEF EventsHold
<1>5. InvariantsHold(P, vector, o)
  BY <1>1, StillKeepsInvariants
<1>6. FailureHolds(P, vector, o)
  BY DEF FailureHolds
<1> QED
  BY <1>1, <1>2, <1>3, <1>4, <1>5, <1>6 DEF Fair

(* No vector of the repository's families accuses a contract of what it did right. *)
LEMMA EveryVectorIsFair ==
  ASSUME vector \in Vectors, before.balance = vector.opening, Answered
  PROVE  Fair
<1>1. ASSUME NEW t \in Proper, vector = MovesVector(t), t.amount <= t.opening[t.from]
      PROVE  Fair
  BY <1>1, MovesFair
<1>2. ASSUME NEW t \in Proper, vector = BeyondVector(t), t.amount > t.opening[t.from]
      PROVE  Fair
  BY <1>2, RefusedFair, BeyondUnsettled DEF BeyondVector
<1>3. ASSUME NEW t \in Proper, vector = UnsignedVector(t) \/ vector = WrongActorVector(t)
      PROVE  Fair
  BY <1>3, RefusedFair, UnsignedUnsettled DEF UnsignedVector, WrongActorVector
<1>4. vector.opening \in [Accounts -> 0..MaxAmount]
  BY OpeningsFit
<1>5. ASSUME NEW p \in {"conformance-token", "token-reads"}, NEW opening, NEW who,
             vector = BalanceVector(p, opening, who)
      PROVE  Fair
  <2>1. /\ vector.method = "balance" /\ vector.opening = opening
        /\ vector.plan = Plan("not_required", {}, {})
        /\ vector.expects = "success" /\ vector.requiredEvents = <<>>
        /\ vector.stateAssertions = {Equal(BalanceRead(Actor(who)), Literal(opening[who]))}
    BY <1>5, ReadFields DEF BalanceVector
  <2>2. balance = vector.opening => StateHolds(vector, Observation)
    BY <2>1, BalanceIsLiteral, Observations DEF StateHolds
  <2>3. Shipped(ProfileOf(vector))
    BY DEF Shipped, ProfileOf
  <2> QED BY <1>4, <2>1, <2>2, <2>3, ReadFair
<1>6. ASSUME NEW m \in {"decimals", "name"}, NEW opening, vector = MetadataVector(m, opening)
      PROVE  Fair
  <2>1. /\ vector.method = m /\ vector.plan = Plan("not_required", {}, {})
        /\ vector.expects = "success" /\ vector.requiredEvents = <<>>
        /\ vector.stateAssertions = {Unchanged(SumOfBalances)}
    BY <1>6, ReadFields DEF MetadataVector
  <2>2. \A world : ValueOf(SumOfBalances, world, vector) = Total(world.balance)
    BY DEF ValueOf, SumOfBalances, Total
  <2>3. balance = vector.opening => StateHolds(vector, Observation)
    BY <2>1, <2>2, UnchangedHolds, Observations DEF StateHolds
  <2>4. Shipped(ProfileOf(vector))
    BY DEF Shipped, ProfileOf
  <2> QED BY <1>4, <2>1, <2>3, <2>4, ReadFair
<1> QED
  BY <1>1, <1>2, <1>3, <1>5, <1>6, VectorFamilies

(* A dimension accuses a contract only of a departure from the standard that is its own, so a *)
(* conforming contract is never accused, whatever the accounts, balances, amounts and          *)
(* signatures.                                                                                *)
THEOREM AccusedMeansDeviating == Spec => []BlameNamesTheDeviation
<1>1. Prepared /\ Observed => BlameNamesTheDeviation
  <2> SUFFICES ASSUME Prepared, Observed, pc = "idle", status = "failed"
               PROVE  BlameNamesTheDeviation
    BY DEF BlameNamesTheDeviation
  <2> DEFINE P == ProfileOf(vector)
             o == Observation
  <2>1. Answered /\ before.balance = vector.opening /\ accused = Accused(P, vector, o)
    BY DEF Observed, Judged, Measured, Prepared, MeasuredFromItsOpening
  <2>2. Fair
    BY <2>1, EveryVectorIsFair DEF Prepared
  <2>3. "interface" \in accused => ~InterfaceHolds(P, Exposed)
    BY <2>1, Observations DEF Accused, DimensionHolds
  <2>4. /\ "behavior" \in accused => ~BehaviorHolds(P, vector, o)
        /\ "authorization" \in accused => ~AuthorizationHolds(P, vector, o.call)
        /\ "event" \in accused => ~EventsHold(P, vector, o)
        /\ "state" \in accused => ~StateHolds(vector, o)
        /\ "invariant" \in accused => ~InvariantsHold(P, vector, o)
        /\ "failure" \in accused => ~FailureHolds(P, vector, o)
    BY <2>1 DEF Accused, DimensionHolds
  <2>5. P.required \subseteq Reads \cup {"transfer"} /\ P.forbidden = {}
    BY DEF ProfileOf, ConformanceTokenProfile, TokenReadsProfile, Reads
  <2>6. "interface" \in accused => Exposed # Reads \cup {"transfer"}
    BY <2>3, <2>5 DEF InterfaceHolds
  <2> QED BY <2>2, <2>4, <2>6 DEF Fair, BlameNamesTheDeviation
<1> QED
  BY <1>1, PreparedAlways, ObservedAlways, PTL
=============================================================================
