--------------------------- MODULE TokenProofs ----------------------------
(***************************************************************************)
(* Theorems about the fixture token, for every set of accounts, amounts and *)
(* ledgers and every width of the amount type: what its invariants are, and *)
(* that a conforming build implements the promise of a token.               *)
(***************************************************************************)
EXTENDS TokenAudit, TLAPS

\* Arithmetic on amounts cannot leave the amount type, in either kind of build.
LEMMA NarrowFits ==
  ASSUME NEW x \in Int
  PROVE  Narrow(x) \in MinAmount..MaxAmount
<1>1. MaxAmount \in Nat /\ MinAmount = -MaxAmount - 1
  BY AmountAssumption DEF MinAmount
<1>2. CASE Fits(x)
  BY <1>1, <1>2 DEF Narrow, Fits
<1>3. CASE ~Fits(x)
  <2> DEFINE width == 2 * (MaxAmount + 1)
             offset == x - MinAmount
  <2>1. width \in Nat \ {0} /\ offset \in Int
    BY <1>1
  <2>2. offset % width \in 0..(width - 1)
    <3> HIDE DEF width, offset
    <3> QED BY <2>1
  <2>3. Narrow(x) = (offset % width) + MinAmount
    BY <1>3 DEF Narrow
  <2> QED
    <3>1. PICK r \in 0..(width - 1) : Narrow(x) = r + MinAmount
      BY <2>2, <2>3
    <3> QED BY <3>1, <1>1
<1> QED BY <1>2, <1>3

---------------------------------------------------------------------------
(* Type correctness. *)

LEMMA AmountsFit ==
  /\ MaxAmount \in Nat /\ MinAmount \in Int /\ 0 \in MinAmount..MaxAmount
  /\ Amounts \subseteq MinAmount..MaxAmount /\ Seeds \subseteq Amounts
  /\ Ledgers \subseteq Nat
BY AmountAssumption, LedgerAssumption DEF MinAmount, Seeds

\* A debit or a credit keeps every balance in the amount type.
LEMMA BalancesFit ==
  ASSUME NEW b \in [Accounts -> MinAmount..MaxAmount], NEW who \in Accounts, NEW amount \in Int
  PROVE  /\ Debited(b, who, amount) \in [Accounts -> MinAmount..MaxAmount]
         /\ Credited(b, who, amount) \in [Accounts -> MinAmount..MaxAmount]
<1>1. b[who] \in Int
  BY AmountsFit
<1>2. Narrow(b[who] - amount) \in MinAmount..MaxAmount /\ Narrow(b[who] + amount) \in MinAmount..MaxAmount
  BY <1>1, NarrowFits
<1> QED BY <1>2 DEF Debited, Credited

LEMMA MovesFit ==
  ASSUME NEW b \in [Accounts -> MinAmount..MaxAmount], NEW from \in Accounts, NEW to \in Accounts,
         NEW debit \in Int, NEW credit \in Int
  PROVE  Moved(b, from, to, debit, credit) \in [Accounts -> MinAmount..MaxAmount]
BY BalancesFit DEF Moved

\* The grant in force is a grant.
LEMMA LiveGrantFits ==
  ASSUME TypeOK, NEW from \in Accounts, NEW spender \in Accounts
  PROVE  /\ LiveGrant(from, spender) \in Grants
         /\ LiveGrant(from, spender).amount \in {grant[from, spender].amount, 0}
         /\ LiveGrant(from, spender).live = grant[from, spender].live
<1>1. grant[from, spender] \in Grants
  BY DEF TypeOK, Pairs
<1>2. 0 \in MinAmount..MaxAmount
  BY AmountsFit
<1> QED BY <1>1, <1>2 DEF LiveGrant, Grants

\* Drawing within a live grant leaves an amount of the amount type.
LEMMA SpendFits ==
  ASSUME TypeOK, NEW signers, NEW spender \in Accounts, NEW from \in Accounts, NEW amount \in Amounts,
         Drawable(signers, spender, from, amount), Spend(from, spender, amount)
  PROVE  grant' \in [Pairs -> Grants]
<1> DEFINE live == LiveGrant(from, spender)
<1>1. live \in Grants
  BY LiveGrantFits
<1>2. amount \in Int /\ amount >= 0 /\ live.amount >= amount
  BY AmountsFit DEF Drawable
<1>3. live.amount \in MinAmount..MaxAmount /\ live.amount - amount \in MinAmount..MaxAmount
  <2>1. live.amount \in MinAmount..MaxAmount
    BY <1>1 DEF Grants
  <2>2. 0 \in MinAmount..MaxAmount /\ MinAmount \in Int /\ MaxAmount \in Nat
    BY AmountsFit
  <2> HIDE DEF live
  <2> QED BY <1>2, <2>1, <2>2
<1>4. [live EXCEPT !.amount = @ - amount] \in Grants
  BY <1>1, <1>3 DEF Grants
<1>5. grant' = [grant EXCEPT ![<<from, spender>>] = [live EXCEPT !.amount = @ - amount]]
  BY DEF Spend
<1> HIDE DEF live
<1> QED BY <1>4, <1>5 DEF TypeOK, Pairs

LEMMA RefusalKeepsTypes ==
  ASSUME TypeOK, Refuse
  PROVE  TypeOK'
BY DEF TypeOK, Refuse

\* FixtureMint adds to one balance.
LEMMA MintKeepsTypes ==
  ASSUME TypeOK, NEW who \in Accounts, NEW amount \in Amounts, FixtureMint(who, amount)
  PROVE  TypeOK'
<1>1. amount \in Int
  BY AmountsFit
<1>2. CASE Refuse
  BY <1>2, RefusalKeepsTypes
<1>3. CASE balance' = Credited(balance, who, amount) /\ Accept(<<>>, {}) /\ UNCHANGED <<grant, ledger>>
  <2>1. balance' \in [Accounts -> MinAmount..MaxAmount]
    BY <1>1, <1>3, BalancesFit DEF TypeOK
  <2> QED BY <1>3, <2>1 DEF TypeOK, Accept
<1> QED BY <1>2, <1>3 DEF FixtureMint

\* A new grant is a grant, whoever gives it.
LEMMA GrantKeepsTypes ==
  ASSUME TypeOK, NEW from \in Accounts, NEW spender \in Accounts, NEW amount \in Amounts,
         NEW live \in Ledgers,
         grant' = [grant EXCEPT ![<<from, spender>>] = [amount |-> amount, live |-> live]]
  PROVE  grant' \in [Pairs -> Grants]
<1>1. [amount |-> amount, live |-> live] \in Grants
  BY AmountsFit DEF Grants
<1> QED BY <1>1 DEF TypeOK, Pairs

LEMMA ApprovalKeepsTypes ==
  ASSUME TypeOK, NEW signers, NEW from \in Accounts, NEW spender \in Accounts,
         NEW amount \in Amounts, NEW live \in Ledgers,
         FixtureApprove(from, spender, amount, live) \/ Approve(signers, from, spender, amount, live)
  PROVE  TypeOK'
<1>1. CASE Refuse
  BY <1>1, RefusalKeepsTypes
<1>2. CASE /\ grant' = [grant EXCEPT ![<<from, spender>>] = [amount |-> amount, live |-> live]]
           /\ \/ Accept(<<>>, {})
              \/ Accept(<<ApproveEvent(from, spender, amount, live)>>, {from})
           /\ UNCHANGED <<balance, ledger>>
  <2>1. grant' \in [Pairs -> Grants]
    BY <1>2, GrantKeepsTypes
  <2> QED BY <1>2, <2>1 DEF TypeOK, Accept
<1> QED BY <1>1, <1>2 DEF FixtureApprove, Approve

LEMMA TransferKeepsTypes ==
  ASSUME TypeOK, NEW signers, NEW from \in Accounts, NEW to \in Accounts, NEW amount \in Amounts,
         Transfer(signers, from, to, amount)
  PROVE  TypeOK'
<1>1. amount \in Int /\ CreditOf(amount) \in Int
  BY AmountsFit DEF CreditOf
<1>2. CASE Refuse
  BY <1>2, RefusalKeepsTypes
<1>3. CASE /\ balance' = Moved(balance, from, to, amount, CreditOf(amount))
           /\ Accept(EventsOf(from, to, amount), DemandedOf(from))
           /\ UNCHANGED <<grant, ledger>>
  <2>1. balance' \in [Accounts -> MinAmount..MaxAmount]
    BY <1>1, <1>3, MovesFit DEF TypeOK
  <2>2. DemandedOf(from) \subseteq Accounts
    BY DEF DemandedOf
  <2> QED BY <1>3, <2>1, <2>2 DEF TypeOK, Accept
<1> QED BY <1>2, <1>3 DEF Transfer

LEMMA BurnKeepsTypes ==
  ASSUME TypeOK, NEW signers, NEW from \in Accounts, NEW amount \in Amounts,
         Burn(signers, from, amount)
  PROVE  TypeOK'
<1>1. amount \in Int
  BY AmountsFit
<1>2. CASE Refuse
  BY <1>2, RefusalKeepsTypes
<1>3. CASE /\ balance' = Debited(balance, from, amount)
           /\ Accept(<<BurnEvent(from, amount)>>, {from})
           /\ UNCHANGED <<grant, ledger>>
  <2>1. balance' \in [Accounts -> MinAmount..MaxAmount]
    BY <1>1, <1>3, BalancesFit DEF TypeOK
  <2> QED BY <1>3, <2>1 DEF TypeOK, Accept
<1> QED BY <1>2, <1>3 DEF Burn

LEMMA TransferFromKeepsTypes ==
  ASSUME TypeOK, NEW signers, NEW spender \in Accounts, NEW from \in Accounts, NEW to \in Accounts,
         NEW amount \in Amounts, TransferFrom(signers, spender, from, to, amount)
  PROVE  TypeOK'
<1>1. amount \in Int
  BY AmountsFit
<1>2. CASE Refuse
  BY <1>2, RefusalKeepsTypes
<1>3. CASE /\ Drawable(signers, spender, from, amount)
           /\ balance' = Moved(balance, from, to, amount, amount)
           /\ Spend(from, spender, amount)
           /\ Accept(<<TransferEvent(from, to, amount)>>, {spender})
           /\ UNCHANGED ledger
  <2>1. balance' \in [Accounts -> MinAmount..MaxAmount]
    BY <1>1, <1>3, MovesFit DEF TypeOK
  <2>2. grant' \in [Pairs -> Grants]
    BY <1>3, SpendFits
  <2> QED BY <1>3, <2>1, <2>2 DEF TypeOK, Accept
<1> QED BY <1>2, <1>3 DEF TransferFrom

LEMMA BurnFromKeepsTypes ==
  ASSUME TypeOK, NEW signers, NEW spender \in Accounts, NEW from \in Accounts, NEW amount \in Amounts,
         BurnFrom(signers, spender, from, amount)
  PROVE  TypeOK'
<1>1. amount \in Int
  BY AmountsFit
<1>2. CASE Refuse
  BY <1>2, RefusalKeepsTypes
<1>3. CASE /\ Drawable(signers, spender, from, amount)
           /\ balance' = Debited(balance, from, amount)
           /\ Spend(from, spender, amount)
           /\ Accept(<<BurnEvent(from, amount)>>, {spender})
           /\ UNCHANGED ledger
  <2>1. balance' \in [Accounts -> MinAmount..MaxAmount]
    BY <1>1, <1>3, BalancesFit DEF TypeOK
  <2>2. grant' \in [Pairs -> Grants]
    BY <1>3, SpendFits
  <2> QED BY <1>3, <2>1, <2>2 DEF TypeOK, Accept
<1> QED BY <1>2, <1>3 DEF BurnFrom

LEMMA ProbeKeepsTypes ==
  ASSUME TypeOK, Probe
  PROVE  TypeOK'
<1>1. CASE Refuse
  BY <1>1, RefusalKeepsTypes
<1>2. CASE \E who \in Accounts, amount \in Seeds : FixtureMint(who, amount)
  BY <1>2, MintKeepsTypes, AmountsFit
<1> QED BY <1>1, <1>2 DEF Probe, ProbeRefuses, MutatesThenRefuses

\* Whatever the defect and whichever build, no sequence of calls stores a value outside the
\* amount type.
THEOREM TypeCorrect == AuditSpec => []TypeOK
<1>1. AuditInit => TypeOK
  <2> SUFFICES ASSUME AuditInit PROVE TypeOK
    OBVIOUS
  <2>1. NoGrant \in Grants
    BY AmountsFit DEF NoGrant, Grants
  <2> QED BY <2>1, AmountsFit DEF AuditInit, Init, TypeOK, Quiet
<1>2. TypeOK /\ [AuditNext]_auditVars => TypeOK'
  <2> SUFFICES ASSUME TypeOK, [AuditNext]_auditVars PROVE TypeOK'
    OBVIOUS
  <2>1. CASE UNCHANGED auditVars
    BY <2>1 DEF TypeOK, auditVars
  <2>2. CASE AuditedSetup
    <3>1. ASSUME NEW who \in Accounts, NEW amount \in Seeds, FixtureMint(who, amount)
          PROVE  TypeOK'
      BY <3>1, MintKeepsTypes, AmountsFit
    <3>2. ASSUME NEW p \in Granting, NEW amount \in Seeds, NEW live \in Ledgers,
                 FixtureApprove(p[1], p[2], amount, live)
          PROVE  TypeOK'
      <4>1. p[1] \in Accounts /\ p[2] \in Accounts /\ amount \in Amounts
        BY GrantingAssumption, AmountsFit DEF Pairs
      <4> QED BY <3>2, <4>1, ApprovalKeepsTypes
    <3> QED BY <2>2, <3>1, <3>2 DEF AuditedSetup
  <2>3. ASSUME NEW signers \in SUBSET Accounts, AuditedOwnerCall(signers)
        PROVE  TypeOK'
    <3>1. ASSUME NEW from \in Accounts, NEW to \in Accounts, NEW amount \in Amounts,
                 Transfer(signers, from, to, amount)
          PROVE  TypeOK'
      BY <3>1, TransferKeepsTypes
    <3>2. ASSUME NEW from \in Accounts, NEW amount \in Amounts, Burn(signers, from, amount)
          PROVE  TypeOK'
      BY <3>2, BurnKeepsTypes
    <3>3. ASSUME NEW from \in Accounts, NEW amount \in Amounts, NEW p \in Granting,
                 NEW live \in Ledgers, Approve(signers, from, p[2], amount, live)
          PROVE  TypeOK'
      <4>1. p[2] \in Accounts
        BY GrantingAssumption DEF Pairs
      <4> QED BY <3>3, <4>1, ApprovalKeepsTypes
    <3> QED BY <2>3, <3>1, <3>2, <3>3 DEF AuditedOwnerCall
  <2>4. ASSUME NEW signers \in SUBSET Accounts, AuditedSpenderCall(signers)
        PROVE  TypeOK'
    BY <2>4, TransferFromKeepsTypes, BurnFromKeepsTypes DEF AuditedSpenderCall
  <2>5. CASE Probe
    BY <2>5, ProbeKeepsTypes
  <2> QED BY <2>1, <2>2, <2>3, <2>4, <2>5 DEF AuditNext
<1> QED BY <1>1, <1>2, PTL DEF AuditSpec

---------------------------------------------------------------------------
(* Nobody owes value: the conforming fixture, built with overflow checks. *)

ConformingBuild == Defect = "none" /\ OverflowChecks

\* A credit that computes, or a debit that the balance covers, leaves no debt.
LEMMA CreditLeavesNoDebt ==
  ASSUME ConformingBuild, NEW b \in [Accounts -> MinAmount..MaxAmount], \A a \in Accounts : b[a] >= 0,
         NEW who \in Accounts, NEW amount \in Int, amount >= 0, Computes(b[who] + amount)
  PROVE  \A a \in Accounts : Credited(b, who, amount)[a] >= 0
<1>1. b[who] \in Int /\ Narrow(b[who] + amount) = b[who] + amount
  BY AmountsFit DEF ConformingBuild, Computes, Narrow
<1>2. \A a \in Accounts : Credited(b, who, amount)[a] = IF a = who THEN b[who] + amount ELSE b[a]
  BY <1>1 DEF Credited
<1>3. b[who] >= 0
  OBVIOUS
<1>4. ASSUME NEW a \in Accounts PROVE Credited(b, who, amount)[a] >= 0
  <2>1. CASE a = who
    <3>1. Credited(b, who, amount)[a] = b[who] + amount
      BY <1>2, <2>1
    <3> QED BY <1>1, <1>3, <3>1
  <2>2. CASE a # who
    BY <1>2, <2>2
  <2> QED BY <2>1, <2>2
<1> QED BY <1>4

LEMMA DebitLeavesNoDebt ==
  ASSUME NEW b \in [Accounts -> MinAmount..MaxAmount], \A a \in Accounts : b[a] >= 0,
         NEW who \in Accounts, NEW amount \in Int, amount >= 0, b[who] >= amount
  PROVE  \A a \in Accounts : Debited(b, who, amount)[a] >= 0
<1>1. b[who] \in Int /\ b[who] <= MaxAmount /\ MaxAmount \in Nat /\ MinAmount = -MaxAmount - 1
  BY AmountsFit DEF MinAmount
<1>2. Fits(b[who] - amount)
  BY <1>1 DEF Fits
<1>3. Narrow(b[who] - amount) = b[who] - amount
  BY <1>2 DEF Narrow
<1>4. \A a \in Accounts : Debited(b, who, amount)[a] = IF a = who THEN b[who] - amount ELSE b[a]
  BY <1>3 DEF Debited
<1>5. ASSUME NEW a \in Accounts PROVE Debited(b, who, amount)[a] >= 0
  <2>1. CASE a = who
    <3>1. Debited(b, who, amount)[a] = b[who] - amount
      BY <1>4, <2>1
    <3> QED BY <1>1, <3>1
  <2>2. CASE a # who
    BY <1>4, <2>2
  <2> QED BY <2>1, <2>2
<1> QED BY <1>5

LEMMA MoveLeavesNoDebt ==
  ASSUME ConformingBuild, TypeOK, NoDebt, NEW from \in Accounts, NEW to \in Accounts,
         NEW amount \in Int, amount >= 0, balance[from] >= amount,
         MoveComputes(balance, from, to, amount, amount)
  PROVE  \A a \in Accounts : Moved(balance, from, to, amount, amount)[a] >= 0
<1> DEFINE after == Debited(balance, from, amount)
<1>1. balance \in [Accounts -> MinAmount..MaxAmount] /\ \A a \in Accounts : balance[a] >= 0
  BY DEF TypeOK, NoDebt
<1>2. \A a \in Accounts : after[a] >= 0
  BY <1>1, DebitLeavesNoDebt
<1>3. after \in [Accounts -> MinAmount..MaxAmount]
  BY <1>1, BalancesFit
<1>4. Computes(after[to] + amount)
  BY DEF MoveComputes
<1>5. Moved(balance, from, to, amount, amount) = Credited(after, to, amount)
  BY DEF Moved
<1> HIDE DEF after
<1> QED BY <1>2, <1>3, <1>4, <1>5, CreditLeavesNoDebt

\* What a step of any entry point does to the balances.
LEMMA OwnerCallLeavesNoDebt ==
  ASSUME ConformingBuild, TypeOK, NoDebt, NEW signers \in SUBSET Accounts, AuditedOwnerCall(signers)
  PROVE  NoDebt'
<1>1. CASE UNCHANGED balance
  BY <1>1 DEF NoDebt
<1>2. ASSUME NEW from \in Accounts, NEW to \in Accounts, NEW amount \in Amounts,
             Transfer(signers, from, to, amount)
      PROVE  NoDebt'
  <2>1. CASE Refuse
    BY <2>1, <1>1 DEF Refuse
  <2>2. CASE /\ Transferable(signers, from, to, amount)
             /\ balance' = Moved(balance, from, to, amount, CreditOf(amount))
    <3>1. CreditOf(amount) = amount /\ amount \in Int
      BY AmountsFit DEF CreditOf, ConformingBuild
    <3>2. /\ amount >= 0 /\ balance[from] >= amount
          /\ MoveComputes(balance, from, to, amount, amount)
      BY <2>2, <3>1 DEF Transferable, ConformingBuild
    <3> QED BY <2>2, <3>1, <3>2, MoveLeavesNoDebt DEF NoDebt
  <2> QED BY <1>2, <2>1, <2>2 DEF Transfer
<1>3. ASSUME NEW from \in Accounts, NEW amount \in Amounts, Burn(signers, from, amount)
      PROVE  NoDebt'
  <2>1. CASE Refuse
    BY <2>1, <1>1 DEF Refuse
  <2>2. CASE Burnable(signers, from, amount) /\ balance' = Debited(balance, from, amount)
    <3>1. amount \in Int /\ amount >= 0 /\ balance[from] >= amount
      BY <2>2, AmountsFit DEF Burnable
    <3> QED BY <2>2, <3>1, DebitLeavesNoDebt DEF NoDebt, TypeOK
  <2> QED BY <1>3, <2>1, <2>2 DEF Burn
<1>4. ASSUME NEW from \in Accounts, NEW spender, NEW amount, NEW live,
             Approve(signers, from, spender, amount, live)
      PROVE  NoDebt'
  BY <1>1, <1>4 DEF Approve, Refuse
<1> QED BY <1>2, <1>3, <1>4 DEF AuditedOwnerCall

LEMMA SpenderCallLeavesNoDebt ==
  ASSUME ConformingBuild, TypeOK, NoDebt, NEW signers \in SUBSET Accounts, AuditedSpenderCall(signers)
  PROVE  NoDebt'
<1>1. ASSUME Refuse PROVE NoDebt'
  BY <1>1 DEF NoDebt, Refuse
<1>2. PICK spender \in Accounts, from \in Accounts, amount \in Amounts :
        \/ \E to \in Accounts : TransferFrom(signers, spender, from, to, amount)
        \/ BurnFrom(signers, spender, from, amount)
  BY DEF AuditedSpenderCall
<1>3. amount \in Int
  BY AmountsFit
<1>4. ASSUME Drawable(signers, spender, from, amount)
      PROVE  amount >= 0 /\ balance[from] >= amount
  BY <1>4 DEF Drawable
<1>5. ASSUME NEW to \in Accounts, TransferFrom(signers, spender, from, to, amount)
      PROVE  NoDebt'
  BY <1>1, <1>3, <1>4, <1>5, MoveLeavesNoDebt DEF TransferFrom, NoDebt
<1>6. CASE BurnFrom(signers, spender, from, amount)
  BY <1>1, <1>3, <1>4, <1>6, DebitLeavesNoDebt DEF BurnFrom, NoDebt, TypeOK
<1> QED BY <1>2, <1>5, <1>6

LEMMA MintLeavesNoDebt ==
  ASSUME ConformingBuild, TypeOK, NoDebt, NEW who \in Accounts, NEW amount \in Seeds,
         FixtureMint(who, amount)
  PROVE  NoDebt'
<1>1. amount \in Int /\ amount >= 0
  BY AmountsFit DEF Seeds
<1>2. CASE Refuse
  BY <1>2 DEF NoDebt, Refuse
<1>3. CASE Computes(balance[who] + amount) /\ balance' = Credited(balance, who, amount)
  BY <1>1, <1>3, CreditLeavesNoDebt DEF NoDebt, TypeOK
<1> QED BY <1>2, <1>3 DEF FixtureMint

\* Where overflow checks are compiled in, the conforming fixture never lets an account owe
\* value, for any accounts, amounts and width of the amount type.
THEOREM ConformingTokenLeavesNoDebt ==
  ASSUME ConformingBuild
  PROVE  AuditSpec => []NoDebt
<1>1. AuditInit => NoDebt
  <2> SUFFICES ASSUME AuditInit, NEW a \in Accounts PROVE balance[a] >= 0
    BY DEF NoDebt
  <2>1. balance[a] = 0
    BY DEF AuditInit, Init
  <2> QED BY <2>1
<1>2. TypeOK /\ NoDebt /\ [AuditNext]_auditVars => NoDebt'
  <2> SUFFICES ASSUME TypeOK, NoDebt, [AuditNext]_auditVars PROVE NoDebt'
    OBVIOUS
  <2>1. CASE UNCHANGED balance
    BY <2>1 DEF NoDebt
  <2>2. CASE AuditedSetup
    BY <2>1, <2>2, MintLeavesNoDebt DEF AuditedSetup, FixtureApprove
  <2>3. ASSUME NEW signers \in SUBSET Accounts,
               AuditedOwnerCall(signers) \/ AuditedSpenderCall(signers)
        PROVE  NoDebt'
    BY <2>3, OwnerCallLeavesNoDebt, SpenderCallLeavesNoDebt
  <2>4. CASE Probe
    BY <2>1, <2>4, MintLeavesNoDebt DEF Probe, ProbeRefuses, MutatesThenRefuses, Refuse
  <2> QED BY <2>1, <2>2, <2>3, <2>4 DEF AuditNext, auditVars
<1> QED BY <1>1, <1>2, TypeCorrect, PTL DEF AuditSpec

---------------------------------------------------------------------------
(* Grants bind.  The property speaks of the grant in force, which a lapse changes; the  *)
(* invariant speaks of the grant stored, which only calls change.                       *)

Books == granted \in [Pairs -> Int] /\ drawn \in [Pairs -> Int]

Covered == /\ Books
           /\ \A p \in Pairs : grant[p].amount >= 0 /\ drawn[p] + grant[p].amount <= granted[p]

LEMMA CoveredGrantsBind == TypeOK /\ Covered => DrawnWithinGrant
<1> SUFFICES ASSUME TypeOK, Covered, NEW p \in Pairs
             PROVE  drawn[p] + LiveGrant(p[1], p[2]).amount <= granted[p]
  BY DEF DrawnWithinGrant
<1>1. p[1] \in Accounts /\ p[2] \in Accounts /\ p = <<p[1], p[2]>>
  BY DEF Pairs
<1>2. grant[p].amount \in Int
  BY AmountsFit DEF TypeOK, Grants
<1>3. LiveGrant(p[1], p[2]).amount \in {grant[p].amount, 0}
  BY <1>1, LiveGrantFits
<1>4. drawn[p] \in Int /\ granted[p] \in Int
  BY DEF Covered, Books
<1>5. grant[p].amount >= 0 /\ drawn[p] + grant[p].amount <= granted[p]
  BY DEF Covered
<1> QED BY <1>2, <1>3, <1>4, <1>5

\* A step that leaves the grants and the books alone.
LEMMA UntouchedStaysCovered ==
  ASSUME Covered, UNCHANGED <<grant, granted, drawn>>
  PROVE  Covered'
BY DEF Covered, Books

\* Giving a grant opens a new page for its pair.
LEMMA OpenedIsCovered ==
  ASSUME TypeOK, Covered, NEW from \in Accounts, NEW spender \in Accounts, NEW amount \in Int,
         NEW live, amount >= 0, last'.outcome = "returned", Opens(from, spender, amount),
         grant' = [grant EXCEPT ![<<from, spender>>] = [amount |-> amount, live |-> live]]
  PROVE  Covered'
<1> DEFINE pair == <<from, spender>>
<1>1. pair \in Pairs /\ grant \in [Pairs -> Grants]
  BY DEF Pairs, TypeOK
<1>2. /\ granted' = [granted EXCEPT ![pair] = amount]
      /\ drawn' = [drawn EXCEPT ![pair] = 0]
  BY DEF Opens
<1> HIDE DEF pair
<1>3. Books'
  BY <1>1, <1>2 DEF Covered, Books
<1>4. ASSUME NEW p \in Pairs
      PROVE  grant'[p].amount >= 0 /\ drawn'[p] + grant'[p].amount <= granted'[p]
  <2>1. CASE p = pair
    <3>1. grant'[p].amount = amount /\ drawn'[p] = 0 /\ granted'[p] = amount
      BY <1>1, <1>2, <2>1 DEF Covered, Books, pair
    <3> QED BY <3>1
  <2>2. CASE p # pair
    <3>1. grant'[p] = grant[p] /\ drawn'[p] = drawn[p] /\ granted'[p] = granted[p]
      BY <1>1, <1>2, <2>2 DEF Covered, Books, pair
    <3> QED BY <3>1 DEF Covered
  <2> QED BY <2>1, <2>2
<1> QED BY <1>3, <1>4 DEF Covered

\* Drawing moves the amount from the grant to the books.
LEMMA DrawnIsCovered ==
  ASSUME TypeOK, Covered, NEW signers, NEW spender \in Accounts, NEW from \in Accounts,
         NEW amount \in Amounts, Drawable(signers, spender, from, amount),
         Spend(from, spender, amount), last'.outcome = "returned", Draws(from, spender, amount)
  PROVE  Covered'
<1> DEFINE pair == <<from, spender>>
           live == LiveGrant(from, spender)
<1>1. pair \in Pairs /\ grant \in [Pairs -> Grants]
  BY DEF Pairs, TypeOK
<1>2. amount \in Int /\ amount >= 0 /\ live.amount >= amount
  BY AmountsFit DEF Drawable
<1>3. live \in Grants /\ live.amount \in {grant[pair].amount, 0}
  BY LiveGrantFits
<1>4. /\ granted' = granted
      /\ drawn' = [drawn EXCEPT ![pair] = @ + amount]
  BY DEF Draws
<1>5. grant' = [grant EXCEPT ![pair] = [live EXCEPT !.amount = @ - amount]]
  BY DEF Spend
<1>6. live.amount \in Int /\ grant[pair].amount \in Int
  BY <1>1, <1>3, AmountsFit DEF Grants
<1> HIDE DEF pair, live
<1>7. Books'
  BY <1>1, <1>2, <1>4 DEF Covered, Books
<1>8. ASSUME NEW p \in Pairs
      PROVE  grant'[p].amount >= 0 /\ drawn'[p] + grant'[p].amount <= granted'[p]
  <2>1. CASE p = pair
    <3>1. /\ grant'[p].amount = live.amount - amount
          /\ drawn'[p] = drawn[p] + amount /\ granted'[p] = granted[p]
      BY <1>1, <1>3, <1>4, <1>5, <2>1 DEF Covered, Books, Grants
    <3>2. grant[p].amount >= 0 /\ drawn[p] + grant[p].amount <= granted[p]
      BY DEF Covered
    <3>3. drawn[p] \in Int /\ granted[p] \in Int
      BY DEF Covered, Books
    <3>4. grant'[p].amount >= 0
      BY <1>2, <1>6, <3>1
    <3>5. live.amount <= grant[p].amount /\ grant[p].amount \in Int
      BY <1>3, <1>6, <2>1, <3>2
    <3>6. drawn'[p] + grant'[p].amount = drawn[p] + live.amount
      BY <1>2, <1>6, <3>1, <3>3
    <3> QED BY <1>6, <3>1, <3>2, <3>3, <3>4, <3>5, <3>6
  <2>2. CASE p # pair
    <3>1. grant'[p] = grant[p] /\ drawn'[p] = drawn[p] /\ granted'[p] = granted[p]
      BY <1>1, <1>4, <1>5, <2>2 DEF Covered, Books
    <3> QED BY <3>1 DEF Covered
  <2> QED BY <2>1, <2>2
<1> QED BY <1>7, <1>8 DEF Covered

LEMMA RefusedStaysCovered ==
  ASSUME Covered, Refuse, NEW from, NEW spender, NEW amount,
         Opens(from, spender, amount) \/ Draws(from, spender, amount)
  PROVE  Covered'
<1>1. last'.outcome = "refused" /\ UNCHANGED grant
  BY DEF Refuse
<1>2. UNCHANGED <<granted, drawn>>
  BY <1>1 DEF Opens, Draws, Unaudited
<1> QED BY <1>1, <1>2, UntouchedStaysCovered

\* However a spender splits its draws over however many calls, it takes no more than it was
\* granted; for every defect and every build, since no defect touches the grants.
THEOREM GrantsBind == AuditSpec => []DrawnWithinGrant
<1>1. AuditInit => Covered
  <2> SUFFICES ASSUME AuditInit PROVE Covered
    OBVIOUS
  <2>1. Books
    BY DEF AuditInit, Books
  <2>2. ASSUME NEW p \in Pairs
        PROVE  grant[p].amount = 0 /\ drawn[p] = 0 /\ granted[p] = 0
    BY DEF AuditInit, Init, NoGrant
  <2>3. ASSUME NEW p \in Pairs
        PROVE  grant[p].amount >= 0 /\ drawn[p] + grant[p].amount <= granted[p]
    BY <2>2
  <2> QED BY <2>1, <2>3 DEF Covered
<1>2. TypeOK /\ Covered /\ [AuditNext]_auditVars => Covered'
  <2> SUFFICES ASSUME TypeOK, Covered, [AuditNext]_auditVars PROVE Covered'
    OBVIOUS
  <2>1. CASE UNCHANGED <<grant, granted, drawn>>
    BY <2>1, UntouchedStaysCovered
  <2>2. CASE AuditedSetup
    <3>1. ASSUME NEW who, NEW amount, FixtureMint(who, amount), Unaudited
          PROVE  Covered'
      BY <2>1, <3>1 DEF FixtureMint, Refuse, Unaudited
    <3>2. ASSUME NEW p \in Granting, NEW amount \in Seeds, NEW live \in Ledgers,
                 FixtureApprove(p[1], p[2], amount, live), Opens(p[1], p[2], amount)
          PROVE  Covered'
      <4>1. p[1] \in Accounts /\ p[2] \in Accounts /\ amount \in Int /\ amount >= 0
        BY GrantingAssumption, AmountsFit DEF Pairs, Seeds
      <4>2. last'.outcome = "returned"
        BY <3>2 DEF FixtureApprove, Accept
      <4> QED BY <3>2, <4>1, <4>2, OpenedIsCovered DEF FixtureApprove
    <3> QED BY <2>2, <3>1, <3>2 DEF AuditedSetup
  <2>3. ASSUME NEW signers \in SUBSET Accounts, AuditedOwnerCall(signers)
        PROVE  Covered'
    <3>1. ASSUME NEW from \in Accounts, NEW to \in Accounts, NEW amount \in Amounts,
                 Transfer(signers, from, to, amount) \/ Burn(signers, from, amount), Unaudited
          PROVE  Covered'
      BY <2>1, <3>1 DEF Transfer, Burn, Refuse, Unaudited
    <3>2. ASSUME NEW from \in Accounts, NEW amount \in Amounts, NEW p \in Granting,
                 NEW live \in Ledgers, Approve(signers, from, p[2], amount, live),
                 Opens(from, p[2], amount)
          PROVE  Covered'
      <4>1. p[2] \in Accounts /\ amount \in Int
        BY GrantingAssumption, AmountsFit DEF Pairs
      <4>2. CASE Refuse
        BY <3>2, <4>2, RefusedStaysCovered
      <4>3. CASE /\ Approvable(signers, from, amount, live)
                 /\ grant' = [grant EXCEPT ![<<from, p[2]>>] = [amount |-> amount, live |-> live]]
                 /\ Accept(<<ApproveEvent(from, p[2], amount, live)>>, {from})
        <5>1. amount >= 0 /\ last'.outcome = "returned"
          BY <4>3 DEF Approvable, Accept
        <5> QED BY <3>2, <4>1, <4>3, <5>1, OpenedIsCovered
      <4> QED BY <3>2, <4>2, <4>3 DEF Approve
    <3> QED BY <2>3, <3>1, <3>2 DEF AuditedOwnerCall
  <2>4. ASSUME NEW signers \in SUBSET Accounts, AuditedSpenderCall(signers)
        PROVE  Covered'
    <3>1. ASSUME NEW spender \in Accounts, NEW from \in Accounts, NEW amount \in Amounts,
                 \/ \E to \in Accounts : TransferFrom(signers, spender, from, to, amount)
                 \/ BurnFrom(signers, spender, from, amount),
                 Draws(from, spender, amount)
          PROVE  Covered'
      <4>1. CASE Refuse
        BY <3>1, <4>1, RefusedStaysCovered
      <4>2. CASE /\ Drawable(signers, spender, from, amount) /\ Spend(from, spender, amount)
                 /\ last'.outcome = "returned"
        BY <3>1, <4>2, DrawnIsCovered
      <4> QED BY <3>1, <4>1, <4>2 DEF TransferFrom, BurnFrom, Accept
    <3> QED BY <2>4, <3>1 DEF AuditedSpenderCall
  <2>5. CASE Probe /\ Unaudited
    BY <2>1, <2>5 DEF Probe, ProbeRefuses, MutatesThenRefuses, FixtureMint, Refuse, Unaudited
  <2> QED BY <2>1, <2>2, <2>3, <2>4, <2>5 DEF AuditNext, auditVars
<1> QED BY <1>1, <1>2, TypeCorrect, CoveredGrantsBind, PTL DEF AuditSpec

---------------------------------------------------------------------------
(* The promise. *)

\* The allowances in force, which is what a watcher sees of the grants.
InForce == [p \in Pairs |-> LiveGrant(p[1], p[2]).amount]

\* What the promise allows in one step.
Promised == [Promise!Next]_(Promise!ledgerVars)

---------------------------------------------------------------------------
(* What the arithmetic computes, where it does not panic. *)

\* A sum or difference that computes is the number it should be.
LEMMA ComputedIsExact ==
  ASSUME ConformingBuild, NEW x \in Int, Computes(x) PROVE Narrow(x) = x
BY DEF ConformingBuild, Computes, Narrow

\* A credit that computes adds exactly its amount.
LEMMA CreditIsExact ==
  ASSUME ConformingBuild, NEW b \in [Accounts -> MinAmount..MaxAmount], NEW who \in Accounts,
         NEW amount \in Int, Computes(b[who] + amount)
  PROVE  Credited(b, who, amount) = [b EXCEPT ![who] = @ + amount]
<1>1. b[who] \in Int
  BY AmountsFit
<1>2. Narrow(b[who] + amount) = b[who] + amount
  BY <1>1, ComputedIsExact
<1> QED BY <1>2 DEF Credited

\* A debit the balance covers takes exactly its amount.
LEMMA DebitIsExact ==
  ASSUME NEW b \in [Accounts -> MinAmount..MaxAmount], NEW who \in Accounts,
         NEW amount \in Int, amount >= 0, b[who] >= amount
  PROVE  Debited(b, who, amount) = [b EXCEPT ![who] = @ - amount]
<1>1. b[who] \in Int /\ b[who] <= MaxAmount /\ MaxAmount \in Nat /\ MinAmount = -MaxAmount - 1
  BY AmountsFit DEF MinAmount
<1>2. Fits(b[who] - amount)
  BY <1>1 DEF Fits
<1>3. Narrow(b[who] - amount) = b[who] - amount
  BY <1>2 DEF Narrow
<1> QED BY <1>3 DEF Debited

\* Giving a grant puts its amount in force, unless it has lapsed already, and no other.
LEMMA GrantedIsInForce ==
  ASSUME TypeOK, NEW from \in Accounts, NEW spender \in Accounts, NEW stored \in Grants,
         grant' = [grant EXCEPT ![<<from, spender>>] = stored], ledger' = ledger
  PROVE  InForce' = [InForce EXCEPT ![<<from, spender>>] = IF stored.live < ledger THEN 0 ELSE stored.amount]
<1> DEFINE pair == <<from, spender>>
<1>1. pair \in Pairs /\ grant \in [Pairs -> Grants]
  BY DEF Pairs, TypeOK
<1>2. \A p \in Pairs : grant'[p] = IF p = pair THEN stored ELSE grant[p]
  BY <1>1
<1>3. ASSUME NEW p \in Pairs
      PROVE  InForce'[p] = IF p = pair THEN (IF stored.live < ledger THEN 0 ELSE stored.amount) ELSE InForce[p]
  <2>1. PICK a \in Accounts, s \in Accounts : p = <<a, s>>
    BY DEF Pairs
  <2>2. grant'[<<a, s>>] \in Grants /\ grant[<<a, s>>] \in Grants
    BY <1>1, <1>2, <2>1
  <2>3. InForce'[p] = IF grant'[p].live < ledger THEN 0 ELSE grant'[p].amount
    <3>2. LiveGrant(a, s).amount' = IF grant'[<<a, s>>].live < ledger THEN 0 ELSE grant'[<<a, s>>].amount
      BY <2>2 DEF LiveGrant, Grants
    <3>3. InForce'[p] = LiveGrant(a, s).amount'
      BY <2>1 DEF InForce
    <3> QED BY <2>1, <3>2, <3>3
  <2>4. InForce[p] = IF grant[p].live < ledger THEN 0 ELSE grant[p].amount
    <3>1. LiveGrant(a, s).amount = IF grant[<<a, s>>].live < ledger THEN 0 ELSE grant[<<a, s>>].amount
      BY <2>2 DEF LiveGrant, Grants
    <3> QED BY <2>1, <3>1 DEF InForce
  <2> QED BY <1>2, <2>3, <2>4
<1> QED BY <1>1, <1>3 DEF InForce

---------------------------------------------------------------------------
(* Every call is a step of the promise. *)

\* A refused call is a refused step.
LEMMA RefusalIsPromised == Refuse => Promised
<1> SUFFICES ASSUME Refuse PROVE Promise!Refused
  BY DEF Promised, Promise!Next
<1>1. UNCHANGED <<balance, grant, ledger>> /\ last'.events = <<>> /\ last'.auths = {}
  BY DEF Refuse
<1>2. InForce' = InForce
  BY <1>1 DEF InForce, LiveGrant
<1> QED BY <1>1, <1>2 DEF InForce, Promise!Refused

\* Seeding a balance is issuing value.
LEMMA MintIsPromised ==
  ASSUME ConformingBuild, TypeOK, NEW who \in Accounts, NEW amount \in Seeds, FixtureMint(who, amount)
  PROVE  Promised
<1>1. amount \in Amounts /\ amount \in Int /\ amount >= 0
  BY AmountsFit DEF Seeds
<1>2. CASE Refuse
  BY <1>2, RefusalIsPromised
<1>3. CASE /\ Computes(balance[who] + amount) /\ balance' = Credited(balance, who, amount)
           /\ Accept(<<>>, {}) /\ UNCHANGED <<grant, ledger>>
  <2>1. balance' = [balance EXCEPT ![who] = @ + amount]
    BY <1>1, <1>3, CreditIsExact DEF TypeOK
  <2>2. last'.events = <<>> /\ last'.auths = {}
    BY <1>3 DEF Accept
  <2>3. InForce' = InForce
    BY <1>3 DEF InForce, LiveGrant
  <2>4. Promise!Issue
    BY <1>1, <2>1, <2>2, <2>3 DEF InForce, Promise!Issue
  <2> QED BY <2>4 DEF Promised, Promise!Next
<1> QED BY <1>2, <1>3 DEF FixtureMint

\* Seeding a grant is endowing, with nothing when the grant has lapsed already.
LEMMA EndowmentIsPromised ==
  ASSUME TypeOK, 0 \in Amounts, NEW from \in Accounts, NEW spender \in Accounts,
         NEW amount \in Seeds, NEW live \in Ledgers, FixtureApprove(from, spender, amount, live)
  PROVE  Promised
<1> DEFINE g == [amount |-> amount, live |-> live]
           given == IF live < ledger THEN 0 ELSE amount
<1>1. g \in Grants /\ amount \in Amounts /\ amount >= 0
  BY AmountsFit DEF Grants, Seeds
<1>2. /\ grant' = [grant EXCEPT ![<<from, spender>>] = g] /\ UNCHANGED <<balance, ledger>>
      /\ last'.events = <<>> /\ last'.auths = {} /\ ledger' = ledger
  BY DEF FixtureApprove, Accept
<1>3. InForce' = [InForce EXCEPT ![<<from, spender>>] = IF g.live < ledger THEN 0 ELSE g.amount]
  <2> HIDE DEF g
  <2> QED BY <1>1, <1>2, GrantedIsInForce
<1>4. InForce' = [InForce EXCEPT ![<<from, spender>>] = given]
  BY <1>3
<1>5. given \in Amounts /\ given >= 0
  BY <1>1, AmountsFit
<1>6. Promise!Endow
  BY <1>2, <1>4, <1>5 DEF InForce, Promise!Endow
<1> QED BY <1>6 DEF Promised, Promise!Next

\* An approval is a grant, since no approval accepts a ledger that has passed.
LEMMA ApprovalIsPromised ==
  ASSUME TypeOK, NEW signers, NEW from \in Accounts, NEW spender \in Accounts,
         NEW amount \in Amounts, NEW live \in Ledgers, Approve(signers, from, spender, amount, live)
  PROVE  Promised
<1>1. CASE Refuse
  BY <1>1, RefusalIsPromised
<1>2. CASE /\ Approvable(signers, from, amount, live)
           /\ grant' = [grant EXCEPT ![<<from, spender>>] = [amount |-> amount, live |-> live]]
           /\ Accept(<<ApproveEvent(from, spender, amount, live)>>, {from})
           /\ UNCHANGED <<balance, ledger>>
  <2> DEFINE g == [amount |-> amount, live |-> live]
  <2>1. g \in Grants /\ amount >= 0
    BY <1>2, AmountsFit DEF Grants, Approvable
  <2>2. InForce' = [InForce EXCEPT ![<<from, spender>>] = IF g.live < ledger THEN 0 ELSE g.amount]
    BY <1>2, <2>1, GrantedIsInForce
  <2>3. ~(live < ledger)
    BY <1>2, AmountsFit DEF Approvable, TypeOK
  <2>4. InForce' = [InForce EXCEPT ![<<from, spender>>] = amount]
    BY <2>2, <2>3
  <2>5. last'.events = <<ApproveEvent(from, spender, amount, live)>> /\ last'.auths = {from}
    BY <1>2 DEF Accept
  <2>6. Promise!Grant
    BY <1>2, <2>1, <2>4, <2>5 DEF InForce, ApproveEvent, Promise!Grant
  <2> QED BY <2>6 DEF Promised, Promise!Next
<1> QED BY <1>1, <1>2 DEF Approve

\* What the event of a transfer explains.
LEMMA TransferExplains ==
  ASSUME NEW b, NEW from, NEW to, NEW amount
  PROVE  Promise!Explained(b, TransferEvent(from, to, amount)) =
           [[b EXCEPT ![from] = @ - amount] EXCEPT ![to] = @ + amount]
<1>1. PICK t : t = TransferEvent(from, to, amount)
  OBVIOUS
<1>2. t.name = "transfer" /\ t.from = from /\ t.to = to /\ t.amount = amount
  BY <1>1 DEF TransferEvent
<1> QED BY <1>1, <1>2, Zenon DEF Promise!Explained

\* What the event of a burn explains.
LEMMA BurnExplains ==
  ASSUME NEW b, NEW from, NEW amount
  PROVE  Promise!Explained(b, BurnEvent(from, amount)) = [b EXCEPT ![from] = @ - amount]
<1>1. PICK e : e = BurnEvent(from, amount)
  OBVIOUS
<1>2. e.name = "burn" /\ e.from = from /\ e.amount = amount
  BY <1>1 DEF BurnEvent
<1>3. e.name # "transfer"
  BY <1>2
<1> QED BY <1>1, <1>2, <1>3, Zenon DEF Promise!Explained

\* A transfer of what is owned is a movement its event explains.
LEMMA MoveIsMovement ==
  ASSUME ConformingBuild, TypeOK, NEW from \in Accounts, NEW to \in Accounts, NEW amount \in Amounts,
         amount >= 0, balance[from] >= amount, MoveComputes(balance, from, to, amount, amount),
         balance' = Moved(balance, from, to, amount, amount),
         last'.events = <<TransferEvent(from, to, amount)>>
  PROVE  Promise!Movement(from, amount)
<1> DEFINE debited == [balance EXCEPT ![from] = @ - amount]
<1>1. amount \in Int /\ balance \in [Accounts -> MinAmount..MaxAmount]
  BY AmountsFit DEF TypeOK
<1>2. Debited(balance, from, amount) = debited /\ debited \in [Accounts -> MinAmount..MaxAmount]
  BY <1>1, DebitIsExact, BalancesFit
<1>3. Computes(debited[to] + amount)
  BY <1>2 DEF MoveComputes
<1>4. balance' = [debited EXCEPT ![to] = @ + amount]
  <2> HIDE DEF debited
  <2> QED BY <1>1, <1>2, <1>3, CreditIsExact DEF Moved
<1>5. last'.events[1] = TransferEvent(from, to, amount)
  OBVIOUS
<1>6. balance' = Promise!Explained(balance, last'.events[1])
  BY <1>4, <1>5, TransferExplains
<1>7. Promise!Announces(from, amount)
  BY DEF Promise!Announces, TransferEvent
<1> QED BY <1>6, <1>7 DEF Promise!Movement, Promise!Owned

\* So is a burn.
LEMMA BurnIsMovement ==
  ASSUME TypeOK, NEW from \in Accounts, NEW amount \in Amounts, amount >= 0, balance[from] >= amount,
         balance' = Debited(balance, from, amount), last'.events = <<BurnEvent(from, amount)>>
  PROVE  Promise!Movement(from, amount)
<1>1. amount \in Int /\ balance \in [Accounts -> MinAmount..MaxAmount]
  BY AmountsFit DEF TypeOK
<1>2. balance' = [balance EXCEPT ![from] = @ - amount]
  BY <1>1, DebitIsExact
<1>3. last'.events[1] = BurnEvent(from, amount)
  OBVIOUS
<1>4. balance' = Promise!Explained(balance, last'.events[1])
  BY <1>2, <1>3, BurnExplains
<1>5. Promise!Announces(from, amount)
  BY DEF Promise!Announces, BurnEvent
<1> QED BY <1>4, <1>5 DEF Promise!Movement, Promise!Owned

\* What an account moves on its own authorization is a payment.
LEMMA PaymentIsPromised ==
  ASSUME ConformingBuild, TypeOK, NEW signers, NEW from \in Accounts, NEW amount \in Amounts,
         \/ \E to \in Accounts : Transfer(signers, from, to, amount)
         \/ Burn(signers, from, amount)
  PROVE  Promised
<1>1. CASE Refuse
  BY <1>1, RefusalIsPromised
<1>2. ASSUME Promise!Movement(from, amount), last'.auths = {from}, UNCHANGED <<grant, ledger>>
      PROVE  Promised
  <2>1. InForce' = InForce
    BY <1>2 DEF InForce, LiveGrant
  <2>2. Promise!Pay
    BY <1>2, <2>1 DEF InForce, Promise!Pay
  <2> QED BY <2>2 DEF Promised, Promise!Next
<1>3. ASSUME NEW to \in Accounts, Transferable(signers, from, to, amount),
             balance' = Moved(balance, from, to, amount, CreditOf(amount)),
             Accept(EventsOf(from, to, amount), DemandedOf(from)), UNCHANGED <<grant, ledger>>
      PROVE  Promised
  <2>1. /\ CreditOf(amount) = amount /\ StatedOf(amount) = amount /\ DemandedOf(from) = {from}
        /\ amount >= 0 /\ balance[from] >= amount /\ MoveComputes(balance, from, to, amount, amount)
    BY <1>3 DEF ConformingBuild, CreditOf, StatedOf, DemandedOf, Transferable
  <2>2. Narrow(amount) = amount
    BY AmountAssumption DEF Narrow, Fits, MinAmount
  <2>3. EventsOf(from, to, amount) = <<TransferEvent(from, to, amount)>>
    BY <2>1, <2>2 DEF ConformingBuild, EventsOf
  <2>4. last'.events = <<TransferEvent(from, to, amount)>> /\ last'.auths = {from}
    BY <1>3, <2>1, <2>3 DEF Accept
  <2>5. Promise!Movement(from, amount)
    BY <1>3, <2>1, <2>4, MoveIsMovement
  <2> QED BY <1>2, <1>3, <2>4, <2>5
<1>4. ASSUME Burnable(signers, from, amount), balance' = Debited(balance, from, amount),
             Accept(<<BurnEvent(from, amount)>>, {from}), UNCHANGED <<grant, ledger>>
      PROVE  Promised
  <2>1. last'.events = <<BurnEvent(from, amount)>> /\ last'.auths = {from}
    BY <1>4 DEF Accept
  <2>2. Promise!Movement(from, amount)
    BY <1>4, <2>1, BurnIsMovement DEF Burnable
  <2> QED BY <1>2, <1>4, <2>1, <2>2
<1> QED BY <1>1, <1>3, <1>4 DEF Transfer, Burn

\* Taking from an allowance in force what is moved is drawing.
LEMMA TakenIsDrawn ==
  ASSUME NEW from \in Accounts, NEW spender \in Accounts, NEW amount \in Amounts,
         Promise!Movement(from, amount), last'.auths = {spender}, InForce[<<from, spender>>] >= amount,
         InForce' = [InForce EXCEPT ![<<from, spender>>] = @ - amount]
  PROVE  Promise!Draw
<1>1. \E f, s \in Accounts, m \in Amounts :
        /\ InForce[<<f, s>>] >= m
        /\ Promise!Movement(f, m)
        /\ last.auths' = {s}
        /\ InForce' = [InForce EXCEPT ![<<f, s>>] = @ - m]
  OBVIOUS
<1> QED BY <1>1 DEF InForce, Promise!Draw

\* What a spender moves uses up as much of an allowance that was in force.
LEMMA DrawIsPromised ==
  ASSUME ConformingBuild, TypeOK, NEW signers, NEW spender \in Accounts, NEW from \in Accounts,
         NEW amount \in Amounts,
         \/ \E to \in Accounts : TransferFrom(signers, spender, from, to, amount)
         \/ BurnFrom(signers, spender, from, amount)
  PROVE  Promised
<1>1. CASE Refuse
  BY <1>1, RefusalIsPromised
<1>2. ASSUME Promise!Movement(from, amount), last'.auths = {spender},
             Drawable(signers, spender, from, amount), Spend(from, spender, amount), ledger' = ledger
      PROVE  Promised
  <2> DEFINE pair == <<from, spender>>
             live == LiveGrant(from, spender)
             g    == [live EXCEPT !.amount = @ - amount]
  <2>1. live \in Grants /\ amount \in Int /\ amount >= 0 /\ live.amount >= amount /\ live.amount \in Int
    <3>1. live \in Grants
      BY LiveGrantFits
    <3>2. live.amount \in Int
      BY <3>1, AmountsFit DEF Grants
    <3> QED BY <1>2, <3>1, <3>2, AmountsFit DEF Drawable
  <2>2. grant' = [grant EXCEPT ![pair] = g] /\ g \in Grants
    <3>1. grant' = [grant EXCEPT ![pair] = g]
      BY <1>2 DEF Spend
    <3>2. live.amount - amount \in MinAmount..MaxAmount
      <4>1. live.amount \in MinAmount..MaxAmount
        BY <2>1 DEF Grants
      <4> HIDE DEF live
      <4> QED BY <2>1, <4>1, AmountsFit
    <3> QED BY <2>1, <3>1, <3>2 DEF Grants
  <2>3. g.amount = live.amount - amount /\ g.live = live.live
    BY <2>1 DEF Grants
  <2>4. InForce[pair] = live.amount
    BY DEF InForce, Pairs
  <2>5. (IF g.live < ledger THEN 0 ELSE g.amount) = InForce[pair] - amount
    <3>1. CASE g.live < ledger
      <4>1. live.amount = 0
        <5>1. grant[pair] \in Grants /\ live.live = grant[pair].live
          BY LiveGrantFits DEF TypeOK, Pairs
        <5>2. grant[pair].live < ledger
          BY <2>3, <3>1, <5>1
        <5> QED BY <5>1, <5>2 DEF LiveGrant, Grants
      <4> QED BY <2>1, <2>4, <3>1, <4>1
    <3>2. CASE ~(g.live < ledger)
      BY <2>3, <2>4, <3>2
    <3> QED BY <3>1, <3>2
  <2>6. InForce' = [InForce EXCEPT ![pair] = InForce[pair] - amount]
    <3>1. InForce' = [InForce EXCEPT ![pair] = IF g.live < ledger THEN 0 ELSE g.amount]
      BY <1>2, <2>2, GrantedIsInForce
    <3> HIDE DEF g, live, pair
    <3> QED BY <2>5, <3>1
  <2>7. InForce[pair] >= amount
    BY <2>1, <2>4
  <2>8. Promise!Draw
    <3> HIDE DEF g, live
    <3> QED BY <1>2, <2>6, <2>7, TakenIsDrawn
  <2> QED BY <2>8 DEF Promised, Promise!Next
<1>3. ASSUME NEW to \in Accounts, Drawable(signers, spender, from, amount),
             MoveComputes(balance, from, to, amount, amount),
             balance' = Moved(balance, from, to, amount, amount), Spend(from, spender, amount),
             Accept(<<TransferEvent(from, to, amount)>>, {spender}), ledger' = ledger
      PROVE  Promised
  <2>1. last'.events = <<TransferEvent(from, to, amount)>> /\ last'.auths = {spender}
    BY <1>3 DEF Accept
  <2>2. Promise!Movement(from, amount)
    BY <1>3, <2>1, MoveIsMovement DEF Drawable
  <2> QED BY <1>2, <1>3, <2>1, <2>2
<1>4. ASSUME Drawable(signers, spender, from, amount), balance' = Debited(balance, from, amount),
             Spend(from, spender, amount), Accept(<<BurnEvent(from, amount)>>, {spender}),
             ledger' = ledger
      PROVE  Promised
  <2>1. last'.events = <<BurnEvent(from, amount)>> /\ last'.auths = {spender}
    BY <1>4 DEF Accept
  <2>2. Promise!Movement(from, amount)
    BY <1>4, <2>1, BurnIsMovement DEF Drawable
  <2> QED BY <1>2, <1>4, <2>1, <2>2
<1> QED BY <1>1, <1>3, <1>4 DEF TransferFrom, BurnFrom

\* Every step of the audited token is one of these.
LEMMA EveryCallIsPromised ==
  ASSUME ConformingBuild, 0 \in Amounts PROVE TypeOK /\ [AuditNext]_auditVars => Promised
<1> SUFFICES ASSUME TypeOK, [AuditNext]_auditVars PROVE Promised
  OBVIOUS
<1>1. CASE UNCHANGED auditVars
  <2>1. InForce' = InForce
    BY <1>1 DEF InForce, LiveGrant, auditVars
  <2> QED BY <1>1, <2>1 DEF InForce, Promised, Promise!ledgerVars, auditVars
<1>2. CASE AuditedSetup
  <2>1. ASSUME NEW p \in Granting, NEW amount \in Seeds, NEW live \in Ledgers,
               FixtureApprove(p[1], p[2], amount, live)
        PROVE  Promised
    <3>1. p[1] \in Accounts /\ p[2] \in Accounts
      BY GrantingAssumption DEF Pairs
    <3> QED BY <2>1, <3>1, EndowmentIsPromised
  <2> QED BY <1>2, <2>1, MintIsPromised DEF AuditedSetup
<1>3. ASSUME NEW signers \in SUBSET Accounts, AuditedOwnerCall(signers)
      PROVE  Promised
  <2>1. ASSUME NEW from \in Accounts, NEW amount \in Amounts, NEW p \in Granting,
               NEW live \in Ledgers, Approve(signers, from, p[2], amount, live)
        PROVE  Promised
    <3>1. p[2] \in Accounts
      BY GrantingAssumption DEF Pairs
    <3> QED BY <2>1, <3>1, ApprovalIsPromised
  <2> QED BY <1>3, <2>1, PaymentIsPromised DEF AuditedOwnerCall
<1>4. ASSUME NEW signers \in SUBSET Accounts, AuditedSpenderCall(signers)
      PROVE  Promised
  BY <1>4, DrawIsPromised DEF AuditedSpenderCall
<1>5. CASE Probe
  BY <1>5, MintIsPromised, RefusalIsPromised DEF Probe, ProbeRefuses, MutatesThenRefuses
<1> QED BY <1>1, <1>2, <1>3, <1>4, <1>5 DEF AuditNext

\* Built with overflow checks, the conforming fixture keeps a token's promise to whoever watches it:
\* every movement is explained by its one event and by an authorization or by an allowance in
\* force that it uses up (conformance-token lib.rs), for any accounts, amounts and lapses.
THEOREM ConformingTokenKeepsItsPromise ==
  ASSUME ConformingBuild, 0 \in Amounts
  PROVE  AuditSpec => KeepsPromise
<1>1. AuditInit => Promise!Init
  <2> SUFFICES ASSUME AuditInit PROVE Promise!Init
    OBVIOUS
  <2>1. ASSUME NEW p \in Pairs PROVE LiveGrant(p[1], p[2]).amount = 0
    <3>1. PICK a \in Accounts, s \in Accounts : p = <<a, s>>
      BY DEF Pairs
    <3>2. grant[<<a, s>>] = NoGrant
      BY <3>1 DEF AuditInit, Init
    <3>3. LiveGrant(a, s).amount = 0
      <4>1. grant[<<a, s>>] \in Grants /\ grant[<<a, s>>].amount = 0
        BY <3>2, AmountsFit DEF NoGrant, Grants
      <4> QED BY <4>1 DEF LiveGrant, Grants
    <3> QED BY <3>1, <3>3
  <2> QED BY <2>1 DEF AuditInit, Init, Quiet, Pairs, Promise!Init
<1>2. TypeOK /\ [AuditNext]_auditVars => [Promise!Next]_(Promise!ledgerVars)
  BY EveryCallIsPromised DEF Promised
<1> QED BY <1>1, <1>2, TypeCorrect, PTL DEF AuditSpec, KeepsPromise, Promise!Spec
=============================================================================
