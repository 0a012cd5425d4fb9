---------------------------- MODULE TokenLedger ----------------------------
(***************************************************************************)
(* What a token promises the parties who watch it, with no mechanism:       *)
(*                                                                         *)
(*   - value moves only in a step that publishes exactly one event, and the *)
(*     event is the whole explanation of the movement;                      *)
(*   - the account debited authorized it, or a spender did who holds an     *)
(*     allowance of at least that amount, which the movement uses up;       *)
(*   - nobody is debited below zero;                                        *)
(*   - a refused call leaves no trace.                                      *)
(*                                                                         *)
(* Whether and when a grant lapses, what the amount type is, and how a call *)
(* is dispatched are the implementation's business.                         *)
(***************************************************************************)
EXTENDS Integers, Sequences

CONSTANTS Accounts, Amounts, Ledgers

VARIABLES
  holding,     \* what each account owns
  allowance,   \* what each spender may draw from each holder, in force now
  announced,   \* the events the last step published
  authority    \* the accounts whose authorization the last step used

ledgerVars == <<holding, allowance, announced, authority>>

Init == /\ holding = [a \in Accounts |-> 0]
        /\ allowance = [p \in Accounts \X Accounts |-> 0]
        /\ announced = <<>>
        /\ authority = {}

\* The balances an event accounts for.
Explained(b, event) ==
  LET debited == [b EXCEPT ![event.from] = @ - event.amount]
  IN  IF event.name = "transfer"
      THEN [debited EXCEPT ![event.to] = @ + event.amount]
      ELSE debited

Owned(from, amount) == amount >= 0 /\ holding[from] >= amount

\* The one event of the step names the holder and the amount.
Announces(from, amount) ==
  \/ announced' = <<[name |-> "burn", from |-> from, amount |-> amount]>>
  \/ \E to \in Accounts :
       announced' = <<[name |-> "transfer", from |-> from, to |-> to, amount |-> amount]>>

Movement(from, amount) ==
  /\ Owned(from, amount)
  /\ Announces(from, amount)
  /\ holding' = Explained(holding, announced'[1])

Pay == \E from \in Accounts, amount \in Amounts :
  /\ Movement(from, amount)
  /\ authority' = {from}
  /\ UNCHANGED allowance

Draw == \E from, spender \in Accounts, amount \in Amounts :
  /\ allowance[<<from, spender>>] >= amount
  /\ Movement(from, amount)
  /\ authority' = {spender}
  /\ allowance' = [allowance EXCEPT ![<<from, spender>>] = @ - amount]

\* A new allowance replaces the old one.
Grant == \E from, spender \in Accounts, amount \in Amounts, live \in Ledgers :
  /\ amount >= 0
  /\ allowance' = [allowance EXCEPT ![<<from, spender>>] = amount]
  /\ announced' = <<[name |-> "approve", from |-> from, to |-> spender,
                     amount |-> amount, live |-> live]>>
  /\ authority' = {from}
  /\ UNCHANGED holding

\* Value enters, and allowances are set up, by means the standard does not define.
Issue == \E who \in Accounts, amount \in Amounts :
  /\ amount >= 0
  /\ holding' = [holding EXCEPT ![who] = @ + amount]
  /\ announced' = <<>> /\ authority' = {}
  /\ UNCHANGED allowance

Endow == \E from, spender \in Accounts, amount \in Amounts :
  /\ amount >= 0
  /\ allowance' = [allowance EXCEPT ![<<from, spender>>] = amount]
  /\ announced' = <<>> /\ authority' = {}
  /\ UNCHANGED holding

Refused == /\ announced' = <<>> /\ authority' = {}
           /\ UNCHANGED <<holding, allowance>>

Next == Pay \/ Draw \/ Grant \/ Issue \/ Endow \/ Refused

Spec == Init /\ [][Next]_ledgerVars
=============================================================================
