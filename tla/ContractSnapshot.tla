-------------------------- MODULE ContractSnapshot --------------------------
(***************************************************************************)
(* What resolving a deployed contract promises, whatever it takes: either     *)
(* nothing is obtained, or one pair is, the code the contract ran and the      *)
(* instance it ran it with, as some single ledger held them.                    *)
(***************************************************************************)
EXTENDS Naturals, Sequences

CONSTANTS Nothing, Codes

VARIABLES
  ledgers,   \* what the contract's network has held, ledger by ledger
  artifact   \* what was obtained

vars == <<ledgers, artifact>>

\* The contract as one ledger holds it.
At(ledger) == [code |-> ledger.instance.executable, instance |-> ledger.instance]

Deployed(ledger) == ledger.instance # Nothing /\ ledger.instance.executable \in Codes

Init == Len(ledgers) = 1 /\ artifact = Nothing

\* The network closes a ledger; nobody takes one back.
Close ==
  /\ Len(ledgers') = Len(ledgers) + 1 /\ SubSeq(ledgers', 1, Len(ledgers)) = ledgers
  /\ UNCHANGED artifact

Take ==
  /\ artifact = Nothing
  /\ \E h \in DOMAIN ledgers : Deployed(ledgers[h]) /\ artifact' = At(ledgers[h])
  /\ UNCHANGED ledgers

\* The next command starts with nothing.
Forget == artifact' = Nothing /\ UNCHANGED ledgers

Next == Close \/ Take \/ Forget

Spec == Init /\ [][Next]_vars
=============================================================================
