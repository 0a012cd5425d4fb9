---------------------------- MODULE TokenAudit ----------------------------
(***************************************************************************)
(* ConformanceToken with an auditor's books beside it: for every            *)
(* holder and spender, what was last granted and what has been drawn since. *)
(* The books only watch; the token's own actions decide every step.         *)
(***************************************************************************)
EXTENDS ConformanceToken

CONSTANT Granting   \* the <<holder, spender>> pairs grants are given for (a bound)

ASSUME GrantingAssumption == Granting \subseteq Pairs

VARIABLES
  granted,   \* the amount the grant last given to the spender was for
  drawn      \* what the spender has moved or burned since

auditVars == <<balance, grant, ledger, last, granted, drawn>>

AuditInit == /\ Init
             /\ granted = [p \in Pairs |-> 0]
             /\ drawn = [p \in Pairs |-> 0]

Unaudited == UNCHANGED <<granted, drawn>>

Opens(from, spender, amount) ==
  IF last'.outcome = "returned"
  THEN /\ granted' = [granted EXCEPT ![<<from, spender>>] = amount]
       /\ drawn' = [drawn EXCEPT ![<<from, spender>>] = 0]
  ELSE Unaudited

Draws(from, spender, amount) ==
  /\ UNCHANGED granted
  /\ drawn' = IF last'.outcome = "returned"
              THEN [drawn EXCEPT ![<<from, spender>>] = @ + amount]
              ELSE drawn

\* A caller declares no negative opening balance or allowance.
Seeds == {a \in Amounts : a >= 0}

AuditedSetup ==
  \/ \E who \in Accounts, amount \in Seeds : FixtureMint(who, amount) /\ Unaudited
  \/ \E p \in Granting, amount \in Seeds, live \in Ledgers :
       FixtureApprove(p[1], p[2], amount, live) /\ Opens(p[1], p[2], amount)

AuditedOwnerCall(signers) == \E from \in Accounts, amount \in Amounts :
  \/ \E to \in Accounts : Transfer(signers, from, to, amount) /\ Unaudited
  \/ Burn(signers, from, amount) /\ Unaudited
  \/ \E p \in Granting, live \in Ledgers :
       p[1] = from /\ Approve(signers, from, p[2], amount, live) /\ Opens(from, p[2], amount)

AuditedSpenderCall(signers) == \E spender, from \in Accounts, amount \in Amounts :
  \/ \E to \in Accounts :
       TransferFrom(signers, spender, from, to, amount) /\ Draws(from, spender, amount)
  \/ BurnFrom(signers, spender, from, amount) /\ Draws(from, spender, amount)

Probe ==
  \/ ProbeRefuses
  \/ \E who \in Accounts, amount \in Seeds, refuse \in BOOLEAN :
       MutatesThenRefuses(who, amount, refuse)

AuditNext ==
  \/ AuditedSetup
  \/ \E signers \in SUBSET Accounts : AuditedOwnerCall(signers) \/ AuditedSpenderCall(signers)
  \/ Probe /\ Unaudited

AuditSpec == AuditInit /\ [][AuditNext]_auditVars

---------------------------------------------------------------------------
Grants == [amount : MinAmount..MaxAmount, live : Nat]

\* Every stored amount fits the amount type, whatever sequence of calls wrote it.
TypeOK ==
  /\ balance \in [Accounts -> MinAmount..MaxAmount]
  /\ grant \in [Pairs -> Grants]
  /\ ledger \in Ledgers
  /\ last.outcome \in {"none", "returned", "refused"}
  /\ last.auths \subseteq Accounts

\* No sequence of calls leaves an account of the conforming fixture owing value: the
\* check in transfer, transfer_from, burn and burn_from happens before the first write
\* and the write cannot leave the amount type.
NoDebt == \A a \in Accounts : balance[a] >= 0

\* However a spender splits, repeats or retries its draws, and across re-approvals and
\* lapses, what it took since the holder's last grant plus what it may still take never
\* exceeds what was granted.
DrawnWithinGrant == \A p \in Pairs :
  drawn[p] + LiveGrant(p[1], p[2]).amount <= granted[p]

\* At or beyond the ledger a grant names, its allowance reads as zero.
LapsesAtItsLedger == \A p \in Pairs :
  grant[p].live <= ledger => LiveGrant(p[1], p[2]).amount = 0

\* The conforming fixture keeps the promise of a token as its watchers see it: the
\* balance, the allowance in force, the published events and the demanded
\* authorizations move only in the ways TokenLedger allows.
Promise == INSTANCE TokenLedger WITH
  holding   <- balance,
  allowance <- [p \in Pairs |-> LiveGrant(p[1], p[2]).amount],
  announced <- last.events,
  authority <- last.auths

KeepsPromise == Promise!Spec
=============================================================================
