------------------------- MODULE ConformanceToken -------------------------
(***************************************************************************)
(* The fixture contract the runner is exercised against                    *)
(* (fixtures/contracts/conformance-token): one SEP-41 token whose          *)
(* `transfer` is wrong in at most one way, named by Defect.                 *)
(*                                                                         *)
(* One action per contract entry point.  A call is atomic: a panic discards *)
(* every write, event and authorization of the call, so each action has     *)
(* an accepting and a refusing disjunct and the refusing one changes only   *)
(* what the runner observed of the call (`last`).                           *)
(***************************************************************************)
EXTENDS Integers, Sequences

CONSTANTS
  Accounts,        \* the fixture's actors
  Amounts,         \* the amounts a caller passes, negative ones included
  Ledgers,         \* the ledger numbers in play
  MaxAmount,       \* the largest value of the amount type (i128::MAX in the code)
  OverflowChecks   \* TRUE in the dev, test and wasm builds, FALSE under [profile.release]

\* The defect is fixed when the contract is deployed; a module that composes the
\* token substitutes its own choice for it.
CONSTANT Defect

Defects == {"none", "skips-authorization", "omits-event", "wrong-credit-amount",
            "double-emits", "wrong-event-amount", "allows-overdraft", "missing-decimals"}

MinAmount == -MaxAmount - 1

ASSUME AmountAssumption == MaxAmount \in Nat /\ Amounts \subseteq MinAmount..MaxAmount
ASSUME LedgerAssumption == Ledgers \subseteq Nat
ASSUME BuildAssumption  == OverflowChecks \in BOOLEAN /\ Defect \in Defects

VARIABLES
  balance,   \* Key::Balance, zero where no entry is stored
  grant,     \* Key::Allowance: [amount, live]; no entry reads as [0, 0], which is also
             \* what `set_grant` would write back for it
  ledger,    \* the ledger sequence LocalHost pins for the whole life of the host
  last       \* what `invoke` captures of the last call: outcome, events, authorizations

tokenVars == <<balance, grant, ledger, last>>

Pairs  == Accounts \X Accounts
NoGrant == [amount |-> 0, live |-> 0]
Quiet   == [outcome |-> "none", events |-> <<>>, auths |-> {}]

TransferEvent(from, to, amount)   == [name |-> "transfer", from |-> from, to |-> to, amount |-> amount]
BurnEvent(from, amount)           == [name |-> "burn", from |-> from, amount |-> amount]
ApproveEvent(from, spender, amount, live) ==
  [name |-> "approve", from |-> from, to |-> spender, amount |-> amount, live |-> live]

---------------------------------------------------------------------------
(* Amount arithmetic.  A result outside the type panics where overflow checks *)
(* are compiled in and wraps where they are not.                              *)

Fits(x) == MinAmount <= x /\ x <= MaxAmount

Narrow(x) == IF Fits(x) THEN x ELSE ((x - MinAmount) % (2 * (MaxAmount + 1))) + MinAmount

Computes(x) == OverflowChecks => Fits(x)

Debited(b, who, amount)  == [b EXCEPT ![who] = Narrow(@ - amount)]
Credited(b, who, amount) == [b EXCEPT ![who] = Narrow(@ + amount)]

\* `move_value`: the recipient's balance is read after the sender's was written, so a
\* transfer to oneself credits what the debit left.
Moved(b, from, to, debit, credit) == Credited(Debited(b, from, debit), to, credit)

MoveComputes(b, from, to, debit, credit) ==
  /\ Computes(b[from] - debit)
  /\ Computes(Debited(b, from, debit)[to] + credit)

\* Mutant: a grant lapses at the ledger it names.
LiveGrantLapsesEarly(from, spender) ==
  LET g == grant[<<from, spender>>]
  IN  IF g.live <= ledger THEN [g EXCEPT !.amount = 0] ELSE g

\* The grant in force: a lapsed grant reads as zero and keeps its expiry.  A grant is
\* still in force at the ledger it names.
LiveGrant(from, spender) ==
  LET g == grant[<<from, spender>>]
  IN  IF g.live < ledger THEN [g EXCEPT !.amount = 0] ELSE g

---------------------------------------------------------------------------
Accept(events, auths) == last' = [outcome |-> "returned", events |-> events, auths |-> auths]

Refuse == /\ last' = [outcome |-> "refused", events |-> <<>>, auths |-> {}]
          /\ UNCHANGED <<balance, grant, ledger>>

Init == /\ balance = [a \in Accounts |-> 0]
        /\ grant = [p \in Pairs |-> NoGrant]
        /\ ledger \in Ledgers
        /\ last = Quiet

\* fixture_mint: the seeding entry point, no authorization and no event.
FixtureMint(who, amount) ==
  \/ /\ Computes(balance[who] + amount)
     /\ balance' = Credited(balance, who, amount)
     /\ Accept(<<>>, {})
     /\ UNCHANGED <<grant, ledger>>
  \/ /\ ~Computes(balance[who] + amount)
     /\ Refuse

\* fixture_approve: the only way to store a grant that has already lapsed.
FixtureApprove(from, spender, amount, live) ==
  /\ grant' = [grant EXCEPT ![<<from, spender>>] = [amount |-> amount, live |-> live]]
  /\ Accept(<<>>, {})
  /\ UNCHANGED <<balance, ledger>>

Approvable(signers, from, amount, live) ==
  from \in signers /\ amount >= 0 /\ live >= ledger

Approve(signers, from, spender, amount, live) ==
  \/ /\ Approvable(signers, from, amount, live)
     /\ grant' = [grant EXCEPT ![<<from, spender>>] = [amount |-> amount, live |-> live]]
     /\ Accept(<<ApproveEvent(from, spender, amount, live)>>, {from})
     /\ UNCHANGED <<balance, ledger>>
  \/ /\ ~Approvable(signers, from, amount, live)
     /\ Refuse

---------------------------------------------------------------------------
(* `transfer`: the one method the defects change. *)

CreditOf(amount)  == IF Defect = "wrong-credit-amount" THEN amount - 1 ELSE amount
StatedOf(amount)  == IF Defect = "wrong-event-amount" THEN amount + 1 ELSE amount
DemandedOf(from)  == IF Defect = "skips-authorization" THEN {} ELSE {from}

EventsOf(from, to, amount) ==
  LET event == TransferEvent(from, to, Narrow(StatedOf(amount)))
  IN  CASE Defect = "omits-event"  -> <<>>
        [] Defect = "double-emits" -> <<event, event>>
        [] OTHER                   -> <<event>>

Transferable(signers, from, to, amount) ==
  /\ DemandedOf(from) \subseteq signers
  /\ amount >= 0
  /\ Defect = "allows-overdraft" \/ balance[from] >= amount
  /\ MoveComputes(balance, from, to, amount, CreditOf(amount))
  /\ Computes(StatedOf(amount))

Transfer(signers, from, to, amount) ==
  \/ /\ Transferable(signers, from, to, amount)
     /\ balance' = Moved(balance, from, to, amount, CreditOf(amount))
     /\ Accept(EventsOf(from, to, amount), DemandedOf(from))
     /\ UNCHANGED <<grant, ledger>>
  \/ /\ ~Transferable(signers, from, to, amount)
     /\ Refuse

---------------------------------------------------------------------------
(* Spending another account's balance under a grant. *)

\* Mutant: a spender may draw a negative amount.
DrawableNegative(signers, spender, from, amount) ==
  /\ spender \in signers
  /\ LiveGrant(from, spender).amount >= amount
  /\ balance[from] >= amount

Drawable(signers, spender, from, amount) ==
  /\ spender \in signers
  /\ amount >= 0
  /\ LiveGrant(from, spender).amount >= amount
  /\ balance[from] >= amount

\* Mutant: a draw leaves the grant as it was.
SpendNothing(from, spender, amount) == UNCHANGED grant

\* The remaining grant keeps its expiry.
Spend(from, spender, amount) ==
  grant' = [grant EXCEPT ![<<from, spender>>] =
              [LiveGrant(from, spender) EXCEPT !.amount = @ - amount]]

TransferFrom(signers, spender, from, to, amount) ==
  LET accepted == /\ Drawable(signers, spender, from, amount)
                  /\ MoveComputes(balance, from, to, amount, amount)
  IN  \/ /\ accepted
         /\ balance' = Moved(balance, from, to, amount, amount)
         /\ Spend(from, spender, amount)
         /\ Accept(<<TransferEvent(from, to, amount)>>, {spender})
         /\ UNCHANGED ledger
      \/ ~accepted /\ Refuse

\* Mutant: a holder may burn what it does not hold.
BurnableUnowned(signers, from, amount) == from \in signers /\ amount >= 0

Burnable(signers, from, amount) ==
  from \in signers /\ amount >= 0 /\ balance[from] >= amount

Burn(signers, from, amount) ==
  \/ /\ Burnable(signers, from, amount)
     /\ balance' = Debited(balance, from, amount)
     /\ Accept(<<BurnEvent(from, amount)>>, {from})
     /\ UNCHANGED <<grant, ledger>>
  \/ ~Burnable(signers, from, amount) /\ Refuse

BurnFrom(signers, spender, from, amount) ==
  \/ /\ Drawable(signers, spender, from, amount)
     /\ balance' = Debited(balance, from, amount)
     /\ Spend(from, spender, amount)
     /\ Accept(<<BurnEvent(from, amount)>>, {spender})
     /\ UNCHANGED ledger
  \/ ~Drawable(signers, spender, from, amount) /\ Refuse

---------------------------------------------------------------------------
(* The probes only the conforming fixture publishes.  `always_refuses` and     *)
(* `emits_then_refuses` panic whatever they did first.                          *)

ProbeRefuses == Defect = "none" /\ Refuse

MutatesThenRefuses(who, amount, refuse) ==
  /\ Defect = "none"
  /\ IF refuse THEN Refuse ELSE FixtureMint(who, amount)
=============================================================================
