SPECIFICATION AuditSpec
CONSTANTS
  alice = alice
  bob = bob
  Accounts <- MCAccounts
  Amounts <- MCAmounts
  Ledgers <- MCLedgers
  Granting <- MCGranting
  MaxAmount = 2
  OverflowChecks = TRUE
  Defect = "none"
INVARIANTS TypeOK NoDebt DrawnWithinGrant
PROPERTY KeepsPromise
VIEW MCView
