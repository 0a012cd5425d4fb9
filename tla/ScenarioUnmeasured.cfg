SPECIFICATION Spec
CONSTANTS
  Accounts = {alice, bob}
  Openings <- MCOpenings
  Quantities <- MCQuantities
  MaxAmount = 3
  Ledgers = {1}
  OverflowChecks = TRUE
INVARIANT UnmeasuredIsNeverFailed
