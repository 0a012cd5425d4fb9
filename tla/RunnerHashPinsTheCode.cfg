SPECIFICATION Spec
CONSTANTS
  NumVectors = 2
  Tagged <- MCTagged
  Unreportable = {2}
  Revisions = {1, 2, 3}
  Malformed = {3}
  Optional <- MCOptional
  Builds = {1, 2}
  Arguments <- MCArguments
  MaxRuns = 1
  MaxEdits = 1
  MaxUpgrades = 1
INVARIANT HashPinsTheCode
CHECK_DEADLOCK FALSE
