SPECIFICATION Spec
CONSTANTS
  Nothing = Nothing
  Missing = Missing
  Garbage = Garbage
  Asset = Asset
  a = a
  b = b
  c = c
  d = d
  s0 = s0
  s1 = s1
  k = k
  x = x
  Codes = {a, b, c, d}
  Oversized = {d}
  Opaque = {c}
  Uninstantiable = {b}
  Storages = {s0, s1}
  Blank = s0
  Genesis <- MCGenesis
  CommandLines <- MCCommandLines
  MaxLedgers = 3
  Hashes <- MCHashes
  Loose <- MCLoose
  Statuses = {"CONFORMANT", "NON_CONFORMANT"}
  Keys = {k, x}
  Strangers = {x}
  MaxIssues = 2
  MaxEdits = 1
  MaxRuns = 1
INVARIANTS TypeOK AttributedMeansIssued PrintedIsTheReports RefusalNamesItsCause AttestedCodeRan
PROPERTIES ReadsAtomically ResolutionEnds
