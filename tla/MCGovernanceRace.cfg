SPECIFICATION Spec
CONSTANTS
  None = None
  a = a
  b = b
  c1 = c1
  c2 = c2
  k1 = k1
  k2 = k2
  Cfg = {a, b}
  Client = {c1, c2}
  OpId = {k1, k2}
  Initial <- MCInitial
  Requests <- RacingRequests
  MaxRetries = 1
SYMMETRY Symmetry
INVARIANTS
  TypeOK
  ChainExplainsObject
  ExtensionsAreAudited
  RecordedAtMostOnce
  OkMeansRecorded
  DecisionStillHolds
PROPERTIES
  NoDependentIsOrphaned
  LedgerSpec
