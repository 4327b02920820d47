SPECIFICATION LedgerSpec
CONSTANTS
  None = None
  a = a
  b = b
  c1 = c1
  k1 = k1
  k2 = k2
  k3 = k3
  k4 = k4
  Cfg = {a}
  Client = {c1}
  OpId = {k1, k2, k3, k4}
  Initial <- MCInitial
  Requests <- MCRequests
SYMMETRY Symmetry
INVARIANTS
  LedgerTypeOK
  WithdrawalIsFinal
  BaselineNeverHistorical
CHECK_DEADLOCK FALSE
