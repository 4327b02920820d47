SPECIFICATION RegistrySpec
CONSTANTS
  None = None
  a = a
  b = b
  c1 = c1
  c2 = c2
  k1 = k1
  k2 = k2
  Cfg = {a, b}
  Client = {c1, c2}
  OpId = {k1, k2}
  Initial <- MCInitial
  Requests <- MCRequests
  Patches <- MCPatches
  MaxRetries = 0
  MaxVersion = 2
INVARIANT
  BaselineNeverHistorical
