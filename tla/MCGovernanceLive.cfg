SPECIFICATION FairSpec
CONSTANTS
  None = None
  a = a
  b = b
  c1 = c1
  c2 = c2
  k1 = k1
  k2 = k2
  Cfg = {a, b}
  Client = {c1, c2}
  OpId = {k1, k2}
  Initial <- MCInitial
  Requests <- CrossingRequests
  MaxRetries = 1
PROPERTIES
  EveryRequestAnswered
