SPECIFICATION FairSpec
CONSTANTS
  None = None
  r1 = r1
  r2 = r2
  s = s
  v = v
  x = x
  y = y
  a = a
  j1 = j1
  j2 = j2
  Worker = {r1}
  Sender = {r1, r2}
  Replayer = {}
  Job = {}
  Subscriber = {s}
  Stable = {s}
  Chain = {x}
  Admin = {}
  Event <- MCEvents
  Subscription <- MCPolicies
  Patches <- MCNone
  Matches <- PolicyMatches
  Orders <- MCNone
  BatchLimit = 1
  ClaimLimit = 1
  ReplayLimit = 1
  FaultKinds = {"crash", "mark"}
  MaxFaults = 1
  InitialLog = 0
  MaxLog = 1
  MaxRequeues = 0
  Retention = FALSE
PROPERTIES
  EveryEventSettles
  EveryDeliverySettles
