SPECIFICATION FairSpec
CONSTANTS
  None = None
  r1 = r1
  r2 = r2
  s = s
  v = v
  x = x
  y = y
  a = a
  j1 = j1
  j2 = j2
  Worker = {}
  Sender = {}
  Replayer = {r1, r2}
  Job = {j1}
  Subscriber = {s, v}
  Stable = {s}
  Chain = {x}
  Admin = {a}
  Event <- MCOneEvent
  Subscription <- MCWebhooks
  Patches <- MCDisable
  Matches <- WebhookMatches
  Orders <- MCOrders
  BatchLimit = 1
  ClaimLimit = 1
  ReplayLimit = 1
  FaultKinds = {"call", "crash", "mark"}
  MaxFaults = 1
  InitialLog = 1
  MaxLog = 2
  MaxRequeues = 0
  Retention = FALSE
INVARIANTS
  
  
  DeletedStaysDeleted
PROPERTIES
  EveryJobEnds
CHECK_DEADLOCK FALSE
