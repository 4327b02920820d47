SPECIFICATION Spec
CONSTANTS
  None = None
  r1 = r1
  r2 = r2
  s = s
  v = v
  x = x
  y = y
  a = a
  j1 = j1
  j2 = j2
  Worker = {}
  Sender = {r1, r2}
  Replayer = {}
  Job = {}
  Subscriber = {s, v}
  Stable = {s}
  Chain = {x}
  Admin = {}
  Event <- MCOneEvent
  Subscription <- MCWebhooks
  Patches <- MCNone
  Matches <- WebhookMatches
  Orders <- MCNone
  BatchLimit = 1
  ClaimLimit = 1
  ReplayLimit = 1
  FaultKinds = {"mark", "crash", "lookup"}
  MaxFaults = 1
  InitialLog = 1
  MaxLog = 1
  MaxRequeues = 1
  Retention = TRUE
SYMMETRY Replicas
INVARIANTS
  
  DeliveredWasAccepted
  DeadLetterIsExhausted
CHECK_DEADLOCK FALSE
