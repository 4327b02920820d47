SPECIFICATION Spec
CONSTANTS
  None = None
  r1 = r1
  r2 = r2
  s = s
  v = v
  x = x
  y = y
  a = a
  j1 = j1
  j2 = j2
  Worker = {r1}
  Sender = {}
  Replayer = {}
  Job = {}
  Subscriber = {s, v}
  Stable = {s}
  Chain = {x}
  Admin = {a}
  Event <- MCEvents
  Subscription <- MCWebhooks
  Patches <- MCSwitch
  Matches <- WebhookMatches
  Orders <- MCNone
  BatchLimit = 2
  ClaimLimit = 1
  ReplayLimit = 1
  FaultKinds = {}
  MaxFaults = 0
  InitialLog = 0
  MaxLog = 2
  MaxRequeues = 0
  Retention = FALSE
INVARIANTS
  EnabledMissesNothing
