SPECIFICATION FairSpec
CONSTANTS
  None = None
  r1 = r1
  r2 = r2
  s = s
  v = v
  x = x
  y = y
  a = a
  j1 = j1
  j2 = j2
  Worker = {r1, r2}
  Sender = {}
  Replayer = {}
  Job = {}
  Subscriber = {s}
  Stable = {s}
  Chain = {x, y}
  Admin = {}
  Event <- MCEvents
  Subscription <- MCCatchAll
  Patches <- MCNone
  Matches <- WebhookMatches
  Orders <- MCNone
  BatchLimit = 1
  ClaimLimit = 1
  ReplayLimit = 1
  FaultKinds = {"call", "crash"}
  MaxFaults = 1
  InitialLog = 0
  MaxLog = 2
  MaxRequeues = 0
  Retention = FALSE
INVARIANTS
  TypeOK
  NoGapBelowCursor
  
PROPERTIES
  EveryEventQueued
