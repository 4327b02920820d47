SPECIFICATION FairSpec
CONSTANTS
  None = None
  t1 = t1
  t2 = t2
  x = x
  y = y
  periodic = periodic
  admin = admin
  Appender = {t1}
  Chain = {x, y}
  Inputs <- MCTwoChains
  Micro = 2
  Sweep = {periodic, admin}
  Manual = {admin}
  RetryAttempts = 1
  Viewed = {}
  Limits = {1, 2}
  Operations = {"", "extension"}
  MaxEvents = 1
  MaxManual = 1
  MaxFaults = 2
  MaxDamage = 1
INVARIANTS
  HealthyIsTrue
PROPERTIES
  DamageIsReported
