SPECIFICATION Spec
CONSTANTS
  None = None
  t1 = t1
  t2 = t2
  x = x
  y = y
  periodic = periodic
  admin = admin
  Appender = {t1, t2}
  Chain = {x}
  Inputs <- MCInputs
  Micro = 2
  Sweep = {}
  Manual = {}
  RetryAttempts = 0
  Viewed = {x}
  Limits = {1, 2}
  Operations = {"", "extension"}
  MaxEvents = 3
  MaxManual = 1
  MaxFaults = 0
  MaxDamage = 1
INVARIANTS
  TypeOK
  HoldsHead
  ChainsAreLinked
  VerifyIsExact
  AnswerCoversHead
  PagesAreExact
SYMMETRY Appenders
