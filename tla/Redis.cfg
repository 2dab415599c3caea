SPECIFICATION Spec
CONSTANTS
  Env = {e1, e2}
  Key = {k1}
  NoKey = nokey
  Payload = {p1, p2}
  None = none
  TicksPerSecond = 2
  ExpiresAfter = 6
  Remaining = {2}
  KillMargin = 1
  Contexts = {TRUE}
  ValidatePayload = TRUE
  RaiseOnNoKey = FALSE
  UseLocalCache = TRUE
  CacheMax = 1
  Falsy = {FALSE}
  LastBegin = 5
  MaxTime = 7
  MaxInvocations = 3
  LockTimeout = 2
SYMMETRY Symmetry
INVARIANTS
  TypeOK
  MutualExclusion
  PayloadProtected
PROPERTIES
  ResultKept
