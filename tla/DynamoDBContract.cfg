SPECIFICATION FairSpec
CONSTANTS
  Env = {e1, e2}
  Key = {k1}
  NoKey = nokey
  Payload = {p1}
  None = none
  TicksPerSecond = 2
  ExpiresAfter = 1
  Remaining = {1}
  KillMargin = 0
  Contexts = {FALSE}
  ValidatePayload = FALSE
  RaiseOnNoKey = TRUE
  UseLocalCache = TRUE
  CacheMax = 1
  Falsy = {FALSE}
  LastBegin = 3
  MaxTime = 8
  MaxInvocations = 3
  ReturnsOldRecord = FALSE
PROPERTIES
  ImplementsContract
  LockReleased
