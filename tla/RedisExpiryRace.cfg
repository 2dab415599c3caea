SPECIFICATION Spec
CONSTANTS
  Env = {e1, e2}
  Key = {k1}
  NoKey = nokey
  Payload = {p1}
  None = none
  TicksPerSecond = 2
  ExpiresAfter = 3
  Remaining = {2}
  KillMargin = 1
  Contexts = {TRUE}
  ValidatePayload = FALSE
  RaiseOnNoKey = FALSE
  UseLocalCache = FALSE
  CacheMax = 1
  Falsy = {FALSE}
  LastBegin = 6
  MaxTime = 9
  MaxInvocations = 3
  LockTimeout = 3
SYMMETRY Symmetry
INVARIANTS
  MutualExclusion
