SPECIFICATION Spec
CONSTANTS
  Env = {e1, e2}
  Key = {k1}
  NoKey = nokey
  Payload = {p1, p2}
  None = none
  TicksPerSecond = 2
  ExpiresAfter = 1
  Remaining = {2}
  KillMargin = 0
  Contexts = {TRUE}
  ValidatePayload = TRUE
  RaiseOnNoKey = FALSE
  UseLocalCache = TRUE
  CacheMax = 1
  Falsy = {FALSE}
  LastBegin = 3
  MaxTime = 6
  MaxInvocations = 3
  ReturnsOldRecord = TRUE
SYMMETRY Symmetry
INVARIANTS
  TypeOK
  MutualExclusion
  CacheCoherent
  ReplayIsCurrent
  RetriesSuffice
  PayloadProtected
PROPERTIES
  ResultStable
  RefusalsAreJust
