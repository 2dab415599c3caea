SPECIFICATION Spec
CONSTANTS
  Name = {n1, n2}
  d1 = d1
  d2 = d2
  d3 = d3
  Dim <- MCDim
  Service = service
  None = none
  MAX_METRICS = 2
  MAX_DIMENSIONS = 2
  Configs <- MCConfigs
  MaxInvocations = 3
  MaxAdds = 3
  MaxKills = 1
SYMMETRY Symmetry
CHECK_DEADLOCK FALSE
INVARIANTS
  TypeOK
  PublishedOnce
  PublishedByOwner
  BlobDimensions
  BelowLimit
