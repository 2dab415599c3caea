SPECIFICATION Spec
CONSTANTS
  g1 = g1
  g2 = g2
  None = none
  Message <- MCMessage
  Group <- MCGroup
  Processors <- MCFifoModel
  MaxKills = 0
INVARIANTS
  RemainingReported
