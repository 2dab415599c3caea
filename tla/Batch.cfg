SPECIFICATION FairSpec
CONSTANTS
  g1 = g1
  g2 = g2
  None = none
  Message <- MCMessage
  Group <- MCGroup
  Processors <- MCProcessors
  MaxKills = 1
INVARIANTS
  TypeOK
  NoLoss
  ReportsExactly
PROPERTIES
  GroupOrder
  NoNeedlessRerun
  OtherGroupsGoOn
  Drained
