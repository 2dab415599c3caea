SPECIFICATION Spec
CONSTANTS
  Apps <- MCApps
  Traces = {t1, t2}
  Sizes = {1, 2, 3}
  MaxBytes = 2
SYMMETRY Symmetry
CHECK_DEADLOCK FALSE
INVARIANTS
  TypeOK
  BufferIsNewest
  EmittedByOwner
