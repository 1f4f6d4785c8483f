SPECIFICATION Spec
CONSTANTS
  Kinds <- AllKinds
  Items = {i1, i2, i3}
  i1 = i1
  i2 = i2
  i3 = i3
  Undated <- OneItem
  Stamps <- AnyStamp
  StartDates = {2, 6}
  Window = 2
  PageSize = 2
  MaxTime = 7
  MaxLives = 2
  MaxFaults = 1
SYMMETRY Symmetry
INVARIANTS TypeOK CheckpointIsLatest CoveredIsWritten RemovalDeletesCheckpoint CreatedAsksFromStart
PROPERTIES CheckpointAdvances
CHECK_DEADLOCK FALSE
