SPECIFICATION Spec
CONSTANTS
  Kinds <- EachOrder
  Items = {i1, i2}
  i1 = i1
  i2 = i2
  i3 = i3
  Undated <- NoItem
  Stamps <- AnyStamp
  StartDates = {2}
  Window = 2
  PageSize = 1
  MaxTime = 7
  MaxLives = 1
  MaxFaults = 0
INVARIANTS EveryPageIsWritten
CHECK_DEADLOCK FALSE
