SPECIFICATION FairSpec
CONSTANTS
  Kinds <- EachOrder
  Items = {i1, i2}
  i1 = i1
  i2 = i2
  i3 = i3
  Undated <- NoItem
  Stamps <- AnyStamp
  StartDates = {2}
  Window = 2
  PageSize = 2
  MaxTime = 7
  MaxLives = 1
  MaxFaults = 2
PROPERTIES EveryUpdateIsWritten WrittenOnce
CHECK_DEADLOCK FALSE
