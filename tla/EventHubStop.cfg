SPECIFICATION FairSpec
CONSTANTS
  Procs = {q1}
  Partitions = {p1}
  p1 = p1
  p2 = p2
  NoPart = NoPart
  NoDoc = NoDoc
  Nobody = Nobody
  LastOffset = 1
  Poison <- NoPoison
  SlowStore = FALSE
  MaxTag = 5
  MaxLive = 1
  Faults = {"stop"}
  MaxFaults = 1
PROPERTIES StopReleases
CHECK_DEADLOCK FALSE
