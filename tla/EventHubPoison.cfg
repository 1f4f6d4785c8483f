SPECIFICATION FairSpec
CONSTANTS
  Procs = {q1}
  Partitions = {p1, p2}
  p1 = p1
  p2 = p2
  NoPart = NoPart
  NoDoc = NoDoc
  Nobody = Nobody
  LastOffset = 2
  Poison <- OnePoison
  SlowStore = FALSE
  MaxTag = 5
  MaxLive = 1
  Faults = {}
  MaxFaults = 0
INVARIANTS CommittedIsIngested
PROPERTIES EveryEventIngested
CHECK_DEADLOCK FALSE
