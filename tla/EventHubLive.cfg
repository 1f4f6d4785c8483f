SPECIFICATION FairSpec
CONSTANTS
  Procs = {q1, q2, q3}
  Partitions = {p1}
  p1 = p1
  p2 = p2
  NoPart = NoPart
  NoDoc = NoDoc
  Nobody = Nobody
  LastOffset = 2
  Poison <- NoPoison
  SlowStore = FALSE
  MaxTag = 5
  MaxLive = 1
  Faults = {"crash", "stop", "link", "store"}
  MaxFaults = 2
PROPERTIES EveryEventIngested ClaimsHeal
CHECK_DEADLOCK FALSE
