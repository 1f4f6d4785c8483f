SPECIFICATION Spec
CONSTANTS
  Procs = {q1, q2, q3}
  Partitions = {p1}
  p1 = p1
  p2 = p2
  NoPart = NoPart
  NoDoc = NoDoc
  Nobody = Nobody
  LastOffset = 3
  Poison <- NoPoison
  SlowStore = TRUE
  MaxTag = 5
  MaxLive = 1
  Faults = {"store", "crash", "stop", "link", "delete", "resize"}
  MaxFaults = 2
SYMMETRY Symmetry
INVARIANTS TypeOK CommittedIsIngested
PROPERTIES DeliverySpec
CHECK_DEADLOCK FALSE
