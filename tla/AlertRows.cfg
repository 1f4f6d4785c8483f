SPECIFICATION Spec
CONSTANTS
  s1 = s1
  s2 = s2
  t1 = t1
  t2 = t2
  i1 = i1
  i2 = i2
  Subjects <- TwoSubjects
  Tenants <- TwoTenants
  Indexes <- TwoIndexes
  Nothing = Nothing
  CacheSize = 1
  Chunk = 1
  RowKinds <- SomeKinds
  MaxRows = 3
  MaxAnswers = 1
  MaxFaults = 1
SYMMETRY Symmetry
INVARIANTS TypeOK EventHasIdsOfRow RowOverrides HuntIsReported UpdateIsReported ReportedInIndexOfRow
CHECK_DEADLOCK FALSE
