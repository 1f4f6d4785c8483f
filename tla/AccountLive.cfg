SPECIFICATION FairSpec
CONSTANTS
  Accounts = {a1}
  Inputs = {i1}
  Polled = i1
  OtherApps = {o1, o2}
  Keys <- TwoKeys
  k1 = k1
  k2 = k2
  ListLimit = 2
  NoKey = NoKey
  NoName = NoName
  MaxChanges = 2
  MaxFaults = 1
INVARIANTS TypeOK CachedIsVerified DelegatedActsAsUser
PROPERTIES RemovalSparesUsed PollRecovers
CHECK_DEADLOCK FALSE
