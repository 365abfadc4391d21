SPECIFICATION FairSpec
CONSTANTS
  Users = {u1}
  SessionIds = {s1}
  PairIds = {k1, k2, k3}
  Requests = {r1, r2}
  NoUser = NoUser
  NoSession = NoSession
  NoPair = NoPair
  AccessTTL = 1
  RefreshTTL = 2
  MaxTime = 1
  MaxPasswords = 1
  MaxFaults = 0
PROPERTIES
  DoubleUseEndsSession
