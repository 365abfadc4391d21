SPECIFICATION Spec
CONSTANTS
  Users = {u1}
  SessionIds = {s1, s2}
  PairIds = {k1, k2, k3}
  Requests = {r1, r2}
  NoUser = NoUser
  NoSession = NoSession
  NoPair = NoPair
  AccessTTL = 1
  RefreshTTL = 2
  MaxTime = 2
  MaxPasswords = 2
  MaxFaults = 1
SYMMETRY Symmetry
INVARIANTS
  TypeOK
  OneExchangePerRefreshToken
  OnlyNewestPairWorks
  PunishedOnlyIfReused
  ChangeEndsEarlierSessions
  IntrospectionAgrees
PROPERTIES
  NothingComesBack
  ExchangeOnlyForActiveUser
  ImplementsLedger
