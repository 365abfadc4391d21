SPECIFICATION Spec
CONSTANTS
  Kids = {k1, k2, k3}
  Tasks = {t1, t2}
  Servers = {v1, v2}
  NoKid = NoKid
  NoServer = NoServer
  Interval = 2
  Grace = 1
  MaxTime = 2
SYMMETRY Symmetry
INVARIANTS
  SignsWithActiveKeyOnly
