SPECIFICATION Spec
CONSTANTS
  Users = {u1, u2}
  Registered = {u1}
  Subjects = {s1}
  EmailTokens = {e1}
  ResetTokens = {p1}
  Codes = {c1, c2, c3}
  Factors = {f1, f2}
  Challenges = {x1, x2}
  Passkeys = {k1, k2}
  CountingKeys = {k2}
  Requests = {r1, r2}
  None = None
  CodeCount = 1
  MaxRequests = 3
SYMMETRY Symmetry
CHECK_DEADLOCK FALSE
INVARIANTS
  TypeOK
  OldCodesDie
  GoogleStaysLinked
PROPERTIES
  ImplementsOneTime
  SecondFactorShown
  LateReplayRefused
