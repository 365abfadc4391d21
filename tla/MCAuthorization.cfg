SPECIFICATION Spec
CONSTANTS
    u1 = u1
    u2 = u2
    r1 = r1
    r2 = r2
    None = None
    Users = {u1, u2}
    CachedUsers = {u1}
    Admins = {u1}
    Grantable = {"alias", "*"}
    Clients = {u1}
    Asked = {"alias", "seats"}
    Requests = {r1, r2}
    SodEnforced = FALSE
    AuthTtl = 1
    EntTtl = 2
    NegativeTtl = 1
    MaxTime = 2
    MaxRequests = 2
    MaxChanges = 2
SYMMETRY Symmetry
INVARIANTS TypeOK StaleAnswersExpire AdminActsBacked
CHECK_DEADLOCK FALSE
