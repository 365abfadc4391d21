SPECIFICATION Spec
CONSTANTS
    r1 = r1
    r2 = r2
    a1 = a1
    a2 = a2
    b1 = b1
    b2 = b2
    c1 = c1
    c2 = c2
    s1 = s1
    s2 = s2
    s3 = s3
    None = None
    EnvSecret = EnvSecret
    Clients = {c1, c2}
    Secrets = {s1, s2, s3}
    AppClient = c1
    AppSecret = s1
    EnvClient = c2
    Admins = {a1, a2}
    GracePeriods = {0, 1}
    Browsers = {b1, b2}
    Requests = {r1, r2}
    CodeTtl = 1
    LoginTtl = 1
    SessionTtl = 1
    MaxTime = 1
    MaxRequests = 3
    MaxRows = 4
    MaxCodes = 2
    MaxGrants = 1
    MaxLogins = 2
SYMMETRY Symmetry
INVARIANTS ReplayEndsGrant SessionFromOwnLogin DisableSticks
PROPERTIES SecretsRetireOnce
CHECK_DEADLOCK FALSE
