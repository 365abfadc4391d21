SPECIFICATION Spec
CONSTANTS
    r1 = r1
    r2 = r2
    None = None
    Requests = {r1, r2}
    LogIds = {1, 2, 3, 4, 5}
    EventIds = {10, 11, 12, 13, 14}
    FirstChain <- MCFirstChain
    FirstPlain = {1}
    FirstRetention = {1}
    FirstEvents <- MCFirstEvents
    PageSize = 2
    MaxExport = 4
    AnonymizeAge = 0
    DeleteAge = 1
    MaxTime = 2
    MaxRequests = 3
    MaxChanges = 1
SYMMETRY Symmetry
INVARIANTS VerifyExact ExportComplete
CHECK_DEADLOCK FALSE
