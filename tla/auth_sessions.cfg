CONSTANTS
    Requests = {r1, r2}
    Free = free
    MaxTokens = 3
    MaxNow = 3
    MaxRequests = 5
    Life = 0
    RevocationTTL = 1
    RefreshLife = 1
    Keep = 0
    Cap = 1
    CanFail = TRUE
    Ops = {"login", "refresh", "logout", "revoke", "logoutAll", "password"}
SPECIFICATION Spec
SYMMETRY RequestSymmetry
INVARIANTS
    TypeOK
    CacheCoversTable
    EndedSessionsAreOver
PROPERTIES
    ReplayHistoryKept
