SPECIFICATION FairSpec
CONSTANTS
    Users = {u1}
    Jobs = {j1, j2}
    None = none
    Ops = {"hydrate", "login", "logout", "clear", "reset", "elsewhere", "foreground"}
    MaxTokens = 2
    MaxGen = 3
    MaxPending = 1
    MaxCrashes = 1
    MaxFaults = 1
    LateReplays = TRUE
INVARIANTS RevocationNotLost
PROPERTIES QueuedIsRevoked
CHECK_DEADLOCK FALSE
