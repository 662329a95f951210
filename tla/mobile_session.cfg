SPECIFICATION Spec
CONSTANTS
    Users = {u1, u2}
    Jobs = {j1, j2}
    None = none
    Ops = {"hydrate", "refresh", "login", "logout", "clear", "offline", "api"}
    MaxTokens = 2
    MaxGen = 4
    MaxPending = 1
    MaxCrashes = 0
    MaxFaults = 1
    LateReplays = FALSE
SYMMETRY JobSymmetry
INVARIANTS SignedInIsStored LoggedOutStaysOut
PROPERTIES AnswerReachesItsAccount
CHECK_DEADLOCK FALSE
