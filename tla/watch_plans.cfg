CONSTANTS
    Requests = {r1, r2}
    Free = free
    Regular = {1}
    Specials = {2}
    AirDay <- AiredLongAgo
    IsTv = TRUE
    Ended = FALSE
    MaxDay = 1
    ExportDays = {1}
    MaxHistory = 2
    MaxPlans = 1
    OtherTitles = 1
    MaxTracking = 2
    CanDrop = TRUE
    Ops = {"plan", "unplan", "calmark", "rewatch", "track", "delete", "import", "update"}
SPECIFICATION Spec
SYMMETRY RequestSymmetry
INVARIANTS
    PlanWatchExclusive
    NoLockCycle
PROPERTIES
    ImplementsShelf
