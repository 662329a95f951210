CONSTANTS
    Requests = {r1, r2}
    Free = free
    Regular = {}
    Specials = {}
    AirDay <- AiredLongAgo
    IsTv = FALSE
    Ended = FALSE
    MaxDay = 2
    ExportDays = {1, 2}
    MaxHistory = 1
    MaxPlans = 1
    OtherTitles = 1
    MaxTracking = 2
    CanDrop = FALSE
    Ops = {"track", "untrack", "watch", "rewatch", "delete", "import"}
SPECIFICATION FairSpec
INVARIANTS
    HistoryWithinQuota
PROPERTIES
    ErrorExplained
    EveryRequestAnswered
