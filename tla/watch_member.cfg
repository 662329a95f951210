CONSTANTS
    Requests = {r1}
    Free = free
    Regular = {1}
    Specials = {2}
    AirDay <- SpecialLater
    IsTv = TRUE
    Ended = TRUE
    MaxDay = 3
    ExportDays = {1, 2}
    MaxHistory = 3
    MaxPlans = 1
    OtherTitles = 1
    MaxTracking = 2
    CanDrop = FALSE
    Ops = {"mark", "track", "update", "untrack", "bulk", "bulkAgain", "calmark", "plan", "unplan", "unmark", "delete", "watch", "rewatch"}
SPECIFICATION Spec
INVARIANTS
    CompletionDated
    CompletedShowIsWatched
PROPERTIES
    ErrorExplained
