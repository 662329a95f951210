SPECIFICATION Spec
CONSTANTS
  Tabs = {"left", "right"}
  Accounts = {"ana"}
  WebLocks = TRUE
  MaxTokens = 3
  MaxLoads = 2
  MaxLost = 1
  MaxRequests = 1
INVARIANT PendingLogoutResumesNothing
INVARIANT AlarmNeedsALoss
PROPERTY SignedOutStaysOut
PROPERTY LoadingEnds
CHECK_DEADLOCK FALSE
