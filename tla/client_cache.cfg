SPECIFICATION FairSpec
CONSTANTS
  Clients <- MCClients
  Views <- AllViews
  Writes <- AllWrites
  Table <- MCTable
  Subjects <- MCSubjects
  Accounts = {"ana"}
  MaxSlots = 2
  MaxServer = 2
INVARIANTS  OwnWritesShown NewsReaches NothingForgotten
PROPERTY ShownCatchesUp
CHECK_DEADLOCK FALSE
