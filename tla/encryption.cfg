SPECIFICATION Spec
CONSTANTS
  Accounts = {ana, ben}
  web = web
  phone = phone
  Devices = {web, phone}
  Phones = {phone}
  MaxSessions <- SessionsOfEach
  MaxMade = 3
  MaxMessages = 1
INVARIANT StoredIsListed
INVARIANT RestoredWasListed
INVARIANT SealedBySender
PROPERTY OnlyThePasswordReplaces
SYMMETRY Symmetric
CHECK_DEADLOCK FALSE
