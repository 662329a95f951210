SPECIFICATION Spec
CONSTANTS
  Accounts = {ana, ben}
  web = web
  phone = phone
  Devices = {web, phone}
  Phones = {phone}
  MaxSessions <- SessionsOfEach
  MaxMade = 3
  MaxMessages = 1
PROPERTY RecoveryCodeIsShown
SYMMETRY Symmetric
CHECK_DEADLOCK FALSE
