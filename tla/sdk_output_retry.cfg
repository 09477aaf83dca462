SPECIFICATION Spec
CONSTANTS
  Req1 = Req1  Req2 = Req2  User1 = User1  User2 = User2  User3 = User3
  Requests = {Req1, Req2}
  RequestMenu <- RequestMenuMC
  MaxRetries = 1
  Signals = {}
  Users = {User1, User2, User3}
  UserMenu <- UserMenuMC
  MaxRecords = 1
  MaxCuts = 1
CHECK_DEADLOCK FALSE
PROPERTIES OutputRetries
