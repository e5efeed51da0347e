SPECIFICATION Spec
CONSTANTS
  Requests = {r1, r2, r3}
  Addresses = {a1}
  r1 = r1
  r2 = r2
  r3 = r3
  a1 = a1
  NoRequest = NoRequest
  Limit = 1
  Window = 2
  BanLengths = {2}
  OldBan = 1
  DBFaults = {}
  MaxFaults = 0
  MaxTime = 2
  MaxCrashes = 0
CHECK_DEADLOCK FALSE
PROPERTY OnlyExpiredBansDeleted
