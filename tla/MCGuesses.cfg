SPECIFICATION Spec
CONSTANTS
  Requests = {r1, r2, r3}
  Addresses = {a1, a2}
  r1 = r1
  r2 = r2
  r3 = r3
  a1 = a1
  a2 = a2
  NoRequest = NoRequest
  Limit = 1
  Window = 2
  BanLengths = {2}
  OldBan = 1
  DBFaults = {"query", "insert", "delete"}
  MaxFaults = 4
  MaxTime = 3
  MaxCrashes = 1
SYMMETRY Symmetry
CHECK_DEADLOCK FALSE
INVARIANT TypeOK
INVARIANT GuessesLimited
INVARIANT BansEarned
