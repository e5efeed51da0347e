\* Four logins from one address in two tabs, a ban at the second failure within
\* one unit of time, and time enough for a failure to leave that window.
SPECIFICATION Spec
CONSTANTS
  r1 = r1
  r2 = r2
  r3 = r3
  r4 = r4
  a1 = a1
  Requests = {r1, r2, r3, r4}
  Addresses = {a1}
  MaxSids = 9
  SessionLife = 5
  DBFaults = {}
  MaxFaults = 0
  Limit = 2
  Window = 1
  BanLength = 5
  MaxTime = 3
  Asked = {"login"}
  Tabs = 2
SYMMETRY Symmetry
CHECK_DEADLOCK FALSE
INVARIANTS FailuresLockOut
