\* Three requests of any kind from one address, a ban after the first failure, a failing call.
SPECIFICATION Spec
CONSTANTS
  r1 = r1
  r2 = r2
  r3 = r3
  a1 = a1
  Requests = {r1, r2, r3}
  Addresses = {a1}
  MaxSids = 4
  SessionLife = 1
  DBFaults = {"get", "insert", "delete", "query"}
  MaxFaults = 1
  Limit = 1
  Window = 1
  BanLength = 3
  MaxTime = 2
  Asked = {"asset", "upload", "page", "admin", "delete", "login", "logout"}
  Tabs = 2
SYMMETRY Symmetry
CHECK_DEADLOCK FALSE
INVARIANTS TypeOK EndedSessionsRefused AdminsProvedThemselves
PROPERTIES RowsNeverElevated AdminCookieKept
