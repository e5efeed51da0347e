\* Two uploads compete for room for one and a half of them; a call may fail, a walk that
\* counts the blobs among them, and the process may die.
CONSTANTS
  i1 = i1  i2 = i2  l1 = l1
  u1 = u1  u2 = u2  c1 = c1
  Cleaner = Cleaner
  NoOne = NoOne
  NoId = NoId
  Ids = {i1, i2}
  Legacy = {}
  Uploaders = {u1, u2}
  Clients = {}
  Cap = 3
  MaxUpload = 2
  MinBlob = 1
  Lifetimes = {1}
  IOFaults = {"hash", "create", "rename", "insert", "opendir"}
  MaxFaults = 1
  MaxTime = 2
  MaxCrashes = 1
  MaxTampers = 0
SPECIFICATION Spec
SYMMETRY Symmetry
INVARIANTS TypeOK CapacityRespected ReservationsExact FootprintRespected PairedAtRest FailedUploadsLeaveNothing
