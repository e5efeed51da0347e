\* Reconcile meets one failing call: of a blob, or of the query for all shares.
CONSTANTS
  i1 = i1  i2 = i2  l1 = l1
  u1 = u1  u2 = u2  c1 = c1
  Cleaner = Cleaner
  NoOne = NoOne
  NoId = NoId
  Ids = {l1}
  Legacy = {l1}
  Uploaders = {}
  Clients = {c1}
  Cap = 3
  MaxUpload = 2
  MinBlob = 1
  Lifetimes = {1}
  IOFaults = {"lstat", "query"}
  MaxFaults = 1
  MaxTime = 1
  MaxCrashes = 0
  MaxTampers = 0
SPECIFICATION Spec
PROPERTY OrphansHaveNoRow
