\* One upload, one other request, one share of an earlier release; one call fails and
\* one blob is edited from outside.
CONSTANTS
  i1 = i1  i2 = i2  l1 = l1
  u1 = u1  u2 = u2  c1 = c1
  Cleaner = Cleaner
  NoOne = NoOne
  NoId = NoId
  Ids = {i1, l1}
  Legacy = {l1}
  Uploaders = {u1}
  Clients = {c1}
  Cap = 3
  MaxUpload = 2
  MinBlob = 1
  Lifetimes = {1}
  IOFaults = {"unlink", "delete", "insert", "rename", "hash", "create", "opendir", "clear"}
  MaxFaults = 1
  MaxTime = 2
  MaxCrashes = 0
  MaxTampers = 1
SPECIFICATION Spec
INVARIANTS ServedSharesRegistered ReconcileRepairs
PROPERTIES StoredSharesKept ImplementsLifecycle
