\* Two uploads compete for the locks, beside the passes; a row deletion may fail and the
\* process may die and start over what it left.  Sizes are one unit.
CONSTANTS
  i1 = i1  i2 = i2  l1 = l1
  u1 = u1  u2 = u2  c1 = c1
  Cleaner = Cleaner
  NoOne = NoOne
  NoId = NoId
  Ids = {i1, i2}
  Legacy = {}
  Uploaders = {u1, u2}
  Clients = {}
  Cap = 2
  MaxUpload = 1
  MinBlob = 1
  Lifetimes = {1}
  IOFaults = {"delete"}
  MaxFaults = 1
  MaxTime = 2
  MaxCrashes = 1
  MaxTampers = 0
SPECIFICATION FairSpec
PROPERTIES ExpiredSharesRemoved StartupCompletes UploadsAnswered
INVARIANT StagingOwned
