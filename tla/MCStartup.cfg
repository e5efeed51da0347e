SPECIFICATION Spec
CONSTANTS
  Server = Server
  Gateway = Gateway
  NoAccount = NoAccount
  alice = alice
  bob = bob
  pw1 = pw1
  pw2 = pw2
  default = default
  DefaultPassword = default
  Configs <- MCConfigs
  Installed <- MCInstalled
  Keys = {1, 2, 3, 4, 5}
  MaxFaults = 2
  MaxLosses = 1
  MaxDeploys = 1
INVARIANTS
  TypeOK
  OneSecret
  AdminsReady
PROPERTIES
  AccountsKept
  ComesUp
CHECK_DEADLOCK FALSE
