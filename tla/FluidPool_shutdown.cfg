SPECIFICATION FairSpec
CONSTANTS
  k1 = k1  r1 = r1  r2 = r2  t1 = t1
  None = None
  Keys = {k1}
  NCells = 2
  Requests = {r1}
  MaxConcurrency = 2
  TenantQuota = 0
  ColdStartCap = 2
  MaxRegisters = 1
  MaxUnregisters = 1
  MaxCancels = 1
  MaxDead = 1
  MaxFailures = 1
  MayShutdown = TRUE
  Configs <- Fixed
  Floors <- UpToOne
  TenantOf <- SameTenant
INVARIANTS
  CellOwned
PROPERTIES
  ShutdownComplete
  LoopsDeliver
CHECK_DEADLOCK FALSE
