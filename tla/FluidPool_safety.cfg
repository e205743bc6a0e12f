SPECIFICATION Spec
CONSTANTS
  k1 = k1  r1 = r1  r2 = r2  t1 = t1
  None = None
  Keys = {k1}
  NCells = 3
  Requests = {r1, r2}
  MaxConcurrency = 2
  TenantQuota = 0
  ColdStartCap = 2
  MaxRegisters = 2
  MaxUnregisters = 0
  MaxCancels = 0
  MaxDead = 0
  MaxFailures = 0
  MayShutdown = FALSE
  Configs <- Edits
  Floors <- Zero
  TenantOf <- SameTenant
SYMMETRY SameRequests
INVARIANTS
  TypeOK
  LeasesSound
PROPERTIES
  PoolAccounts
