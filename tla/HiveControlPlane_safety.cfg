SPECIFICATION Spec
CONSTANTS
  j1 = j1  j2 = j2
  c1 = c1  c2 = c2  c3 = c3
  imgA = imgA
  None = None
  Jobs = {j1, j2}
  CellIds = {c1, c2, c3}
  Images = {imgA}
  JobImage <- AllA
  JobReq <- MixedReq
  NBoxes = 2
  BoxCap <- UnevenBoxes
  WarmImages <- WarmA
  WarmTarget <- WarmOne
  WarmSpec <- WarmUnit
  BuildResults = {"Succeeded"}
  MaxConcurrentBuilds = 2
  MaxRetained = 1
  MaxSubmits <- OnceEach
INVARIANTS
  TypeOK
  CapacityExact
  CountersExact
  CellsAccounted
  RetentionSafe
PROPERTIES
  SingleUse
