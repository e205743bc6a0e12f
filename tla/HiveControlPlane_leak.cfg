SPECIFICATION Spec
CONSTANTS
  j1 = j1  j2 = j2
  c1 = c1  c2 = c2  c3 = c3
  imgA = imgA
  None = None
  Jobs = {j1, j2}
  CellIds = {c1, c2, c3}
  Images = {imgA}
  JobImage <- AllA
  JobReq <- UnitReq
  NBoxes = 1
  BoxCap <- OneBox
  WarmImages <- NoImages
  WarmTarget <- WarmNone
  WarmSpec <- WarmUnit
  BuildResults = {"Succeeded"}
  MaxConcurrentBuilds = 2
  MaxRetained = 1
  MaxSubmits <- J1Twice
INVARIANTS
  EveryCellOwned
