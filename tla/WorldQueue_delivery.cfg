SPECIFICATION Spec
CONSTANTS
  j1 = j1  j2 = j2
  Absent = Absent
  Nobody = Nobody
  Nodes = {1, 2}
  Jobs = {j1}
  MaxAttempts = 2
  MaxFaults = 2
  NameRank <- Reversed
INVARIANTS
  TypeOK
  NoJobLost
  AttemptsHonest
PROPERTIES
  ImplementsAtLeastOnce
  EveryJobSettles
CHECK_DEADLOCK FALSE
