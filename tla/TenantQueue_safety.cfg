SPECIFICATION Spec
CONSTANTS
  n1 = n1  n2 = n2  m1 = m1
  Absent = Absent
  None = None
  Main = Main
  Dlq = Dlq
  Nodes = {n1, n2}
  Leaders = {n1, n2}
  Primaries = {n2}
  Msgs = {m1}
  DeadLetters = {Dlq, None}
  MaxRetries = 1
  BatchSize = 1
  MaxPulls = 2
  Served = {Main}
  MaxLetters = 1
  MaxWrites = 2
  MaxFaults = 1
INVARIANTS
  TypeOK
  NoMessageLost
  OneConsumer
  AttemptsHonest
CHECK_DEADLOCK FALSE
