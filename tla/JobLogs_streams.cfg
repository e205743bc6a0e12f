SPECIFICATION FairSpec
CONSTANTS
  s1 = s1
  Streams = {s1}
  BuildLines = 5
  LineBytes <- SmallBigSmall
  MaxLines = 2
  MaxBytes = 3
  ChanCap = 2
INVARIANTS
  TypeOK
  RingExact
  ClientReadsAll
PROPERTIES
  DoneStreamsEnd
CHECK_DEADLOCK FALSE
