CONSTANTS
  Workers = {w1, w2, w3, w4}
  None = None
  MaxRuns = 0
  Recordings <- MCResized
  Sample = 2
  MinHits = 2
  ShrinkHead = 1
  ShrinkTail = 1
  MinBlock = 2
  Buffers = 3
  Persist = 2
  Verified = 2
  BreakLimit = 4
  GiveUp = 14
  Added = 0
SPECIFICATION DetectorSpec
PROPERTY AnalysisEnds
CHECK_DEADLOCK FALSE
