CONSTANTS
  Workers = {w1, w2, w3, w4}
  None = None
  MaxRuns = 0
  Recordings <- MCFlicker
  Sample = 1
  MinHits = 10
  ShrinkHead = 5
  ShrinkTail = 0
  MinBlock = 0
  Buffers = 50
  Persist = 48
  Verified = 45
  BreakLimit = 720
  GiveUp = 2000
  Added = 840
SPECIFICATION DetectorSpec
INVARIANT SampleCloses
CHECK_DEADLOCK FALSE
