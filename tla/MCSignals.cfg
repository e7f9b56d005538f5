CONSTANTS
  Workers = {w1, w2, w3, w4}
  None = None
  MaxRuns = 3
  Recordings <- MCRecordings
  Sample = 2
  MinHits = 2
  ShrinkHead = 1
  ShrinkTail = 1
  MinBlock = 2
  Buffers = 3
  Persist = 2
  Verified = 2
  BreakLimit = 4
  GiveUp = 14
  Added = 0
  CutFrames = 12
  MinSilence = 1
  LongRun = 5
  Around = 2
  Window = 1
  CutReach = 7
  VolumeSlip = 1
  MaxSilence = 20
  MaxVolume = 50
  Films <- MCFilms
  Plans <- MCPlans
  AspectFrames = 11
  Ratios = {1, 2}
  Trend = 1
  Lost = 3
  Slip = 1
  Cases <- MCCases
  MaxPairs = 8
  Prefix = 3
  MaxCache = 2
  Modulus = 4
  CaptionFrames = 5
  LongText = 3
  MaxText = 5
  TextRoom = 7
  Second = 2
  Mixes <- MCMixes
  Splits <- MCSplits
  Phrases <- MCPhrases
  Interval = 2
  MinHeld = 4
  Capacity = 10
  Precision = 1
  Jitter = 2
  SmallStep = 5
  Lengths = {4}
  Roundings = {0, 1}
  Losses = {3}
  MaxLosses = 1
  Ticks = 24
  Lead = 8
  MinAd = 1
  MaxAd = 2
  MinBreak = 2
  MaxBreak = 5
  Near = 2
  Wait = 1
  Radius = 1
  LogoSlip = 1
  Grid = 2
  Fresh = 1
  Hits = 2
SPECIFICATION SignalsSpec
INVARIANTS FrameStable LogoSound CandidatesExact StretchesTile CaptionsSound VolumesInPlace
PROPERTIES ImplementsBarrier EverythingEnds TidySettles SettledStays
