CONSTANTS
  JoinGap = 4
  JoinGapNoLogo = 3
  LogoCloses = 2
  SnapReach = 1
  TouchReach = 1
  BracketReach = 2
  SettleAfter = 3
  Adjacent = 0
  MinPiece = 2
  Horizon = 11
  MatchChoices = {}
  SeamChoices = {}
  LogoChoices = {}
  BlockChoices = {}
  MaxMatches = 3
  MaxLogo = 2
  MaxBlocks = 2
  MaxSeams = 1
  MaxNow = 8
  UnchangedWithin = 0
  Lag = 1
  BackReach = 1
  SeamReach = 1
  StandardLengths = {2}
  Entries <- MCEntries
  RunStarts = {4}
  RepeatChoices <- MCRepeats
  EvidenceChoices <- MCEvidence
  MaxLiveNow = 6
  MaxHeard = 2
  MaxRepeats = 1
  MaxRevision = 2
  MaxFailures = 1
  HeaderSize = 2
  BufferSize = 5
  StartSize = 2
  MaxPayload = 4
  Streams = {}
  Retries = 2
  Sizes = {1, 2}
  MaxRewrites = 0
  MaxUnreadable = 1
SPECIFICATION MarksSpec
INVARIANT AgreedAdsAreSettled
CHECK_DEADLOCK FALSE
