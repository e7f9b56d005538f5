CONSTANTS
  N = 11
  Second = 2
  Many = 2
  MinBlack = 2
  Glitch = 2
  Lists <- MCLists
  Logos <- MCLogos
  Settings <- MCSettings
  Frames = 5
  MaxHeld = 2
  LiveRetries = 2
  LoopDelay = 2
  Far = 3
  MaxCorrections = 3
  Untimed = {1}
  MinShow = 24
  MinBreak = 10
  MaxAd = 20
  Bumper = 2
  PadLength = 3
  Strict = {6, 12}
  Loose = {7, 11}
  MaxCombined = 2
  Weighed <- MCWeighed
  RuleSets <- MCRuleSets
  Judgements <- MCJudgements
  Lists0 <- MCLists0
  FrameCount = 26
  Fps = 2
  EdlOffset = 1
  CutOffset = 0
  Reach = 3
  MaxKeys = 2
  BreakLists <- MCBreakLists
  Tolerances = {0, 2}
SPECIFICATION RecordingSpec
INVARIANTS BlocksTile NoLogoSeam BreaksSound ReadingSound GapsJudged FormatsSound OnlyTouchingFails DifferencesExact
PROPERTIES Ends
