CONSTANTS
  Frames = 3
  MaxHeld = 0
  LiveRetries = 1
  LoopDelay = 2
  Far = 3
  MaxCorrections = 1
  Untimed = {1}
SPECIFICATION FairSpec
PROPERTY SeekSettles
