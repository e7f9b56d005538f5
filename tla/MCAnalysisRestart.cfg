CONSTANTS
  Frames = 5
  MaxHeld = 2
  LiveRetries = 2
  LoopDelay = 2
  Far = 3
  MaxCorrections = 1
  Untimed = {}
SPECIFICATION Spec
INVARIANT RestartHonoured
