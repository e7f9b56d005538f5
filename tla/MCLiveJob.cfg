CONSTANTS
  Capacity = 1
  Starts = {0}
  Sizes = {1}
  MaxMessages = 4
  Span = 1
  Hop = 1
  MaxVersion = 1
  MaxBusy = 1
SPECIFICATION JobSpec
INVARIANTS
  CountExact
  InPlace
  DrainedComplete
  WithinCapacity
  NoCodeForgotten
  ExitSound
PROPERTIES
  JobEnds
  IndexReachesMatcher
