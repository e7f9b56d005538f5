CONSTANTS
  Capacity = 1
  Starts = {0}
  Sizes = {1}
  MaxMessages = 3
  Span = 1
  Hop = 1
  MaxVersion = 1
  MaxBusy = 1
SPECIFICATION JobSpec
INVARIANT BusyRetried
