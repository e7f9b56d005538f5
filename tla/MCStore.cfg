CONSTANTS
  Entries = {1, 2, 3, 4, 5}
  Length <- MCLength
  Starts <- MCStarts
  Pieces <- MCPieces
  Recordings = {r1, r2, r3}
  Contexts <- MCContexts
  FirstContexts <- MCFirst
  EvidenceChoices <- MCEvidence
  ProgrammeLength = 2000
  AudioSeries = 3
  AdjacentBroadcasts = 2
  MaxAirings = 4
  MaxContexts = 1
  Streams <- MCStreams
  Shortest = 2
  Apart = 2
  MaxSteps = 5
  Processes = {p1, p2}
  Captures = {a, b}
  ContextsOf = {c1, c2}
  a = a
  b = b
  c1 = c1
  c2 = c2
  Nil = Nil
  Commands <- MCCommands
  MaxStarts = 4
SPECIFICATION StoreSpec
SYMMETRY StoreSym
INVARIANTS AdsCarryNoLogo AdsHaveAGround AiringsSound StaleIsTold
PROPERTIES OnePassSettles CommitsWhole
CHECK_DEADLOCK FALSE
