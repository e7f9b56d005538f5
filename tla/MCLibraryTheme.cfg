CONSTANTS
  Entries = {1, 2, 3, 4, 5}
  Length <- MCLength
  Starts <- MCStarts
  Pieces <- MCPieces
  Recordings = {r1, r2, r3}
  Contexts <- MCContexts
  FirstContexts <- MCFirst
  EvidenceChoices <- MCEvidence
  ProgrammeLength = 2000
  AudioSeries = 3
  AdjacentBroadcasts = 2
  MaxAirings = 4
  MaxContexts = 1
SPECIFICATION Spec
SYMMETRY Sym
PROPERTY BrokenThemeIsProgramme
CHECK_DEADLOCK FALSE
