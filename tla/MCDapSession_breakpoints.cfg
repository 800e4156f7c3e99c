SPECIFICATION FairSpec
CONSTANTS
  NoTag = NoTag
  x = x
  y = y
  Ranks <- Rank0
  Asks <- NoAsks
  AskMaps <- NoAsks
  Lines = {1, 2}
  MaxSessions = 2
  MaxAsks = 0
  MaxToggles = 2
  MaxStops = 1
  MaxBanners = 0
  MaxExits = 0
  MaxErrors = 0
  MaxTerminates = 1
INVARIANTS BreakpointsSynced
PROPERTIES HandshakeCompletes
CHECK_DEADLOCK FALSE
