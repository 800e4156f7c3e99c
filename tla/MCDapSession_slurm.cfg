SPECIFICATION Spec
CONSTANTS
  NoTag = NoTag
  x = x
  y = y
  Ranks <- Ranks01
  Asks <- NoAsks
  AskMaps <- NoAsks
  Lines = {}
  MaxSessions = 1
  MaxAsks = 1
  MaxToggles = 0
  MaxStops = 2
  MaxBanners = 1
  MaxExits = 1
  MaxErrors = 1
  MaxTerminates = 2
INVARIANTS JobNeverForgotten
CHECK_DEADLOCK FALSE
