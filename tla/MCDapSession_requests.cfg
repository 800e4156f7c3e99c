SPECIFICATION Spec
CONSTANTS
  NoTag = NoTag
  x = x
  y = y
  Ranks <- Rank0
  Asks <- TwoAsks
  AskMaps <- EvalAndHeatmap
  Lines = {}
  MaxSessions = 2
  MaxAsks = 2
  MaxToggles = 0
  MaxStops = 1
  MaxBanners = 0
  MaxExits = 0
  MaxErrors = 0
  MaxTerminates = 0
INVARIANTS TypeOK AttributionSound Correlation
PROPERTIES KeepsLedger
CHECK_DEADLOCK FALSE
