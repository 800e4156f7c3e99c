SPECIFICATION FairSpec
CONSTANTS
  Ranks = {0}
  Lines = {1, 2}
  Pending = pending
  Reported <- AsAsked
  MaxLaunches = 1
  MaxEdits = 2
  MaxCommands = 1
  MaxStops = 2
INVARIANTS StateFresh
PROPERTIES ShowsLifecycle RanksReleased
CHECK_DEADLOCK FALSE
