SPECIFICATION Spec
CONSTANTS
  Ranks = {0}
  Lines = {1, 2}
  Pending = pending
  Reported <- OneResolved
  MaxLaunches = 2
  MaxEdits = 2
  MaxCommands = 1
  MaxStops = 1
INVARIANTS TypeOK TableAgrees NoneMissing
CHECK_DEADLOCK FALSE
