SPECIFICATION FairSpec
CONSTANTS
  NoWatch = NoWatch
  Unknown = Unknown
  Gone = Gone
  x = x
  Watches = {x}
  Local = {x}
  MaxBreakpoints = 2
  MaxSessions = 2
  MaxStops = 3
  MaxWatches = 1
  MaxCommands = 1
INVARIANTS TypeOK WatchesFresh ObjectsKnown AlertCurrent AlertSettled
PROPERTIES AnswersEnd
CHECK_DEADLOCK FALSE
