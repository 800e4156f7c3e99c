SPECIFICATION Spec
CONSTANTS
  Ranks = {0, 1}
  Locals = "locals"
  Fields <- OneStructure
  MaxStops = 2
  MaxResumes = 1
  MaxSelects = 1
INVARIANTS TypeOK RowsOfCurrentRank RowsAlive LocalsComplete
CHECK_DEADLOCK FALSE
