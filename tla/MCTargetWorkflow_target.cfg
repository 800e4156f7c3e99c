SPECIFICATION Spec
CONSTANTS
  None = None
  Targets = {"ring", "demo"}
  DeadlockLine <- Deadlocks
  Lines = {1}
  Addresses <- Used
  Image <- Images
  Fixture <- Preview
  FixtureReturn = 13
  FixturePc <- PreviewPc
  FixtureBack <- PreviewBack
  MaxRanks = 2
  MaxWalk = 6
  MaxEdits = 1
  MaxQueue = 2
  MaxHistory = 4
  MaxActs = 3
  Sought = {4, 12}
  Clicked = {3}
INVARIANTS TypeOK CursorIsPc HistoryAtAddress AddressHighlighted ExitedAtReturn
CHECK_DEADLOCK FALSE
