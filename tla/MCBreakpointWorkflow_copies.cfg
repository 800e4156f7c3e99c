SPECIFICATION Spec
CONSTANTS
  f1 = f1
  f2 = f2
  w1 = w1
  w2 = w2
  elsewhere = elsewhere
  Files = {f1, f2}
  Lines = {1, 2}
  Workspaces = {w1, w2}
  Binaries = {app, demo}
  NoBinary = none
  DefaultBinary = app
  DemoBinary = demo
  Conditions = {}
  NoCondition = always
  Off = off
  NoPopover = NoPopover
  Pending = pending
  Reported <- SomeReported
  Stores <- OneStore
  MaxEdits = 2
  MaxTabs = 1
  MaxLaunches = 1
  MaxProjects = 1
  MaxSessions = 1
INVARIANTS TypeOK ViewsAgree RanksAgree
PROPERTIES CancelRestores SavesOneLine
CHECK_DEADLOCK FALSE
