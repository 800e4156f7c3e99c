SPECIFICATION Spec
CONSTANTS
  f1 = f1
  f2 = f2
  w1 = w1
  w2 = w2
  elsewhere = elsewhere
  Files = {f1}
  Lines = {1, 2}
  Workspaces = {w1}
  Binaries = {app, demo}
  NoBinary = none
  DefaultBinary = app
  DemoBinary = demo
  Conditions = {cond}
  NoCondition = always
  Off = off
  NoPopover = NoPopover
  Pending = pending
  Reported <- SomeReported
  Stores <- EmptyStores
  MaxEdits = 2
  MaxTabs = 1
  MaxLaunches = 0
  MaxProjects = 0
  MaxSessions = 0
INVARIANT AdapterAgrees
CHECK_DEADLOCK FALSE
