SPECIFICATION Spec
CONSTANTS
  Reports <- MCReports
  Binary <- MCBinary
  Replacements <- MCReplacements
  RankCount = 2
  Home <- MCHome
  Places = {1, 2, 3, 5}
  Entry = 1
  Mapped = {1, 2, 3}
  Headers <- MCHeaders
  Closed = {"C"}
  MaxActs <- MCMaxActs
INVARIANTS TypeOK GraphFaithful ViewsCurrent
CHECK_DEADLOCK FALSE
