SPECIFICATION Spec
CONSTANTS
  edited = edited
  popover = popover
  Documents = {edited, popover}
  NoDocument = NoDocument
  MaxCalls = 6
  MaxEnds = 2
INVARIANTS TypeOK AnswersMatch ProtocolKept DocumentsAgree
CHECK_DEADLOCK FALSE
