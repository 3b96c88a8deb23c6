SPECIFICATION FairSpec
CONSTANTS
  x = x
  v1 = v1
  v2 = v2
  None = None
  Names = {x}
  Values = {}
  Lines = {0, 1}
  LineKinds = {FALSE}
  Entries = {TRUE}
  MayFail = TRUE
  MayDie = TRUE
  BreakpointSets <- Everything
  MaxRequests = 6
  MaxEdits = 0
  Calls = {"run", "breakpoints", "disconnect"}
  Patient = TRUE
INVARIANTS
  AnswersMatch
  NoneForgotten
  BreakpointsAgree
PROPERTIES
  StopsNotified
  ControlReturns
CHECK_DEADLOCK FALSE
