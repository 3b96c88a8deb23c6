\* A client that sets the breakpoints of a file again before the first answer.
CONSTANTS
  fa = fa  fb = fb  None = None  t1 = t1  t2 = t2
  Files = {fa, fb}  Names = {}  Exceptions = {}
  Source <- TwoFiles
  Tasks = {t1, t2}  Programs = {fa}  Flaky = {}
  BpFiles = {fa}  BpLines = {0, 1}  Addresses = {}  Targets = {}
  Filters = {}  Edits = {}  Directions = {FALSE}
  MaxBreakpointId = 9  MaxEvents = 30  MinColumn = 0
  LineLists <- SomeLists  Waits = FALSE  MaxRequests = 3
SPECIFICATION HostSpec
INVARIANTS BreakpointsReplaced
CHECK_DEADLOCK FALSE
