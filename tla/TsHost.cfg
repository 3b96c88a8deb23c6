\* Requests of a client that waits for one set of a file before the next, over
\* files one of which may not be readable; ids and events are not bounded otherwise.
CONSTANTS
  fa = fa  fb = fb  None = None  t1 = t1  t2 = t2
  Files = {fa, fb}  Names = {}  Exceptions = {}
  Source <- TwoFiles
  Tasks = {t1, t2}  Programs = {fa}  Flaky = {fb}
  BpFiles = {fa, fb}  BpLines = {0, 1}  Addresses = {}  Targets = {}
  Filters = {}  Edits = {}  Directions = {FALSE}
  MaxBreakpointId = 9  MaxEvents = 30  MinColumn = 0
  LineLists <- SomeLists  Waits = TRUE  MaxRequests = 3
SPECIFICATION HostFairSpec
INVARIANTS BreakpointsReplaced
PROPERTIES StaysVerified OneNoticePerCommand Answered
CHECK_DEADLOCK FALSE
