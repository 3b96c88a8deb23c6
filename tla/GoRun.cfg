\* One client that waits for quiet and pauses nothing: every reason to stop,
\* both directions.
CONSTANTS
  fa = fa  nx = nx  boom = boom  None = None  g1 = g1  g2 = g2
  Files = {fa}  Names = {nx}  Exceptions = {boom}
  Source <- RichLines
  Goroutines = {g1, g2}  Main = Main
  Preloads = {}  Programs <- ProgramsToo
  BpFiles = {fa}  BpLines = {1, 2}  Addresses = {0}  Filters <- Boom  Edits = {nx}  Targets = {None, 2}
  Directions = {TRUE, FALSE}
  Calls = {"launch", "continue", "next", "stepIn", "stepOut", "setBreakpoints",
           "setDataBreakpoint", "setInstructionBreakpoint", "clearAllDataBreakpoints",
           "clearInstructionBreakpoints", "setExceptionBreakpoints",
           "getLocalVariables", "setVariable", "disconnect"}
  Patient = TRUE  MaxRequests = 7
SPECIFICATION Spec
SYMMETRY Threading
INVARIANTS TypeOK OneRun NoBreakpointPassed ToldWhereItIs Survives
PROPERTIES RunsShrink
CHECK_DEADLOCK FALSE
