\* A client attaches to a server that was given no program, stops, and goes on.
CONSTANTS
  fa = fa  nx = nx  boom = boom  None = None  g1 = g1  g2 = g2
  Files = {fa}  Names = {nx}  Exceptions = {boom}
  Source <- ShortLines
  Goroutines = {g1, g2}  Main = Main
  Preloads = {}  Programs = {fa}
  BpFiles = {fa}  BpLines = {1}  Addresses = {}  Filters = {}  Edits = {}  Targets = {}
  Directions = {FALSE}
  Calls = {"launch", "attach", "continue", "pause", "setBreakpoints"}
  Patient = TRUE  MaxRequests = 4
SPECIFICATION Spec
INVARIANTS Survives
CHECK_DEADLOCK FALSE
