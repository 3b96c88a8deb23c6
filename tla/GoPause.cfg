\* Pauses at any time, over a program that was launched or was running before.
CONSTANTS
  fa = fa  nx = nx  boom = boom  None = None  g1 = g1  g2 = g2
  Files = {fa}  Names = {nx}  Exceptions = {boom}
  Source <- ShortLines
  Goroutines = {g1, g2}  Main = Main
  Preloads = {fa}  Programs = {fa}
  BpFiles = {fa}  BpLines = {1}  Addresses = {}  Filters = {}  Edits = {}  Targets = {}
  Directions = {FALSE}
  Calls = {"launch", "attach", "continue", "next", "pause", "setBreakpoints"}
  Patient = FALSE  MaxRequests = 3
SPECIFICATION FairSpec
INVARIANTS NeverLeftWaiting
PROPERTIES ClientTold RunsEnd
CHECK_DEADLOCK FALSE
