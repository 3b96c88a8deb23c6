CONSTANTS
  fa = fa  fb = fb  nx = nx  boom = boom  None = None  t1 = t1  t2 = t2  t3 = t3
  Files = {fa, fb}  Names = {nx}  Exceptions = {boom}
  Source <- TwoTexts
  Plus <- SecondDown  Minus <- FirstUp  Lazy <- FirstUp
  Tasks = {t1, t2, t3}  Launcher = t1  Programs = {fa}  Flaky = {fb}
  BpFiles = {fa, fb}  BpLines = {1}  LineLists <- SomeLists
  Addresses = {1}  Targets = {}
  Filters <- Boom  Edits = {nx}  AccessTypes <- Reads  Directions = {TRUE, FALSE}
  MaxBreakpointId = 3  MaxEvents = 0  MinColumn = 0  MaxInstruction = 2  MaxRequests = 4
SPECIFICATION LocalFairSpec
INVARIANTS LocalTypeOK OneFileDebugged
PROPERTIES StaysPut EndsPastAll LocalRunsEnd OneStopPerRequest
CHECK_DEADLOCK FALSE
