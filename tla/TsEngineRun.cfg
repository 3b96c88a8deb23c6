\* Running one program with every reason to stop, both directions, and a breakpoint
\* of it or of a second file, whose breakpoints switch the text.
CONSTANTS
  fa = fa  fb = fb  nx = nx  boom = boom  None = None  t1 = t1
  Files = {fa, fb}  Names = {nx}  Exceptions = {boom}
  Source <- TwoTexts
  Tasks = {t1}  Programs <- ProgramOrNone  Flaky = {}
  BpFiles = {fa, fb}  BpLines = {1}  Addresses = {1}  Targets = {0}
  Filters <- Boom  Edits = {nx}  Directions = {TRUE, FALSE}
  MaxBreakpointId = 1  MaxEvents = 0  MinColumn = 0
SPECIFICATION Spec
INVARIANTS InstructionOnLine NoBreakpointPassed SourceSettled VerifiedWhenSettled
CHECK_DEADLOCK FALSE
