\* A client changes breakpoints and filters at any time around a launch or attach.
CONSTANTS
  fa = fa  fb = fb  caught = caught
  h1 = h1  h2 = h2  None = None
  Files = {fa, fb}  Lines = {1, 2}  LineSets = {{}, {1}, {1, 2}}  Program = fa
  Filters = {caught}
  Kinds = {"inprocess", "child", "socket"}
  Handlers = {h1, h2}  Waits = TRUE  MaxRequests = 5
SPECIFICATION FairSpec
INVARIANTS TypeOK BreakpointsReach FiltersReach
PROPERTIES StartedConfigured HandlersEnd
CHECK_DEADLOCK FALSE
