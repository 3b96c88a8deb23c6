\* Filters set before or during an attach.
CONSTANTS
  fa = fa  fb = fb  caught = caught
  h1 = h1  h2 = h2  None = None
  Files = {fa, fb}  Lines = {1}  LineSets = {{}, {1}}  Program = fa
  Filters = {caught}
  Kinds = {"socket"}
  Handlers = {h1, h2}  Waits = FALSE  MaxRequests = 3
SPECIFICATION Spec
INVARIANTS FiltersReattached
CHECK_DEADLOCK FALSE
