SPECIFICATION Spec
CONSTANTS
  x = x
  v1 = v1
  v2 = v2
  None = None
  Names = {x}
  Values = {v1, v2}
  Lines = {0, 1}
  LineKinds = {TRUE, FALSE}
  Entries = {TRUE, FALSE}
  MayFail = FALSE
  MayDie = FALSE
  BreakpointSets = {}
  MaxRequests = 7
  MaxEdits = 1
  Calls = {"run", "pause", "edit", "locals"}
  Patient = TRUE
SYMMETRY Symmetry
INVARIANTS
  TypeOK
  InTurn
  CacheAgrees
CHECK_DEADLOCK FALSE
