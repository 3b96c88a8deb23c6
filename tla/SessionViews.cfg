\* A program that assigns twice, and a client that edits in every way; two
\* fetches and two progress sequences.
CONSTANTS
  None = None  nx = nx  lazy = lazy  n1 = n1  s1 = s1  s2 = s2
  letter = letter  other = other  bad = bad  r1 = r1  r2 = r2  p1 = p1  p2 = p2
  Names = {nx, lazy}  LazyNames = {lazy}
  Plain = {n1}  Structures = {s1, s2}
  Letters = {letter}  Replacement = other  Invalid = bad  Width = 2
  Fetches = {r1, r2}  Progresses = {p1, p2}
  Globals = 3  Polls = 2  MaxObjects = 2
SPECIFICATION MCSpec
INVARIANTS TypeOK EditsStay OnlyAskedCutShort
PROPERTIES LongRequestsEnd
CHECK_DEADLOCK FALSE
