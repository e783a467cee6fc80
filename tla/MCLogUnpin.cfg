SPECIFICATION Spec
CONSTANTS
  Proc = {p1, p2}
  Block = {b1, b2}
  Val = {0, 1}
  None = None
  MAXOPBLOCKS = 3
  LOGSIZE = 6
  NLOG = 6
  OPBLOCKS = 2
  UINTMOD = 8
  Recycling = TRUE
  Crashes = TRUE
INVARIANT LoggedInCache
