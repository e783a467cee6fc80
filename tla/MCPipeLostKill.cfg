SPECIFICATION Spec
CONSTANTS
  p1 = p1
  p2 = p2
  p3 = p3
  Proc = {p1, p2, p3}
  Ends <- Shared
  Val = {0, 1}
  None = None
  PIPESIZE = 2
  UINT = 4
  MAXN = 3
  Victims = {p3}
INVARIANT KilledIsAwake
CHECK_DEADLOCK FALSE
