SPECIFICATION Spec
CONSTANTS
  Proc = {p1, p2}
  InitProc = p1
  NPAGE = 15
  PGSIZE = 2
  FANOUT = 2
  ADDR = 32
  UINT = 16
  GROW = 3
  MAXARG = 1
  CALLS = 5
  Images <- MCImages
INVARIANT UvmcopyReturns
