SPECIFICATION MCSpec
CONSTANTS
  Proc = {p1, p2}
  InitProc = p1
  NPAGE = 15
  PGSIZE = 2
  FANOUT = 2
  ADDR = 32
  UINT = 16
  GROW = 3
  MAXARG = 1
  CALLS = 4
  MAXLEAVES = 5
  MAXBRK = 12
  MINCORE = 3
  MAXREQ = 3
  Char = {"x", " ", "<", ">", "|", "&", ";", "(", ")"}
  MAXARGS = 3
  MAXLINE = 5
INVARIANTS PagesAccounted AddressSpaceExact CopiesExactly BlocksTile ParsesLine
PROPERTY Allocates
