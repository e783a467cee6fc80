SPECIFICATION MCSpec
CONSTANTS
  Proc = {p1, p2, p3}
  Block = {b1, b2, b3}
  Val = {0}
  None = None
  MAXOPBLOCKS = 2
  LOGSIZE = 4
  NLOG = 4
  OPBLOCKS = 1
  UINTMOD = 8
  Recycling = TRUE
  Crashes = FALSE
  Cpu0 = c0
  SLOTS = 2
  UINT = 3
  MAXN = 1
  NPROC = 7
  NFILE = 6
  NOFILE = 6
  PIPESIZE = 1
  Programs = {"cat", "echo"}
  Files = {"console", "f"}
  LINES = 2
INVARIANTS LoggedInCache NeverTooBig FilesCounted ProgramDescriptors ForegroundDone
PROPERTIES SleepersWoken 
