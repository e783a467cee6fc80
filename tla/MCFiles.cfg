SPECIFICATION MCSpec
CONSTANTS
  Proc = {p1, p2}
  Block = {b1, b2}
  Val = {0, 1}
  None = None
  MAXOPBLOCKS = 3
  LOGSIZE = 6
  NLOG = 6
  OPBLOCKS = 2
  UINTMOD = 8
  Recycling = FALSE
  Crashes = TRUE
  NBLOCK = 6
  BSIZE = 2
  NDIRECT = 1
  NINDIRECT = 1
  Zero = Zero
  va = va
  vb = vb
  vc = vc
  vx = vx
  Root = Root
  f1 = f1
  f2 = f2
  d1 = d1
  d2 = d2
  MAXN = 3
  MAXCHUNK = 2
  UINT = 16
  NINODES = 4
  Ops = {"open", "chdir", "link", "unlink", "mkdir", "creat"}
  CALLS = 3
SYMMETRY Sym
INVARIANTS CommitAlone BlocksOwnedOnce WrittenBack RefsCounted NoDanglingEntry
PROPERTIES AtomicAcrossCrashes FilesAreBytes
