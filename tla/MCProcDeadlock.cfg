SPECIFICATION Spec
CONSTANTS
  NPROC = 4
  None = None
  Tree <- Chain
  MaxPid = 5
  KillPids = {}
  Failures = FALSE
INVARIANT NoLockCycle
CHECK_DEADLOCK FALSE
