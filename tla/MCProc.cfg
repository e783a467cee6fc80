SPECIFICATION FairSpec
CONSTANTS
  NPROC = 3
  None = None
  Tree <- Chain
  MaxPid = 5
  KillPids = {3}
  Failures = TRUE
INVARIANTS LivingParent NoMissedChild
  
CHECK_DEADLOCK FALSE
