SPECIFICATION MCSpec
CONSTANTS
  Cpu = {c0, c1}
  Timer = c0
  NPROC = 2
  UINT = 2
  MAXN = 1
  None = None
  p1 = p1
  p2 = p2
  p3 = p3
  Val = {v0, v1}
  PIPESIZE = 2
  PIPEUINT = 4
  PIPEMAXN = 2
SYMMETRY Sym
INVARIANTS OneCpuPerProcess IntrIsTheThreads NoMissedWakeup NoUseAfterFree SleepersNotForgotten
PROPERTY IsFifo
