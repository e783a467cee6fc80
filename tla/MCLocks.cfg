SPECIFICATION MCSpec
CONSTANTS
  Proc = {p1, p2}
  Block = {b1, b2, b3, b4}
  Val = {v0, v1}
  None = None
  NBUF = 3
  PINS = 1
  Cpu = {c1, c2}
  Lock = {1, 2}
  IntrLock = {1}
  DEPTH = 2
SYMMETRY Sym
INVARIANTS Coherent NeverOutOfBuffers NoSleeperForgotten MutualExclusion
PROPERTY InterruptsRestored
