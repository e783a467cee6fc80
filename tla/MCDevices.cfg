SPECIFICATION MCSpec
CONSTANTS
  Proc = {p1, p2, p3}
  Val = {0, 1}
  None = None
  NUM = 8
  WRAP = 16
  START = 14
  REQUESTS = 4
  Reader = {q1, q2}
  Char = {a}
  INPUT_BUF = 3
  UINT = 6
  MAXN = 2
  Victims = {q1}
SYMMETRY Sym
INVARIANTS TransfersDone ChainsIntact SleepersRemembered
PROPERTIES IsTerminal EofEndsARead
