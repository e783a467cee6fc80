SPECIFICATION Spec
CONSTANTS
  Proc = {p1}
  None = None
  NINODES = 4
  Name = {"x", "y"}
  Paths <- MCPaths
  Ops = {"chdir", "unlink", "mkdir"}
  CALLS = 6
  Trees <- MCTrees
INVARIANTS HasType
