SPECIFICATION Spec
CONSTANTS
  Procs = {p1, p2}
  NINODES = 4
  NINODE = 4
  NFILE = 2
  NOFILE = 2
  Elems <- MCElems
  Paths <- MCPaths
  Links <- MCLinks
  MaxCalls = 3
SYMMETRY Symmetric
CHECK_DEADLOCK FALSE
INVARIANTS
  NoDeadlock
