SPECIFICATION Spec
CONSTANTS
  Procs = {p1, p2, p3}
  Blocks = {b1, b2, b3}
  MAXOPBLOCKS = 1
  LOGSIZE = 3
  nlog = 3
  MaxOps = 3
  MaxCrashes = 0
INVARIANTS
  LogFits
