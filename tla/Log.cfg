SPECIFICATION FairSpec
CONSTANTS
  Procs = {p1, p2, p3}
  Blocks = {b1, b2}
  MAXOPBLOCKS = 1
  LOGSIZE = 2
  nlog = 3
  MaxOps = 3
  MaxCrashes = 2
INVARIANTS
  LogConsistent
PROPERTIES
  CrashAtomic
  EveryOpEnds
