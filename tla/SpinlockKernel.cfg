SPECIFICATION FairSpec
CONSTANTS
  CPUs = {c1, c2}
  Locks = {1, 2}
  NoCPU = NoCPU
  MaxNest = 2
INVARIANTS
  LocksConsistent
  InterruptsSafe
PROPERTIES
  AcquireReturns
