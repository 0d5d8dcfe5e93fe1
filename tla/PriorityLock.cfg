SPECIFICATION FairSpec
CONSTANTS
  CPUs = {c1, c2, c3}
  NoCPU = NoCPU
  Locks = {"lock", "queue_lock"}
  Pids = {3, 4, 5}
  MaxCalls = 3
INVARIANTS
  UpdatesKept
  QueueExact
  PinnedWhileInside
PROPERTIES
  HighestPidFirst
  EveryCallReturns
