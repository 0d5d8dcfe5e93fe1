SPECIFICATION MCSpec
CONSTANTS
  NPROC = 3
  CPUs = {c1, c2}
  NoCPU = NoCPU
  MaxPid = 4
  KillTargets = {0, 2, 3, 4}
  NFRAMES = 16
  PGSIZE = 2
  NPT = 2
  NPAGES = 6
  MaxCalls = 4
SYMMETRY CPUSymmetry
INVARIANTS
  
  ThreadsSafe
  ExitsNoticed
  InterruptsFollowThread
  FrameOwnedOnce
  AddressSpaceExact
