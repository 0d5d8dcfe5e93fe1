SPECIFICATION FairSpec
CONSTANTS
  NPROC = 3
  CPUs = {c1}
  NoCPU = NoCPU
  MaxPid = 3
  KillTargets = {2}
PROPERTIES
  ProcessesEnd
