SPECIFICATION Spec
CONSTANTS
  NPROC = 2
  CPUs = {c1}
  NoCPU = NoCPU
  MaxPid = 3
  KillTargets = {2, 3}
PROPERTIES
  ForkedAlive
