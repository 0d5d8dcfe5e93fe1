SPECIFICATION MCSpec
CONSTANTS
  Procs = {3, 4, 5}
  NoProc = 0
  MaxCalls = 2
  Users = {"u1", "u2", "u3"}
  PIPESIZE = 2
  INPUT_BUF = 2
  WRAP = 4
  Counts = {1, 3}
  Sleeps <- MCSleeps
  MaxBytes = 5
  MaxKeys = 4
  MaxKills = 1
  MaxSyscalls = 1
INVARIANTS
  SleepLockExclusive
  SleepersMustWait
  PipeConsistent
  SyscallResults
PROPERTIES
  
  ConsoleReads
  CallsReturn
