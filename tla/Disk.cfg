SPECIFICATION MCSpec
CONSTANTS
  Procs = {p1, p2}
  NBUF = 3
  NBLOCKS = 4
  MaxWrites = 2
  MaxReads = 4
  MaxPins = 1
  MaxFaults = 1
  BSIZE = 2
  BPB = 13
  FSSIZE = 20
  NDIRECT = 1
  NINDIRECT = 2
  nlog = 1
  ninodeblocks = 1
  MAXOPBLOCKS = 6
  NFILES = 1
  FileSizes = {1, 4}
  Counts = {1, 5}
  MaxOps = 3
INVARIANTS
  
  LatestKept
  
  
  TransactionFits
PROPERTIES
  EveryReadReturns
