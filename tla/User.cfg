SPECIFICATION MCSpec
CONSTANTS
  Lines <- MCLines
  RunLines <- MCRun
  MAXARGS = 3
  NPROC = 6
  START = 2
  LIMIT = 14
  MINCORE = 4
  Sizes = {2, 3, 5}
  MaxCalls = 7
  Patterns <- MCPatterns
  Texts <- MCTexts
  Inputs <- MCInputs
  BUFSIZE = 5
  MaxRead = 4
  MemSize = 5
  Bits = 5
  Bases = {2, 3, 10}
  DIRSIZ = 2
  PathLen = 6
  MaxSz = 16
  Numbers <- MCNumbers
INVARIANTS
  ParserSplits
  Plumbed
  HeapConsistent
  GrepExact
  
PROPERTIES
  LineEnds
