SPECIFICATION FairSpec
CONSTANTS
  None = None
  Threads = {t1, t2}
  Blocks = {b1, b2}
  Vals = {v1, v2}
  MAXOPBLOCKS = 2
  LOGSIZE = 4
  LogBlocks = 4
INVARIANTS QuietIsDurable NoMisuse
PROPERTIES RefinesAtomicDisk BeginReturns
