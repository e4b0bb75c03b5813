SPECIFICATION Spec
CONSTANTS
  Procs = {p1, p2}
  Opens = {"f", "g"}
  Inums = {1, 2}
  InodeOf <- MCInode
  NBlocks = 5
  BSIZE = 2
  NDIRECT = 1
  NINDIRECT = 3
  MAXOPBLOCKS = 6
  WORD = 16
  WriteSizes <- MCWrites
  ReadSizes <- MCReads
  MaxCalls = 4
INVARIANTS ContentExact ReadsExact BlocksAccounted OpFitsLog
SYMMETRY Symmetry
VIEW InUse
