SPECIFICATION Spec
CONSTANTS
  Procs = {p1, p2}
  NPAGE = 22
  PGSIZE = 2
  Segs <- MCSegs
  WORD = 64
  MaxSize = 9
  NoProc = NoProc
INVARIANTS PagesExact CopiesExact
PROPERTY RefinesPageMap
VIEW Shape
