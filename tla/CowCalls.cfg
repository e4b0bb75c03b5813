SPECIFICATION Spec
CONSTANTS
  p1 = p1
  p2 = p2
  p3 = p3
  Procs = {p1, p2}
  InitProc = p1
  Pages = {g1, g2, g3}
  NVa = 2
  Values = {v1, v2}
  ImageSize = 2
  ImagePerm <- TextStack
  TableStart = {0}
  Calls = {"fork", "exec", "sbrk", "write"}
  None = None
SYMMETRY Symmetry
INVARIANTS NoLeak NoVmPanic
PROPERTIES PrivateMemories
