SPECIFICATION Spec
CONSTANTS
  p1 = p1
  p2 = p2
  p3 = p3
  Procs = {p1, p2, p3}
  InitProc = p1
  Pages = {g1, g2, g3, g4}
  NVa = 1
  Values = {v1, v2}
  ImageSize = 1
  ImagePerm <- OnePage
  TableStart = {0}
  Calls = {"fork", "wait", "status", "write"}
  None = None
SYMMETRY Symmetry
INVARIANTS RefcountExact WritableIsPrivate
PROPERTIES Isolation
