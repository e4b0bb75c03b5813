SPECIFICATION Spec
CONSTANTS
  Procs = {p1, p2}
  NINUM = 3
  Names = {"a", "b"}
  Paths <- MCPaths
  Calls = {"create", "mkdir", "unlink", "link", "chdir"}
  MaxLink = 2
INVARIANTS NoDangling DirsFormTree RefsExact NoLockCycle
SYMMETRY MCSymmetry
