SPECIFICATION Spec
CONSTANTS
  Procs = {p1, p2}
  First = p1
  NOFILE = 2
  NFILE = 3
  Pipes = {1}
  Fds = {0, 1}
INVARIANTS RefExact ResourcesExact NoMisuse
