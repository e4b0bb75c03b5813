SPECIFICATION FairSpec
CONSTANTS
  None = None
  Harts = {h1, h2}
  Procs = {p1, p2}
  initproc = p1
  Irqs = {uart}
  Words = {None}
INVARIANTS TpIsHart ContextKept InterruptsExclusive
PROPERTY IrqServed
VIEW View
