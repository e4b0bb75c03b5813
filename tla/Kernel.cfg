SPECIFICATION KernelSpec
CONSTANTS
  NPROC = 2
  CPUs = {c1, c2}
  Hart0 = c1
  Locks = {l1}
  Victims = {1}
INVARIANTS NoPanic BootedFirst
PROPERTIES RefinesMonitor SleeperWakes RunnableRuns
