SPECIFICATION FairSpec
CONSTANTS
  NPROC = 6
  NPIPE = 2
  NFILE = 3
  PIPESIZE = 1
  Tokens = {"a", "|", "(", ")", ";", "&", "<", ">", ">>"}
  MaxLen = 5
  Lines <- MCLines
  MAXARGS = 4
INVARIANTS ParseExact ExecFds OutputExact
PROPERTY PromptReturns
CHECK_DEADLOCK FALSE
