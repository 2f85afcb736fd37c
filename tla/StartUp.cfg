SPECIFICATION FairProgramSpec
CONSTANTS
  main = main
  Main = main
  Handles = {main}
  SlaveCnt = 2
  Statuses <- MCStatuses
  Requests <- MCRequests
  MaxWkc = 0
  UsizeValues = 16
  ErrListSize = 2
  DebugLog = FALSE
  MaxErrors = 2
  Rounds = 2
  Cycles = 2
INVARIANTS
  ProgramTypeOK
  CyclesMeanOperational
  FailureHasCause
PROPERTY ProgramEnds
