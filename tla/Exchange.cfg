SPECIFICATION Spec
CONSTANTS
  main = main
  rt = rt
  Handles = {main, rt}
  SlaveCnt = 2
  Statuses <- MCStatuses
  Requests <- MCRequests
  MaxWkc = 0
  UsizeValues = 16
  ErrListSize = 2
  DebugLog = TRUE
  MaxErrors = 3
SYMMETRY Symmetry
INVARIANTS
  TypeOK
  FailureClearsOlderErrors
  AlarmsBounded
  StatesAreObserved
  CheckedStateIsShared
  BroadcastAsAsked
