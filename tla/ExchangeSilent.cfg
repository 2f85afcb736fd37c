SPECIFICATION Spec
CONSTANTS
  main = main
  rt = rt
  Handles = {main, rt}
  SlaveCnt = 2
  Statuses <- MCStatuses
  Requests <- MCRequests
  MaxWkc = 0
  UsizeValues = 16
  ErrListSize = 2
  DebugLog = FALSE
  MaxErrors = 2
SYMMETRY Symmetry
INVARIANT AlarmsFollowErrors
