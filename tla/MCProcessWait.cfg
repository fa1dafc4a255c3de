SPECIFICATION ProcFairSpec
CONSTANTS
  MAX_TID = 3
  Task = {1, 2, 3}
  Boot = 1
  WaitList = {}
  TIC_MAX = 1
  ExitCode = {0, 1}
PROPERTIES WaitReturnsExitCode
