SPECIFICATION ProcFairSpec
CONSTANTS
  MAX_TID = 4
  Task = {1, 2, 3, 4}
  Boot = 1
  WaitList = {}
  TIC_MAX = 1
  ExitCode = {0, 1}
INVARIANTS SchedInv ProcInv
PROPERTIES ZombieStaysDead EveryRunnableProcessRuns ProcessUsesScheduler
