SPECIFICATION Spec
CONSTANTS
  TASKS_CAP = 3
  TASK_SIG_CAP = 3
  BootYieldOnly <- BootThree
  Uids = {0}
  Gids = {0}
  KillSigs = {5, 14}
  TrapSigs = {}
INVARIANT NoProcessesMeansNone
CHECK_DEADLOCK FALSE
