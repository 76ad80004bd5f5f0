SPECIFICATION Spec
CONSTANTS
  TASKS_CAP = 3
  TASK_SIG_CAP = 2
  BootYieldOnly <- BootTwo
  Uids = {0, 1001}
  Gids = {0, 1001}
  KillSigs = {10}
  TrapSigs = {24}
PROPERTIES RootStaysGivenUp ImplementsProcs
CHECK_DEADLOCK FALSE
