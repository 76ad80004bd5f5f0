SPECIFICATION Spec
CONSTANTS
  TASKS_CAP = 3
  TASK_SIG_CAP = 3
  BootYieldOnly <- BootThree
  Uids = {0}
  Gids = {0}
  KillSigs = {14}
  TrapSigs = {}
PROPERTY FaultFinishesItsOwner
CHECK_DEADLOCK FALSE
