SPECIFICATION UserFairSpec
CONSTANTS
  TASKS_CAP = 6
  TASK_SIG_CAP = 2
  BootYieldOnly <- BootFive
  Uids = {0}
  Gids = {0}
  KillSigs = {}
  TrapSigs = {}
  Logins = {0}
  KDBG_MAX = 1
  SU_DEPTH = 0
PROPERTY ShellComesBack
CHECK_DEADLOCK FALSE
