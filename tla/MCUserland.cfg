SPECIFICATION UserSpec
CONSTANTS
  TASKS_CAP = 6
  TASK_SIG_CAP = 2
  BootYieldOnly <- BootFive
  Uids = {0, 1001}
  Gids = {0, 1001}
  KillSigs = {}
  TrapSigs = {}
  Logins = {0, 1001}
  KDBG_MAX = 1
  SU_DEPTH = 1
INVARIANTS NeverHalts SlotsAsInitThinks UidIsTheLogins
CHECK_DEADLOCK FALSE
