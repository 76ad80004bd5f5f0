SPECIFICATION FairSpec
CONSTANTS
  TASKS_CAP = 3
  TASK_SIG_CAP = 2
  BootYieldOnly <- BootThree
  Uids = {0}
  Gids = {0}
  KillSigs = {10, 5, 14}
  TrapSigs = {}
PROPERTIES NoStarvation LethalSignalKills
CHECK_DEADLOCK FALSE
