SPECIFICATION Spec
CONSTANTS
  TASKS_CAP = 3
  TASK_SIG_CAP = 3
  BootYieldOnly <- BootThree
  Uids = {0}
  Gids = {0}
  KillSigs = {4, 5, 14}
  TrapSigs = {13}
INVARIANTS TypeOK InitImmortal CurrentRunnable OwnContext ClosedFormsAreTheLoops
PROPERTIES DeathHasCause StopHolds NoProcessesNeedsStoppedInit ImplementsProcs
CHECK_DEADLOCK FALSE
