SPECIFICATION FrameSpec
CONSTANTS
  TASKS_CAP = 3
  TASK_STACK_CAP = 64
  LOCALS = 2
INVARIANTS FramesStand LeavesThroughOwnFrame StacksLevel
CHECK_DEADLOCK FALSE
