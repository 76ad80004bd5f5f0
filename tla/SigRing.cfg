SPECIFICATION Spec
CONSTANTS
  TASK_SIG_CAP = 4
  Sig = {5, 10, 14}
INVARIANT RingInv
PROPERTY ImplementsFifo
