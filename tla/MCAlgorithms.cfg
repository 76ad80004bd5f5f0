SPECIFICATION Spec
CONSTANTS
  BYTE = 4
  BitOr <- ByteOr
  LEAD = 8
  LENGTH = 3
  DIGIT = 2
  GDT_CAP = 5
  SIZE = 256
  Inputs <- SomeInputs
INVARIANTS RegisterWrites AddAndSub PushAndPop
  ClockReadings DayCounts NewYears
  Segments Gates
  Scrolls Strcpys Strcmps DebuggerLines
CHECK_DEADLOCK FALSE
