SPECIFICATION ScreenSpec
CONSTANTS
  COLS = 3
  ROWS = 2
  TAB = 2
  TEXT = 2
  Writers = {1, 2}
  Terminal <- TwoTerminals
  REVERSED = 3
  Printable = {a, b}
  MAX_CHARS = 4
INVARIANTS ScreenTypeOK CursorsInside ScreenIsThePicture
SYMMETRY Symmetric
CHECK_DEADLOCK FALSE
