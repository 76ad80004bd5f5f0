SPECIFICATION Spec
CONSTANTS
  TTYS_CAP = 2
  INPUT_BUF_CAP = 3
  COUNT = 1
  Readers = {0, 1}
  Chars = {"a"}
  Mutes = {}
  MAX_UNREAD = 4
  TypedOn = {0}
  Held = {"F2"}
INVARIANTS TypeOK ReadsInOrder SizeNeverAhead
