SPECIFICATION MCSpec
CONSTANTS
  User = {u1, y1, y2}
  Request = {x1, x2}
  None = None
  Member = {x1, x2}
  Post = {y1, y2}
  Mark = {k1}
  Nobody = Nobody
  ReadTime = 2
  Letter = {y1, y2}
  Reader = {x1, x2}
  LetterTime = 2
  Person = {a, b}
  Suspect = {a}
  Note = {y1, y2}
  Sender = {s1}
  Threshold = 2
  MaxOpen = 2
SYMMETRY Symmetry
INVARIANTS RoomInv CursorInv ReceiptInv GateInv
PROPERTIES MembersAreKept CursorMovesOn
CHECK_DEADLOCK FALSE
