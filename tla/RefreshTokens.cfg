SPECIFICATION Spec
CONSTANTS
  User = {u1}
  Token = {t1, t2, t3}
  Family = {f1}
  Request = {r1, r2, r3}
  None = None
SYMMETRY Symmetry
CHECK_DEADLOCK FALSE
INVARIANTS
  RotatedNotForked
  ForksAreShared
  NoTokenOutlivesUser
PROPERTY
  OverFamilyStaysOver
