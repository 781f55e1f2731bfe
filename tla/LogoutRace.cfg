SPECIFICATION Spec
CONSTANTS
  User = {u1}
  Token = {t1, t2, t3}
  Family = {f1}
  Request = {r1, r2}
  None = None
INVARIANT
  EndedFamilyHasNoLiveToken
CHECK_DEADLOCK FALSE
