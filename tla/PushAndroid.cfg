SPECIFICATION Spec
CONSTANTS
  User = {u1}
  Token = {i1, a1}
  Dispatch = {d1}
  None = None
  Ios = {i1}
  Voip = {}
  Android = {a1}
INVARIANT RelayReachesAll
CHECK_DEADLOCK FALSE
