SPECIFICATION MCSpec
CONSTANTS
  Session = {s1, s2}
  Family = {f1, f2, f3}
  Request = {r1, r2, r3}
  User = {u1, u2}
  Token = {t1, t2}
  None = None
  MaxFault = 1
  MaxHanded = 2
  MaxBroken = 1
  Admin = {a1, a2}
  AgentToken = {g1}
  Call = {c1, c2}
  Lifetime = {None, 1}
  MaxTime = 1
  Editor = {e1, e2}
SYMMETRY Symmetry
INVARIANTS QrInv ResetInv AccessInv SettingsInv
PROPERTY SpentStaysSpent
CHECK_DEADLOCK FALSE
