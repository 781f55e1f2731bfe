SPECIFICATION Spec
CONSTANTS
  User = {u1}
  Request = {r1, r2}
  None = None
  Action = {message}
  Limit <- MCLimit
  Unlimited = Unlimited
  MaxTime = 4
  MaxActiveDays = 2
  DayLen = 2
  SuspiciousWindow = 2
  RecoveryWindow = 2
  FreezeThreshold = 2
  Retention = 1
SYMMETRY Symmetry
INVARIANTS
  TypeOK
  GateStillHolds
  ActiveDaysAreDistinct
PROPERTY
  FrozenUntilReviewOrQuiet
