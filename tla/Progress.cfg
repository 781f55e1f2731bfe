SPECIFICATION ProgressSpec
CONSTANTS
  User = {u1}
  Request = {r1, r2}
  None = None
  Action = {message}
  Limit <- MCLimit
  Unlimited = Unlimited
  MaxTime = 1
  MaxActiveDays = 2
  DayLen = 2
  SuspiciousWindow = 2
  RecoveryWindow = 2
  FreezeThreshold = 2
  Retention = 1
  alice = alice bob = bob a1 = a1 b1 = b1
  Person = {alice, bob}
  Session = {a1, b1}
  Call = {c1}
  UserOf <- MCUserOf
  MaxFault = 2
PROPERTIES RequestsEnd SilentCallEnds
