SPECIFICATION MCSpec
CONSTANTS
  User = {v1, v2}
  Request = {r1, r2}
  None = None
  Suspect = {u1}
  Reviewer = {daily, q1}
  Daily = daily
  MaxReport = 2
  MaxTime = 1
  DayLen = 2
  ReviewHour = 1
  DueAfter = 1
  RestrictFor = 2
  Repeat = 3
  MaxRestart = 1
  Kinds = {"penalty", "vote"}
  Ref = {x}
  Trusted = {v1}
  RankAt = 2
  Award = 2
  Penalty = 1
  Clawback = 2
  Vote = 2
  Cap = 3
  Cluster = 2
  Window = 0
  Retention = 0
  MaxEvent = 3
  MaxDay = 1
  Entry <- MCEntry
  MaxRows = 2
  MaxDays = 8
  Percent = {50, 100, 120, 250}
  Int32 = 32767
  Owner = {o1}
  Admin = {a1}
  Group = {g1, g2}
  Size = {1, 2}
  MaxCount = 2
  MaxBytes = 3
  MaxStickers = 3
SYMMETRY Symmetry
INVARIANTS ScoreInv PolicyInv ReviewInv StickerInv
PROPERTY StandingIsKept
CHECK_DEADLOCK FALSE
