------------------------ MODULE GuildActivityProofs ------------------------
(***************************************************************************)
(* Proofs about GuildActivity, for any number of users and concurrent      *)
(* requests, any limits and any length of the day.                         *)
(***************************************************************************)
EXTENDS GuildActivity, TLAPS

(* The clock has at least the day of every reading. *)
LEMMA DayOfTime == \A t \in Time : Day(t) \in Days
  BY DEF Days

LEMMA ClockStartsInTime == 0 \in Time
  BY ClockAssumption DEF Time

LEMMA DefaultRowType == DefaultRow \in Row /\ StreakBelowThreshold(DefaultRow)
  BY ClockAssumption DEF DefaultRow, Row, Never, States, Time, StreakBelowThreshold

(* assess_human_activity keeps the streak within the threshold, and leaves *)
(* a row that is not frozen below it.                                      *)
LEMMA AssessType ==
  ASSUME NEW s \in Row, NEW t \in Time, StreakBelowThreshold(s)
  PROVE  LET v == assess_human_activity(s, t)
         IN  /\ v.streak \in 0..FreezeThreshold /\ v.state \in States
             /\ v.state # "frozen" => v.streak < FreezeThreshold
<1>1. CASE s.state = "frozen"
  BY <1>1, ClockAssumption DEF assess_human_activity, Row, States
<1>2. CASE s.state # "frozen"
  <2>1. NextStreak(s, t) \in 0..FreezeThreshold
    BY <1>2, ClockAssumption DEF NextStreak, Row, StreakBelowThreshold
  <2>2. QED
    BY <1>2, <2>1, ClockAssumption DEF assess_human_activity, ReviewState, States
<1>3. QED
  BY <1>1, <1>2

(* What a request writes is a row again, given the bound on active days. *)
LEMMA WrittenRowType ==
  ASSUME NEW s \in Row, NEW t \in Time, NEW v,
         v.streak \in 0..FreezeThreshold, v.state \in States,
         v.state # "frozen" => v.streak < FreezeThreshold,
         NEW w \in {ActivityRow(s, t, v),
                    advance_active_day_if_needed(ActivityRow(s, t, v), t)},
         w.days <= MaxActiveDays
  PROVE  w \in Row /\ StreakBelowThreshold(w)
  BY DayOfTime, ClockAssumption
  DEF Row, advance_active_day_if_needed, ActivityRow, CountedRow, StreakBelowThreshold

(* UpdateActivity writes a well-formed row. *)
LEMMA UpdateRowType ==
  ASSUME TypeOK, WriterHoldsLock, StreaksExplained,
         NEW r \in Request, UpdateActivity(r)
  PROVE  row'[r] \in Row /\ StreakBelowThreshold(row'[r])
<1> DEFINE u == user[r]
           v == assess_human_activity(seen[r], at[r])
<1>1. u \in User /\ stats[u] \in Row /\ seen[r] \in Row /\ at[r] \in Time
  BY DEF TypeOK, WriterHoldsLock, UpdateActivity
<1>2. /\ v.streak \in 0..FreezeThreshold /\ v.state \in States
      /\ v.state # "frozen" => v.streak < FreezeThreshold
  BY <1>1, AssessType DEF StreaksExplained
<1>3. row'[r] \in {ActivityRow(stats[u], at[r], v),
                   advance_active_day_if_needed(ActivityRow(stats[u], at[r], v), at[r])}
  BY DEF UpdateActivity, TypeOK
<1>4. row'[r].days <= MaxActiveDays
  BY DEF UpdateActivity
<1> HIDE DEF v
<1>5. QED
  BY <1>1, <1>2, <1>3, <1>4, WrittenRowType

(* Every step keeps the invariant: a request between gate and commit holds *)
(* its user's row lock, so nobody else moves the counter it compared.      *)
LEMMA GateStep ==
  ASSUME GateInv, [Next]_vars
  PROVE  GateInv'
<1> USE ClockAssumption, NoneAssumption, DefaultRowType
        DEF GateInv, TypeOK, WriterHoldsLock, StreaksExplained, GateStillHolds,
            reqVars, history, OverLimit, Capped, Count
<1>1. ASSUME NEW r \in Request, NEW u \in User, NEW a \in Action \cup {None},
             Begin(r, u, a)
      PROVE  GateInv'
  BY <1>1 DEF Begin
<1>2. ASSUME NEW r \in Request, UpdateActivity(r)
      PROVE  GateInv'
  <2>1. row'[r] \in Row /\ StreakBelowThreshold(row'[r])
    BY <1>2, UpdateRowType
  <2>2. /\ row' = [row EXCEPT ![r] = row'[r]]
        /\ pc[r] = "update" /\ lock[user[r]] \in {None, r}
        /\ lock' = [lock EXCEPT ![user[r]] = r]
        /\ seen' = [seen EXCEPT ![r] = DefaultRow]
        /\ pc' = [pc EXCEPT ![r] = "check"]
        /\ UNCHANGED <<now, stats, created, counter, user, act, at, history>>
    BY <1>2 DEF UpdateActivity
  <2>3. QED
    BY <2>1, <2>2
<1>3. ASSUME NEW r \in Request, PassGate(r)
      PROVE  GateInv'
  BY <1>3 DEF PassGate
<1>4. ASSUME NEW r \in Request, CommitUncounted(r)
      PROVE  GateInv'
  <2>1. TypeOK'
    BY <1>4, ClockStartsInTime DEF CommitUncounted, CommitRow, Done
  <2>2. WriterHoldsLock'
    BY <1>4 DEF CommitUncounted, CommitRow, Done
  <2>3. StreaksExplained'
    BY <1>4 DEF CommitUncounted, CommitRow, Done
  <2>4. GateStillHolds'
    BY <1>4 DEF CommitUncounted, CommitRow, Done
  <2>5. QED
    BY <2>1, <2>2, <2>3, <2>4
<1>5. ASSUME NEW r \in Request, CommitCounted(r)
      PROVE  GateInv'
  <2>1. TypeOK'
    BY <1>5, ClockStartsInTime, DayOfTime DEF CommitCounted, CommitRow, Done
  <2>2. WriterHoldsLock'
    BY <1>5 DEF CommitCounted, CommitRow, Done
  <2>3. StreaksExplained'
    BY <1>5 DEF CommitCounted, CommitRow, Done
  <2>4. GateStillHolds'
    BY <1>5, DayOfTime DEF CommitCounted, CommitRow, Done
  <2>5. QED
    BY <2>1, <2>2, <2>3, <2>4
<1>6. ASSUME NEW r \in Request, Rollback(r)
      PROVE  GateInv'
  <2>1. TypeOK'
    BY <1>6, ClockStartsInTime DEF Rollback, Done
  <2>2. WriterHoldsLock'
    BY <1>6 DEF Rollback, Done
  <2>3. StreaksExplained'
    BY <1>6 DEF Rollback, Done
  <2>4. GateStillHolds'
    BY <1>6 DEF Rollback, Done
  <2>5. QED
    BY <2>1, <2>2, <2>3, <2>4
<1>7. ASSUME NEW u \in User, freeze_guild_progression(u)
      PROVE  GateInv'
  BY <1>7 DEF freeze_guild_progression, Review, ActivityRow, Row, States,
     StreakBelowThreshold
<1>8. ASSUME NEW u \in User, unfreeze_guild_progression(u)
      PROVE  GateInv'
  BY <1>8 DEF unfreeze_guild_progression, Review, ActivityRow, Row, States,
     StreakBelowThreshold
<1>9. ASSUME NEW u \in User, get_guild_snapshot(u)
      PROVE  GateInv'
  BY <1>9 DEF get_guild_snapshot
<1>10. CASE prune_guild_history
  <2>1. TypeOK'
    BY <1>10, DayOfTime, LimitAssumption DEF prune_guild_history
  <2>2. WriterHoldsLock'
    BY <1>10 DEF prune_guild_history
  <2>3. StreaksExplained'
    BY <1>10 DEF prune_guild_history
  <2>4. GateStillHolds'
    <3> SUFFICES ASSUME NEW r \in Request, pc[r] = "insert", Capped(r)
                 PROVE  Count(r)' < Limit[act[r]][row[r].days]
      BY <1>10, DayOfTime, LimitAssumption DEF prune_guild_history, Row
    <3>1. /\ user[r] \in User /\ act[r] \in Action /\ Day(at[r]) \in Days
          /\ row[r].days \in 0..MaxActiveDays
      BY DayOfTime DEF Row
    <3>2. Count(r) \in Nat /\ Limit[act[r]][row[r].days] \in Nat
      BY <3>1, LimitAssumption
    <3>3. Count(r) < Limit[act[r]][row[r].days]
      BY <3>1, <3>2
    <3>4. Count(r)' \in {0, Count(r)}
      BY <1>10, <3>1 DEF prune_guild_history
    <3>5. QED
      BY <3>2, <3>3, <3>4
  <2>5. QED
    BY <2>1, <2>2, <2>3, <2>4
<1>11. CASE Tick
  BY <1>11 DEF Tick, Time
<1>12. CASE UNCHANGED vars
  BY <1>12 DEF vars
<1>13. QED
  BY <1>1, <1>2, <1>3, <1>4, <1>5, <1>6, <1>7, <1>8, <1>9, <1>10, <1>11, <1>12
  DEF Next, RequestStep

LEMMA GateInit == Init => GateInv
  BY ClockAssumption, NoneAssumption, DefaultRowType, ClockStartsInTime
  DEF Init, GateInv, TypeOK, WriterHoldsLock, StreaksExplained, GateStillHolds

(* The invariant behind the daily limits holds in every state. *)
THEOREM GateInvHolds == Spec => []GateInv
<1>1. GateInv /\ [Next]_vars => GateInv'
  BY GateStep
<1>2. QED
  BY GateInit, <1>1, PTL DEF Spec

(* Type correctness of guild_service's tables and transactions. *)
THEOREM TypeCorrect == Spec => []TypeOK
<1>1. GateInv => TypeOK
  BY DEF GateInv
<1>2. QED
  BY GateInvHolds, <1>1, PTL

(* The daily limit holds under any number of concurrent requests: what the *)
(* gate of send_message_with_guild saw is still true at the increment.     *)
THEOREM LimitHolds == Spec => []GateStillHolds
<1>1. GateInv => GateStillHolds
  BY DEF GateInv
<1>2. QED
  BY GateInvHolds, <1>1, PTL

(* A later clock reading is never of an earlier day. *)
LEMMA DayMonotone ==
  ASSUME NEW s \in Time, NEW t \in Time, s <= t
  PROVE  Day(s) \in Int /\ Day(t) \in Int /\ Day(s) <= Day(t)
  BY ClockAssumption, Z3T(30) DEF Day, Time

LEMMA DayIsNat == \A t \in Time : Day(t) \in Int /\ Day(t) >= 0
  BY ClockAssumption, Z3T(30) DEF Day, Time

LEMMA RowNumbers == \A s \in Row : s.days \in Int /\ s.lastDay \in Int
  BY DayIsNat DEF Row, Days, Never

LEMMA DefaultRowDay == DefaultRow.days = 0 /\ DefaultRow.lastDay = -1
  BY DEF DefaultRow, Never

(* The written row is dated by its request, and has counted no day twice. *)
LEMMA WrittenRowDay ==
  ASSUME GateInv, DayInv, NEW r \in Request, UpdateActivity(r)
  PROVE  /\ DatedBy(row'[r], Day(now))
         /\ user[r] \notin straddled => /\ DatedBy(row'[r], Day(at[r]))
                                        /\ row'[r].days <= row'[r].lastDay + 1
<1> DEFINE u == user[r]
           v == assess_human_activity(seen[r], at[r])
<1>1. /\ u \in User /\ stats[u] \in Row /\ at[r] \in Time /\ now \in Time
      /\ at[r] <= now /\ DatedBy(stats[u], Day(now)) /\ r \in InFlight(u)
  BY DEF GateInv, TypeOK, WriterHoldsLock, UpdateActivity, DayInv, DatesInPast, InFlight
<1>2. /\ Day(at[r]) \in Int /\ Day(now) \in Int /\ Day(at[r]) <= Day(now)
      /\ stats[u].days \in Int /\ stats[u].lastDay \in Int
  BY <1>1, DayMonotone, RowNumbers
<1>3. u \notin straddled => /\ stats[u].lastDay <= Day(at[r])
                            /\ stats[u].days <= stats[u].lastDay + 1
  BY <1>1 DEF DayInv, OneDayInFlight, ActiveDaysAreDistinct, DatedBy
<1>4. \/ row'[r].days = stats[u].days /\ row'[r].lastDay = stats[u].lastDay
      \/ /\ row'[r].days = stats[u].days + 1 /\ row'[r].lastDay = Day(at[r])
         /\ stats[u].lastDay # Day(at[r])
  <2>1. row'[r] \in {ActivityRow(stats[u], at[r], v),
                     advance_active_day_if_needed(ActivityRow(stats[u], at[r], v), at[r])}
    BY DEF UpdateActivity, GateInv, TypeOK
  <2> HIDE DEF v
  <2>2. QED
    BY <2>1 DEF ActivityRow, advance_active_day_if_needed, CountedRow
<1> HIDE DEF u
<1>5. QED
  BY <1>1, <1>2, <1>3, <1>4 DEF DatedBy, u

(* Every step keeps the dates in order: while a user's requests in flight  *)
(* belong to one day, each row is dated no later than that day.            *)
LEMMA DayStep ==
  ASSUME GateInv, DayInv, [Next]_vars
  PROVE  DayInv'
<1> USE DEF DayInv, DatesInPast, OneDayInFlight, ActiveDaysAreDistinct, InFlight,
            reqVars, history
<1>0. /\ now \in Time /\ stats \in [User -> Row] /\ row \in [Request -> Row]
      /\ pc \in [Request -> {"idle", "update", "check", "insert"}]
      /\ user \in [Request -> User \cup {None}] /\ at \in [Request -> Time]
      /\ lock \in [User -> Request \cup {None}]
      /\ seen \in [Request -> Row] /\ act \in [Request -> Action \cup {None}]
      /\ \A r \in Request : pc[r] # "idle" => user[r] \in User
  BY DEF GateInv, TypeOK, WriterHoldsLock
<1>1. ASSUME NEW r \in Request, NEW u \in User, NEW a \in Action \cup {None},
             Begin(r, u, a)
      PROVE  DayInv'
  <2>1. DatesInPast'
    BY <1>0, <1>1 DEF Begin, Time
  <2>2. OneDayInFlight'
    BY <1>0, <1>1 DEF Begin
  <2>3. ActiveDaysAreDistinct'
    BY <1>0, <1>1 DEF Begin
  <2>4. QED
    BY <2>1, <2>2, <2>3
<1>2. ASSUME NEW r \in Request, UpdateActivity(r)
      PROVE  DayInv'
  <2>1. /\ DatedBy(row'[r], Day(now))
        /\ user[r] \notin straddled => /\ DatedBy(row'[r], Day(at[r]))
                                       /\ row'[r].days <= row'[r].lastDay + 1
    BY <1>2, WrittenRowDay
  <2>2. /\ row' = [row EXCEPT ![r] = row'[r]] /\ pc[r] = "update"
        /\ pc' = [pc EXCEPT ![r] = "check"]
        /\ UNCHANGED <<now, stats, user, at, history>>
    BY <1>2 DEF UpdateActivity
  <2>3. DatesInPast'
    BY <1>0, <2>1, <2>2
  <2>4. OneDayInFlight'
    BY <1>0, <2>1, <2>2
  <2>5. QED
    BY <1>0, <2>2, <2>3, <2>4
<1>3. ASSUME NEW r \in Request, PassGate(r)
      PROVE  DayInv'
  BY <1>0, <1>3 DEF PassGate
<1>4. ASSUME NEW r \in Request, CommitRow(r), Done(r), pc[r] \in {"check", "insert"},
             UNCHANGED <<now, history>>
      PROVE  DayInv'
  <2>1. user[r] \in User /\ r \in InFlight(user[r])
    BY <1>0, <1>4
  <2>2. /\ 0 <= now /\ Day(now) \in Int /\ Day(now) >= 0
    BY <1>0, DayIsNat DEF Time
  <2>3. DatedBy(DefaultRow, Day(now))
    BY <2>2, DefaultRowDay DEF DatedBy
  <2>4. DatesInPast'
    BY <1>0, <1>4, <2>1, <2>2, <2>3 DEF CommitRow, Done
  <2>5. OneDayInFlight'
    BY <1>0, <1>4, <2>1, NoneAssumption DEF CommitRow, Done
  <2>6. ActiveDaysAreDistinct'
    BY <1>0, <1>4, <2>1 DEF CommitRow, Done
  <2>7. QED
    BY <2>4, <2>5, <2>6
<1>5. ASSUME NEW r \in Request, Rollback(r)
      PROVE  DayInv'
  <2>1. /\ 0 <= now /\ Day(now) \in Int /\ Day(now) >= 0
    BY <1>0, DayIsNat DEF Time
  <2>2. DatedBy(DefaultRow, Day(now))
    BY <2>1, DefaultRowDay DEF DatedBy
  <2>3. DatesInPast'
    BY <1>0, <1>5, <2>1, <2>2 DEF Rollback, Done
  <2>4. OneDayInFlight'
    BY <1>0, <1>5, NoneAssumption DEF Rollback, Done
  <2>5. ActiveDaysAreDistinct'
    BY <1>0, <1>5 DEF Rollback, Done
  <2>6. QED
    BY <2>3, <2>4, <2>5
<1>6. ASSUME NEW u \in User, NEW s, Review(u),
             s.days = stats[u].days, s.lastDay = stats[u].lastDay,
             stats' = [stats EXCEPT ![u] = s]
      PROVE  DayInv'
  BY <1>0, <1>6 DEF Review, DatedBy
<1>7. ASSUME NEW u \in User, get_guild_snapshot(u)
      PROVE  DayInv'
  BY <1>7 DEF get_guild_snapshot
<1>8. CASE prune_guild_history
  BY <1>8 DEF prune_guild_history
<1>9. CASE Tick
  <2>1. /\ now' \in Time /\ now <= now' /\ Day(now) \in Int /\ Day(now') \in Int
        /\ Day(now) <= Day(now')
    <3>1. now' \in Time /\ now <= now'
      BY <1>0, <1>9, ClockAssumption DEF Tick, Time
    <3>2. QED
      BY <1>0, <3>1, DayMonotone
  <2>2. DatesInPast'
    <3>1. \A u \in User : DatedBy(stats[u], Day(now'))
      BY <1>0, <2>1, RowNumbers DEF DatedBy
    <3>2. \A r \in Request : at[r] <= now' /\ DatedBy(row[r], Day(now'))
      BY <1>0, <2>1, RowNumbers DEF DatedBy, Time
    <3>3. QED
      BY <1>9, <3>1, <3>2 DEF Tick
  <2>3. QED
    BY <1>9, <2>2 DEF Tick
<1>10. CASE UNCHANGED vars
  BY <1>10 DEF vars
<1>11. \A r \in Request : CommitUncounted(r) \/ CommitCounted(r) => DayInv'
  BY <1>4 DEF CommitUncounted, CommitCounted
<1>12. \A u \in User : freeze_guild_progression(u) \/ unfreeze_guild_progression(u)
                         => DayInv'
  BY <1>6 DEF freeze_guild_progression, unfreeze_guild_progression, ActivityRow
<1>13. QED
  BY <1>1, <1>2, <1>3, <1>5, <1>7, <1>8, <1>9, <1>10, <1>11, <1>12
  DEF Next, RequestStep

(* Concurrent first requests of a day count it once: active_days is at     *)
(* most the number of days begun, for every user whose requests in flight  *)
(* never straddled midnight.                                               *)
THEOREM DaysDistinct == Spec => []ActiveDaysAreDistinct
<1>1. Init => DayInv
  BY DefaultRowDay, DayIsNat, ClockStartsInTime
  DEF Init, DayInv, DatesInPast, OneDayInFlight, ActiveDaysAreDistinct, InFlight, DatedBy
<1>2. GateInv /\ DayInv /\ [Next]_vars => DayInv'
  BY DayStep
<1>3. DayInv => ActiveDaysAreDistinct
  BY DEF DayInv
<1>4. QED
  BY GateInvHolds, <1>1, <1>2, <1>3, PTL DEF Spec

----------------------------------------------------------------------------
(* Without overlaps a user has one request in flight.  It judges by the    *)
(* row as it still is, so what it will write over a frozen row is frozen   *)
(* and counts no day, unless the quiet period has passed.                  *)
StaysFrozen(s, t, w) ==
  s.state = "frozen" => (w.state = "frozen" /\ w.days = s.days) \/ Recovers(s, t)
FrozenInv ==
  \A u \in User \ overlapped : \A r \in InFlight(u) :
    /\ \A q \in InFlight(u) : q = r
    /\ pc[r] = "update" => seen[r] = stats[u]
    /\ pc[r] # "update" => StaysFrozen(stats[u], at[r], row[r])

(* assess_human_activity on a frozen row. *)
LEMMA FrozenRow ==
  ASSUME NEW s \in Row, NEW t \in Time
  PROVE  LET v == assess_human_activity(s, t)
             w == ActivityRow(s, t, v)
         IN  StaysFrozen(s, t, IF v.advance THEN advance_active_day_if_needed(w, t) ELSE w)
<1> DEFINE v == assess_human_activity(s, t)
           w == ActivityRow(s, t, v)
<1>1. CASE s.state = "frozen" /\ ~Recovers(s, t)
  <2>1. v = [advance |-> FALSE, streak |-> s.streak, state |-> "frozen"]
    BY <1>1 DEF assess_human_activity
  <2>2. ~v.advance /\ w.state = "frozen" /\ w.days = s.days
    BY <2>1 DEF ActivityRow
  <2> HIDE DEF v, w
  <2>3. StaysFrozen(s, t, IF v.advance THEN advance_active_day_if_needed(w, t) ELSE w)
    BY <2>2 DEF StaysFrozen
  <2>4. QED BY <2>3 DEF v, w
<1>2. CASE s.state # "frozen" \/ Recovers(s, t)
  BY <1>2 DEF StaysFrozen
<1>3. QED BY <1>1, <1>2

LEMMA FrozenStep ==
  ASSUME GateInv, FrozenInv, [Next]_vars
  PROVE  FrozenInv' /\ \A u \in User \ overlapped : FrozenHolds(u)
<1> USE DEF reqVars, history
<1> DEFINE Kept == FrozenInv' /\ \A u \in User \ overlapped : FrozenHolds(u)
<1>0. /\ stats \in [User -> Row] /\ row \in [Request -> Row] /\ seen \in [Request -> Row]
      /\ pc \in [Request -> {"idle", "update", "check", "insert"}]
      /\ user \in [Request -> User \cup {None}] /\ at \in [Request -> Time]
      /\ overlapped \subseteq User
      /\ \A r \in Request : pc[r] # "idle" => user[r] \in User
  BY DEF GateInv, TypeOK, WriterHoldsLock
<1>a. (UNCHANGED stats) => \A u \in User : FrozenHolds(u)
  BY DEF FrozenHolds
<1>1. ASSUME NEW r \in Request, NEW u \in User, NEW a \in Action \cup {None},
             Begin(r, u, a)
      PROVE  Kept
  <2>1. FrozenInv'
    BY <1>0, <1>1 DEF Begin, FrozenInv, InFlight
  <2>2. QED BY <1>1, <1>a, <2>1 DEF Begin
<1>2. ASSUME NEW r \in Request, UpdateActivity(r)
      PROVE  Kept
  <2>1. /\ pc[r] = "update" /\ pc' = [pc EXCEPT ![r] = "check"]
        /\ UNCHANGED <<stats, user, at, overlapped>> /\ user[r] \in User
    BY <1>0, <1>2 DEF UpdateActivity
  <2>2. user[r] \notin overlapped => StaysFrozen(stats[user[r]], at[r], row'[r])
    <3>1. SUFFICES ASSUME user[r] \notin overlapped
                   PROVE  StaysFrozen(stats[user[r]], at[r], row'[r])
      OBVIOUS
    <3>2. seen[r] = stats[user[r]] BY <1>0, <2>1, <3>1 DEF FrozenInv, InFlight
    <3> DEFINE s == stats[user[r]]
               v == assess_human_activity(s, at[r])
               w == ActivityRow(s, at[r], v)
               x == IF v.advance THEN advance_active_day_if_needed(w, at[r]) ELSE w
    <3>3. row' = [row EXCEPT ![r] = x] BY <1>2, <3>2 DEF UpdateActivity
    <3>4. s \in Row /\ at[r] \in Time BY <1>0, <2>1
    <3>5. StaysFrozen(s, at[r], x) BY <3>4, FrozenRow
    <3> HIDE DEF x
    <3>6. row'[r] = x BY <1>0, <3>3
    <3>7. QED BY <3>5, <3>6
  <2>3. \A q \in Request \ {r} : row'[q] = row[q] /\ seen'[q] = seen[q]
    BY <1>0, <1>2 DEF UpdateActivity
  <2>4. FrozenInv'
    BY <1>0, <2>1, <2>2, <2>3 DEF FrozenInv, InFlight
  <2>5. QED BY <1>a, <2>1, <2>4
<1>3. ASSUME NEW r \in Request, PassGate(r)
      PROVE  Kept
  <2>1. FrozenInv' BY <1>0, <1>3 DEF PassGate, FrozenInv, InFlight
  <2>2. QED BY <1>3, <1>a, <2>1 DEF PassGate
<1>4. ASSUME NEW r \in Request, CommitRow(r), Done(r), pc[r] \in {"check", "insert"},
             UNCHANGED history
      PROVE  Kept
  <2>1. user[r] \in User /\ r \in InFlight(user[r])
    BY <1>0, <1>4 DEF InFlight
  <2>2. FrozenInv'
    BY <1>0, <1>4, <2>1, NoneAssumption DEF FrozenInv, InFlight, CommitRow, Done
  <2>3. ASSUME NEW u \in User \ overlapped PROVE FrozenHolds(u)
    <3>1. CASE u = user[r]
      <4>1. stats'[u] = row[r] BY <1>0, <1>4, <3>1 DEF CommitRow
      <4>2. StaysFrozen(stats[u], at[r], row[r]) BY <1>4, <2>1, <3>1 DEF FrozenInv
      <4>3. QED BY <1>4, <2>1, <3>1, <4>1, <4>2 DEF StaysFrozen, FrozenHolds, Quiet
    <3>2. CASE u # user[r]
      BY <1>0, <1>4, <3>2 DEF CommitRow, FrozenHolds
    <3>3. QED BY <3>1, <3>2
  <2>4. QED BY <2>2, <2>3
<1>5. ASSUME NEW r \in Request, Rollback(r)
      PROVE  Kept
  <2>1. FrozenInv'
    BY <1>0, <1>5, NoneAssumption DEF FrozenInv, InFlight, Rollback, Done
  <2>2. QED BY <1>5, <1>a, <2>1 DEF Rollback
<1>6. ASSUME NEW u \in User, NEW s, Review(u), stats' = [stats EXCEPT ![u] = s],
             \/ s.state = "frozen" /\ s.days = stats[u].days
             \/ unfreeze_guild_progression(u)
      PROVE  Kept
  <2>1. FrozenInv'
    BY <1>0, <1>6 DEF FrozenInv, InFlight, Review
  <2>2. ASSUME NEW x \in User PROVE FrozenHolds(x)
    <3>1. stats'[x] = IF x = u THEN s ELSE stats[x] BY <1>0, <1>6
    <3>2. CASE x = u BY <1>6, <3>1, <3>2 DEF FrozenHolds
    <3>3. CASE x # u BY <3>1, <3>3 DEF FrozenHolds
    <3>4. QED BY <3>2, <3>3
  <2>3. QED BY <2>1, <2>2
<1>7. ASSUME UNCHANGED <<stats, reqVars, overlapped>>
      PROVE  Kept
  <2>1. FrozenInv' BY <1>7 DEF FrozenInv, InFlight
  <2>2. QED BY <1>7, <1>a, <2>1
<1>8. ASSUME NEW u \in User, freeze_guild_progression(u) PROVE Kept
  <2> DEFINE s == ActivityRow(stats[u], stats[u].lastAct,
                              [streak |-> stats[u].streak, state |-> "frozen"])
  <2>1. s.state = "frozen" /\ s.days = stats[u].days BY DEF ActivityRow
  <2>2. stats' = [stats EXCEPT ![u] = s] /\ Review(u) BY <1>8 DEF freeze_guild_progression
  <2> HIDE DEF s
  <2>3. QED BY <1>6, <2>1, <2>2
<1>9. ASSUME NEW u \in User, unfreeze_guild_progression(u) PROVE Kept
  <2> DEFINE s == ActivityRow(stats[u], stats[u].lastAct, [streak |-> 0, state |-> "clear"])
  <2>1. stats' = [stats EXCEPT ![u] = s] /\ Review(u) BY <1>9 DEF unfreeze_guild_progression
  <2> HIDE DEF s
  <2>2. QED BY <1>6, <1>9, <2>1
<1> HIDE DEF Kept
<1>10. \A r \in Request : CommitUncounted(r) \/ CommitCounted(r) => Kept
  BY <1>4 DEF CommitUncounted, CommitCounted
<1>11. (\E u \in User : get_guild_snapshot(u)) \/ prune_guild_history \/ Tick \/ UNCHANGED vars => Kept
  BY <1>7 DEF get_guild_snapshot, prune_guild_history, Tick, vars
<1>12. Kept
  BY <1>1, <1>2, <1>3, <1>5, <1>8, <1>9, <1>10, <1>11 DEF Next, RequestStep
<1>13. QED BY <1>12 DEF Kept

(* For a user whose requests and reviews do not overlap, frozen progress   *)
(* stays frozen until a review or the quiet period, however the requests   *)
(* of other users, rollbacks and the clock go.                             *)
THEOREM FrozenStays == Spec => FrozenUntilReviewOrQuiet
<1>1. Init => FrozenInv
  BY DEF Init, FrozenInv, InFlight
<1>2. GateInv /\ FrozenInv /\ [Next]_vars =>
        FrozenInv' /\ [\A u \in User \ overlapped : FrozenHolds(u)]_vars
  BY FrozenStep
<1>3. QED
  BY GateInvHolds, <1>1, <1>2, PTL DEF Spec, FrozenUntilReviewOrQuiet
=============================================================================
