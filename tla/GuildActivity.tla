--------------------------- MODULE GuildActivity ---------------------------
(***************************************************************************)
(* Guild progression and daily limits (services/guild_service.rs): the     *)
(* transaction that every message, sticker upload, contact lookup and read *)
(* receipt runs, with the administrator's freeze and unfreeze.             *)
(*                                                                         *)
(* The transaction reads the user's user_guild_stats row without a lock,   *)
(* judges the activity from that copy, and only then writes the row.  At   *)
(* READ COMMITTED the write waits for the row lock and applies to the      *)
(* newest committed version, which RETURNING hands back.  The lock is held *)
(* to the commit, so lock, uncommitted row and commit are explicit here.   *)
(* The policy is fixed: Limit[a][n] is what effective_daily_limit gives    *)
(* for action a at n active days (Unlimited: no cap or not enforced).      *)
(***************************************************************************)
EXTENDS Integers, FiniteSets

CONSTANTS
  User, Request, None,
  Action,           \* the counted actions: action_key of daily_action_counters
  Limit, Unlimited,
  MaxTime,          \* bound on the clock
  MaxActiveDays,    \* bound on active_days
  DayLen,           \* clock units in a UTC day
  SuspiciousWindow, \* SUSPICIOUS_NEW_DAY_ACTIVITY_WINDOW_MINUTES
  RecoveryWindow,   \* FROZEN_RECOVERY_WINDOW_HOURS
  FreezeThreshold,  \* SUSPICIOUS_ACTIVITY_FREEZE_THRESHOLD
  Retention         \* daily_counter_retention_days

ASSUME ClockAssumption ==
  /\ MaxTime \in Nat /\ MaxActiveDays \in Nat /\ DayLen \in Nat \ {0}
  /\ SuspiciousWindow \in Nat /\ RecoveryWindow \in Nat /\ FreezeThreshold \in Nat \ {0}
  /\ Retention \in Nat \ {0}
ASSUME LimitAssumption ==
  \A a \in Action, n \in 0..MaxActiveDays : Limit[a][n] \in Nat \cup {Unlimited}
ASSUME NoneAssumption == None \notin Request \cup User \cup Action

VARIABLES
  now,        \* the clock
  stats,      \* committed user_guild_stats rows
  created,    \* users whose row exists
  counter,    \* committed daily_action_counters
  lock,       \* the request that holds the row lock of a user, or None
  pc, user, act, at, seen, row,  \* of each request: see Begin
  straddled,  \* history: users with overlapping requests of different days
  overlapped  \* history: users with any overlapping operations

reqVars == <<pc, user, act, at, seen, row>>
history == <<straddled, overlapped>>
vars == <<now, stats, created, counter, lock, reqVars, history>>

Time == 0..MaxTime
Never == -1
Day(t) == t \div DayLen
Days == {Day(t) : t \in Time}

(* The row ensure_user_guild_stats inserts. *)
DefaultRow ==
  [days |-> 0, lastDay |-> Never, lastAct |-> Never, streak |-> 0, state |-> "clear"]

InFlight(u) == {r \in Request : pc[r] # "idle" /\ user[r] = u}

Init ==
  /\ now = 0
  /\ stats = [u \in User |-> DefaultRow]
  /\ created = {}
  /\ counter = [u \in User |-> [a \in Action |-> [d \in Days |-> 0]]]
  /\ lock = [u \in User |-> None]
  /\ pc = [r \in Request |-> "idle"]
  /\ user = [r \in Request |-> None]
  /\ act = [r \in Request |-> None]
  /\ at = [r \in Request |-> 0]
  /\ seen = [r \in Request |-> DefaultRow]
  /\ row = [r \in Request |-> DefaultRow]
  /\ straddled = {} /\ overlapped = {}

----------------------------------------------------------------------------
(* assess_human_activity, on the row s at time t. *)
Recovers(s, t) ==
  /\ s.lastAct = Never \/ t - s.lastAct >= RecoveryWindow
  /\ s.lastDay # Day(t)

SuspiciousNewDay(s, t) ==
  s.lastDay # Day(t) /\ s.lastAct # Never /\ t - s.lastAct < SuspiciousWindow

(* Mutant: the streak is not stopped at zero. *)
NextStreak_NoFloor(s, t) ==
  IF SuspiciousNewDay(s, t) THEN s.streak + 1
  ELSE IF s.lastDay # Day(t) THEN s.streak - 1
  ELSE s.streak

NextStreak(s, t) ==
  IF SuspiciousNewDay(s, t) THEN s.streak + 1
  ELSE IF s.lastDay # Day(t) /\ s.streak > 0 THEN s.streak - 1
  ELSE s.streak

ReviewState(streak) ==
  IF streak >= FreezeThreshold THEN "frozen"
  ELSE IF streak > 0 THEN "challenged" ELSE "clear"

(* Mutant: the frozen state has no rule of its own. *)
assess_human_activity_IgnoreFrozen(s, t) ==
  [advance |-> s.lastDay # Day(t) /\ ~SuspiciousNewDay(s, t),
   streak |-> NextStreak(s, t),
   state |-> ReviewState(NextStreak(s, t))]

assess_human_activity(s, t) ==
  IF s.state = "frozen"
  THEN IF Recovers(s, t)
       THEN [advance |-> TRUE, streak |-> 0, state |-> "clear"]
       ELSE [advance |-> FALSE, streak |-> s.streak, state |-> "frozen"]
  ELSE [advance |-> s.lastDay # Day(t) /\ ~SuspiciousNewDay(s, t),
        streak |-> NextStreak(s, t),
        state |-> ReviewState(NextStreak(s, t))]

----------------------------------------------------------------------------
(* The clock is read, then the transaction starts and copies the row.  A   *)
(* missing row is inserted, which locks it; another insert waits for that. *)
(* act is None for record_human_activity, which counts nothing.            *)
Begin(r, u, a) ==
  /\ pc[r] = "idle"
  /\ u \in created \/ lock[u] = None
  /\ lock' = IF u \in created THEN lock ELSE [lock EXCEPT ![u] = r]
  /\ pc' = [pc EXCEPT ![r] = "update"]
  /\ user' = [user EXCEPT ![r] = u]
  /\ act' = [act EXCEPT ![r] = a]
  /\ at' = [at EXCEPT ![r] = now]
  /\ seen' = [seen EXCEPT ![r] = stats[u]]
  /\ overlapped' = IF InFlight(u) = {} THEN overlapped ELSE overlapped \cup {u}
  /\ straddled' = IF \E q \in InFlight(u) : Day(at[q]) # Day(now)
                  THEN straddled \cup {u} ELSE straddled
  /\ UNCHANGED <<now, stats, created, counter, row>>

(* The two writes of the row: the verdict on the activity, and a new day. *)
ActivityRow(s, t, verdict) ==
  [days |-> s.days, lastDay |-> s.lastDay, lastAct |-> t,
   streak |-> verdict.streak, state |-> verdict.state]
CountedRow(s, t) ==
  [days |-> s.days + 1, lastDay |-> Day(t), lastAct |-> s.lastAct,
   streak |-> s.streak, state |-> s.state]

(* Mutant: the row is not looked at again before the day is counted. *)
advance_active_day_if_needed_NoRecheck(s, t) ==
  CountedRow(s, t)

(* advance_active_day_if_needed, on the row RETURNING gave. *)
advance_active_day_if_needed(s, t) ==
  IF s.lastDay = Day(t) THEN s
  ELSE CountedRow(s, t)

(* Mutant: the row is written without holding its lock to the commit. *)
UpdateActivity_NoLock(r) ==
  LET u == user[r]
      verdict == assess_human_activity(seen[r], at[r])
      updated == ActivityRow(stats[u], at[r], verdict)
  IN  /\ pc[r] = "update"
      /\ row' = [row EXCEPT ![r] =
           IF verdict.advance THEN advance_active_day_if_needed(updated, at[r])
           ELSE updated]
      /\ row'[r].days <= MaxActiveDays
      /\ seen' = [seen EXCEPT ![r] = DefaultRow]
      /\ pc' = [pc EXCEPT ![r] = "check"]
      /\ UNCHANGED <<now, stats, created, counter, lock, user, act, at, history>>

(* update_human_activity_state writes what the copy said over the newest   *)
(* row; the active day is then advanced from that row.                     *)
UpdateActivity(r) ==
  LET u == user[r]
      verdict == assess_human_activity(seen[r], at[r])
      updated == ActivityRow(stats[u], at[r], verdict)
  IN  /\ pc[r] = "update"
      /\ lock[u] \in {None, r}
      /\ lock' = [lock EXCEPT ![u] = r]
      /\ row' = [row EXCEPT ![r] =
           IF verdict.advance THEN advance_active_day_if_needed(updated, at[r])
           ELSE updated]
      /\ row'[r].days <= MaxActiveDays
      /\ seen' = [seen EXCEPT ![r] = DefaultRow]
      /\ pc' = [pc EXCEPT ![r] = "check"]
      /\ UNCHANGED <<now, stats, created, counter, user, act, at, history>>

Count(r) == counter[user[r]][act[r]][Day(at[r])]
Capped(r) == act[r] # None /\ Limit[act[r]][row[r].days] # Unlimited
OverLimit(r) == Capped(r) /\ Count(r) >= Limit[act[r]][row[r].days]

(* daily_action_count and the gate. *)
PassGate(r) ==
  /\ pc[r] = "check" /\ act[r] # None
  /\ ~OverLimit(r)
  /\ pc' = [pc EXCEPT ![r] = "insert"]
  /\ UNCHANGED <<now, stats, created, counter, lock, user, act, at, seen, row, history>>

Done(r) ==
  /\ pc' = [pc EXCEPT ![r] = "idle"]
  /\ user' = [user EXCEPT ![r] = None]
  /\ act' = [act EXCEPT ![r] = None]
  /\ at' = [at EXCEPT ![r] = 0]
  /\ seen' = [seen EXCEPT ![r] = DefaultRow]
  /\ row' = [row EXCEPT ![r] = DefaultRow]

(* Mutant: the row lock survives the commit. *)
CommitRow_KeepLock(r) ==
  /\ stats' = [stats EXCEPT ![user[r]] = row[r]]
  /\ created' = created \cup {user[r]}
  /\ UNCHANGED lock

CommitRow(r) ==
  /\ stats' = [stats EXCEPT ![user[r]] = row[r]]
  /\ created' = created \cup {user[r]}
  /\ lock' = [lock EXCEPT ![user[r]] = None]

(* Limited is an Ok result: the transaction commits the activity all the   *)
(* same.  So does record_human_activity, which has no gate.                *)
CommitUncounted(r) ==
  /\ pc[r] = "check"
  /\ act[r] = None \/ OverLimit(r)
  /\ CommitRow(r) /\ Done(r)
  /\ UNCHANGED <<now, counter, history>>

(* The guarded operation, increment_daily_counter and the commit. *)
CommitCounted(r) ==
  /\ pc[r] = "insert"
  /\ counter' = [counter EXCEPT ![user[r]][act[r]][Day(at[r])] = @ + 1]
  /\ CommitRow(r) /\ Done(r)
  /\ UNCHANGED <<now, history>>

(* An error (yellow card, database, foreign key) or a crash rolls back. *)
Rollback(r) ==
  /\ pc[r] # "idle"
  /\ lock' = [u \in User |-> IF lock[u] = r THEN None ELSE lock[u]]
  /\ Done(r)
  /\ UNCHANGED <<now, stats, created, counter, history>>

----------------------------------------------------------------------------
(* Single UPDATE statements: they wait for the row lock, and change        *)
(* nothing when there is no row.                                           *)
Review(u) ==
  /\ u \in created /\ lock[u] = None
  /\ overlapped' = IF InFlight(u) = {} THEN overlapped ELSE overlapped \cup {u}
  /\ UNCHANGED <<now, created, counter, lock, reqVars, straddled>>

freeze_guild_progression(u) ==
  /\ stats' = [stats EXCEPT ![u] = ActivityRow(@, @.lastAct,
                              [streak |-> @.streak, state |-> "frozen"])]
  /\ Review(u)

unfreeze_guild_progression(u) ==
  /\ stats' = [stats EXCEPT ![u] = ActivityRow(@, @.lastAct,
                              [streak |-> 0, state |-> "clear"])]
  /\ Review(u)

(* get_guild_snapshot runs outside a transaction and only adds the row. *)
get_guild_snapshot(u) ==
  /\ u \notin created /\ lock[u] = None
  /\ created' = created \cup {u}
  /\ UNCHANGED <<now, stats, counter, lock, reqVars, history>>

prune_guild_history ==
  /\ counter' = [u \in User |-> [a \in Action |-> [d \in Days |->
       IF d < Day(now) - Retention THEN 0 ELSE counter[u][a][d]]]]
  /\ UNCHANGED <<now, stats, created, lock, reqVars, history>>

Tick ==
  /\ now < MaxTime
  /\ now' = now + 1
  /\ UNCHANGED <<stats, created, counter, lock, reqVars, history>>

RequestStep(r) ==
  UpdateActivity(r) \/ PassGate(r) \/ CommitUncounted(r) \/ CommitCounted(r)

Next ==
  \/ \E r \in Request, u \in User, a \in Action \cup {None} : Begin(r, u, a)
  \/ \E r \in Request : RequestStep(r) \/ Rollback(r)
  \/ \E u \in User : freeze_guild_progression(u) \/ unfreeze_guild_progression(u)
                       \/ get_guild_snapshot(u)
  \/ prune_guild_history
  \/ Tick

Spec == Init /\ [][Next]_vars

(* A request runs on; a request that waits for a row lock is queued by the *)
(* database, so it is not overtaken for ever.                              *)
Fairness == \A r \in Request : SF_vars(RequestStep(r))
FairSpec == Spec /\ Fairness

----------------------------------------------------------------------------
States == {"clear", "challenged", "frozen"}
Row == [days : 0..MaxActiveDays, lastDay : Days \cup {Never}, lastAct : Time \cup {Never},
        streak : 0..FreezeThreshold, state : States]

TypeOK ==
  /\ now \in Time
  /\ stats \in [User -> Row]
  /\ created \subseteq User
  /\ counter \in [User -> [Action -> [Days -> Nat]]]
  /\ lock \in [User -> Request \cup {None}]
  /\ pc \in [Request -> {"idle", "update", "check", "insert"}]
  /\ user \in [Request -> User \cup {None}]
  /\ act \in [Request -> Action \cup {None}]
  /\ at \in [Request -> Time]
  /\ seen \in [Request -> Row] /\ row \in [Request -> Row]
  /\ straddled \subseteq User /\ overlapped \subseteq User

(* send_message_with_guild and its siblings compare the day's counter with *)
(* the limit and increment it afterwards.  The comparison still holds when *)
(* the increment happens, however many requests of the user run at once:   *)
(* the row written before the comparison is locked until the commit.       *)
GateStillHolds ==
  \A r \in Request : pc[r] = "insert" => ~OverLimit(r)

(* advance_active_day_if_needed: no two days are counted as the same one,  *)
(* so active_days never exceeds the number of days that have begun, even   *)
(* when the first requests of a day overlap.  (It can exceed it when a     *)
(* request of one day commits after a request of the next.)                *)
ActiveDaysAreDistinct ==
  \A u \in User \ straddled : stats[u].days <= stats[u].lastDay + 1

(* Why ActiveDaysAreDistinct: no row is dated ahead of the clock, and as   *)
(* long as a user's requests in flight belong to one day, no row is dated  *)
(* ahead of a request that has still to write it.                          *)
DatedBy(s, d) == s.lastDay <= d
DatesInPast ==
  /\ \A u \in User : DatedBy(stats[u], Day(now))
  /\ \A r \in Request : at[r] <= now /\ DatedBy(row[r], Day(now))
OneDayInFlight ==
  \A u \in User \ straddled : \A r \in InFlight(u) :
    /\ DatedBy(stats[u], Day(at[r]))
    /\ pc[r] # "update" => /\ DatedBy(row[r], Day(at[r]))
                           /\ row[r].days <= row[r].lastDay + 1
    /\ \A q \in InFlight(u) : Day(at[q]) = Day(at[r])

DayInv == DatesInPast /\ OneDayInFlight /\ ActiveDaysAreDistinct

(* Why GateStillHolds: from its first write to its commit a request holds  *)
(* the lock of its user's row, and only such a request increments.         *)
WriterHoldsLock ==
  \A r \in Request :
    /\ pc[r] # "idle" => user[r] \in User
    /\ pc[r] \in {"check", "insert"} => lock[user[r]] = r
    /\ pc[r] = "insert" => act[r] # None

(* A streak at the threshold is only found on a frozen row. *)
StreakBelowThreshold(s) == s.state # "frozen" => s.streak < FreezeThreshold
StreaksExplained ==
  /\ \A u \in User : StreakBelowThreshold(stats[u])
  /\ \A r \in Request : StreakBelowThreshold(seen[r]) /\ StreakBelowThreshold(row[r])

GateInv == TypeOK /\ WriterHoldsLock /\ StreaksExplained /\ GateStillHolds

(* api/openapi.yaml, challenge_state: "frozen" - "progression frozen until *)
(* review or quiet-period clears".                                         *)
Quiet(u) ==
  \E r \in InFlight(u) : pc[r] # "update" /\ Recovers(stats[u], at[r])

FrozenHolds(u) ==
  (stats[u].state = "frozen" /\ stats'[u] # stats[u])
    => \/ stats'[u].state = "frozen" /\ stats'[u].days = stats[u].days
       \/ unfreeze_guild_progression(u)
       \/ Quiet(u)

(* The rule holds for users whose requests and reviews do not overlap.     *)
FrozenUntilReviewOrQuiet == [][\A u \in User \ overlapped : FrozenHolds(u)]_vars

(* No request is left waiting for a row lock: each one ends. *)
RequestsEnd == \A r \in Request : pc[r] # "idle" ~> pc[r] = "idle"
=============================================================================
