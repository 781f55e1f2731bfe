----------------------------- MODULE Moderation -----------------------------
(***************************************************************************)
(* Reports and their review (services/moderation_service.rs): reports are  *)
(* filed, administrators resolve one at a time, and a task of the server   *)
(* resolves all overdue ones once a day in one transaction.                *)
(*                                                                         *)
(* Both read the reports they will resolve, and never ask again: the       *)
(* UPDATE of a report waits for its row and writes whatever it finds.      *)
(* apply_temporary_dm_restriction_conn copies the user's row and writes    *)
(* both columns from the copy.  So of each transaction there are what it   *)
(* still has to resolve (plan), the copy (copy), its uncommitted changes   *)
(* (until1, warned1, suspends, resolves), and the locks these take.  The   *)
(* reports are about messages: to remove a profile locks the user's row    *)
(* before it is copied, which leaves fewer orders of steps.                *)
(***************************************************************************)
EXTENDS Naturals, FiniteSets

CONSTANTS
  User, Request, None,
  Daily,        \* the request that is the daily review; the others are administrators
  MaxReport,    \* bound on the reports filed
  MaxTime,      \* bound on the clock
  DayLen, ReviewHour,  \* clock units of a day; DAILY_AUTO_REVIEW_HOUR_UTC
  DueAfter,     \* review_due_at - created_at
  RestrictFor,  \* MODERATOR_DM_RESTRICTION_DAYS
  Repeat,       \* overdue reports that suspend
  MaxRestart    \* bound on restarts of the server

VARIABLES
  now,
  filed,        \* number of reports: their ids are 1..filed, in order of created_at
  of, risky, made,    \* reported user, excerpt with a blocked term, created_at
  status, action,     \* status and resolution_action of each report
  cleared,      \* reports whose content is removed
  active, until, warned,    \* is_active, dm_restricted_until, safety_warning_count
  pc, plan, copy, stamp, until1, warned1, suspends, resolves, \* of each request
  lastRun,      \* LAST_DAILY_AUTO_REVIEW_DAY of the process
  runDay,       \* today, of the pass that runs
  restarts,
  doubled,      \* history: reports under review by two requests at once
  entangled,    \* history: users of two reviews at once
  warnings,     \* history: restrictions committed against each user
  reinstated    \* history: users whom an administrator activated

reports == <<filed, of, risky, made, status, action, cleared>>
accounts == <<active, until, warned>>
local == <<plan, copy, stamp, until1, warned1, suspends, resolves>>
server == <<lastRun, runDay, restarts>>
history == <<doubled, entangled, warnings, reinstated>>
vars == <<now, reports, accounts, pc, local, server, history>>

Report == 1..MaxReport
Filed == 1..filed
Day(t) == t \div DayLen

Actions == {"dismiss", "remove", "limit", "suspend", "remove_suspend"}
Removes(a) == a \in {"remove", "limit", "remove_suspend"}
Suspends(a) == a \in {"suspend", "remove_suspend"}

(* Requests that have locked the row of a user or of a report. *)
LocksUser(r, u) == until1[r][u] # None \/ u \in suspends[r]
UserLocked(r, u) == \E q \in Request \ {r} : LocksUser(q, u)
ReportLocked(r, p) == \E q \in Request \ {r} : resolves[q][p] # None

NoPlan == [p \in Report |-> None]
NoRow == [u \in User |-> None]
Planned(r) == {p \in Report : plan[r][p] # None}
Current(r) == CHOOSE p \in Planned(r) : \A q \in Planned(r) : p <= q

Init ==
  /\ now = 0 /\ filed = 0
  /\ of = [p \in Report |-> None] /\ risky = {} /\ made = [p \in Report |-> 0]
  /\ status = [p \in Report |-> "none"] /\ action = [p \in Report |-> None]
  /\ cleared = {}
  /\ active = User /\ until = [u \in User |-> 0] /\ warned = [u \in User |-> 0]
  /\ pc = [r \in Request |-> "idle"] /\ plan = [r \in Request |-> NoPlan]
  /\ copy = [r \in Request |-> <<0, 0>>] /\ stamp = [r \in Request |-> 0]
  /\ until1 = [r \in Request |-> NoRow] /\ warned1 = [r \in Request |-> NoRow]
  /\ suspends = [r \in Request |-> {}] /\ resolves = [r \in Request |-> NoPlan]
  /\ lastRun = None /\ runDay = 0 /\ restarts = 0
  /\ doubled = {} /\ entangled = {} /\ reinstated = {}
  /\ warnings = [u \in User |-> 0]

----------------------------------------------------------------------------
create_report_conn(u, bad) ==
  /\ filed < MaxReport
  /\ filed' = filed + 1
  /\ of' = [of EXCEPT ![filed'] = u]
  /\ made' = [made EXCEPT ![filed'] = now]
  /\ risky' = IF bad THEN risky \cup {filed'} ELSE risky
  /\ status' = [status EXCEPT ![filed'] = "open"]
  /\ UNCHANGED <<now, action, cleared, accounts, pc, local, server, history>>

(* Requests with reports still to resolve or resolved but not committed.   *)
UnderReview(r) == Planned(r) \cup {p \in Report : resolves[r][p] # None}

Begin(r, p2a) ==
  LET mine == {p \in Report : p2a[p] # None}
      theirs == UNION {UnderReview(q) : q \in Request \ {r}}
  IN  /\ pc[r] = "idle"
      /\ pc' = [pc EXCEPT ![r] = "next"]
      /\ plan' = [plan EXCEPT ![r] = p2a]
      /\ doubled' = doubled \cup (mine \cap theirs)
      /\ entangled' = entangled \cup ({of[p] : p \in mine} \cap {of[p] : p \in theirs})
      /\ UNCHANGED <<now, reports, accounts, copy, stamp, until1, warned1, suspends, resolves,
                     warnings, reinstated>>

(* Mutant: the status of the report is not looked at. *)
resolve_report_AnyStatus(r, p, a) ==
  /\ r # Daily /\ p \in Filed
  /\ Begin(r, [NoPlan EXCEPT ![p] = a])
  /\ UNCHANGED server

resolve_report(r, p, a) ==
  /\ r # Daily /\ p \in Filed /\ status[p] = "open"
  /\ Begin(r, [NoPlan EXCEPT ![p] = a])
  /\ UNCHANGED server

(* run_automatic_review_pass: the overdue reports, and what each gets. *)
Overdue == {p \in Filed : status[p] = "open" /\ made[p] + DueAfter <= now}
Escalates(p) == p \in risky \/ Cardinality({q \in Overdue : of[q] = of[p]}) >= Repeat

run_automatic_review_pass ==
  [p \in Report |-> IF p \notin Overdue THEN None
                    ELSE IF Escalates(p) THEN "remove_suspend" ELSE "limit"]

(* Every five minutes; in the hour of the review, once a day.  The mutex   *)
(* is held during the pass, and the day is noted after its commit.         *)
maybe_run_daily_automatic_review ==
  /\ now % DayLen = ReviewHour /\ lastRun # Day(now)
  /\ Begin(Daily, run_automatic_review_pass)
  /\ runDay' = Day(now)
  /\ UNCHANGED <<lastRun, restarts>>

----------------------------------------------------------------------------
(* resolve_report_conn, for the next report of the plan.  The content goes *)
(* first; a restriction copies the user's row, as the transaction sees it. *)
(* Mutant: the row is read outside the transaction. *)
Seen_Outside(r, u, row, row1) == row[u]

Seen(r, u, row, row1) == IF row1[r][u] # None THEN row1[r][u] ELSE row[u]

(* Mutant: only restrictions touch the account. *)
NextReport_SkipSuspend(r) ==
  LET p == Current(r)
      u == of[p]
  IN  /\ pc[r] = "next" /\ Planned(r) # {}
      /\ IF plan[r][p] = "limit"
         THEN /\ copy' = [copy EXCEPT ![r] = <<Seen(r, u, until, until1), Seen(r, u, warned, warned1)>>]
              /\ stamp' = [stamp EXCEPT ![r] = now]
         ELSE UNCHANGED <<copy, stamp>>
      /\ pc' = [pc EXCEPT ![r] = IF plan[r][p] = "limit" THEN "user" ELSE "report"]
      /\ UNCHANGED <<now, reports, accounts, plan, until1, warned1, suspends, resolves, server, history>>

NextReport(r) ==
  LET p == Current(r)
      u == of[p]
  IN  /\ pc[r] = "next" /\ Planned(r) # {}
      /\ IF plan[r][p] = "limit"
         THEN /\ copy' = [copy EXCEPT ![r] = <<Seen(r, u, until, until1), Seen(r, u, warned, warned1)>>]
              /\ stamp' = [stamp EXCEPT ![r] = now]
         ELSE UNCHANGED <<copy, stamp>>
      /\ pc' = [pc EXCEPT ![r] = IF plan[r][p] \in {"dismiss", "remove"} THEN "report" ELSE "user"]
      /\ UNCHANGED <<now, reports, accounts, plan, until1, warned1, suspends, resolves, server, history>>

Later(a, b) == IF a > b THEN a ELSE b

EffectiveUntil(current, t) == Later(current, t + RestrictFor)

(* Mutant: a suspension takes the place of the restriction. *)
WriteUser_SuspensionReplaces(r) ==
  LET p == Current(r)
      u == of[p]
  IN  /\ pc[r] = "user" /\ ~UserLocked(r, u)
      /\ IF plan[r][p] = "limit"
         THEN /\ until1' = [until1 EXCEPT ![r][u] = EffectiveUntil(copy[r][1], stamp[r])]
              /\ warned1' = [warned1 EXCEPT ![r][u] = copy[r][2] + 1]
              /\ UNCHANGED suspends
         ELSE /\ suspends' = [suspends EXCEPT ![r] = @ \cup {u}]
              /\ until1' = [until1 EXCEPT ![r][u] = 0]
              /\ UNCHANGED warned1
      /\ pc' = [pc EXCEPT ![r] = "report"]
      /\ UNCHANGED <<now, reports, accounts, plan, copy, stamp, resolves, server, history>>

(* The UPDATE of the users row. *)
WriteUser(r) ==
  LET p == Current(r)
      u == of[p]
  IN  /\ pc[r] = "user" /\ ~UserLocked(r, u)
      /\ IF plan[r][p] = "limit"
         THEN /\ until1' = [until1 EXCEPT ![r][u] = EffectiveUntil(copy[r][1], stamp[r])]
              /\ warned1' = [warned1 EXCEPT ![r][u] = copy[r][2] + 1]
              /\ UNCHANGED suspends
         ELSE /\ suspends' = [suspends EXCEPT ![r] = @ \cup {u}]
              /\ UNCHANGED <<until1, warned1>>
      /\ pc' = [pc EXCEPT ![r] = "report"]
      /\ UNCHANGED <<now, reports, accounts, plan, copy, stamp, resolves, server, history>>

(* The UPDATE of the report, by its id alone. *)
WriteReport(r) ==
  LET p == Current(r)
  IN  /\ pc[r] = "report" /\ ~ReportLocked(r, p)
      /\ resolves' = [resolves EXCEPT ![r][p] = plan[r][p]]
      /\ plan' = [plan EXCEPT ![r][p] = None]
      /\ pc' = [pc EXCEPT ![r] = "next"]
      /\ UNCHANGED <<now, reports, accounts, copy, stamp, until1, warned1, suspends, server, history>>

Clear(r) ==
  /\ pc' = [pc EXCEPT ![r] = "idle"] /\ plan' = [plan EXCEPT ![r] = NoPlan]
  /\ copy' = [copy EXCEPT ![r] = <<0, 0>>] /\ stamp' = [stamp EXCEPT ![r] = 0]
  /\ until1' = [until1 EXCEPT ![r] = NoRow] /\ warned1' = [warned1 EXCEPT ![r] = NoRow]
  /\ suspends' = [suspends EXCEPT ![r] = {}] /\ resolves' = [resolves EXCEPT ![r] = NoPlan]

Limits(r, u) == Cardinality({p \in Report : resolves[r][p] = "limit" /\ of[p] = u})

Commit(r) ==
  LET done == {p \in Report : resolves[r][p] # None}
  IN  /\ pc[r] = "next" /\ Planned(r) = {}
      /\ status' = [p \in Report |-> IF p \notin done THEN status[p]
                                     ELSE IF resolves[r][p] = "dismiss" THEN "dismissed" ELSE "resolved"]
      /\ action' = [p \in Report |-> IF p \in done THEN resolves[r][p] ELSE action[p]]
      /\ cleared' = cleared \cup {p \in done : Removes(resolves[r][p])}
      /\ active' = active \ suspends[r]
      /\ until' = [u \in User |-> IF until1[r][u] # None THEN until1[r][u] ELSE until[u]]
      /\ warned' = [u \in User |-> IF warned1[r][u] # None THEN warned1[r][u] ELSE warned[u]]
      /\ warnings' = [u \in User |-> warnings[u] + Limits(r, u)]
      /\ reinstated' = reinstated \ suspends[r]
      /\ lastRun' = IF r = Daily THEN runDay ELSE lastRun
      /\ Clear(r)
      /\ UNCHANGED <<now, filed, of, risky, made, runDay, restarts, doubled, entangled>>

Rollback(r) ==
  /\ pc[r] # "idle" /\ Clear(r)
  /\ UNCHANGED <<now, reports, accounts, server, history>>

(* The administrator's own switch: one UPDATE. *)
set_user_active(u, on) ==
  /\ ~UserLocked(None, u)
  /\ active' = IF on THEN active \cup {u} ELSE active \ {u}
  /\ reinstated' = IF on THEN reinstated \cup {u} ELSE reinstated
  /\ UNCHANGED <<now, reports, until, warned, pc, local, server, doubled, entangled, warnings>>

Restart ==
  /\ restarts < MaxRestart /\ restarts' = restarts + 1
  /\ lastRun' = None /\ runDay' = 0
  /\ pc' = [r \in Request |-> "idle"] /\ plan' = [r \in Request |-> NoPlan]
  /\ copy' = [r \in Request |-> <<0, 0>>] /\ stamp' = [r \in Request |-> 0]
  /\ until1' = [r \in Request |-> NoRow] /\ warned1' = [r \in Request |-> NoRow]
  /\ suspends' = [r \in Request |-> {}] /\ resolves' = [r \in Request |-> NoPlan]
  /\ UNCHANGED <<now, reports, accounts, history>>

Tick ==
  /\ now < MaxTime /\ now' = now + 1
  /\ UNCHANGED <<reports, accounts, pc, local, server, history>>

RequestStep(r) == NextReport(r) \/ WriteUser(r) \/ WriteReport(r) \/ Commit(r) \/ Rollback(r)

Next ==
  \/ \E u \in User, bad \in BOOLEAN : create_report_conn(u, bad)
  \/ \E r \in Request, p \in Report, a \in Actions : resolve_report(r, p, a)
  \/ maybe_run_daily_automatic_review
  \/ \E r \in Request : RequestStep(r)
  \/ \E u \in User, on \in BOOLEAN : set_user_active(u, on)
  \/ Restart \/ Tick

Spec == Init /\ [][Next]_vars

----------------------------------------------------------------------------
TypeOK ==
  /\ now \in 0..MaxTime /\ filed \in 0..MaxReport
  /\ of \in [Report -> User \cup {None}] /\ risky \subseteq Report /\ made \in [Report -> Nat]
  /\ status \in [Report -> {"none", "open", "resolved", "dismissed"}]
  /\ action \in [Report -> Actions \cup {None}] /\ cleared \subseteq Report
  /\ active \subseteq User /\ until \in [User -> Nat] /\ warned \in [User -> Nat]
  /\ pc \in [Request -> {"idle", "next", "user", "report"}]
  /\ plan \in [Request -> [Report -> Actions \cup {None}]]
  /\ resolves \in [Request -> [Report -> Actions \cup {None}]]
  /\ suspends \in [Request -> SUBSET User]

(* resolve_report, "Report has already been reviewed": a review that has   *)
(* been committed is only overwritten by one that ran at the same time.    *)
ReviewStays ==
  \A p \in Report \ doubled :
    status[p] \in {"resolved", "dismissed"}
      => status'[p] = status[p] /\ action'[p] = action[p]
ReviewedOnce == [][ReviewStays]_vars

(* safety_warning_count counts the restrictions, unless reviews of reports *)
(* about the same user overlapped: the later one then starts from the row  *)
(* the earlier one had not written yet.                                    *)
WarningsAreCounted ==
  \A u \in User \ entangled : warned[u] = warnings[u]

(* apply_temporary_dm_restriction_conn never shortens a restriction, under *)
(* the same condition.                                                     *)
RestrictionStays == \A u \in User \ entangled : until'[u] >= until[u]
RestrictionIsKept == [][RestrictionStays]_vars

(* What the report says was done is so: its content is gone, and its user  *)
(* suspended unless an administrator has activated the account since.      *)
RecordedActionHolds ==
  \A p \in Filed :
    /\ action[p] # None /\ Removes(action[p]) => p \in cleared
    /\ action[p] # None /\ Suspends(action[p]) => of[p] \notin active \/ of[p] \in reinstated
    /\ action[p] = "limit" => warned[of[p]] > 0

(* resolve_report_conn: reports agree with the accounts they are about. *)
ReviewInv == TypeOK /\ WarningsAreCounted /\ RecordedActionHolds
=============================================================================
