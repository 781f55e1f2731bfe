---------------------------- MODULE GuildPolicy ----------------------------
(***************************************************************************)
(* The guild policy (services/guild_service.rs): what an administrator may *)
(* save, and the level, the progress and the daily limit a user gets from  *)
(* what is saved.                                                          *)
(*                                                                         *)
(* The table of levels, by active days, and the table of ranks, by score,  *)
(* are validated and searched by the same code twice over: the model has   *)
(* the levels.  Of a level's three limits it has one; of a rank, what      *)
(* effective_daily_limit takes from it.                                    *)
(***************************************************************************)
EXTENDS Integers, Sequences, FiniteSets, Functions

CONSTANTS
  None,
  Entry,        \* rows an administrator may enter: [level, min, max, limit]
  MaxRows,      \* bound on the rows of a table that is saved
  MaxDays,      \* bound on a user's active days
  Percent,      \* multipliers of ranks
  Int32         \* the largest i32

VARIABLES
  stored,       \* the setting: a table, or None where there is none that can be read
  days, level,  \* active_days and derived_level of a user
  news          \* the last level-up that a snapshot announced, or None

vars == <<stored, days, level, news>>

Tables == UNION {[1..n -> Entry] : n \in 0..MaxRows}

default_level_policies ==
  LET min == <<0, 7, 14, 30, 60, 90, 120, 180>>
      outbound == <<50, 100, 200, 500, 1000, None, None, None>>
  IN  [i \in 1..8 |-> [level |-> i, min |-> min[i], limit |-> outbound[i],
                       max |-> IF i = 8 THEN None ELSE min[i + 1] - 1]]

----------------------------------------------------------------------------
(* normalize_guild_policy, for a table that is sorted. *)
Unique(t) == \A i, j \in DOMAIN t : t[i].level = t[j].level => i = j

(* Mutant: a row may begin on the last day of the row before. *)
RangeOK_Touching(t, i) ==
  IF t[i].max = None THEN i = Len(t)
  ELSE t[i].max >= t[i].min /\ (i < Len(t) => t[i + 1].min >= t[i].max)

RangeOK(t, i) ==
  IF t[i].max = None THEN i = Len(t)
  ELSE t[i].max >= t[i].min /\ (i < Len(t) => t[i + 1].min > t[i].max)

(* Mutant: the level of a row is not looked at. *)
Accepts_AnyLevel(t) ==
  /\ t # << >> /\ Unique(t)
  /\ \A i \in DOMAIN t :
       /\ t[i].min >= 0 /\ RangeOK(t, i)
       /\ t[i].limit # None => t[i].limit >= 0
  /\ t[1].min = 0

Accepts(t) ==
  /\ t # << >> /\ Unique(t)
  /\ \A i \in DOMAIN t :
       /\ t[i].level \in 1..10 /\ t[i].min >= 0 /\ RangeOK(t, i)
       /\ t[i].limit # None => t[i].limit >= 0
  /\ t[1].min = 0

(* sort_by_key, which is stable: the one order p of the rows that is sorted. *)
Stable(t, p) ==
  \A i, j \in DOMAIN t : i < j =>
    \/ t[p[i]].min < t[p[j]].min
    \/ t[p[i]].min = t[p[j]].min /\ p[i] < p[j]

Sorted(t) ==
  {[i \in DOMAIN t |-> t[p[i]]] : p \in {q \in Bijection(DOMAIN t, DOMAIN t) : Stable(t, q)}}

(* Saved by this version, or by one that knew another format. *)
load_guild_policy == IF stored = None THEN default_level_policies ELSE stored

Covers(e, d) == d >= e.min /\ (e.max = None \/ d <= e.max)

level_policy_for_active_days(t, d) ==
  IF \E i \in DOMAIN t : Covers(t[i], d)
  THEN t[CHOOSE i \in DOMAIN t : Covers(t[i], d) /\ \A j \in 1..(i - 1) : ~Covers(t[j], d)]
  ELSE t[Len(t)]

(* The first row with a higher level; its first day. *)
next_level_active_days(t, l) ==
  LET above == {i \in DOMAIN t : t[i].level > l}
  IN  IF above = {} THEN None ELSE t[CHOOSE i \in above : \A j \in above : i <= j].min

Clamp(x, lo, hi) == IF x < lo THEN lo ELSE IF x > hi THEN hi ELSE x

(* Mutant: the span is not kept above zero. *)
level_progress_percent_NoClamp(d, min, next) ==
  IF next = None THEN 100 ELSE ((d - min) * 100) \div (IF next = min THEN 1 ELSE next - min)

level_progress_percent(d, min, next) ==
  IF next = None THEN 100
  ELSE LET span == Clamp(next - min, 1, Int32)
       IN  (Clamp(d - min, 0, span) * 100) \div span

(* The release build wraps; Rust's division rounds towards zero. *)
Wrap(x) == ((x + Int32 + 1) % (2 * (Int32 + 1))) - (Int32 + 1)
Quotient(x, n) == IF x < 0 THEN -((-x) \div n) ELSE x \div n

(* Mutant: the share is rounded before it is taken. *)
effective_daily_limit_RoundFirst(limit, percent, overrides) ==
  IF limit = None \/ (percent = None /\ overrides) THEN None
  ELSE IF percent = None THEN limit
  ELSE Wrap(limit * (percent \div 100))

effective_daily_limit(limit, percent, overrides) ==
  IF limit = None \/ (percent = None /\ overrides) THEN None
  ELSE IF percent = None THEN limit
  ELSE Quotient(Wrap(limit * percent), 100)

LevelOf(t, d) == level_policy_for_active_days(t, d).level

----------------------------------------------------------------------------
Init ==
  /\ stored = None /\ days = 0 /\ news = None
  /\ level = LevelOf(load_guild_policy, 0)

save_guild_policy(t) ==
  /\ \E s \in Sorted(t) : Accepts(s) /\ stored' = s
  /\ UNCHANGED <<days, level, news>>

(* Mutant: the level is that of the default policy. *)
advance_active_day_Default ==
  /\ days < MaxDays /\ days' = days + 1
  /\ level' = LevelOf(default_level_policies, days')
  /\ UNCHANGED <<stored, news>>

(* sync_derived_state and advance_active_day_if_needed of a request. *)
advance_active_day ==
  /\ days < MaxDays /\ days' = days + 1
  /\ level' = LevelOf(load_guild_policy, days')
  /\ UNCHANGED <<stored, news>>

(* sync_derived_state and build_snapshot: the level before and after. *)
get_guild_snapshot ==
  /\ level' = LevelOf(load_guild_policy, days)
  /\ news' = IF level' > level THEN level' ELSE None
  /\ UNCHANGED <<stored, days>>

Next ==
  \/ \E t \in Tables : save_guild_policy(t)
  \/ advance_active_day
  \/ get_guild_snapshot

Spec == Init /\ [][Next]_vars

----------------------------------------------------------------------------
TypeOK ==
  /\ stored = None \/ \A i \in DOMAIN stored : stored[i] \in Entry
  /\ days \in 0..MaxDays /\ level \in 1..10 /\ news \in (1..10) \cup {None}

(* normalize_guild_policy and the search agree: a day belongs to one row   *)
(* at most, and the search finds it; a day in a gap gets the last row.     *)
EachDayHasOneRow ==
  \A d \in 0..MaxDays :
    LET t == load_guild_policy
        rows == {i \in DOMAIN t : Covers(t[i], d)}
        found == level_policy_for_active_days(t, d)
    IN  \/ \E i \in DOMAIN t : rows = {i} /\ found = t[i]
        \/ rows = {} /\ \A i \in DOMAIN t : found.min >= t[i].min

(* The bar shown to the user stays between nothing and full, and is full   *)
(* for the top level only, whatever table was saved, gaps included.        *)
ProgressInRange ==
  LET t == load_guild_policy
      row == level_policy_for_active_days(t, days)
      next == next_level_active_days(t, row.level)
      shown == level_progress_percent(days, row.min, next)
  IN  shown \in 0..100 /\ (shown = 100 => next = None \/ next <= days)

(* A rank's multiplier of at least 100 percent lowers no limit and one     *)
(* that is worth an action more raises it, unless the product leaves the   *)
(* range of i32.                                                           *)
RankLowersNoLimit ==
  LET limit == level_policy_for_active_days(load_guild_policy, days).limit
  IN  \A percent \in Percent :
        limit # None /\ limit * percent <= Int32
          => LET got == effective_daily_limit(limit, percent, FALSE)
             IN  got >= 0 /\ (percent >= 100 => got >= limit)
                 /\ (limit * (percent - 100) >= 100 => got > limit)

(* A policy that could be saved serves a user of any number of days. *)
PolicyInv == TypeOK /\ EachDayHasOneRow /\ ProgressInRange /\ RankLowersNoLimit

Rising(t) ==
  \A i \in 1..(Len(t) - 1) : t[i].level < t[i + 1].level /\ t[i + 1].min = t[i].max + 1

(* An active day never costs a user a level while the policy stays as it   *)
(* is and its rows follow one another without a gap in rising levels.      *)
LevelStays ==
  days' # days /\ Rising(load_guild_policy) /\ level = LevelOf(load_guild_policy, days)
    => level' >= level
ActivityKeepsLevel == [][LevelStays]_vars
=============================================================================
