----------------------------- MODULE GuildScore -----------------------------
(***************************************************************************)
(* Contribution score and rank (services/guild_service.rs).                *)
(*                                                                         *)
(* record_contribution_event is one READ COMMITTED transaction: it reads   *)
(* the policy and the user's row, brings the rank up to date, looks for an *)
(* earlier event with the same reference and for what forbids a vote, adds *)
(* the event and writes score and rank computed from what it read.  Only   *)
(* UPDATEs of user_guild_stats wait for each other: the statements between *)
(* the first read and the last write are steps of their own, the last      *)
(* write and the commit are one.                                           *)
(*                                                                         *)
(* Of the seven ranks the model has two, F (0) and E (1), which are the    *)
(* ones a vote asks for.  The policy does not change during a behaviour,   *)
(* but may have before it: a rank may be the one of an earlier policy.     *)
(***************************************************************************)
EXTENDS Integers, FiniteSets, FiniteSetsExt

CONSTANTS
  User, Request, None,
  Kinds,        \* kinds of events: some of award, penalty, clawback, vote
  Ref,          \* reference ids
  Trusted,      \* users whose votes count whatever their rank: moderators, level 4
  RankAt,       \* the score at which rank E begins
  Award, Penalty, Clawback, Vote, \* points of each kind of event
  Cap,          \* daily_positive_cap of votes
  Cluster,      \* CLUSTERED_VOTE_GRANTER_DAILY_THRESHOLD
  Window, Retention,    \* days of is_reciprocal_vote and of prune_guild_history
  MaxEvent, MaxDay      \* bounds on the events and on the days

ASSUME ScoreAssumption ==
  /\ IsFiniteSet(Request) /\ None \notin User /\ None \notin Int
  /\ Kinds \subseteq {"award", "penalty", "clawback", "vote"}
  /\ Award \in Nat /\ Penalty \in Nat /\ Clawback \in Nat /\ Vote \in Nat
  /\ Cap \in Nat /\ RankAt \in Int /\ Window \in Nat /\ Retention \in Nat
  /\ MaxEvent \in Nat /\ MaxDay \in Nat

VARIABLES
  day,
  score, rank,  \* contribution_score and derived_rank of user_guild_stats
  events,       \* guild_score_events
  added,        \* events inserted so far: the next id
  pc, kind, user, granter, ref, start, copy, delta, rank1, \* of each request
  ledger,       \* history: the score, had the events come one after the other; 0 once they did not
  crossed,      \* history: users with two requests at once
  outdated      \* history: users whose rank is that of an earlier policy

table == <<day, score, rank, events, added>>
local == <<kind, user, granter, ref, start, copy, delta>>
history == <<ledger, crossed, outdated>>
vars == <<table, pc, local, rank1, history>>

requested_delta(k) ==
  CASE k = "award" -> Award [] k = "penalty" -> -Penalty
    [] k = "clawback" -> -Clawback [] k = "vote" -> Vote

rank_policy_for_score(s) == IF s >= RankAt THEN 1 ELSE 0

Locked(r, u) == \E q \in Request \ {r} : rank1[q][u] # None
NoLock == [u \in User |-> None]
Busy(u) == {r \in Request : pc[r] # "idle" /\ u \in {user[r], granter[r]}}

Init ==
  /\ day = 0
  /\ score = [u \in User |-> 0] /\ rank \in [User -> {0, 1}]
  /\ events = {} /\ added = 0
  /\ pc = [r \in Request |-> "idle"] /\ kind = [r \in Request |-> None]
  /\ user = [r \in Request |-> None] /\ granter = [r \in Request |-> None]
  /\ ref = [r \in Request |-> None] /\ start = [r \in Request |-> 0]
  /\ copy = [r \in Request |-> 0]
  /\ delta = [r \in Request |-> 0] /\ rank1 = [r \in Request |-> NoLock]
  /\ ledger = [u \in User |-> 0]
  /\ crossed = {} /\ outdated = {u \in User : rank[u] # rank_policy_for_score(0)}

----------------------------------------------------------------------------
Goto(r, to) == pc' = [pc EXCEPT ![r] = to]

(* ensure_user_guild_stats and the test of sync_derived_state. *)
Begin(r, k, u, g, f) ==
  /\ pc[r] = "idle"
  /\ added + Cardinality({q \in Request : pc[q] # "idle"}) < MaxEvent
  /\ kind' = [kind EXCEPT ![r] = k] /\ user' = [user EXCEPT ![r] = u]
  /\ granter' = [granter EXCEPT ![r] = g] /\ ref' = [ref EXCEPT ![r] = f]
  /\ start' = [start EXCEPT ![r] = day]
  /\ copy' = [copy EXCEPT ![r] = score[u]]
  /\ delta' = [delta EXCEPT ![r] = IF k \in Kinds THEN requested_delta(k) ELSE 0]
  /\ Goto(r, IF rank[u] # rank_policy_for_score(score[u]) THEN "sync" ELSE "check")
  /\ crossed' = crossed \cup {v \in {u, g} \ {None} : Busy(v) # {}}
  /\ UNCHANGED <<table, rank1, ledger, outdated>>

(* Moderation of a user or of a sticker, verified and dismissed reports,   *)
(* clawback: no granter and no cap.                                        *)
record_contribution_event(r, k, u, f) ==
  k # "vote" /\ Begin(r, k, u, None, f)

award_community_upvote(r, u, g, f) == Begin(r, "vote", u, g, f)

get_guild_snapshot(r, u) ==
  /\ rank[u] # rank_policy_for_score(score[u])
  /\ Begin(r, "snapshot", u, None, None)

(* Its UPDATE waits for the row and returns it: the score is fresh, the    *)
(* rank is the one of the score read before.                               *)
sync_derived_state(r) ==
  LET u == user[r]
  IN  /\ pc[r] = "sync" /\ ~Locked(r, u)
      /\ rank1' = [rank1 EXCEPT ![r][u] = rank_policy_for_score(copy[r])]
      /\ copy' = [copy EXCEPT ![r] = score[u]]
      /\ Goto(r, IF kind[r] = "snapshot" THEN "commit" ELSE "check")
      /\ UNCHANGED <<table, kind, user, granter, ref, start, delta, history>>

HasEvent(r) ==
  ref[r] # None /\ \E e \in events : e.user = user[r] /\ e.kind = kind[r] /\ e.ref = ref[r]

PositiveVotes == {e \in events : e.kind = "vote" /\ e.delta > 0}

is_reciprocal_vote(r) ==
  \E e \in PositiveVotes :
    e.user = granter[r] /\ e.granter = user[r] /\ e.day >= start[r] - Window

is_clustered_vote(r) ==
  Cardinality({e.granter : e \in {x \in PositiveVotes : x.user = user[r] /\ x.day >= start[r]}})
    >= Cluster

Suppressed(r) == granter[r] = user[r] \/ is_reciprocal_vote(r) \/ is_clustered_vote(r)

(* Mutant: the reference is not looked up. *)
CheckEvents_AnyReference(r) ==
  /\ pc[r] = "check"
  /\ \/ kind[r] # "vote" /\ Goto(r, "write") /\ UNCHANGED delta
     \/ kind[r] = "vote" /\ Suppressed(r) /\ delta' = [delta EXCEPT ![r] = 0] /\ Goto(r, "cap")
     \/ kind[r] = "vote" /\ ~Suppressed(r) /\ Goto(r, "granter") /\ UNCHANGED delta
  /\ UNCHANGED <<table, kind, user, granter, ref, start, copy, rank1, history>>

(* Mutant: only votes for oneself are suppressed. *)
CheckEvents_SelfOnly(r) ==
  /\ pc[r] = "check"
  /\ \/ HasEvent(r) /\ Goto(r, "commit") /\ UNCHANGED delta
     \/ ~HasEvent(r) /\ kind[r] # "vote" /\ Goto(r, "write") /\ UNCHANGED delta
     \/ /\ ~HasEvent(r) /\ kind[r] = "vote" /\ granter[r] = user[r]
        /\ delta' = [delta EXCEPT ![r] = 0] /\ Goto(r, "cap")
     \/ ~HasEvent(r) /\ kind[r] = "vote" /\ granter[r] # user[r] /\ Goto(r, "granter") /\ UNCHANGED delta
  /\ UNCHANGED <<table, kind, user, granter, ref, start, copy, rank1, history>>

(* An earlier event with the reference; then, for a vote, self_vote,       *)
(* reciprocal_vote and clustered_vote.  These SELECTs are one step: the    *)
(* requests that could commit between them are the ones that overlap.      *)
CheckEvents(r) ==
  /\ pc[r] = "check"
  /\ \/ HasEvent(r) /\ Goto(r, "commit") /\ UNCHANGED delta
     \/ ~HasEvent(r) /\ kind[r] # "vote" /\ Goto(r, "write") /\ UNCHANGED delta
     \/ /\ ~HasEvent(r) /\ kind[r] = "vote" /\ Suppressed(r)
        /\ delta' = [delta EXCEPT ![r] = 0] /\ Goto(r, "cap")
     \/ ~HasEvent(r) /\ kind[r] = "vote" /\ ~Suppressed(r) /\ Goto(r, "granter") /\ UNCHANGED delta
  /\ UNCHANGED <<table, kind, user, granter, ref, start, copy, rank1, history>>

(* granter_is_meaningful, which brings the granter's rank up to date, too. *)
granter_is_meaningful(r) ==
  LET g == granter[r]
      now == rank_policy_for_score(score[g])
      fresh == g \in Trusted \/ rank[g] = now
  IN  /\ pc[r] = "granter"
      /\ fresh \/ ~Locked(r, g)
      /\ rank1' = IF fresh THEN rank1 ELSE [rank1 EXCEPT ![r][g] = now]
      /\ delta' = [delta EXCEPT ![r] = IF g \in Trusted \/ now >= 1 THEN @ ELSE 0]
      /\ Goto(r, "cap")
      /\ UNCHANGED <<table, kind, user, granter, ref, start, copy, history>>

Points(votes) == SumFunctionOnSet([e \in events |-> e.delta], votes)

positive_points_earned_today(r) ==
  Points({e \in PositiveVotes : e.user = user[r] /\ e.day >= start[r]})

(* Mutant: a vote is refused only when the cap is reached. *)
ApplyCap_NoTruncation(r) ==
  LET remaining == Cap - positive_points_earned_today(r)
  IN  /\ pc[r] = "cap"
      /\ delta' = [delta EXCEPT ![r] = IF remaining <= 0 THEN 0 ELSE @]
      /\ Goto(r, "write")
      /\ UNCHANGED <<table, kind, user, granter, ref, start, copy, rank1, history>>

ApplyCap(r) ==
  LET remaining == Max({0, Cap - positive_points_earned_today(r)})
  IN  /\ pc[r] = "cap"
      /\ delta' = [delta EXCEPT ![r] = Min({@, remaining})]
      /\ Goto(r, "write")
      /\ UNCHANGED <<table, kind, user, granter, ref, start, copy, rank1, history>>

Floor(s) == Max({0, s})

(* Mutant: the score may fall below zero. *)
NextScore_NoFloor(s, d) == s + d

NextScore(s, d) == Floor(s + d)

Finish(r) ==
  /\ Goto(r, "idle") /\ rank1' = [rank1 EXCEPT ![r] = NoLock]
  /\ kind' = [kind EXCEPT ![r] = None] /\ user' = [user EXCEPT ![r] = None]
  /\ granter' = [granter EXCEPT ![r] = None] /\ ref' = [ref EXCEPT ![r] = None]
  /\ start' = [start EXCEPT ![r] = 0]
  /\ copy' = [copy EXCEPT ![r] = 0] /\ delta' = [delta EXCEPT ![r] = 0]

Settle(who) == outdated' = outdated \ who

(* Mutant: the rank is left for the next reader to derive. *)
InsertEvent_KeepRank(r) ==
  LET u == user[r]
      s == NextScore(copy[r], delta[r])
  IN  /\ pc[r] = "write" /\ ~Locked(r, u)
      /\ events' = events \cup {[id |-> added, user |-> u, kind |-> kind[r], ref |-> ref[r],
                                 granter |-> granter[r], delta |-> delta[r], day |-> start[r]]}
      /\ added' = added + 1
      /\ score' = [score EXCEPT ![u] = s]
      /\ rank' = [v \in User |-> IF rank1[r][v] # None THEN rank1[r][v] ELSE rank[v]]
      /\ ledger' = [ledger EXCEPT ![u] = IF u \in crossed THEN 0 ELSE Floor(@ + delta[r])]
      /\ Settle({u} \cup {v \in User : rank1[r][v] # None})
      /\ Finish(r)
      /\ UNCHANGED <<day, crossed>>

(* The event, the UPDATE of score and rank, and the commit. *)
InsertEvent(r) ==
  LET u == user[r]
      s == NextScore(copy[r], delta[r])
  IN  /\ pc[r] = "write" /\ ~Locked(r, u)
      /\ events' = events \cup {[id |-> added, user |-> u, kind |-> kind[r], ref |-> ref[r],
                                 granter |-> granter[r], delta |-> delta[r], day |-> start[r]]}
      /\ added' = added + 1
      /\ score' = [score EXCEPT ![u] = s]
      /\ rank' = [v \in User |-> IF v = u THEN rank_policy_for_score(s)
                                 ELSE IF rank1[r][v] # None THEN rank1[r][v] ELSE rank[v]]
      /\ ledger' = [ledger EXCEPT ![u] = IF u \in crossed THEN 0 ELSE Floor(@ + delta[r])]
      /\ Settle({u} \cup {v \in User : rank1[r][v] # None})
      /\ Finish(r)
      /\ UNCHANGED <<day, crossed>>

(* A duplicate or a snapshot: only ranks may have been written. *)
CommitUnchanged(r) ==
  /\ pc[r] = "commit"
  /\ rank' = [v \in User |-> IF rank1[r][v] # None THEN rank1[r][v] ELSE rank[v]]
  /\ Settle({v \in User : rank1[r][v] # None})
  /\ Finish(r)
  /\ UNCHANGED <<day, score, events, added, ledger, crossed>>

(* An error, a lost connection, or a deadlock that PostgreSQL broke. *)
Rollback(r) ==
  /\ pc[r] # "idle" /\ Finish(r)
  /\ UNCHANGED <<table, history>>

prune_guild_history ==
  /\ \E e \in events : e.day < day - Retention
  /\ events' = {e \in events : e.day >= day - Retention}
  /\ UNCHANGED <<day, score, rank, added, pc, local, rank1, ledger, crossed, outdated>>

Midnight ==
  /\ day < MaxDay /\ day' = day + 1
  /\ UNCHANGED <<score, rank, events, added, pc, local, rank1, history>>

RequestStep(r) ==
  \/ sync_derived_state(r) \/ CheckEvents(r) \/ granter_is_meaningful(r)
  \/ ApplyCap(r) \/ InsertEvent(r) \/ CommitUnchanged(r) \/ Rollback(r)

Next ==
  \/ \E r \in Request, u \in User, f \in Ref \cup {None} :
       \/ \E k \in Kinds : record_contribution_event(r, k, u, f)
       \/ \E g \in User : award_community_upvote(r, u, g, f)
  \/ \E r \in Request, u \in User : get_guild_snapshot(r, u)
  \/ \E r \in Request : RequestStep(r)
  \/ prune_guild_history \/ Midnight

Spec == Init /\ [][Next]_vars

----------------------------------------------------------------------------
TypeOK ==
  /\ day \in 0..MaxDay /\ added \in 0..MaxEvent
  /\ score \in [User -> Nat] /\ rank \in [User -> {0, 1}]
  /\ pc \in [Request -> {"idle", "sync", "check", "granter", "cap", "write", "commit"}]
  /\ rank1 \in [Request -> [User -> {0, 1, None}]]
  /\ crossed \subseteq User /\ outdated \subseteq User

(* record_contribution_event, "duplicate_reference": of the events that    *)
(* have not been pruned, one at most has its user, kind and reference,     *)
(* unless two requests of the user overlapped.                             *)
CountedOnce ==
  \A e, f \in events :
    (e.user = f.user /\ e.kind = f.kind /\ e.ref = f.ref /\ e.ref # None /\ e # f)
      => e.user \in crossed

(* The score is what the applied deltas add up to, never below zero, and   *)
(* the rank is the score's, unless requests of the user overlapped (the    *)
(* later write then starts from a score that is gone) or, for the rank,    *)
(* nobody has brought it up to date since the policy changed.              *)
ScoreIsLedger ==
  \A u \in User \ crossed :
    /\ score[u] = ledger[u]
    /\ u \notin outdated => rank[u] = rank_policy_for_score(score[u])

(* The votes of a day bring no more than daily_positive_cap, unless the    *)
(* requests of the user overlapped.                                        *)
CapHolds ==
  \A u \in User \ crossed, d \in 0..MaxDay :
    Points({e \in PositiveVotes : e.user = u /\ e.day = d}) <= Cap

(* is_reciprocal_vote: two users do not both gain from each other's votes  *)
(* within the window, unless their votes overlapped.                       *)
NoVoteRing ==
  \A e, f \in PositiveVotes :
    (e.user = f.granter /\ f.user = e.granter) =>
      \/ f.day > e.day + Window \/ e.day > f.day + Window
      \/ {e.user, f.user} \cap crossed # {}

(* record_contribution_event: its events, and the score they make. *)
ScoreInv == TypeOK /\ CountedOnce /\ CapHolds /\ NoVoteRing /\ ScoreIsLedger
=============================================================================
