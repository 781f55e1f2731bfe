--------------------------- MODULE StandingProofs ---------------------------
(***************************************************************************)
(* Proofs about Moderation, GuildPolicy, GuildScore and Stickers, for any  *)
(* number of users, requests at a time, reports, rows, events and days:    *)
(* what requests at once may get wrong is confined to the reports and the  *)
(* users they share, and a table that was accepted serves every day.       *)
(*                                                                         *)
(* Sums over sets and the walk over the stickers are reasoned about by a   *)
(* smallest counterexample, which is how an induction over data is stated  *)
(* here.                                                                   *)
(***************************************************************************)
EXTENDS MCStanding, Sequences, FiniteSetTheorems, NaturalsInduction, WellFoundedInduction, TLAPS

Report == Moderating!Report
Reviews(r, u) == \E p \in Moderating!UnderReview(r) : of[p] = u
Planned(r) == Moderating!Planned(r)
Current(r) == Moderating!Current(r)

(* Restrictions of a user that a review has written and not committed. *)
Writes(r, p) == resolves[r][p] = "limit" \/ (place[r] = "report" /\ p = Current(r) /\ plan[r][p] = "limit")
Written(r, u) == {p \in Report : of[p] = u /\ Writes(r, p)}

LocalTypes ==
  /\ until1 \in [Reviewer -> [Suspect -> Nat \cup {None}]]
  /\ warned1 \in [Reviewer -> [Suspect -> Nat \cup {None}]]
  /\ draft \in [Reviewer -> Nat \X Nat] /\ stamp \in [Reviewer -> Nat]
  /\ warnings \in [Suspect -> Nat] /\ filed \in Nat

(* Reports are numbered in order; only reports that were filed are reviewed.*)
FiledInv ==
  /\ \A p \in Report : IF p <= filed THEN of[p] \in Suspect
                       ELSE status[p] = "none" /\ action[p] = None
  /\ \A r \in Reviewer : \A p \in Moderating!UnderReview(r) : p <= filed

(* Reviews that share a report, or a user, are known. *)
SharedInv ==
  \A r, q \in Reviewer : r # q =>
    \A p \in Moderating!UnderReview(r), o \in Moderating!UnderReview(q) :
      /\ p = o => p \in doubled
      /\ of[p] = of[o] => of[p] \in entangled
OpenInv ==
  \A r \in Reviewer : \A p \in Moderating!UnderReview(r) \ doubled : status[p] = "open"

(* What a review has written by its place, and only about its users. *)
Work(r) ==
  /\ place[r] = "idle" => Moderating!UnderReview(r) = {}
  /\ \A p \in Planned(r) : resolves[r][p] = None
  /\ place[r] \in {"user", "report"} => Planned(r) # {}
  /\ place[r] = "user" => plan[r][Current(r)] \in {"limit", "suspend", "remove_suspend"}
  /\ \A p \in Report : Writes(r, p) => warned1[r][of[p]] # None
  /\ \A p \in Report :
       /\ Moderating!Suspends(resolves[r][p]) => of[p] \in suspends[r]
       /\ place[r] = "report" /\ p = Current(r) /\ Moderating!Suspends(plan[r][p]) => of[p] \in suspends[r]
  /\ \A u \in Suspect :
       /\ warned1[r][u] # None => Reviews(r, u) /\ warned1[r][u] > 0
       /\ until1[r][u] # None => Reviews(r, u)
WorkInv == \A r \in Reviewer : Work(r)

(* A review that shares no user works on the user's row as it is. *)
Rows(r) ==
  \A u \in Suspect \ entangled :
    /\ warned1[r][u] # None => warned1[r][u] = warnings[u] + Cardinality(Written(r, u))
    /\ until1[r][u] # None => until1[r][u] >= until[u]
    /\ place[r] = "user" /\ plan[r][Current(r)] = "limit" /\ of[Current(r)] = u =>
         /\ draft[r][1] >= until[u]
         /\ draft[r][2] = IF warned1[r][u] # None THEN warned1[r][u] ELSE warned[u]
RowsInv == \A r \in Reviewer : Rows(r)

ReviewInd ==
  /\ Moderating!ReviewInv /\ LocalTypes /\ FiledInv /\ SharedInv /\ OpenInv /\ WorkInv /\ RowsInv
----------------------------------------------------------------------------
(* A set of numbers has a least one: induction by a least counterexample.  *)
LEMMA Least ==
  ASSUME NEW S, S \subseteq Nat, S # {}
  PROVE  \E p \in S : \A q \in S : p <= q
<1> DEFINE Less == {ss \in Nat \X Nat : ss[1] < ss[2]}
<1>1. IsWellFoundedOn(Less, Nat) BY NatLessThanWellFounded DEF OpToRel
<1>2. \A p, q \in Nat : ~(<<q, p>> \in Less) => p <= q OBVIOUS
<1> HIDE DEF Less
<1>3. \E p \in S : \A q \in S : ~(<<q, p>> \in Less) BY <1>1, WFMin
<1>4. QED BY <1>2, <1>3

(* A review that has reports left has a first one. *)
LEMMA FirstPlanned ==
  ASSUME NEW r \in Reviewer, Planned(r) # {}
  PROVE  Current(r) \in Planned(r) /\ Current(r) \in Report /\ plan[r][Current(r)] # None
<1>1. Planned(r) \subseteq Nat BY DEF Planned, Moderating!Planned, Moderating!Report
<1>2. \E p \in Planned(r) : \A q \in Planned(r) : p <= q BY <1>1, Least
<1>3. Current(r) \in Planned(r)
  BY <1>2 DEF Current, Moderating!Current, Planned
<1>4. QED BY <1>3 DEF Planned, Moderating!Planned, Report

LEMMA WrittenFinite ==
  ASSUME NEW r, NEW u
  PROVE  /\ IsFiniteSet(Written(r, u)) /\ Cardinality(Written(r, u)) \in Nat
         /\ IsFiniteSet(Written(r, u)') /\ Cardinality(Written(r, u)') \in Nat
<1>1. IsFiniteSet(Report) BY FS_Interval, ReviewAssumption DEF Report, Moderating!Report
<1>2. Written(r, u) \subseteq Report /\ Written(r, u)' \subseteq Report
  BY DEF Written, Report, Moderating!Report
<1>3. QED BY <1>1, <1>2, FS_Subset, FS_CardinalityType

LEMMA ReviewInit == Moderating!Init => ReviewInd
<1> SUFFICES ASSUME Moderating!Init PROVE ReviewInd OBVIOUS
<1> USE ReviewAssumption DEF Moderating!Init, Moderating!NoPlan, Moderating!NoRow, Report, Moderating!Report
<1>1. \A r \in Reviewer : Planned(r) = {} /\ Moderating!UnderReview(r) = {}
  BY DEF Planned, Moderating!Planned, Moderating!UnderReview
<1>2. Moderating!TypeOK BY DEF Moderating!TypeOK
<1>3. Moderating!ReviewInv
  BY <1>2 DEF Moderating!ReviewInv, Moderating!WarningsAreCounted, Moderating!RecordedActionHolds, Moderating!Filed
<1>4. LocalTypes BY DEF LocalTypes
<1>5. FiledInv /\ SharedInv /\ OpenInv BY <1>1, <1>2 DEF FiledInv, SharedInv, OpenInv, Moderating!TypeOK
<1>6. WorkInv BY <1>1 DEF WorkInv, Work, Writes, Moderating!Suspends, Moderating!Actions
<1>7. RowsInv BY DEF RowsInv, Rows
<1>8. QED BY <1>3, <1>4, <1>5, <1>6, <1>7 DEF ReviewInd
(* What a review works on is in its hands. *)
LEMMA WorkedOn ==
  ASSUME ReviewInd, NEW r \in Reviewer
  PROVE  /\ place[r] \in {"user", "report"} =>
              Current(r) \in Moderating!UnderReview(r) /\ Current(r) \in Report /\ plan[r][Current(r)] # None
         /\ \A p \in Report : Writes(r, p) \/ resolves[r][p] # None => p \in Moderating!UnderReview(r)
         /\ \A p \in Moderating!UnderReview(r) : p \in Report /\ p <= filed /\ of[p] \in Suspect
<1>1. place[r] \in {"user", "report"} =>
        Current(r) \in Moderating!UnderReview(r) /\ Current(r) \in Report /\ plan[r][Current(r)] # None
  BY FirstPlanned DEF ReviewInd, WorkInv, Work, Planned, Moderating!UnderReview
<1>2. \A p \in Report : Writes(r, p) \/ resolves[r][p] # None => p \in Moderating!UnderReview(r)
  BY <1>1, ReviewAssumption DEF Writes, Moderating!UnderReview, Report, Moderating!Actions
<1>3. \A p \in Moderating!UnderReview(r) : p \in Report /\ p <= filed /\ of[p] \in Suspect
  BY DEF ReviewInd, FiledInv, Moderating!UnderReview, Moderating!Planned, Report
<1>4. QED BY <1>1, <1>2, <1>3

(* A review whose plan and changes stay keeps its place in them. *)
LEMMA SameWork ==
  ASSUME NEW r \in Reviewer, plan'[r] = plan[r], resolves'[r] = resolves[r]
  PROVE  /\ Planned(r)' = Planned(r) /\ Current(r)' = Current(r)
         /\ Moderating!UnderReview(r)' = Moderating!UnderReview(r)
         /\ place'[r] = place[r] => \A p \in Report : Writes(r, p)' = Writes(r, p)
BY DEF Planned, Moderating!Planned, Current, Moderating!Current, Moderating!UnderReview, Writes

LEMMA FiledReports ==
  ASSUME ReviewInd
  PROVE  \A p \in Moderating!Filed : p \in Report /\ p <= filed /\ of[p] \in Suspect
<1>1. filed \in 0..MaxReport /\ FiledInv BY DEF ReviewInd, Moderating!ReviewInv, Moderating!TypeOK
<1>2. \A p \in Moderating!Filed : p \in Report /\ p <= filed
  BY <1>1, ReviewAssumption DEF Moderating!Filed, Report, Moderating!Report
<1>3. QED BY <1>1, <1>2 DEF FiledInv

LEMMA FileInd ==
  ASSUME ReviewInd, NEW u \in Suspect, NEW bad \in BOOLEAN, Moderating!create_report_conn(u, bad)
  PROVE  ReviewInd'
<1> USE ReviewAssumption DEF Report, Moderating!Report
<1> DEFINE n == filed + 1
<1>1. /\ n \in Report /\ filed' = n /\ of' = [of EXCEPT ![n] = u] /\ made' = [made EXCEPT ![n] = now]
      /\ risky' \subseteq risky \cup {n} /\ status' = [status EXCEPT ![n] = "open"]
      /\ UNCHANGED <<now, action, cleared, active, until, warned, place, plan, draft, stamp, until1,
                     warned1, suspends, resolves, doubled, entangled, warnings, reinstated>>
  BY DEF Moderating!create_report_conn, Moderating!accounts, Moderating!local, Moderating!history,
         ReviewInd, Moderating!ReviewInv, Moderating!TypeOK
<1>2. Moderating!TypeOK /\ LocalTypes /\ FiledInv BY DEF ReviewInd, Moderating!ReviewInv
<1>3. \A r \in Reviewer :
        /\ Planned(r)' = Planned(r) /\ Current(r)' = Current(r)
        /\ Moderating!UnderReview(r)' = Moderating!UnderReview(r)
        /\ \A p \in Report : Writes(r, p)' = Writes(r, p)
  BY <1>1, SameWork
<1>4. \A p \in Report \ {n} : of'[p] = of[p] /\ status'[p] = status[p]
  BY <1>1, <1>2 DEF Moderating!TypeOK
<1>5. status[n] = "none" /\ action[n] = None /\ status'[n] = "open" /\ of'[n] = u
  BY <1>1, <1>2 DEF FiledInv, LocalTypes, Moderating!TypeOK
<1>6. \A r \in Reviewer : \A p \in Moderating!UnderReview(r) : p # n /\ p \in Report /\ p <= filed
  BY <1>2, WorkedOn DEF LocalTypes
<1>7. \A r \in Reviewer : ~Writes(r, n) /\ resolves[r][n] = None /\ n \notin Moderating!UnderReview(r)
  BY <1>1, <1>6, WorkedOn
<1>8. \A r \in Reviewer, v \in Suspect : Written(r, v)' = Written(r, v)
  BY <1>3, <1>4, <1>7 DEF Written
<1>9. Moderating!TypeOK'
  <2>1. filed' \in 0..MaxReport /\ now \in Nat BY <1>1, <1>2 DEF Moderating!TypeOK
  <2> HIDE DEF n, Moderating!Report
  <2>2. QED BY <1>1, <1>2, <2>1 DEF Moderating!TypeOK
<1>10. Moderating!WarningsAreCounted'
  BY <1>1 DEF ReviewInd, Moderating!ReviewInv, Moderating!WarningsAreCounted
<1>11. Moderating!RecordedActionHolds'
  <2>1. \A p \in Moderating!Filed' : p = n \/ (p \in Moderating!Filed /\ p \in Report \ {n})
    <3>1. filed' = filed + 1 /\ filed \in Nat /\ filed + 1 <= MaxReport BY <1>1, <1>2 DEF LocalTypes
    <3>2. QED BY <3>1 DEF Moderating!Filed
  <2>2. \A p \in Moderating!Filed' : p = n \/ of'[p] = of[p] BY <1>4, <2>1
  <2> HIDE DEF n, Moderating!Report
  <2>3. QED
    BY <1>1, <1>5, <2>1, <2>2 DEF ReviewInd, Moderating!ReviewInv, Moderating!RecordedActionHolds, Moderating!Actions
<1>12. LocalTypes' BY <1>1, <1>2 DEF LocalTypes
<1>13. FiledInv' BY <1>1, <1>2, <1>3, <1>4, <1>5, <1>6 DEF FiledInv, LocalTypes
<1>14. SharedInv' BY <1>1, <1>3, <1>4, <1>6 DEF ReviewInd, SharedInv
<1>15. OpenInv' BY <1>1, <1>3, <1>4, <1>6 DEF ReviewInd, OpenInv
<1>16. WorkInv'
  <2>1. \A r \in Reviewer, v \in Suspect : Reviews(r, v) => Reviews(r, v)'
    BY <1>3, <1>4, <1>6 DEF Reviews
  <2>2. \A r \in Reviewer : place[r] = "report" => Current(r) # n
    BY <1>6, WorkedOn
  <2>3. QED
    BY <1>1, <1>3, <1>4, <1>7, <2>1, <2>2 DEF ReviewInd, WorkInv, Work, Moderating!Suspends, Moderating!Actions
<1>17. RowsInv'
  <2>1. \A r \in Reviewer : place[r] = "user" => of'[Current(r)] = of[Current(r)]
    BY <1>4, <1>6, WorkedOn
  <2>2. QED BY <1>1, <1>3, <1>8, <2>1 DEF ReviewInd, RowsInv, Rows
<1>18. QED BY <1>9, <1>10, <1>11, <1>12, <1>13, <1>14, <1>15, <1>16, <1>17 DEF ReviewInd, Moderating!ReviewInv
(* A review begins with reports that are open. *)
LEMMA BeginInd ==
  ASSUME ReviewInd, NEW r \in Reviewer, NEW p2a \in [Report -> Moderating!Actions \cup {None}],
         \A p \in Report : p2a[p] # None => p <= filed /\ status[p] = "open",
         Moderating!Begin(r, p2a)
  PROVE  ReviewInd'
<1> DEFINE mine == {p \in Moderating!Report : p2a[p] # None}
           theirs == UNION {Moderating!UnderReview(q) : q \in Reviewer \ {r}}
<1>1. /\ place[r] = "idle" /\ place' = [place EXCEPT ![r] = "next"] /\ plan' = [plan EXCEPT ![r] = p2a]
      /\ doubled' = doubled \cup (mine \cap theirs)
      /\ entangled' = entangled \cup ({of[p] : p \in mine} \cap {of[p] : p \in theirs})
      /\ UNCHANGED <<now, filed, of, risky, made, status, action, cleared, active, until, warned, draft,
                     stamp, until1, warned1, suspends, resolves, warnings, reinstated>>
  BY DEF Moderating!Begin, Moderating!reports, Moderating!accounts
<1>2. Moderating!TypeOK /\ LocalTypes /\ FiledInv BY DEF ReviewInd, Moderating!ReviewInv
<1>3. /\ plan'[r] = p2a /\ place'[r] = "next"
      /\ \A q \in Reviewer \ {r} : plan'[q] = plan[q] /\ place'[q] = place[q]
  BY <1>1, <1>2 DEF Moderating!TypeOK
<1>4. \A q \in Reviewer \ {r} :
        /\ Planned(q)' = Planned(q) /\ Current(q)' = Current(q)
        /\ Moderating!UnderReview(q)' = Moderating!UnderReview(q)
        /\ \A p \in Report : Writes(q, p)' = Writes(q, p)
  BY <1>1, <1>3, SameWork
<1>5. /\ Moderating!UnderReview(r) = {} /\ Moderating!UnderReview(r)' = mine /\ Planned(r)' = mine
      /\ \A p \in Report : resolves[r][p] = None /\ ~Writes(r, p) /\ ~Writes(r, p)'
  <2>1. Moderating!UnderReview(r) = {} BY <1>1 DEF ReviewInd, WorkInv, Work
  <2>2. \A p \in Report : resolves[r][p] = None BY <2>1 DEF Moderating!UnderReview, Report
  <2>3. \A p \in Report : ~Writes(r, p) /\ ~Writes(r, p)'
    BY <1>1, <1>3, <2>2, ReviewAssumption DEF Writes, Moderating!Actions
  <2>4. Planned(r)' = mine BY <1>3 DEF Planned, Moderating!Planned
  <2>5. Moderating!UnderReview(r)' = mine
    BY <1>1, <2>2, <2>4 DEF Moderating!UnderReview, Planned, Report
  <2>6. QED BY <2>1, <2>2, <2>3, <2>4, <2>5
<1>6. \A q \in Reviewer, v \in Suspect : Written(q, v)' = Written(q, v)
  BY <1>1, <1>4, <1>5 DEF Written, Report
<1>7. Moderating!TypeOK' BY <1>1, <1>2 DEF Moderating!TypeOK, Report
<1>8. Moderating!WarningsAreCounted' /\ Moderating!RecordedActionHolds'
  BY <1>1 DEF ReviewInd, Moderating!ReviewInv, Moderating!WarningsAreCounted,
              Moderating!RecordedActionHolds, Moderating!Filed
<1>9. LocalTypes' BY <1>1, <1>2 DEF LocalTypes
<1>10. FiledInv' BY <1>1, <1>2, <1>4, <1>5 DEF FiledInv, Report
<1>11. SharedInv'
  <2>1. ASSUME NEW q \in Reviewer \ {r}, NEW p \in mine, NEW o \in Moderating!UnderReview(q)
        PROVE  (p = o => p \in doubled') /\ (of[p] = of[o] => of[p] \in entangled')
    <3>1. o \in theirs OBVIOUS
    <3>2. QED BY <1>1, <3>1
  <2> HIDE DEF mine, theirs
  <2>2. doubled \subseteq doubled' /\ entangled \subseteq entangled' BY <1>1
  <2>3. SUFFICES ASSUME NEW q1 \in Reviewer, NEW q2 \in Reviewer, q1 # q2,
                        NEW p \in Moderating!UnderReview(q1)', NEW o \in Moderating!UnderReview(q2)'
                 PROVE  (p = o => p \in doubled') /\ (of'[p] = of'[o] => of'[p] \in entangled')
    BY DEF SharedInv
  <2>4. of' = of BY <1>1
  <2>5. CASE q1 = r BY <1>4, <1>5, <2>1, <2>3, <2>4, <2>5
  <2>6. CASE q2 = r BY <1>4, <1>5, <2>1, <2>3, <2>4, <2>6
  <2>7. CASE q1 # r /\ q2 # r BY <1>4, <2>2, <2>3, <2>4, <2>7 DEF ReviewInd, SharedInv
  <2>8. QED BY <2>5, <2>6, <2>7
<1>12. OpenInv' BY <1>1, <1>4, <1>5 DEF ReviewInd, OpenInv, Report
<1>13. WorkInv'
  <2>1. \A q \in Reviewer, v \in Suspect : Reviews(q, v) => Reviews(q, v)'
    BY <1>1, <1>4, <1>5 DEF Reviews
  <2>2. ASSUME NEW q \in Reviewer \ {r} PROVE Work(q)'
    BY <1>1, <1>3, <1>4, <2>1, <2>2 DEF ReviewInd, WorkInv, Work
  <2>3. Work(r)'
    BY <1>1, <1>3, <1>5, <2>1, ReviewAssumption DEF ReviewInd, WorkInv, Work, Moderating!Suspends, Moderating!Actions, Report
  <2>4. QED BY <2>2, <2>3 DEF WorkInv
<1>14. RowsInv'
  BY <1>1, <1>3, <1>4, <1>6 DEF ReviewInd, RowsInv, Rows
<1>15. QED BY <1>7, <1>8, <1>9, <1>10, <1>11, <1>12, <1>13, <1>14 DEF ReviewInd, Moderating!ReviewInv
(* A step of a review that leaves the tables alone disturbs no other. *)
LEMMA LocalStep ==
  ASSUME ReviewInd, NEW r \in Reviewer,
         UNCHANGED <<filed, of, status, action, cleared, active, until, warned, warnings, reinstated,
                     doubled, entangled>>,
         \A q \in Reviewer \ {r} :
           /\ plan'[q] = plan[q] /\ resolves'[q] = resolves[q] /\ place'[q] = place[q]
           /\ draft'[q] = draft[q] /\ until1'[q] = until1[q] /\ warned1'[q] = warned1[q]
           /\ suspends'[q] = suspends[q],
         Moderating!UnderReview(r)' \subseteq Moderating!UnderReview(r),
         Moderating!TypeOK', LocalTypes', Work(r)', Rows(r)'
  PROVE  ReviewInd'
<1>1. \A q \in Reviewer \ {r} :
        /\ Planned(q)' = Planned(q) /\ Current(q)' = Current(q)
        /\ Moderating!UnderReview(q)' = Moderating!UnderReview(q)
        /\ \A p \in Report : Writes(q, p)' = Writes(q, p)
  BY SameWork
<1>2. \A q \in Reviewer \ {r} : \A v \in Suspect : Written(q, v)' = Written(q, v) /\ Reviews(q, v)' = Reviews(q, v)
  BY <1>1 DEF Written, Reviews, Report
<1>3. Moderating!WarningsAreCounted' /\ Moderating!RecordedActionHolds'
  BY DEF ReviewInd, Moderating!ReviewInv, Moderating!WarningsAreCounted,
         Moderating!RecordedActionHolds, Moderating!Filed
<1>4. \A q \in Reviewer : Moderating!UnderReview(q)' \subseteq Moderating!UnderReview(q) BY <1>1
<1>5. FiledInv' BY <1>4 DEF ReviewInd, FiledInv, Report
<1>6. SharedInv' BY <1>4 DEF ReviewInd, SharedInv
<1>7. OpenInv' BY <1>4 DEF ReviewInd, OpenInv
<1>8. WorkInv' BY <1>1, <1>2 DEF ReviewInd, WorkInv, Work
<1>9. RowsInv' BY <1>1, <1>2 DEF ReviewInd, RowsInv, Rows
<1>10. QED BY <1>3, <1>5, <1>6, <1>7, <1>8, <1>9 DEF ReviewInd, Moderating!ReviewInv

LEMMA NextReportInd ==
  ASSUME ReviewInd, NEW r \in Reviewer, Moderating!NextReport(r)
  PROVE  ReviewInd'
<1> DEFINE p == Current(r)
           u == of[p]
<1>1. /\ place[r] = "next" /\ Planned(r) # {}
      /\ IF plan[r][p] = "limit"
         THEN /\ draft' = [draft EXCEPT ![r] = <<Moderating!Seen(r, u, until, until1), Moderating!Seen(r, u, warned, warned1)>>]
              /\ stamp' = [stamp EXCEPT ![r] = now]
         ELSE UNCHANGED <<draft, stamp>>
      /\ place' = [place EXCEPT ![r] = IF plan[r][p] \in {"dismiss", "remove"} THEN "report" ELSE "user"]
      /\ UNCHANGED <<now, filed, of, risky, made, status, action, cleared, active, until, warned, plan,
                     until1, warned1, suspends, resolves, doubled, entangled, warnings, reinstated>>
  BY DEF Moderating!NextReport, Moderating!reports, Moderating!accounts, Moderating!history, Planned, Current
<1>2. p \in Planned(r) /\ p \in Report /\ plan[r][p] # None BY <1>1, FirstPlanned
<1>3. Moderating!TypeOK /\ LocalTypes /\ FiledInv /\ Work(r) /\ Rows(r)
  BY DEF ReviewInd, Moderating!ReviewInv, WorkInv, RowsInv
<1>4. p \in Moderating!UnderReview(r) /\ u \in Suspect
  <2>1. p \in Moderating!UnderReview(r) BY <1>2 DEF Moderating!UnderReview, Planned
  <2>2. QED BY <2>1, WorkedOn
<1> HIDE DEF p
<1>5. /\ Moderating!Seen(r, u, until, until1) \in Nat /\ Moderating!Seen(r, u, warned, warned1) \in Nat
      /\ u \notin entangled => Moderating!Seen(r, u, until, until1) >= until[u]
      /\ Moderating!Seen(r, u, warned, warned1) = IF warned1[r][u] # None THEN warned1[r][u] ELSE warned[u]
  <2>1. /\ until1[r][u] \in Nat \cup {None} /\ warned1[r][u] \in Nat \cup {None}
        /\ until[u] \in Nat /\ warned[u] \in Nat
    BY <1>3, <1>4 DEF LocalTypes, Moderating!TypeOK
  <2>2. u \notin entangled => (until1[r][u] # None => until1[r][u] >= until[u]) BY <1>3, <1>4 DEF Rows
  <2>3. QED BY <2>1, <2>2 DEF Moderating!Seen
<1>6. /\ Planned(r)' = Planned(r) /\ Current(r)' = Current(r)
      /\ Moderating!UnderReview(r)' = Moderating!UnderReview(r)
  BY <1>1, SameWork
<1>7. plan[r][p] \in Moderating!Actions BY <1>2, <1>3 DEF Moderating!TypeOK, Report
<1>8. place'[r] = IF plan[r][p] \in {"dismiss", "remove"} THEN "report" ELSE "user"
  BY <1>1, <1>3 DEF Moderating!TypeOK
<1>9. Moderating!TypeOK' BY <1>1, <1>3 DEF Moderating!TypeOK
<1>10. LocalTypes'
  <2>1. now \in Nat BY <1>3, ReviewAssumption DEF Moderating!TypeOK
  <2>2. <<Moderating!Seen(r, u, until, until1), Moderating!Seen(r, u, warned, warned1)>> \in Nat \X Nat
    BY <1>5
  <2>3. draft' \in [Reviewer -> Nat \X Nat] BY <1>1, <1>3, <2>2 DEF LocalTypes
  <2>4. stamp' \in [Reviewer -> Nat] BY <1>1, <1>3, <2>1 DEF LocalTypes
  <2>5. QED BY <1>1, <1>3, <2>3, <2>4 DEF LocalTypes
<1>11. \A x \in Report : Writes(r, x)' = Writes(r, x)
  BY <1>1, <1>6, <1>8 DEF Writes, p
<1>12. \A v \in Suspect : Written(r, v)' = Written(r, v) /\ Reviews(r, v)' = Reviews(r, v)
  BY <1>1, <1>6, <1>11 DEF Written, Reviews, Report
<1>13. Work(r)'
  BY <1>1, <1>3, <1>6, <1>7, <1>8, <1>11, <1>12
  DEF Work, p, Moderating!Suspends, Moderating!Actions
<1>14. Rows(r)'
  <2>1. plan[r][p] = "limit" =>
          draft'[r] = <<Moderating!Seen(r, u, until, until1), Moderating!Seen(r, u, warned, warned1)>>
    BY <1>1, <1>3 DEF LocalTypes
  <2>2. QED BY <1>1, <1>3, <1>5, <1>6, <1>12, <2>1 DEF Rows, p
<1>15. \A q \in Reviewer \ {r} : place'[q] = place[q] /\ draft'[q] = draft[q]
  BY <1>1, <1>3 DEF LocalTypes, Moderating!TypeOK
<1>16. QED BY <1>1, <1>6, <1>9, <1>10, <1>13, <1>14, <1>15, LocalStep
LEMMA WriteUserInd ==
  ASSUME ReviewInd, NEW r \in Reviewer, Moderating!WriteUser(r)
  PROVE  ReviewInd'
<1>0. place[r] = "user" BY DEF Moderating!WriteUser
<1>p. PICK c \in Report : c = Current(r) BY <1>0, WorkedOn
<1>u. PICK s \in Suspect : s = of[c] BY <1>0, <1>p, WorkedOn
<1> DEFINE w == draft[r][2] + 1
           t == Moderating!EffectiveUntil(draft[r][1], stamp[r])
<1>1. /\ place[r] = "user"
      /\ IF plan[r][c] = "limit"
         THEN /\ until1' = [until1 EXCEPT ![r][s] = t] /\ warned1' = [warned1 EXCEPT ![r][s] = w]
              /\ UNCHANGED suspends
         ELSE /\ suspends' = [suspends EXCEPT ![r] = @ \cup {s}] /\ UNCHANGED <<until1, warned1>>
      /\ place' = [place EXCEPT ![r] = "report"]
      /\ UNCHANGED <<now, filed, of, risky, made, status, action, cleared, active, until, warned, plan,
                     draft, stamp, resolves, doubled, entangled, warnings, reinstated>>
  BY <1>p, <1>u DEF Moderating!WriteUser, Moderating!reports, Moderating!accounts, Moderating!history, Current
<1>2. Moderating!TypeOK /\ LocalTypes /\ Work(r) /\ Rows(r) /\ Moderating!WarningsAreCounted
  BY DEF ReviewInd, Moderating!ReviewInv, WorkInv, RowsInv
<1>3. c \in Moderating!UnderReview(r) /\ s \in Suspect /\ c \in Report /\ c \in Planned(r)
  BY <1>1, <1>2, <1>p, <1>u, WorkedOn, FirstPlanned DEF Work
<1>4. /\ draft[r][1] \in Nat /\ draft[r][2] \in Nat /\ stamp[r] \in Nat
      /\ until1[r] \in [Suspect -> Nat \cup {None}] /\ warned1[r] \in [Suspect -> Nat \cup {None}]
  BY <1>2 DEF LocalTypes
<1>5. t \in Nat /\ t >= draft[r][1] /\ w \in Nat /\ w > 0 /\ w # None /\ t # None
  BY <1>4, ReviewAssumption DEF Moderating!EffectiveUntil, Moderating!Later
<1>6. /\ Planned(r)' = Planned(r) /\ Current(r)' = Current(r)
      /\ Moderating!UnderReview(r)' = Moderating!UnderReview(r)
  BY <1>1, SameWork
<1>7. place'[r] = "report" BY <1>1, <1>2 DEF Moderating!TypeOK
<1>8. \A v \in Suspect : Reviews(r, v)' = Reviews(r, v) BY <1>1, <1>6 DEF Reviews
<1> HIDE DEF t, w
<1>9. \A x \in Report : Writes(r, x)' <=> Writes(r, x) \/ (x = c /\ plan[r][c] = "limit")
  BY <1>1, <1>6, <1>7, <1>p DEF Writes
<1>10. \A q \in Reviewer \ {r} :
         /\ place'[q] = place[q] /\ until1'[q] = until1[q] /\ warned1'[q] = warned1[q]
         /\ suspends'[q] = suspends[q]
  BY <1>1, <1>2 DEF LocalTypes, Moderating!TypeOK
<1>11. CASE plan[r][c] = "limit"
  <2>1. /\ until1'[r] = [until1[r] EXCEPT ![s] = t] /\ warned1'[r] = [warned1[r] EXCEPT ![s] = w]
        /\ suspends' = suspends
    BY <1>1, <1>2, <1>11 DEF LocalTypes
  <2>2. until1' \in [Reviewer -> [Suspect -> Nat \cup {None}]]
    <3>1. until1'[r] \in [Suspect -> Nat \cup {None}] BY <1>4, <1>5, <2>1
    <3>2. QED BY <1>1, <1>2, <1>11, <3>1, <1>10 DEF LocalTypes
  <2>3. warned1' \in [Reviewer -> [Suspect -> Nat \cup {None}]]
    <3>1. warned1'[r] \in [Suspect -> Nat \cup {None}] BY <1>4, <1>5, <2>1
    <3>2. QED BY <1>1, <1>2, <1>11, <3>1, <1>10 DEF LocalTypes
  <2>4. LocalTypes' BY <1>1, <1>2, <2>2, <2>3 DEF LocalTypes
  <2>5. Moderating!TypeOK' BY <1>1, <1>2, <2>1 DEF Moderating!TypeOK
  <2>6. warned1'[r][s] = w /\ until1'[r][s] = t
        /\ \A v \in Suspect \ {s} : warned1'[r][v] = warned1[r][v] /\ until1'[r][v] = until1[r][v]
    BY <1>3, <1>4, <2>1
  <2>7. Work(r)'
    <3>1. \A x \in Report : Writes(r, x)' => warned1'[r][of[x]] # None
      <4>1. \A x \in Report : Writes(r, x) => of[x] \in Suspect BY WorkedOn
      <4>2. QED BY <1>2, <1>5, <1>9, <1>u, <2>6, <4>1 DEF Work
    <3>2. \A v \in Suspect : /\ warned1'[r][v] # None => Reviews(r, v)' /\ warned1'[r][v] > 0
                             /\ until1'[r][v] # None => Reviews(r, v)'
      <4>1. Reviews(r, s) BY <1>3, <1>u DEF Reviews
      <4>2. QED BY <1>2, <1>5, <1>8, <2>6, <4>1 DEF Work
    <3>3. ~Moderating!Suspends(plan[r][c]) BY <1>11 DEF Moderating!Suspends
    <3>4. of' = of /\ plan' = plan /\ resolves' = resolves /\ suspends' = suspends BY <1>1, <2>1
    <3>5. Planned(r) # {} BY <1>3
    <3>6. QED
      BY <1>2, <1>6, <1>7, <1>p, <3>1, <3>2, <3>3, <3>4, <3>5 DEF Work, Report, Moderating!Suspends
  <2>8. Rows(r)'
    <3>1. \A v \in Suspect \ {s} : Written(r, v)' = Written(r, v)
      BY <1>1, <1>9, <1>u DEF Written, Report
    <3>2. Written(r, s)' = Written(r, s) \cup {c} BY <1>1, <1>3, <1>9, <1>11, <1>u DEF Written, Report
    <3>3. c \notin Written(r, s)
      <4>1. resolves[r][c] = None BY <1>2, <1>3 DEF Work
      <4>2. QED BY <1>1, <4>1, ReviewAssumption DEF Written, Writes, Moderating!Actions
    <3>4. Cardinality(Written(r, s)') = Cardinality(Written(r, s)) + 1
      BY <3>2, <3>3, WrittenFinite, FS_AddElement
    <3>5. s \notin entangled => w = warnings[s] + Cardinality(Written(r, s)') /\ t >= until[s]
      <4> SUFFICES ASSUME s \notin entangled
                   PROVE  w = warnings[s] + Cardinality(Written(r, s)') /\ t >= until[s]
        OBVIOUS
      <4>1. /\ draft[r][1] >= until[s]
            /\ draft[r][2] = IF warned1[r][s] # None THEN warned1[r][s] ELSE warned[s]
        BY <1>1, <1>2, <1>3, <1>11, <1>p, <1>u DEF Rows
      <4>2. warned1[r][s] # None => warned1[r][s] = warnings[s] + Cardinality(Written(r, s))
        BY <1>2, <1>3 DEF Rows
      <4>3. warned1[r][s] = None => Written(r, s) = {} BY <1>2 DEF Work, Written
      <4>4. warned[s] = warnings[s] /\ warnings[s] \in Nat /\ until[s] \in Nat
        BY <1>2, <1>3 DEF Moderating!WarningsAreCounted, LocalTypes, Moderating!TypeOK
      <4>5. draft[r][2] = warnings[s] + Cardinality(Written(r, s))
        <5>1. CASE warned1[r][s] # None BY <4>1, <4>2, <5>1
        <5>2. CASE warned1[r][s] = None
          <6>1. Cardinality(Written(r, s)) = 0 BY <4>3, <5>2, FS_EmptySet
          <6>2. QED BY <4>1, <4>4, <5>2, <6>1
        <5>3. QED BY <5>1, <5>2
      <4>6. w = draft[r][2] + 1 BY DEF w
      <4>7. QED BY <1>4, <1>5, <3>4, <4>1, <4>4, <4>5, <4>6, WrittenFinite
    <3>6. QED BY <1>1, <1>2, <1>7, <2>6, <3>1, <3>5 DEF Rows
  <2>9. QED BY <1>1, <1>6, <1>10, <2>4, <2>5, <2>7, <2>8, LocalStep
<1>12. CASE plan[r][c] # "limit"
  <2>1. /\ suspends' = [suspends EXCEPT ![r] = @ \cup {s}] /\ UNCHANGED <<until1, warned1>>
        /\ suspends'[r] = suspends[r] \cup {s}
    BY <1>1, <1>2, <1>12 DEF Moderating!TypeOK
  <2>2. LocalTypes' /\ Moderating!TypeOK' BY <1>1, <1>2, <1>3, <2>1 DEF LocalTypes, Moderating!TypeOK
  <2>3. \A x \in Report : Writes(r, x)' <=> Writes(r, x) BY <1>9, <1>12
  <2>4. \A v \in Suspect : Written(r, v)' = Written(r, v) BY <1>1, <2>3 DEF Written, Report
  <2>5. Work(r)' BY <1>1, <1>2, <1>6, <1>7, <1>8, <2>1, <2>3, <1>p, <1>u DEF Work
  <2>6. Rows(r)' BY <1>1, <1>2, <1>7, <2>1, <2>4 DEF Rows
  <2>7. QED BY <1>1, <1>6, <1>10, <2>2, <2>5, <2>6, LocalStep
<1>13. QED BY <1>11, <1>12

LEMMA WriteReportInd ==
  ASSUME ReviewInd, NEW r \in Reviewer, Moderating!WriteReport(r)
  PROVE  ReviewInd'
<1> DEFINE p == Current(r)
<1>1. /\ place[r] = "report" /\ place' = [place EXCEPT ![r] = "next"]
      /\ resolves' = [resolves EXCEPT ![r][p] = plan[r][p]] /\ plan' = [plan EXCEPT ![r][p] = None]
      /\ UNCHANGED <<now, filed, of, risky, made, status, action, cleared, active, until, warned, draft, stamp,
                     until1, warned1, suspends, doubled, entangled, warnings, reinstated>>
  BY DEF Moderating!WriteReport, Moderating!reports, Moderating!accounts, Moderating!history, Current
<1>2. Moderating!TypeOK /\ LocalTypes /\ Work(r) /\ Rows(r)
  BY DEF ReviewInd, Moderating!ReviewInv, WorkInv, RowsInv
<1>3. p \in Moderating!UnderReview(r) /\ p \in Report /\ p \in Planned(r) /\ plan[r][p] # None
  BY <1>1, <1>2, WorkedOn, FirstPlanned DEF Work
<1>4. resolves[r][p] = None BY <1>2, <1>3 DEF Work
<1> HIDE DEF p
<1>5. /\ plan[r] \in [Report -> Moderating!Actions \cup {None}]
      /\ resolves[r] \in [Report -> Moderating!Actions \cup {None}]
  BY <1>2 DEF Moderating!TypeOK, Report
<1>6. /\ place'[r] = "next" /\ plan'[r] = [plan[r] EXCEPT ![p] = None]
      /\ resolves'[r] = [resolves[r] EXCEPT ![p] = plan[r][p]]
      /\ \A q \in Reviewer \ {r} :
           place'[q] = place[q] /\ plan'[q] = plan[q] /\ resolves'[q] = resolves[q]
  BY <1>1, <1>2 DEF Moderating!TypeOK
<1>7. /\ plan'[r][p] = None /\ resolves'[r][p] = plan[r][p]
      /\ \A x \in Report \ {p} : plan'[r][x] = plan[r][x] /\ resolves'[r][x] = resolves[r][x]
  BY <1>3, <1>5, <1>6
<1>8. Planned(r)' = Planned(r) \ {p} /\ Moderating!UnderReview(r)' = Moderating!UnderReview(r)
  BY <1>3, <1>7 DEF Planned, Moderating!Planned, Moderating!UnderReview, Report
<1>9. \A x \in Report : Writes(r, x)' <=> Writes(r, x)
  BY <1>1, <1>4, <1>6, <1>7, ReviewAssumption DEF Writes, p, Moderating!Actions
<1>10. \A v \in Suspect : Written(r, v)' = Written(r, v) /\ Reviews(r, v)' = Reviews(r, v)
  BY <1>1, <1>8, <1>9 DEF Written, Reviews, Report
<1>11. Moderating!TypeOK'
  <2>1. plan'[r] \in [Report -> Moderating!Actions \cup {None}]
        /\ resolves'[r] \in [Report -> Moderating!Actions \cup {None}]
    BY <1>3, <1>5, <1>6
  <2>2. plan' \in [Reviewer -> [Report -> Moderating!Actions \cup {None}]]
        /\ resolves' \in [Reviewer -> [Report -> Moderating!Actions \cup {None}]]
    BY <1>1, <1>2, <1>6, <2>1 DEF Moderating!TypeOK, Report
  <2>3. QED BY <1>1, <1>2, <2>2 DEF Moderating!TypeOK, Report
<1>12. LocalTypes' BY <1>1, <1>2 DEF LocalTypes
<1>13. Work(r)'
  <2>1. \A x \in Report : Moderating!Suspends(resolves'[r][x]) => of[x] \in suspends[r]
    BY <1>1, <1>2, <1>3, <1>7 DEF Work, p
  <2>2. \A x \in Planned(r)' : resolves'[r][x] = None
    BY <1>2, <1>7, <1>8 DEF Work, Planned, Moderating!Planned, Report
  <2>3. QED BY <1>1, <1>2, <1>6, <1>9, <1>10, <2>1, <2>2 DEF Work
<1>14. Rows(r)' BY <1>1, <1>2, <1>6, <1>10 DEF Rows
<1>15. QED BY <1>1, <1>6, <1>8, <1>11, <1>12, <1>13, <1>14, LocalStep
(* A request that is over has nothing left in its hands. *)
LEMMA Emptied ==
  ASSUME NEW r \in Reviewer, place'[r] = "idle", plan'[r] = Moderating!NoPlan,
         resolves'[r] = Moderating!NoPlan, until1'[r] = Moderating!NoRow, warned1'[r] = Moderating!NoRow
  PROVE  /\ Planned(r)' = {} /\ Moderating!UnderReview(r)' = {}
         /\ Work(r)' /\ Rows(r)'
<1> USE ReviewAssumption DEF Moderating!NoPlan, Moderating!NoRow
<1>1. Planned(r)' = {} /\ Moderating!UnderReview(r)' = {}
  BY DEF Planned, Moderating!Planned, Moderating!UnderReview
<1>2. \A p \in Report : ~Writes(r, p)' /\ resolves'[r][p] = None
  BY DEF Writes, Report, Moderating!Actions
<1>3. \A u \in Suspect : warned1'[r][u] = None /\ until1'[r][u] = None OBVIOUS
<1>4. Work(r)' BY <1>1, <1>2, <1>3 DEF Work, Report, Moderating!Suspends, Moderating!Actions
<1>5. Rows(r)' BY <1>3 DEF Rows
<1>6. QED BY <1>1, <1>4, <1>5

LEMMA Cleared ==
  ASSUME ReviewInd, NEW r \in Reviewer, Moderating!Clear(r)
  PROVE  /\ place'[r] = "idle" /\ plan'[r] = Moderating!NoPlan /\ resolves'[r] = Moderating!NoPlan
         /\ until1'[r] = Moderating!NoRow /\ warned1'[r] = Moderating!NoRow
         /\ \A q \in Reviewer \ {r} :
              /\ plan'[q] = plan[q] /\ resolves'[q] = resolves[q] /\ place'[q] = place[q]
              /\ draft'[q] = draft[q] /\ until1'[q] = until1[q] /\ warned1'[q] = warned1[q]
              /\ suspends'[q] = suspends[q]
         /\ place' \in [Reviewer -> {"idle", "next", "user", "report"}]
         /\ plan' \in [Reviewer -> [Moderating!Report -> Moderating!Actions \cup {None}]]
         /\ resolves' \in [Reviewer -> [Moderating!Report -> Moderating!Actions \cup {None}]]
         /\ suspends' \in [Reviewer -> SUBSET Suspect]
         /\ until1' \in [Reviewer -> [Suspect -> Nat \cup {None}]]
         /\ warned1' \in [Reviewer -> [Suspect -> Nat \cup {None}]]
         /\ draft' \in [Reviewer -> Nat \X Nat] /\ stamp' \in [Reviewer -> Nat]
<1>1. Moderating!TypeOK /\ LocalTypes BY DEF ReviewInd, Moderating!ReviewInv
<1>2. /\ Moderating!NoPlan \in [Moderating!Report -> Moderating!Actions \cup {None}]
      /\ Moderating!NoRow \in [Suspect -> Nat \cup {None}] /\ <<0, 0>> \in Nat \X Nat
  BY DEF Moderating!NoPlan, Moderating!NoRow
<1>3. QED BY <1>1, <1>2 DEF Moderating!Clear, Moderating!TypeOK, LocalTypes

LEMMA RollbackInd ==
  ASSUME ReviewInd, NEW r \in Reviewer, Moderating!Rollback(r)
  PROVE  ReviewInd'
<1>1. /\ Moderating!Clear(r)
      /\ UNCHANGED <<now, filed, of, risky, made, status, action, cleared, active, until, warned, doubled,
                     entangled, warnings, reinstated>>
  BY DEF Moderating!Rollback, Moderating!reports, Moderating!accounts, Moderating!history
<1>2. Moderating!UnderReview(r)' = {} /\ Work(r)' /\ Rows(r)' BY <1>1, Cleared, Emptied
<1>3. Moderating!TypeOK' /\ LocalTypes'
  BY <1>1, Cleared DEF ReviewInd, Moderating!ReviewInv, Moderating!TypeOK, LocalTypes
<1>4. QED BY <1>1, <1>2, <1>3, Cleared, LocalStep

LEMMA RestartInd ==
  ASSUME ReviewInd, Moderating!Restart
  PROVE  ReviewInd'
<1>1. /\ UNCHANGED <<now, filed, of, risky, made, status, action, cleared, active, until, warned, doubled,
                     entangled, warnings, reinstated>>
      /\ place' = [r \in Reviewer |-> "idle"] /\ plan' = [r \in Reviewer |-> Moderating!NoPlan]
      /\ draft' = [r \in Reviewer |-> <<0, 0>>] /\ stamp' = [r \in Reviewer |-> 0]
      /\ until1' = [r \in Reviewer |-> Moderating!NoRow] /\ warned1' = [r \in Reviewer |-> Moderating!NoRow]
      /\ suspends' = [r \in Reviewer |-> {}] /\ resolves' = [r \in Reviewer |-> Moderating!NoPlan]
  BY DEF Moderating!Restart, Moderating!reports, Moderating!accounts, Moderating!history
<1>2. \A r \in Reviewer : Moderating!UnderReview(r)' = {} /\ Work(r)' /\ Rows(r)' BY <1>1, Emptied
<1>3. Moderating!TypeOK' /\ LocalTypes'
  <2>1. /\ Moderating!NoPlan \in [Moderating!Report -> Moderating!Actions \cup {None}]
        /\ Moderating!NoRow \in [Suspect -> Nat \cup {None}]
    BY DEF Moderating!NoPlan, Moderating!NoRow
  <2>2. QED BY <1>1, <2>1 DEF ReviewInd, Moderating!ReviewInv, Moderating!TypeOK, LocalTypes
<1>4. Moderating!WarningsAreCounted' /\ Moderating!RecordedActionHolds'
  BY <1>1 DEF ReviewInd, Moderating!ReviewInv, Moderating!WarningsAreCounted,
              Moderating!RecordedActionHolds, Moderating!Filed
<1>5. FiledInv' /\ SharedInv' /\ OpenInv'
  BY <1>1, <1>2 DEF ReviewInd, FiledInv, SharedInv, OpenInv, Report
<1>6. QED BY <1>2, <1>3, <1>4, <1>5 DEF ReviewInd, Moderating!ReviewInv, WorkInv, RowsInv

(* The administrator's switch, the clock, and steps of others. *)
LEMMA AsideInd ==
  ASSUME ReviewInd, now' \in 0..MaxTime, active' \subseteq Suspect,
         UNCHANGED <<filed, of, risky, made, status, action, cleared, until, warned, place, plan, draft, stamp,
                     until1, warned1, suspends, resolves, doubled, entangled, warnings>>,
         \A u \in Suspect : u \notin active \/ u \in reinstated => u \notin active' \/ u \in reinstated'
  PROVE  ReviewInd'
<1>1. \A r \in Reviewer :
        /\ Planned(r)' = Planned(r) /\ Current(r)' = Current(r)
        /\ Moderating!UnderReview(r)' = Moderating!UnderReview(r)
        /\ \A p \in Report : Writes(r, p)' = Writes(r, p)
  BY SameWork
<1>2. \A r \in Reviewer : \A v \in Suspect : Written(r, v)' = Written(r, v) /\ Reviews(r, v)' = Reviews(r, v)
  BY <1>1 DEF Written, Reviews, Report
<1>3. Moderating!TypeOK' /\ LocalTypes'
  BY DEF ReviewInd, Moderating!ReviewInv, Moderating!TypeOK, LocalTypes
<1>4. Moderating!WarningsAreCounted' BY DEF ReviewInd, Moderating!ReviewInv, Moderating!WarningsAreCounted
<1>5. Moderating!RecordedActionHolds'
  <2>1. \A p \in Moderating!Filed : of[p] \in Suspect BY FiledReports
  <2>2. QED BY <2>1 DEF ReviewInd, Moderating!ReviewInv, Moderating!RecordedActionHolds, Moderating!Filed
<1>6. FiledInv' /\ SharedInv' /\ OpenInv'
  BY <1>1 DEF ReviewInd, FiledInv, SharedInv, OpenInv, Report
<1>7. WorkInv' BY <1>1, <1>2 DEF ReviewInd, WorkInv, Work
<1>8. RowsInv' BY <1>1, <1>2 DEF ReviewInd, RowsInv, Rows
<1>9. QED BY <1>3, <1>4, <1>5, <1>6, <1>7, <1>8 DEF ReviewInd, Moderating!ReviewInv
(* What a review commits: for a user of no other review the copy it worked *)
(* on was the row.                                                         *)
LEMMA CommitInd ==
  ASSUME ReviewInd, NEW r \in Reviewer, Moderating!Commit(r)
  PROVE  ReviewInd'
<1> DEFINE done == {p \in Moderating!Report : resolves[r][p] # None}
<1>1. /\ place[r] = "next" /\ Moderating!Clear(r)
      /\ status' = [p \in Moderating!Report |-> IF p \notin done THEN status[p]
                       ELSE IF resolves[r][p] = "dismiss" THEN "dismissed" ELSE "resolved"]
      /\ action' = [p \in Moderating!Report |-> IF p \in done THEN resolves[r][p] ELSE action[p]]
      /\ cleared' = cleared \cup {p \in done : Moderating!Removes(resolves[r][p])}
      /\ active' = active \ suspends[r] /\ reinstated' = reinstated \ suspends[r]
      /\ until' = [u \in Suspect |-> IF until1[r][u] # None THEN until1[r][u] ELSE until[u]]
      /\ warned' = [u \in Suspect |-> IF warned1[r][u] # None THEN warned1[r][u] ELSE warned[u]]
      /\ warnings' = [u \in Suspect |-> warnings[u] + Moderating!Limits(r, u)]
      /\ UNCHANGED <<now, filed, of, risky, made, doubled, entangled>>
  BY DEF Moderating!Commit
<1>2. Moderating!TypeOK /\ LocalTypes /\ FiledInv /\ SharedInv /\ Work(r) /\ Rows(r)
      /\ Moderating!WarningsAreCounted /\ Moderating!RecordedActionHolds
  BY DEF ReviewInd, Moderating!ReviewInv, WorkInv, RowsInv
<1>3. Moderating!UnderReview(r)' = {} /\ Work(r)' /\ Rows(r)' BY <1>1, Cleared, Emptied
<1>4. \A q \in Reviewer \ {r} :
        /\ plan'[q] = plan[q] /\ resolves'[q] = resolves[q] /\ place'[q] = place[q]
        /\ draft'[q] = draft[q] /\ until1'[q] = until1[q] /\ warned1'[q] = warned1[q]
        /\ suspends'[q] = suspends[q]
  BY <1>1, Cleared
<1>5. \A q \in Reviewer \ {r} :
        /\ Planned(q)' = Planned(q) /\ Current(q)' = Current(q)
        /\ Moderating!UnderReview(q)' = Moderating!UnderReview(q)
        /\ \A p \in Report : Writes(q, p)' = Writes(q, p)
  BY <1>4, SameWork
<1>6. \A q \in Reviewer \ {r} : \A v \in Suspect : Written(q, v)' = Written(q, v) /\ Reviews(q, v)' = Reviews(q, v)
  BY <1>1, <1>5 DEF Written, Reviews, Report
<1>7. \A u \in Suspect : Moderating!Limits(r, u) = Cardinality(Written(r, u)) /\ Moderating!Limits(r, u) \in Nat
  <2> TAKE u \in Suspect
  <2> DEFINE Ws == {p \in Moderating!Report : resolves[r][p] = "limit" /\ of[p] = u}
  <2>1. Ws = Written(r, u) BY <1>1 DEF Written, Writes, Report
  <2>2. Moderating!Limits(r, u) = Cardinality(Ws) BY DEF Moderating!Limits, Moderating!Cardinality, Cardinality
  <2>3. Moderating!Limits(r, u) = Cardinality(Written(r, u)) BY <2>1, <2>2
  <2>4. QED BY <2>3, WrittenFinite
<1>8. \A u \in Suspect : ~Reviews(r, u) =>
        Moderating!Limits(r, u) = 0 /\ warned1[r][u] = None /\ until1[r][u] = None
  <2>1. \A u \in Suspect : ~Reviews(r, u) => Written(r, u) = {}
    BY WorkedOn DEF Written, Reviews
  <2>2. QED BY <1>2, <1>7, <2>1, FS_EmptySet DEF Work
<1>9. \A q \in Reviewer \ {r} : \A u \in Suspect \ entangled : Reviews(q, u) => ~Reviews(r, u)
  BY <1>2 DEF SharedInv, Reviews
<1>10. \A u \in Suspect :
         /\ warned1[r][u] \in Nat \cup {None} /\ until1[r][u] \in Nat \cup {None}
         /\ warned[u] \in Nat /\ until[u] \in Nat /\ warnings[u] \in Nat
  BY <1>2 DEF LocalTypes, Moderating!TypeOK
<1>11. LocalTypes'
  <2>1. warnings' \in [Suspect -> Nat] BY <1>1, <1>7, <1>10
  <2>2. QED BY <1>1, <1>2, <2>1, Cleared DEF LocalTypes
<1>12. Moderating!TypeOK'
  <2>1. until' \in [Suspect -> Nat] /\ warned' \in [Suspect -> Nat] BY <1>1, <1>10
  <2>2. \A p \in Moderating!Report : resolves[r][p] \in Moderating!Actions \cup {None}
    BY <1>2 DEF Moderating!TypeOK
  <2>3. action' \in [Moderating!Report -> Moderating!Actions \cup {None}]
        /\ status' \in [Moderating!Report -> {"none", "open", "resolved", "dismissed"}]
    BY <1>1, <1>2, <2>2 DEF Moderating!TypeOK
  <2>4. cleared' \subseteq Moderating!Report /\ active' \subseteq Suspect
    BY <1>1, <1>2 DEF Moderating!TypeOK
  <2>5. QED BY <1>1, <1>2, <2>1, <2>3, <2>4, Cleared DEF Moderating!TypeOK
<1>13. Moderating!WarningsAreCounted'
  <2>1. ASSUME NEW u \in Suspect, u \notin entangled PROVE warned'[u] = warnings'[u]
    <3>1. warnings'[u] = warnings[u] + Moderating!Limits(r, u) BY <1>1
    <3>2. CASE warned1[r][u] # None
      BY <1>1, <1>2, <1>7, <2>1, <3>1, <3>2 DEF Rows
    <3>3. CASE warned1[r][u] = None
      <4>1. Written(r, u) = {} BY <1>2, <3>3 DEF Work, Written
      <4>2. Moderating!Limits(r, u) = 0 BY <1>7, <4>1, FS_EmptySet
      <4>3. warned[u] = warnings[u] BY <1>2, <2>1 DEF Moderating!WarningsAreCounted
      <4>4. QED BY <1>1, <1>10, <3>1, <3>3, <4>2, <4>3
    <3>4. QED BY <3>2, <3>3
  <2>2. entangled' = entangled BY <1>1
  <2>3. QED BY <2>1, <2>2 DEF Moderating!WarningsAreCounted
<1>14. Moderating!RecordedActionHolds'
  <2>1. SUFFICES ASSUME NEW p \in Moderating!Filed
                 PROVE  /\ action'[p] # None /\ Moderating!Removes(action'[p]) => p \in cleared'
                        /\ action'[p] # None /\ Moderating!Suspends(action'[p]) => of[p] \notin active' \/ of[p] \in reinstated'
                        /\ action'[p] = "limit" => warned'[of[p]] > 0
    <3>1. filed' = filed /\ of' = of BY <1>1
    <3>2. QED BY <2>1, <3>1 DEF Moderating!RecordedActionHolds, Moderating!Filed, Moderating!Removes, Moderating!Suspends
  <2>2. p \in Moderating!Report /\ of[p] \in Suspect BY FiledReports DEF Report
  <2>3. CASE p \in done
    <3>1. action'[p] = resolves[r][p] BY <1>1, <2>2, <2>3
    <3>2. Moderating!Suspends(action'[p]) => of[p] \in suspends[r] BY <1>2, <2>2, <3>1 DEF Work, Report
    <3>3. action'[p] = "limit" => warned1[r][of[p]] # None /\ warned1[r][of[p]] > 0
      BY <1>2, <2>2, <3>1 DEF Work, Report, Writes
    <3>4. QED BY <1>1, <2>2, <2>3, <3>1, <3>2, <3>3
  <2>4. CASE p \notin done
    <3>1. action'[p] = action[p] BY <1>1, <2>2, <2>4
    <3>2. action[p] = "limit" => warned'[of[p]] > 0
      BY <1>1, <1>2, <2>2 DEF Work, Moderating!RecordedActionHolds
    <3>3. QED BY <1>1, <1>2, <3>1, <3>2 DEF Moderating!RecordedActionHolds
  <2>5. QED BY <2>3, <2>4
<1>15. FiledInv'
  <2>1. \A p \in Report : p \in done => p <= filed
    BY <1>2, WorkedOn DEF Report
  <2>2. \A q \in Reviewer : \A p \in Moderating!UnderReview(q)' : p <= filed BY <1>2, <1>3, <1>5 DEF FiledInv
  <2>3. \A p \in Moderating!Report : IF p <= filed THEN of[p] \in Suspect
                                      ELSE status'[p] = "none" /\ action'[p] = None
    BY <1>1, <1>2, <2>1 DEF FiledInv, Report
  <2>4. QED BY <1>1, <2>2, <2>3 DEF FiledInv, Report
<1>16. SharedInv' BY <1>1, <1>2, <1>3, <1>5 DEF SharedInv
<1>17. OpenInv'
  <2>1. ASSUME NEW q \in Reviewer \ {r}, NEW p \in Moderating!UnderReview(q) \ doubled PROVE status'[p] = "open"
    <3>1. p \in Moderating!Report BY WorkedOn DEF Report
    <3>2. p \notin done BY <1>2, <3>1, WorkedOn DEF SharedInv, Report
    <3>3. status[p] = "open" BY DEF ReviewInd, OpenInv
    <3>4. QED BY <1>1, <3>1, <3>2, <3>3
  <2>2. doubled' = doubled BY <1>1
  <2>3. QED BY <1>3, <1>5, <2>1, <2>2 DEF OpenInv
<1>18. WorkInv'
  <2>1. ASSUME NEW q \in Reviewer \ {r} PROVE Work(q)'
    <3>1. Work(q) /\ of' = of BY <1>1 DEF ReviewInd, WorkInv
    <3>2. QED BY <1>4, <1>5, <1>6, <3>1 DEF Work, Report, Moderating!Suspends
  <2>2. QED BY <1>3, <2>1 DEF WorkInv
<1>19. RowsInv'
  <2>1. ASSUME NEW q \in Reviewer \ {r} PROVE Rows(q)'
    <3>1. Rows(q) /\ Work(q) /\ of' = of /\ entangled' = entangled BY <1>1 DEF ReviewInd, RowsInv, WorkInv
    <3>2. \A u \in Suspect \ entangled : Reviews(q, u) =>
            warnings'[u] = warnings[u] /\ warned'[u] = warned[u] /\ until'[u] = until[u]
      BY <1>1, <1>8, <1>9, <1>10
    <3>3. \A u \in Suspect : warned1[q][u] # None \/ until1[q][u] # None => Reviews(q, u)
      BY <3>1 DEF Work
    <3>4. \A u \in Suspect : place[q] = "user" /\ of[Current(q)] = u => Reviews(q, u)
      BY WorkedOn DEF Reviews
    <3>5. QED BY <1>4, <1>5, <1>6, <3>1, <3>2, <3>3, <3>4 DEF Rows
  <2>2. QED BY <1>3, <2>1 DEF RowsInv
<1>20. QED
  BY <1>11, <1>12, <1>13, <1>14, <1>15, <1>16, <1>17, <1>18, <1>19 DEF ReviewInd, Moderating!ReviewInv
----------------------------------------------------------------------------
LEMMA ReviewNext == ReviewInd /\ [Moderating!Next]_(Moderating!vars) => ReviewInd'
<1> SUFFICES ASSUME ReviewInd, [Moderating!Next]_(Moderating!vars) PROVE ReviewInd' OBVIOUS
<1>0. Moderating!TypeOK BY DEF ReviewInd, Moderating!ReviewInv
<1>1. ASSUME NEW u \in Suspect, NEW bad \in BOOLEAN, Moderating!create_report_conn(u, bad) PROVE ReviewInd'
  BY <1>1, FileInd
<1>2. ASSUME NEW r \in Reviewer, NEW p \in Moderating!Report, NEW a \in Moderating!Actions,
             Moderating!resolve_report(r, p, a)
      PROVE  ReviewInd'
  <2> DEFINE p2a == [Moderating!NoPlan EXCEPT ![p] = a]
  <2>1. p \in Moderating!Filed /\ status[p] = "open" /\ Moderating!Begin(r, p2a)
    BY <1>2 DEF Moderating!resolve_report
  <2>2. p2a \in [Report -> Moderating!Actions \cup {None}] /\ \A o \in Report : p2a[o] # None => o = p
    BY DEF Moderating!NoPlan, Report
  <2>3. p <= filed BY <2>1, FiledReports
  <2> HIDE DEF p2a
  <2>4. QED BY <2>1, <2>2, <2>3, BeginInd
<1>3. ASSUME Moderating!maybe_run_daily_automatic_review PROVE ReviewInd'
  <2> DEFINE p2a == Moderating!run_automatic_review_pass
  <2>1. Moderating!Begin(Daily, p2a) BY <1>3 DEF Moderating!maybe_run_daily_automatic_review
  <2>2. /\ p2a \in [Report -> Moderating!Actions \cup {None}]
        /\ \A o \in Report : p2a[o] # None => o \in Moderating!Overdue
    BY DEF Moderating!run_automatic_review_pass, Report, Moderating!Actions
  <2>3. \A o \in Moderating!Overdue : o <= filed /\ status[o] = "open"
    BY FiledReports DEF Moderating!Overdue
  <2> HIDE DEF p2a
  <2>4. QED BY <2>1, <2>2, <2>3, BeginInd, ReviewAssumption
<1>4. ASSUME NEW r \in Reviewer, Moderating!RequestStep(r) PROVE ReviewInd'
  BY <1>4, NextReportInd, WriteUserInd, WriteReportInd, CommitInd, RollbackInd DEF Moderating!RequestStep
<1>5. ASSUME NEW u \in Suspect, NEW on \in BOOLEAN, Moderating!set_user_active(u, on) PROVE ReviewInd'
  <2>1. /\ active' = (IF on THEN active \cup {u} ELSE active \ {u})
        /\ reinstated' = (IF on THEN reinstated \cup {u} ELSE reinstated)
        /\ UNCHANGED <<now, filed, of, risky, made, status, action, cleared, until, warned, place, plan, draft,
                       stamp, until1, warned1, suspends, resolves, doubled, entangled, warnings>>
    BY <1>5 DEF Moderating!set_user_active, Moderating!reports, Moderating!local
  <2>2. now' \in 0..MaxTime /\ active' \subseteq Suspect BY <1>0, <2>1 DEF Moderating!TypeOK
  <2>3. \A v \in Suspect : v \notin active \/ v \in reinstated => v \notin active' \/ v \in reinstated'
    BY <2>1
  <2>4. QED BY <2>1, <2>2, <2>3, AsideInd
<1>6. ASSUME Moderating!Restart PROVE ReviewInd' BY <1>6, RestartInd
<1>7. ASSUME Moderating!Tick \/ UNCHANGED Moderating!vars PROVE ReviewInd'
  <2>1. /\ UNCHANGED <<filed, of, risky, made, status, action, cleared, active, until, warned, place, plan, draft,
                       stamp, until1, warned1, suspends, resolves, doubled, entangled, warnings, reinstated>>
        /\ now' \in 0..MaxTime
    BY <1>0, <1>7, ReviewAssumption DEF Moderating!Tick, Moderating!vars, Moderating!reports, Moderating!accounts,
       Moderating!local, Moderating!server, Moderating!history, Moderating!TypeOK
  <2>2. active' \subseteq Suspect BY <1>0, <2>1 DEF Moderating!TypeOK
  <2>3. QED BY <2>1, <2>2, AsideInd
<1>8. QED BY <1>1, <1>2, <1>3, <1>4, <1>5, <1>6, <1>7 DEF Moderating!Next

(* resolve_report_conn, for any number of reviews at a time: what a report *)
(* says was done to its content and its user holds, and the warnings of a  *)
(* user count the restrictions unless two reviews of the user overlapped.  *)
THEOREM ReviewsHold == Moderating!Spec => []Moderating!ReviewInv
<1>1. ReviewInd => Moderating!ReviewInv BY DEF ReviewInd
<1>2. QED BY <1>1, ReviewInit, ReviewNext, PTL DEF Moderating!Spec

(* The same of the runs, in which Moderation is one of four parts.  *)
THEOREM ReviewsRun == MCSpec => []ReviewInv
<1> DEFINE Ind == part = "moderation" => ReviewInd
<1>1. MCInit => Ind BY ReviewInit DEF MCInit
<1>2. Ind /\ [MCNext]_mcVars => Ind'
  <2> SUFFICES ASSUME Ind, [MCNext]_mcVars, part' = "moderation" PROVE ReviewInd'
    OBVIOUS
  <2>1. part = "moderation" BY DEF MCNext, mcVars
  <2>2. UNCHANGED modVars => UNCHANGED Moderating!vars
    BY DEF modVars, Moderating!vars, Moderating!reports, Moderating!accounts, Moderating!local,
           Moderating!server, Moderating!history
  <2>3. [Moderating!Next]_(Moderating!vars) BY <2>1, <2>2 DEF MCNext, mcVars
  <2>4. QED BY <2>1, <2>3, ReviewNext
<1>3. Ind => ReviewInv BY DEF ReviewInd, ReviewInv
<1>4. QED BY <1>1, <1>2, <1>3, PTL DEF MCSpec

(* Only a commit changes a report or a row that was there before. *)
LEMMA OnlyCommits ==
  ASSUME ReviewInd, [Moderating!Next]_(Moderating!vars),
         ~\E r \in Reviewer : Moderating!Commit(r)
  PROVE  /\ until' = until /\ action' = action
         /\ \A p \in Report : status[p] \in {"resolved", "dismissed"} => status'[p] = status[p]
<1> USE DEF Moderating!reports, Moderating!accounts, Moderating!local, Moderating!server, Moderating!history
<1>1. ASSUME NEW u \in Suspect, NEW bad \in BOOLEAN, Moderating!create_report_conn(u, bad)
      PROVE  /\ until' = until /\ action' = action
             /\ \A p \in Report : status[p] \in {"resolved", "dismissed"} => status'[p] = status[p]
  <2>1. /\ UNCHANGED <<until, action>> /\ filed + 1 <= MaxReport
        /\ status' = [status EXCEPT ![filed + 1] = "open"]
    BY <1>1, ReviewAssumption DEF Moderating!create_report_conn, ReviewInd, LocalTypes
  <2>2. filed + 1 \in Report /\ status[filed + 1] = "none"
    BY <2>1, ReviewAssumption DEF ReviewInd, LocalTypes, FiledInv, Report, Moderating!Report
  <2>3. \A p \in Report : p # filed + 1 => status'[p] = status[p]
    BY <2>1 DEF ReviewInd, Moderating!ReviewInv, Moderating!TypeOK, Report
  <2>4. QED BY <2>1, <2>2, <2>3
<1>2. CASE \E r \in Reviewer, p \in Moderating!Report, a \in Moderating!Actions : Moderating!resolve_report(r, p, a)
  BY <1>2 DEF Moderating!resolve_report, Moderating!Begin
<1>3. CASE Moderating!maybe_run_daily_automatic_review
  BY <1>3 DEF Moderating!maybe_run_daily_automatic_review, Moderating!Begin
<1>4. CASE \E r \in Reviewer : Moderating!RequestStep(r)
  <2>1. PICK r \in Reviewer : Moderating!RequestStep(r) BY <1>4
  <2>2. UNCHANGED <<until, action, status>>
    BY <2>1 DEF Moderating!RequestStep, Moderating!NextReport, Moderating!WriteUser, Moderating!WriteReport,
                Moderating!Rollback
  <2>3. QED BY <2>2
<1>5. CASE \E u \in Suspect, on \in BOOLEAN : Moderating!set_user_active(u, on)
  BY <1>5 DEF Moderating!set_user_active
<1>6. CASE Moderating!Restart BY <1>6 DEF Moderating!Restart
<1>7. CASE Moderating!Tick \/ UNCHANGED Moderating!vars BY <1>7 DEF Moderating!Tick, Moderating!vars
<1>8. QED BY <1>1, <1>2, <1>3, <1>4, <1>5, <1>6, <1>7 DEF Moderating!Next

LEMMA ReviewsStay ==
  ASSUME ReviewInd, [Moderating!Next]_(Moderating!vars)
  PROVE  Moderating!ReviewStays /\ Moderating!RestrictionStays
<1>0. Moderating!TypeOK /\ LocalTypes BY DEF ReviewInd, Moderating!ReviewInv
<1>1. CASE \E r \in Reviewer : Moderating!Commit(r)
  <2>1. PICK r \in Reviewer : Moderating!Commit(r) BY <1>1
  <2>2. /\ status' = [p \in Moderating!Report |-> IF resolves[r][p] = None THEN status[p]
                       ELSE IF resolves[r][p] = "dismiss" THEN "dismissed" ELSE "resolved"]
        /\ action' = [p \in Moderating!Report |-> IF resolves[r][p] # None THEN resolves[r][p] ELSE action[p]]
        /\ until' = [u \in Suspect |-> IF until1[r][u] # None THEN until1[r][u] ELSE until[u]]
    BY <2>1 DEF Moderating!Commit
  <2>3. ASSUME NEW p \in Moderating!Report \ doubled, status[p] \in {"resolved", "dismissed"}
        PROVE  status'[p] = status[p] /\ action'[p] = action[p]
    <3>1. p \notin Moderating!UnderReview(r) BY <2>3 DEF ReviewInd, OpenInv
    <3>2. resolves[r][p] = None BY <3>1 DEF Moderating!UnderReview
    <3>3. QED BY <2>2, <3>2
  <2>4. ASSUME NEW u \in Suspect \ entangled PROVE until'[u] >= until[u]
    <3>1. until1[r][u] # None => until1[r][u] >= until[u] BY DEF ReviewInd, RowsInv, Rows
    <3>2. until[u] \in Nat BY <1>0 DEF Moderating!TypeOK
    <3>3. QED BY <2>2, <3>1, <3>2
  <2>5. QED BY <2>3, <2>4 DEF Moderating!ReviewStays, Moderating!RestrictionStays
<1>2. CASE ~\E r \in Reviewer : Moderating!Commit(r)
  <2>1. \A u \in Suspect : until[u] \in Nat BY <1>0 DEF Moderating!TypeOK
  <2>2. QED BY <1>2, <2>1, OnlyCommits DEF Moderating!ReviewStays, Moderating!RestrictionStays, Report
<1>3. QED BY <1>1, <1>2

(* resolve_report, "Report has already been reviewed": what one review has *)
(* committed only a review that ran at the same time overwrites.           *)
THEOREM ReviewsAreFinal == Moderating!Spec => Moderating!ReviewedOnce
<1>1. ReviewInd /\ [Moderating!Next]_(Moderating!vars) => [Moderating!ReviewStays]_(Moderating!vars)
  BY ReviewsStay
<1>2. QED BY <1>1, ReviewInit, ReviewNext, PTL DEF Moderating!Spec, Moderating!ReviewedOnce

(* apply_temporary_dm_restriction_conn: a restriction is never shortened   *)
(* unless two reviews of the user overlapped.                              *)
THEOREM RestrictionsLast == Moderating!Spec => Moderating!RestrictionIsKept
<1>1. ReviewInd /\ [Moderating!Next]_(Moderating!vars) => [Moderating!RestrictionStays]_(Moderating!vars)
  BY ReviewsStay
<1>2. QED BY <1>1, ReviewInit, ReviewNext, PTL DEF Moderating!Spec, Moderating!RestrictionIsKept
----------------------------------------------------------------------------
(* GuildPolicy: a table that normalize_guild_policy has accepted. *)
Row(e) ==
  /\ e.level \in Int /\ e.min \in Int
  /\ e.max \in Int \cup {None} /\ e.limit \in Int \cup {None}
Known == Entry \cup {Policy!default_level_policies[i] : i \in 1..8}
GoodTable(t) == t \in Seq(Known) /\ Policy!Accepts(t)

PolicyInd ==
  /\ days \in 0..MaxDays /\ level \in 1..10 /\ news \in (1..10) \cup {None}
  /\ stored # None => stored \in Seq(Entry) /\ Policy!Accepts(stored)

LEMMA KnownRows == ASSUME NEW e \in Known PROVE Row(e)
<1>1. CASE e \in Entry BY <1>1, PolicyAssumption DEF Row
<1>2. ASSUME NEW i \in 1..8, e = Policy!default_level_policies[i] PROVE Row(e)
  <2>1. i \in {1, 2, 3, 4, 5, 6, 7, 8} OBVIOUS
  <2>2. QED BY <1>2, <2>1 DEF Row, Policy!default_level_policies
<1>3. QED BY <1>1, <1>2 DEF Known

(* The rows of a table that was accepted, one after the other. *)
LEMMA RowsFollow ==
  ASSUME NEW t, GoodTable(t), NEW i \in DOMAIN t, NEW j \in DOMAIN t, i < j
  PROVE  t[i].max \in Int /\ t[i].min <= t[i].max /\ t[i].max < t[j].min
<1>0. /\ Len(t) \in Nat /\ DOMAIN t = 1..Len(t)
      /\ \A k \in DOMAIN t : Row(t[k]) /\ Policy!RangeOK(t, k)
  BY KnownRows DEF GoodTable, Policy!Accepts
<1>1. \A k \in DOMAIN t : k < Len(t) =>
        /\ t[k].max \in Int /\ t[k].min \in Int /\ t[k].min <= t[k].max
        /\ k + 1 \in DOMAIN t /\ t[k + 1].min \in Int /\ t[k].max < t[k + 1].min
  <2> TAKE k \in DOMAIN t
  <2> HAVE k < Len(t)
  <2>1. k + 1 \in DOMAIN t BY <1>0
  <2>2. Row(t[k]) /\ Row(t[k + 1]) /\ Policy!RangeOK(t, k) BY <1>0, <2>1
  <2>3. t[k].max # None BY <1>0, <2>2 DEF Policy!RangeOK
  <2>4. QED BY <1>0, <2>1, <2>2, <2>3 DEF Policy!RangeOK, Row
<1>2. i < Len(t) BY <1>0
<1> DEFINE Bad == {k \in Nat : k \in DOMAIN t /\ i < k /\ ~(t[i].max < t[k].min)}
<1>3. Bad = {}
  <2> SUFFICES ASSUME Bad # {} PROVE FALSE OBVIOUS
  <2>1. PICK k \in Bad : \A m \in Bad : k <= m
    <3>1. Bad \subseteq Nat OBVIOUS
    <3> HIDE DEF Bad
    <3>2. QED BY <3>1, Least
  <2>2. k # i + 1 BY <1>1, <1>2
  <2>3. k - 1 \in DOMAIN t /\ i < k - 1 /\ k - 1 < Len(t) /\ k - 1 + 1 = k BY <1>0, <2>2
  <2>4. k - 1 \notin Bad BY <1>0, <2>1
  <2>5. t[i].max < t[k - 1].min BY <1>0, <2>3, <2>4
  <2>6. QED BY <1>1, <1>2, <2>3, <2>5
<1>4. QED BY <1>0, <1>1, <1>2, <1>3

(* A number of days has one row at most, and the search finds it. *)
LEMMA OneRow ==
  ASSUME NEW t, GoodTable(t), NEW d \in Nat
  PROVE  LET rows == {i \in DOMAIN t : Policy!Covers(t[i], d)}
             found == Policy!level_policy_for_active_days(t, d)
         IN  \/ \E i \in DOMAIN t : rows = {i} /\ found = t[i]
             \/ rows = {} /\ found = t[Len(t)] /\ \A i \in DOMAIN t : found.min >= t[i].min
<1> DEFINE rows == {i \in DOMAIN t : Policy!Covers(t[i], d)}
           found == Policy!level_policy_for_active_days(t, d)
<1>0. /\ Len(t) \in Nat /\ DOMAIN t = 1..Len(t) /\ Len(t) \in DOMAIN t
      /\ \A k \in DOMAIN t : Row(t[k])
  BY KnownRows DEF GoodTable, Policy!Accepts
<1>1. \A i, j \in rows : i = j
  <2>1. ASSUME NEW i \in rows, NEW j \in rows, i < j PROVE FALSE
    <3>1. t[i].max \in Int /\ t[i].max < t[j].min /\ t[j].min \in Int BY <1>0, <2>1, RowsFollow DEF Row
    <3>2. d <= t[i].max /\ d >= t[j].min BY <2>1, <3>1, PolicyAssumption DEF Policy!Covers
    <3>3. QED BY <3>1, <3>2
  <2>2. rows \subseteq Int BY <1>0
  <2>3. QED BY <2>1, <2>2
<1>2. CASE rows = {}
  <2>1. found = t[Len(t)] BY <1>2 DEF Policy!level_policy_for_active_days
  <2>2. \A i \in DOMAIN t : t[Len(t)].min >= t[i].min
    <3> TAKE i \in DOMAIN t
    <3>1. CASE i = Len(t) BY <1>0, <3>1 DEF Row
    <3>2. CASE i < Len(t) BY <1>0, <3>2, RowsFollow DEF Row
    <3>3. QED BY <1>0, <3>1, <3>2
  <2>3. QED BY <1>2, <2>1, <2>2
<1>3. ASSUME NEW i \in rows PROVE rows = {i} /\ found = t[i]
  <2>1. rows = {i} BY <1>1
  <2>2. \A j \in 1..(i - 1) : ~Policy!Covers(t[j], d) BY <1>0, <2>1
  <2>3. \A k : k \in DOMAIN t /\ Policy!Covers(t[k], d) => k = i BY <2>1
  <2>4. (CHOOSE k \in DOMAIN t : Policy!Covers(t[k], d) /\ \A j \in 1..(k - 1) : ~Policy!Covers(t[j], d)) = i
    BY <2>2, <2>3
  <2>5. QED BY <2>1, <2>4 DEF Policy!level_policy_for_active_days
<1>4. QED BY <1>2, <1>3

(* So does the search find a row of the table. *)
LEMMA FoundRow ==
  ASSUME NEW t, GoodTable(t), NEW d \in Nat
  PROVE  /\ \E i \in DOMAIN t : Policy!level_policy_for_active_days(t, d) = t[i]
         /\ Row(Policy!level_policy_for_active_days(t, d))
         /\ Policy!LevelOf(t, d) \in 1..10
<1>1. Len(t) \in DOMAIN t /\ \A k \in DOMAIN t : Row(t[k])
  BY KnownRows DEF GoodTable, Policy!Accepts
<1>2. PICK i \in DOMAIN t : Policy!level_policy_for_active_days(t, d) = t[i] BY <1>1, OneRow
<1>3. t[i].level \in 1..10 BY DEF GoodTable, Policy!Accepts
<1>4. QED BY <1>1, <1>2, <1>3 DEF Policy!LevelOf

(* default_level_policies would be accepted. *)
LEMMA DefaultAccepted == GoodTable(Policy!default_level_policies)
<1> DEFINE t == Policy!default_level_policies
<1>1. t \in Seq(Known) /\ Len(t) = 8 /\ DOMAIN t = 1..8
  BY DEF Known, Policy!default_level_policies
<1>2. \A i \in 1..8 : i \in {1, 2, 3, 4, 5, 6, 7, 8} OBVIOUS
<1>3. \A i \in 1..8 : /\ t[i].level = i /\ t[i].min \in Nat
                      /\ t[i].limit # None => t[i].limit \in Nat
  BY <1>2 DEF Policy!default_level_policies
<1>4. \A i \in 1..8 : Policy!RangeOK(t, i)
  BY <1>1, <1>2, PolicyAssumption DEF Policy!RangeOK, Policy!default_level_policies
<1>5. t[1].min = 0 BY DEF Policy!default_level_policies
<1>6. t # << >> BY <1>1
<1> HIDE DEF t
<1>7. Policy!Unique(t)
  <2>1. \A i \in DOMAIN t : t[i].level = i BY <1>1, <1>3
  <2>2. QED BY <2>1, Zenon DEF Policy!Unique
<1>8. \A i \in 1..8 : /\ t[i].level \in 1..10 /\ t[i].min >= 0
                      /\ t[i].limit # None => t[i].limit >= 0
  BY <1>3
<1>9. GoodTable(t) BY <1>1, <1>4, <1>5, <1>6, <1>7, <1>8 DEF GoodTable, Policy!Accepts
<1>10. QED BY <1>9 DEF t

(* The table in force was accepted. *)
LEMMA InForce ==
  ASSUME PolicyInd
  PROVE  GoodTable(Policy!load_guild_policy)
<1>1. stored # None => GoodTable(stored) BY DEF PolicyInd, GoodTable, Known
<1>2. QED BY <1>1, DefaultAccepted DEF Policy!load_guild_policy

(* level_progress_percent divides a part of the span by the span. *)
LEMMA ShareOfSpan ==
  ASSUME NEW x \in Nat, NEW s \in Nat, 1 <= s, x <= s
  PROVE  /\ (x * 100) \div s \in 0..100
         /\ (x * 100) \div s = 100 => x = s
<1> DEFINE q == (x * 100) \div s
<1>1. q \in Int /\ s * q <= x * 100 /\ x * 100 < s * q + s OBVIOUS
<1>2. q >= 0
  <2> SUFFICES ASSUME q <= -1 PROVE FALSE BY <1>1
  <2> HIDE DEF q
  <2>1. s * q <= s * (-1) BY <1>1
  <2>2. QED BY <1>1, <2>1
<1>3. q <= 100
  <2> SUFFICES ASSUME q >= 101 PROVE FALSE BY <1>1
  <2> HIDE DEF q
  <2>1. s * q >= s * 101 BY <1>1
  <2>2. QED BY <1>1, <2>1
<1>4. q = 100 => x = s
  <2> HIDE DEF q
  <2>1. q = 100 => s * q = s * 100 BY <1>1
  <2>2. QED BY <1>1, <2>1
<1>5. QED BY <1>1, <1>2, <1>3, <1>4

(* effective_daily_limit: a product within i32 does not wrap. *)
LEMMA NoWrap == ASSUME NEW x \in 0..Int32 PROVE Policy!Wrap(x) = x
<1> DEFINE m == Int32 + 1
<1>1. m \in Nat /\ m > 0 /\ x + m \in Nat /\ x + m < 2 * m BY PolicyAssumption
<1>2. (x + m) % (2 * m) = x + m
  <2> HIDE DEF m
  <2>1. QED BY <1>1
<1>3. QED BY <1>1, <1>2, PolicyAssumption DEF Policy!Wrap

LEMMA MoreThanWhole ==
  ASSUME NEW limit \in Nat, NEW percent \in Nat
  PROVE  LET p == limit * percent
         IN  /\ p \in Nat /\ p \div 100 \in Nat
             /\ percent >= 100 => p \div 100 >= limit
             /\ limit * (percent - 100) >= 100 => p \div 100 > limit
<1> DEFINE p == limit * percent
<1>1. p \in Nat OBVIOUS
<1>2. percent >= 100 => p >= limit * 100 OBVIOUS
<1>3. limit * (percent - 100) = p - limit * 100 OBVIOUS
<1> HIDE DEF p
<1>4. QED BY <1>1, <1>2, <1>3 DEF p

LEMMA ProgressShown == PolicyInd => Policy!ProgressInRange
<1> SUFFICES ASSUME PolicyInd PROVE Policy!ProgressInRange OBVIOUS
<1> DEFINE t == Policy!load_guild_policy
           row == Policy!level_policy_for_active_days(t, days)
           next == Policy!next_level_active_days(t, row.level)
           span == Policy!Clamp(next - row.min, 1, Int32)
           part1 == Policy!Clamp(days - row.min, 0, span)
<1>0. GoodTable(t) /\ days \in Nat /\ days <= MaxDays BY InForce, PolicyAssumption DEF PolicyInd
<1>1. row.min \in Int /\ row.min >= 0
  <2>1. PICK i \in DOMAIN t : row = t[i] /\ Row(row) BY <1>0, FoundRow
  <2>2. t[i].min >= 0 BY <1>0 DEF GoodTable, Policy!Accepts
  <2>3. QED BY <2>1, <2>2 DEF Row
<1>2. next # None => next \in Int
  <2> DEFINE above == {i \in DOMAIN t : t[i].level > row.level}
  <2>1. above \subseteq Nat BY <1>0 DEF GoodTable
  <2>2. \A i \in DOMAIN t : t[i].min \in Int BY <1>0, KnownRows DEF GoodTable, Row
  <2>3. CASE above = {} BY <2>3 DEF Policy!next_level_active_days
  <2>4. CASE above # {}
    <3>1. \E i \in above : \A j \in above : i <= j BY <2>1, <2>4, Least
    <3>2. (CHOOSE i \in above : \A j \in above : i <= j) \in DOMAIN t BY <3>1
    <3>3. next = t[CHOOSE i \in above : \A j \in above : i <= j].min
      BY <2>4 DEF Policy!next_level_active_days
    <3>4. QED BY <2>2, <3>2, <3>3
  <2>5. QED BY <2>3, <2>4
<1>3. Policy!ProgressInRange <=>
        LET shown == Policy!level_progress_percent(days, row.min, next)
        IN  shown \in 0..100 /\ (shown = 100 => next = None \/ next <= days)
  BY DEF Policy!ProgressInRange
<1> HIDE DEF row, next, t
<1>4. CASE next = None BY <1>3, <1>4 DEF Policy!level_progress_percent
<1>5. CASE next # None
  <2>1. next \in Int BY <1>2, <1>5
  <2>2. span \in Nat /\ 1 <= span /\ part1 \in Nat /\ part1 <= span
    BY <1>0, <1>1, <2>1, PolicyAssumption DEF Policy!Clamp
  <2>3. part1 = span => next <= days
    <3>1. days - row.min < Int32 BY <1>0, <1>1, PolicyAssumption
    <3>2. QED BY <1>0, <1>1, <2>1, <3>1, PolicyAssumption DEF Policy!Clamp
  <2>4. Policy!level_progress_percent(days, row.min, next) = (part1 * 100) \div span
    BY <1>5 DEF Policy!level_progress_percent
  <2> HIDE DEF part1, span
  <2>5. QED BY <1>3, <2>2, <2>3, <2>4, ShareOfSpan
<1>6. QED BY <1>4, <1>5

LEMMA LimitsNotLowered == PolicyInd => Policy!RankLowersNoLimit
<1> SUFFICES ASSUME PolicyInd PROVE Policy!RankLowersNoLimit OBVIOUS
<1> DEFINE t == Policy!load_guild_policy
           limit == Policy!level_policy_for_active_days(t, days).limit
<1>0. GoodTable(t) /\ days \in Nat BY InForce, PolicyAssumption DEF PolicyInd
<1>1. limit # None => limit \in Nat
  <2>1. PICK i \in DOMAIN t : /\ Policy!level_policy_for_active_days(t, days) = t[i]
                              /\ Row(Policy!level_policy_for_active_days(t, days))
    BY <1>0, FoundRow
  <2>2. t[i].limit # None => t[i].limit >= 0 BY <1>0 DEF GoodTable, Policy!Accepts
  <2>3. QED BY <2>1, <2>2 DEF Row
<1>2. Policy!RankLowersNoLimit <=>
        \A percent \in Percent :
          limit # None /\ limit * percent <= Int32
            => LET got == Policy!effective_daily_limit(limit, percent, FALSE)
               IN  got >= 0 /\ (percent >= 100 => got >= limit)
                   /\ (limit * (percent - 100) >= 100 => got > limit)
  BY DEF Policy!RankLowersNoLimit
<1> HIDE DEF t, limit
<1>3. ASSUME NEW percent \in Percent, limit # None, limit * percent <= Int32
      PROVE  LET got == Policy!effective_daily_limit(limit, percent, FALSE)
             IN  got >= 0 /\ (percent >= 100 => got >= limit)
                 /\ (limit * (percent - 100) >= 100 => got > limit)
  <2> DEFINE p == limit * percent
  <2>1. limit \in Nat /\ percent \in Nat /\ percent # None BY <1>1, <1>3, PolicyAssumption
  <2>2. p \in Nat /\ p <= Int32 /\ Int32 \in Nat BY <1>3, <2>1, MoreThanWhole, PolicyAssumption
  <2>3. Policy!Wrap(p) = p
    <3> HIDE DEF p
    <3>1. QED BY <2>2, NoWrap
  <2>4. Policy!effective_daily_limit(limit, percent, FALSE) = Policy!Quotient(Policy!Wrap(p), 100)
    BY <1>3, <2>1 DEF Policy!effective_daily_limit
  <2>5. Policy!Quotient(p, 100) = p \div 100
    <3> HIDE DEF p
    <3>1. QED BY <2>2 DEF Policy!Quotient
  <2>6. /\ p \div 100 \in Nat
        /\ percent >= 100 => p \div 100 >= limit
        /\ limit * (percent - 100) >= 100 => p \div 100 > limit
    BY <2>1, MoreThanWhole
  <2> HIDE DEF p
  <2>7. Policy!effective_daily_limit(limit, percent, FALSE) = p \div 100 BY <2>3, <2>4, <2>5
  <2>8. p \div 100 >= 0 BY <2>6
  <2>9. QED BY <2>6, <2>7, <2>8, Zenon
<1>4. QED BY <1>2, <1>3

LEMMA PolicyHolds == PolicyInd => Policy!PolicyInv
<1> SUFFICES ASSUME PolicyInd PROVE Policy!PolicyInv OBVIOUS
<1>1. Policy!TypeOK
  BY PolicyAssumption DEF PolicyInd, Policy!TypeOK
<1>2. Policy!EachDayHasOneRow
  <2> DEFINE t == Policy!load_guild_policy
  <2>1. GoodTable(t) BY InForce
  <2>2. \A d \in 0..MaxDays : d \in Nat BY PolicyAssumption
  <2>3. Policy!EachDayHasOneRow <=>
          \A d \in 0..MaxDays :
            LET rows == {i \in DOMAIN t : Policy!Covers(t[i], d)}
                found == Policy!level_policy_for_active_days(t, d)
            IN  \/ \E i \in DOMAIN t : rows = {i} /\ found = t[i]
                \/ rows = {} /\ \A i \in DOMAIN t : found.min >= t[i].min
    BY DEF Policy!EachDayHasOneRow
  <2> HIDE DEF t
  <2>4. QED BY <2>1, <2>2, <2>3, OneRow
<1>3. QED BY <1>1, <1>2, ProgressShown, LimitsNotLowered DEF Policy!PolicyInv

LEMMA PolicyInit == Policy!Init => PolicyInd
<1> SUFFICES ASSUME Policy!Init PROVE PolicyInd OBVIOUS
<1>1. GoodTable(Policy!load_guild_policy)
  <2>1. GoodTable(Policy!default_level_policies) BY DefaultAccepted
  <2>2. QED BY <2>1 DEF Policy!Init, Policy!load_guild_policy
<1>2. Policy!LevelOf(Policy!load_guild_policy, 0) \in 1..10 BY <1>1, FoundRow
<1>3. QED BY <1>2, PolicyAssumption DEF Policy!Init, PolicyInd

LEMMA PolicyNext == PolicyInd /\ [Policy!Next]_(Policy!vars) => PolicyInd'
<1> SUFFICES ASSUME PolicyInd, [Policy!Next]_(Policy!vars) PROVE PolicyInd' OBVIOUS
<1>0. GoodTable(Policy!load_guild_policy) /\ MaxDays \in Nat BY InForce, PolicyAssumption
<1>1. ASSUME NEW t \in Policy!Tables, Policy!save_guild_policy(t) PROVE PolicyInd'
  <2>1. PICK s \in Policy!Sorted(t) : Policy!Accepts(s) /\ stored' = s
    BY <1>1 DEF Policy!save_guild_policy
  <2>2. PICK p \in [DOMAIN t -> DOMAIN t] : s = [i \in DOMAIN t |-> t[p[i]]]
    BY DEF Policy!Sorted, Policy!Bijection, Policy!Injection
  <2>3. s \in Seq(Entry) BY <2>2 DEF Policy!Tables
  <2>4. UNCHANGED <<days, level, news>> BY <1>1 DEF Policy!save_guild_policy
  <2>5. QED BY <2>1, <2>3, <2>4 DEF PolicyInd, Policy!Accepts, Policy!Unique, Policy!RangeOK
<1>2. CASE Policy!advance_active_day
  <2>1. /\ days' \in 0..MaxDays /\ days' \in Nat /\ UNCHANGED <<stored, news>>
        /\ level' = Policy!LevelOf(Policy!load_guild_policy, days')
    BY <1>0, <1>2 DEF Policy!advance_active_day, PolicyInd
  <2>2. level' \in 1..10 BY <1>0, <2>1, FoundRow
  <2>3. QED BY <2>1, <2>2 DEF PolicyInd, Policy!Accepts, Policy!Unique, Policy!RangeOK
<1>3. CASE Policy!get_guild_snapshot
  <2>1. level' \in 1..10 /\ news' \in (1..10) \cup {None} /\ UNCHANGED <<stored, days>>
    BY <1>0, <1>3, FoundRow DEF Policy!get_guild_snapshot, PolicyInd
  <2>2. QED BY <2>1 DEF PolicyInd, Policy!Accepts, Policy!Unique, Policy!RangeOK
<1>4. CASE UNCHANGED Policy!vars
  BY <1>4 DEF Policy!vars, PolicyInd, Policy!Accepts, Policy!Unique, Policy!RangeOK
<1>5. QED BY <1>1, <1>2, <1>3, <1>4 DEF Policy!Next

(* sort_by_key: where a row goes is the number of rows that come before    *)
(* it, so a table has one stable sorted arrangement and no other.          *)
Earlier(t, i) == {j \in DOMAIN t : t[j].min < t[i].min \/ (t[j].min = t[i].min /\ j < i)}

LEMMA UpTo == ASSUME NEW n \in Nat PROVE IsFiniteSet(1..n) /\ Cardinality(1..n) = n
<1>1. IsFiniteSet(1..n) /\ Cardinality(1..n) = IF 1 > n THEN 0 ELSE n - 1 + 1 BY FS_Interval
<1>2. (IF 1 > n THEN 0 ELSE n - 1 + 1) = n OBVIOUS
<1>3. QED BY <1>1, <1>2

LEMMA PlaceOfRow ==
  ASSUME NEW t \in Seq(Entry), NEW i \in DOMAIN t
  PROVE  /\ IsFiniteSet(Earlier(t, i)) /\ Cardinality(Earlier(t, i)) \in 0..(Len(t) - 1)
         /\ \A j \in DOMAIN t : i # j => i \in Earlier(t, j) \/ j \in Earlier(t, i)
         /\ \A j \in Earlier(t, i) : Cardinality(Earlier(t, j)) < Cardinality(Earlier(t, i))
<1>0. /\ Len(t) \in Nat /\ DOMAIN t = 1..Len(t) /\ IsFiniteSet(DOMAIN t) /\ Cardinality(DOMAIN t) = Len(t)
      /\ \A k \in DOMAIN t : t[k].min \in Int
  <2>1. Len(t) \in Nat /\ DOMAIN t = 1..Len(t) /\ \A k \in DOMAIN t : t[k] \in Entry OBVIOUS
  <2>2. IsFiniteSet(1..Len(t)) /\ Cardinality(1..Len(t)) = Len(t) BY <2>1, UpTo
  <2>3. \A k \in DOMAIN t : t[k].min \in Int BY <2>1, PolicyAssumption
  <2>4. QED BY <2>1, <2>2, <2>3
<1>1. ASSUME NEW k \in DOMAIN t
      PROVE  /\ Earlier(t, k) \subseteq DOMAIN t \ {k} /\ IsFiniteSet(Earlier(t, k))
             /\ Cardinality(Earlier(t, k)) \in 0..(Len(t) - 1)
  <2>1. Earlier(t, k) \subseteq DOMAIN t \ {k} BY <1>0 DEF Earlier
  <2>2. IsFiniteSet(DOMAIN t \ {k}) /\ Cardinality(DOMAIN t \ {k}) = Len(t) - 1 BY <1>0, FS_RemoveElement
  <2>3. IsFiniteSet(Earlier(t, k)) /\ Cardinality(Earlier(t, k)) <= Len(t) - 1 BY <2>1, <2>2, FS_Subset
  <2>4. QED BY <1>0, <2>1, <2>3, FS_CardinalityType
<1>2. \A j \in DOMAIN t : i # j => i \in Earlier(t, j) \/ j \in Earlier(t, i) BY <1>0 DEF Earlier
<1>3. ASSUME NEW j \in Earlier(t, i) PROVE Cardinality(Earlier(t, j)) < Cardinality(Earlier(t, i))
  <2>1. j \in DOMAIN t BY DEF Earlier
  <2>2. Earlier(t, j) \subseteq Earlier(t, i) BY <1>0, <2>1 DEF Earlier
  <2>3. j \notin Earlier(t, j) BY <1>1, <2>1
  <2>4. /\ Cardinality(Earlier(t, j)) <= Cardinality(Earlier(t, i))
        /\ Cardinality(Earlier(t, j)) # Cardinality(Earlier(t, i))
    BY <1>1, <2>2, <2>3, FS_Subset
  <2>5. Cardinality(Earlier(t, j)) \in Int /\ Cardinality(Earlier(t, i)) \in Int BY <1>0, <1>1, <2>1
  <2>6. QED BY <2>4, <2>5
<1>4. QED BY <1>1, <1>2, <1>3

(* normalize_guild_policy sorts a table in one way: a save is never stuck  *)
(* for want of an order, and no choice of rows that begin on the same day  *)
(* is left open.                                                           *)
THEOREM TablesSort == ASSUME NEW t \in Policy!Tables PROVE \E s : Policy!Sorted(t) = {s}
<1>0. t \in Seq(Entry) BY DEF Policy!Tables
<1> DEFINE D == DOMAIN t
           spot == [i \in D |-> Cardinality(Earlier(t, i)) + 1]
           order == [k \in D |-> CHOOSE i \in D : spot[i] = k]
<1>1. Len(t) \in Nat /\ D = 1..Len(t) /\ IsFiniteSet(D)
  <2>1. Len(t) \in Nat /\ D = 1..Len(t) BY <1>0
  <2>2. QED BY <2>1, FS_Interval
<1>2. spot \in [D -> D]
  <2>1. \A i \in D : Cardinality(Earlier(t, i)) \in 0..(Len(t) - 1) BY <1>0, PlaceOfRow
  <2>2. \A i \in D : Cardinality(Earlier(t, i)) + 1 \in D BY <1>1, <2>1
  <2>3. QED BY <2>2
<1>3. \A i, j \in D : /\ i # j => i \in Earlier(t, j) \/ j \in Earlier(t, i)
                      /\ i \in Earlier(t, j) => spot[i] < spot[j]
  <2> SUFFICES ASSUME NEW i \in D, NEW j \in D
               PROVE  /\ i # j => i \in Earlier(t, j) \/ j \in Earlier(t, i)
                      /\ i \in Earlier(t, j) => spot[i] < spot[j]
    OBVIOUS
  <2>1. Cardinality(Earlier(t, i)) \in Int /\ Cardinality(Earlier(t, j)) \in Int BY <1>0, <1>1, PlaceOfRow
  <2>2. i \in Earlier(t, j) => Cardinality(Earlier(t, i)) < Cardinality(Earlier(t, j)) BY <1>0, PlaceOfRow
  <2>3. i # j => i \in Earlier(t, j) \/ j \in Earlier(t, i) BY <1>0, PlaceOfRow
  <2>4. QED BY <2>1, <2>2, <2>3
<1> HIDE DEF spot
<1>4. \A i, j \in D : spot[i] = spot[j] => i = j BY <1>1, <1>2, <1>3
<1>5. \A k \in D : \E i \in D : spot[i] = k
  <2>1. spot \in Injection(D, D) BY <1>2, <1>4 DEF Injection, IsInjective
  <2>2. spot \in Surjection(D, D) BY <1>1, <2>1, FS_Injection
  <2>3. QED BY <2>2 DEF Surjection
<1>6. order \in [D -> D] /\ \A k \in D : spot[order[k]] = k BY <1>5
<1> HIDE DEF order
<1>7. order \in Policy!Bijection(D, D)
  <2>1. \A i \in D : order[spot[i]] = i BY <1>2, <1>4, <1>6
  <2>2. QED BY <1>2, <1>6, <2>1
       DEF Policy!Bijection, Policy!Injection, Policy!Surjection, Policy!IsInjective
<1>8. Policy!Stable(t, order)
  <2> SUFFICES ASSUME NEW i \in D, NEW j \in D, i < j PROVE order[i] \in Earlier(t, order[j])
    BY <1>6 DEF Policy!Stable, Earlier
  <2>1. order[i] \in D /\ order[j] \in D /\ spot[order[i]] = i /\ spot[order[j]] = j BY <1>6
  <2>2. order[i] # order[j] /\ ~(spot[order[j]] < spot[order[i]]) BY <1>1, <2>1
  <2>3. QED BY <1>3, <2>1, <2>2
<1>9. ASSUME NEW q \in Policy!Bijection(D, D), Policy!Stable(t, q) PROVE q = order
  <2>1. /\ q \in [D -> D] /\ \A i, j \in D : q[i] = q[j] => i = j
        /\ \A i \in D : \E k \in D : q[k] = i
    BY DEF Policy!Bijection, Policy!Injection, Policy!Surjection, Policy!IsInjective
  <2>2. \A i, j \in D : i < j => q[i] \in Earlier(t, q[j])
    BY <1>9, <2>1 DEF Policy!Stable, Earlier
  <2>3. ASSUME NEW k \in D PROVE spot[q[k]] = k
    <3> DEFINE Before == 1..(k - 1)
               f == [m \in Before |-> q[m]]
    <3>1. k \in Nat /\ k >= 1 /\ Before \subseteq D /\ IsFiniteSet(Before) /\ Cardinality(Before) = k - 1
      <4>1. k \in Nat /\ k >= 1 /\ k - 1 \in Nat /\ Before \subseteq D BY <1>1
      <4>2. QED BY <4>1, UpTo
    <3>2. \A m \in D : m \in Before <=> m < k BY <1>1
    <3> HIDE DEF Before
    <3>3. \A m \in Before : q[m] \in Earlier(t, q[k]) BY <2>2, <3>1, <3>2
    <3>4. ASSUME NEW i \in Earlier(t, q[k]) PROVE \E m \in Before : q[m] = i
      <4>1. PICK m \in D : q[m] = i BY <2>1 DEF Earlier
      <4>2. m # k /\ ~(k < m)
        <5>1. spot[i] < spot[q[k]] BY <1>3, <2>1, <4>1
        <5>2. k < m => spot[q[k]] < spot[i] BY <1>3, <2>1, <2>2, <4>1
        <5>3. spot[i] \in Int /\ spot[q[k]] \in Int
          <6>1. q[m] \in D /\ q[k] \in D BY <2>1
          <6>2. i \in D BY <4>1, <6>1
          <6>3. spot[i] \in D /\ spot[q[k]] \in D BY <1>2, <6>1, <6>2
          <6>4. D \subseteq Int BY <1>1
          <6>5. QED BY <6>3, <6>4
        <5>4. QED BY <4>1, <5>1, <5>2, <5>3
      <4>3. QED BY <1>1, <3>2, <4>1, <4>2
    <3>5. f \in Bijection(Before, Earlier(t, q[k]))
      BY <2>1, <3>1, <3>3, <3>4 DEF Bijection, Injection, Surjection, IsInjective
    <3>6. Cardinality(Earlier(t, q[k])) = k - 1
      <4>1. ExistsBijection(Before, Earlier(t, q[k])) BY <3>5 DEF ExistsBijection
      <4>2. QED BY <3>1, <4>1, FS_Bijection
    <3>7. QED BY <2>1, <3>1, <3>6 DEF spot
  <2>4. \A k \in D : q[k] = order[k] BY <1>4, <1>6, <2>1, <2>3
  <2>5. QED BY <1>6, <2>1, <2>4
<1>10. Policy!Sorted(t) = {[i \in D |-> t[order[i]]]}
  <2>1. {q \in Policy!Bijection(D, D) : Policy!Stable(t, q)} = {order} BY <1>7, <1>8, <1>9
  <2>2. QED BY <2>1 DEF Policy!Sorted
<1>11. QED BY <1>10

(* normalize_guild_policy: whatever tables administrators save, and        *)
(* however many, every number of days has one row, a progress in range and *)
(* a limit that no rank lowers.                                            *)
THEOREM PoliciesServe == Policy!Spec => []Policy!PolicyInv
<1>1. QED BY PolicyInit, PolicyNext, PolicyHolds, PTL DEF Policy!Spec

(* The same of the runs. *)
THEOREM PoliciesRun == MCSpec => []PolicyInv
<1> DEFINE Ind == part = "policy" => PolicyInd
<1>1. MCInit => Ind BY PolicyInit DEF MCInit
<1>2. Ind /\ [MCNext]_mcVars => Ind'
  <2> SUFFICES ASSUME Ind, [MCNext]_mcVars, part' = "policy" PROVE PolicyInd'
    OBVIOUS
  <2>1. part = "policy" BY DEF MCNext, mcVars
  <2>2. UNCHANGED policyVars => UNCHANGED Policy!vars BY DEF policyVars, Policy!vars
  <2>3. [Policy!Next]_(Policy!vars) BY <2>1, <2>2 DEF MCNext, mcVars
  <2>4. QED BY <2>1, <2>3, PolicyNext
<1>3. Ind => PolicyInv BY PolicyHolds DEF PolicyInv
<1>4. QED BY <1>1, <1>2, <1>3, PTL DEF MCSpec

(* Rows that follow one another in rising levels: a later row has a higher *)
(* level.                                                                  *)
LEMMA LevelsRise ==
  ASSUME NEW t, GoodTable(t), Policy!Rising(t), NEW i \in DOMAIN t, NEW j \in DOMAIN t, i <= j
  PROVE  t[i].level <= t[j].level
<1>0. /\ Len(t) \in Nat /\ DOMAIN t = 1..Len(t)
      /\ \A k \in DOMAIN t : t[k].level \in Int
  BY KnownRows DEF GoodTable, Row
<1>1. \A k \in DOMAIN t : k < Len(t) => t[k].level < t[k + 1].level
  BY <1>0 DEF Policy!Rising
<1> DEFINE Bad == {k \in Nat : k \in DOMAIN t /\ i <= k /\ ~(t[i].level <= t[k].level)}
<1>2. Bad = {}
  <2> SUFFICES ASSUME Bad # {} PROVE FALSE OBVIOUS
  <2>1. PICK k \in Bad : \A m \in Bad : k <= m
    <3>1. Bad \subseteq Nat OBVIOUS
    <3> HIDE DEF Bad
    <3>2. QED BY <3>1, Least
  <2>2. k # i BY <1>0
  <2>3. k - 1 \in DOMAIN t /\ i <= k - 1 /\ k - 1 < Len(t) /\ k - 1 + 1 = k BY <1>0, <2>2
  <2>4. k - 1 \notin Bad BY <1>0, <2>1
  <2>5. t[i].level <= t[k - 1].level BY <1>0, <2>3, <2>4
  <2>6. QED BY <1>0, <1>1, <2>3, <2>5
<1>3. QED BY <1>0, <1>2

(* Without gaps, days that no row covers come after the last one. *)
LEMMA BeyondLast ==
  ASSUME NEW t, GoodTable(t), Policy!Rising(t), NEW d \in Nat,
         \A i \in DOMAIN t : ~Policy!Covers(t[i], d)
  PROVE  \A i \in DOMAIN t : t[i].max \in Int /\ d > t[i].max
<1>0. /\ Len(t) \in Nat /\ DOMAIN t = 1..Len(t) /\ t[1].min = 0 /\ 1 \in DOMAIN t
      /\ \A k \in DOMAIN t : Row(t[k])
  BY KnownRows DEF GoodTable, Policy!Accepts
<1>1. \A k \in DOMAIN t : d >= t[k].min => t[k].max \in Int /\ d > t[k].max
  BY <1>0 DEF Row, Policy!Covers
<1>2. \A k \in DOMAIN t : k < Len(t) => t[k + 1].min = t[k].max + 1
  BY <1>0 DEF Policy!Rising
<1> DEFINE Bad == {k \in Nat : k \in DOMAIN t /\ ~(d >= t[k].min)}
<1>3. Bad = {}
  <2> SUFFICES ASSUME Bad # {} PROVE FALSE OBVIOUS
  <2>1. PICK k \in Bad : \A m \in Bad : k <= m
    <3>1. Bad \subseteq Nat OBVIOUS
    <3> HIDE DEF Bad
    <3>2. QED BY <3>1, Least
  <2>2. k # 1 BY <1>0
  <2>3. k - 1 \in DOMAIN t /\ k - 1 < Len(t) /\ k - 1 + 1 = k BY <1>0, <2>2
  <2>4. k - 1 \notin Bad BY <1>0, <2>1
  <2>5. t[k - 1].max \in Int /\ d > t[k - 1].max BY <1>0, <1>1, <2>3, <2>4
  <2>6. QED BY <1>0, <1>2, <2>3, <2>5
<1>4. QED BY <1>0, <1>1, <1>3

(* A day more never belongs to an earlier row. *)
LEMMA DayKeepsLevel ==
  ASSUME NEW t, GoodTable(t), Policy!Rising(t), NEW d \in Nat
  PROVE  Policy!LevelOf(t, d + 1) >= Policy!LevelOf(t, d)
<1>0. /\ Len(t) \in Nat /\ DOMAIN t = 1..Len(t) /\ Len(t) \in DOMAIN t /\ d + 1 \in Nat
      /\ \A k \in DOMAIN t : Row(t[k])
  BY KnownRows DEF GoodTable, Policy!Accepts
<1>1. PICK i \in DOMAIN t :
        /\ Policy!level_policy_for_active_days(t, d) = t[i]
        /\ Policy!Covers(t[i], d) \/ (i = Len(t) /\ \A k \in DOMAIN t : ~Policy!Covers(t[k], d))
  BY <1>0, OneRow
<1>2. PICK j \in DOMAIN t :
        /\ Policy!level_policy_for_active_days(t, d + 1) = t[j]
        /\ Policy!Covers(t[j], d + 1) \/ (j = Len(t) /\ \A k \in DOMAIN t : ~Policy!Covers(t[k], d + 1))
  BY <1>0, OneRow
<1>3. i <= j
  <2> SUFFICES ASSUME j < i PROVE FALSE BY <1>0
  <2>1. t[j].max \in Int /\ t[i].min \in Int /\ t[j].max < t[i].min BY <1>0, RowsFollow DEF Row
  <2>2. j # Len(t) /\ Policy!Covers(t[j], d + 1) BY <1>0, <1>2
  <2>3. d + 1 <= t[j].max BY <2>1, <2>2, PolicyAssumption DEF Policy!Covers
  <2>4. CASE Policy!Covers(t[i], d) BY <2>1, <2>3, <2>4 DEF Policy!Covers
  <2>5. CASE \A k \in DOMAIN t : ~Policy!Covers(t[k], d) BY <2>1, <2>3, <2>5, BeyondLast
  <2>6. QED BY <1>1, <2>4, <2>5
<1>4. t[i].level \in Int /\ t[j].level \in Int BY <1>0 DEF Row
<1>5. QED BY <1>1, <1>2, <1>3, <1>4, LevelsRise DEF Policy!LevelOf

LEMMA LevelStep == PolicyInd /\ [Policy!Next]_(Policy!vars) => Policy!LevelStays
<1> SUFFICES ASSUME PolicyInd, [Policy!Next]_(Policy!vars), days' # days,
                    Policy!Rising(Policy!load_guild_policy),
                    level = Policy!LevelOf(Policy!load_guild_policy, days)
             PROVE  level' >= level
  BY DEF Policy!LevelStays
<1>1. Policy!advance_active_day
  BY DEF Policy!Next, Policy!vars, Policy!save_guild_policy, Policy!get_guild_snapshot
<1>2. days' = days + 1 /\ level' = Policy!LevelOf(Policy!load_guild_policy, days') BY <1>1 DEF Policy!advance_active_day
<1>3. days \in Nat BY PolicyAssumption DEF PolicyInd
<1>4. QED BY <1>2, <1>3, InForce, DayKeepsLevel

(* advance_active_day_if_needed: an active day costs nobody a level while  *)
(* the levels rise without a gap, whatever the table and the day.          *)
THEOREM ActivityKeepsLevels == Policy!Spec => Policy!ActivityKeepsLevel
<1>1. PolicyInd /\ [Policy!Next]_(Policy!vars) => [Policy!LevelStays]_(Policy!vars) BY LevelStep
<1>2. QED BY <1>1, PolicyInit, PolicyNext, PTL DEF Policy!Spec, Policy!ActivityKeepsLevel

(* resolve_report_conn, apply_temporary_dm_restriction_conn and the        *)
(* policy, of the runs: what standing a user has is not lost by a step     *)
(* that no overlapping review explains.                                    *)
THEOREM StandingKept == MCSpec => StandingIsKept
<1> DEFINE Ind == (part = "moderation" => ReviewInd) /\ (part = "policy" => PolicyInd)
           Kept == /\ part = "moderation" => Moderating!ReviewStays /\ Moderating!RestrictionStays
                   /\ part = "policy" => Policy!LevelStays
<1>1. MCInit => Ind BY ReviewInit, PolicyInit DEF MCInit
<1>2. Ind /\ [MCNext]_mcVars => Ind' /\ Kept
  <2> SUFFICES ASSUME Ind, [MCNext]_mcVars PROVE Ind' /\ Kept OBVIOUS
  <2>1. UNCHANGED part BY DEF MCNext, mcVars
  <2>2. UNCHANGED modVars => UNCHANGED Moderating!vars
    BY DEF modVars, Moderating!vars, Moderating!reports, Moderating!accounts, Moderating!local,
           Moderating!server, Moderating!history
  <2>3. UNCHANGED policyVars => UNCHANGED Policy!vars BY DEF policyVars, Policy!vars
  <2>4. part = "moderation" => [Moderating!Next]_(Moderating!vars) BY <2>2 DEF MCNext, mcVars
  <2>5. part = "policy" => [Policy!Next]_(Policy!vars) BY <2>3 DEF MCNext, mcVars
  <2>6. part = "moderation" => ReviewInd' /\ Moderating!ReviewStays /\ Moderating!RestrictionStays
    BY <2>4, ReviewNext, ReviewsStay
  <2>7. part = "policy" => PolicyInd' /\ Policy!LevelStays BY <2>5, PolicyNext, LevelStep
  <2>8. QED BY <2>1, <2>6, <2>7
<1>3. QED BY <1>1, <1>2, PTL DEF MCSpec, StandingIsKept
----------------------------------------------------------------------------
(* Sums over finite sets, as GuildScore and Stickers take them. *)

(* Subsets of a finite set: of any of them one contains no other.  What    *)
(* would not hold of all does not hold of a smallest one.                  *)
LEMMA SmallestSet ==
  ASSUME NEW S, IsFiniteSet(S), NEW B \in SUBSET (SUBSET S), B # {}
  PROVE  \E T \in B : \A U \in B : U \subseteq T => U = T
<1> DEFINE N == {Cardinality(T) : T \in B}
<1>1. \A T \in B : IsFiniteSet(T) /\ Cardinality(T) \in Nat BY FS_Subset, FS_CardinalityType
<1>2. \E n \in N : \A m \in N : n <= m
  <2>1. N \subseteq Nat /\ N # {} BY <1>1
  <2> HIDE DEF N
  <2>2. QED BY <2>1, Least
<1>3. PICK T \in B : \A U \in B : Cardinality(T) <= Cardinality(U) BY <1>2
<1>4. ASSUME NEW U \in B, U \subseteq T, U # T PROVE FALSE
  <2>1. Cardinality(U) < Cardinality(T) BY <1>1, <1>4, FS_Subset
  <2>2. QED BY <1>1, <1>3, <2>1
<1>5. QED BY <1>3, <1>4

Some(s) == CHOOSE x \in s : TRUE
Sums(f, S, g) ==
  g = [s \in SUBSET S |-> IF s = {} THEN 0 ELSE f[Some(s)] + g[s \ {Some(s)}]]

LEMMA SumIsChosen ==
  ASSUME NEW f, NEW S
  PROVE  SumFunctionOnSet(f, S) = (CHOOSE g : Sums(f, S, g))[S]
BY DEF SumFunctionOnSet, FoldFunctionOnSet, MapThenFoldSet, Sums, Some

LEMMA SumDef ==
  ASSUME NEW f, NEW S, IsFiniteSet(S)
  PROVE  SumFunctionOnSet(f, S) =
           IF S = {} THEN 0 ELSE f[Some(S)] + SumFunctionOnSet(f, S \ {Some(S)})
<1> DEFINE Total(T) == SumFunctionOnSet(f, T)
           Step(T) == IF T = {} THEN 0 ELSE f[Some(T)] + Total(T \ {Some(T)})
           B == {T \in SUBSET S : Total(T) # Step(T)}
<1> SUFFICES ASSUME B # {} PROVE FALSE BY DEF Total
<1>1. PICK T \in B : \A U \in B : U \subseteq T => U = T
  <2>1. B \in SUBSET (SUBSET S) OBVIOUS
  <2> HIDE DEF B
  <2>2. QED BY <2>1, SmallestSet
<1>2. IsFiniteSet(T) BY FS_Subset
<1>3. \A s \in SUBSET T : s # {} => Some(s) \in s /\ s \ {Some(s)} # T /\ s \ {Some(s)} \in SUBSET T
  BY DEF Some
<1>4. \A U \in SUBSET T : U # T => Total(U) = Step(U) BY <1>1
<1> DEFINE g == [s \in SUBSET T |-> Step(s)]
<1> HIDE DEF Total
<1>5. Sums(f, T, g)
  <2>1. \A s \in SUBSET T : s # {} => g[s \ {Some(s)}] = Total(s \ {Some(s)}) BY <1>3, <1>4
  <2>2. QED BY <2>1 DEF Sums
<1> DEFINE h == CHOOSE k : Sums(f, T, k)
<1>6. Sums(f, T, h) BY <1>5
<1>7. Total(T) = h[T] BY SumIsChosen DEF Total
<1> HIDE DEF h, g, B, Step
<1>8. \A s \in SUBSET T : g[s] = h[s]
  <2> DEFINE D == {s \in SUBSET T : g[s] # h[s]}
  <2> SUFFICES ASSUME D # {} PROVE FALSE OBVIOUS
  <2>1. PICK s \in D : \A u \in D : u \subseteq s => u = s
    <3>1. D \in SUBSET (SUBSET T) OBVIOUS
    <3> HIDE DEF D
    <3>2. QED BY <1>2, <3>1, SmallestSet
  <2>2. /\ g[s] = IF s = {} THEN 0 ELSE f[Some(s)] + g[s \ {Some(s)}]
        /\ h[s] = IF s = {} THEN 0 ELSE f[Some(s)] + h[s \ {Some(s)}]
    BY <1>5, <1>6 DEF Sums
  <2>3. s # {} => s \ {Some(s)} \notin D
    BY <1>3, <2>1
  <2>4. s # {} => g[s \ {Some(s)}] = h[s \ {Some(s)}] BY <1>3, <2>3
  <2>5. QED BY <2>2, <2>4
<1>9. g[T] = Step(T) BY DEF g
<1>10. T \in SUBSET T OBVIOUS
<1>11. QED BY <1>1, <1>7, <1>8, <1>9, <1>10 DEF B

LEMMA SumEmpty == ASSUME NEW f PROVE SumFunctionOnSet(f, {}) = 0
BY SumDef, FS_EmptySet

LEMMA SumNat ==
  ASSUME NEW S, IsFiniteSet(S), NEW f, \A x \in S : f[x] \in Nat
  PROVE  SumFunctionOnSet(f, S) \in Nat
<1> DEFINE B == {T \in SUBSET S : SumFunctionOnSet(f, T) \notin Nat}
<1> SUFFICES ASSUME B # {} PROVE FALSE OBVIOUS
<1>1. PICK T \in B : \A U \in B : U \subseteq T => U = T
  <2>1. B \in SUBSET (SUBSET S) OBVIOUS
  <2> HIDE DEF B
  <2>2. QED BY <2>1, SmallestSet
<1>2. IsFiniteSet(T) BY FS_Subset
<1>3. T # {} BY SumEmpty
<1>4. Some(T) \in T BY <1>3 DEF Some
<1>5. SumFunctionOnSet(f, T \ {Some(T)}) \in Nat BY <1>1, <1>4
<1>6. SumFunctionOnSet(f, T) = f[Some(T)] + SumFunctionOnSet(f, T \ {Some(T)}) BY <1>2, <1>3, SumDef
<1>7. f[Some(T)] \in Nat BY <1>4
<1>8. QED BY <1>5, <1>6, <1>7

(* Any element may be taken out first. *)
LEMMA SumRemove ==
  ASSUME NEW S, IsFiniteSet(S), NEW f, \A x \in S : f[x] \in Nat, NEW z \in S
  PROVE  SumFunctionOnSet(f, S) = f[z] + SumFunctionOnSet(f, S \ {z})
<1> DEFINE Total(T) == SumFunctionOnSet(f, T)
           B == {T \in SUBSET S : \E x \in T : Total(T) # f[x] + Total(T \ {x})}
<1> SUFFICES ASSUME B # {} PROVE FALSE OBVIOUS
<1>1. PICK T \in B : \A U \in B : U \subseteq T => U = T
  <2>1. B \in SUBSET (SUBSET S) OBVIOUS
  <2> HIDE DEF B
  <2>2. QED BY <2>1, SmallestSet
<1>2. PICK x \in T : Total(T) # f[x] + Total(T \ {x}) OBVIOUS
<1> DEFINE c == Some(T)
<1>3. IsFiniteSet(T) /\ T # {} /\ c \in T BY FS_Subset DEF Some
<1>4. Total(T) = f[c] + Total(T \ {c}) BY <1>3, SumDef
<1>5. x # c BY <1>2, <1>4
<1>6. T \ {x} \notin B /\ T \ {c} \notin B BY <1>1, <1>3
<1> HIDE DEF c
<1>7. Total(T \ {x}) = f[c] + Total((T \ {x}) \ {c}) BY <1>3, <1>5, <1>6
<1>8. Total(T \ {c}) = f[x] + Total((T \ {x}) \ {c})
  <2>1. (T \ {c}) \ {x} = (T \ {x}) \ {c} OBVIOUS
  <2>2. Total(T \ {c}) = f[x] + Total((T \ {c}) \ {x}) BY <1>3, <1>5, <1>6
  <2>3. QED BY <2>1, <2>2
<1>9. f[c] \in Nat /\ f[x] \in Nat BY <1>3
<1>10. Total((T \ {x}) \ {c}) \in Nat
  <2> DEFINE U == (T \ {x}) \ {c}
  <2>1. IsFiniteSet(U) /\ \A y \in U : f[y] \in Nat BY <1>3, FS_Subset
  <2> HIDE DEF U
  <2>2. SumFunctionOnSet(f, U) \in Nat BY <2>1, SumNat
  <2>3. QED BY <2>2 DEF U
<1> DEFINE rest == Total((T \ {x}) \ {c})
<1>11. /\ Total(T) # f[x] + Total(T \ {x}) /\ Total(T \ {x}) = f[c] + rest
       /\ Total(T) = f[c] + (f[x] + rest) /\ rest \in Nat
  BY <1>2, <1>4, <1>7, <1>8, <1>10
<1> HIDE DEF Total, rest, B
<1>12. QED BY <1>9, <1>11

LEMMA SumAdd ==
  ASSUME NEW S, IsFiniteSet(S), NEW f, NEW z, z \notin S, \A x \in S \cup {z} : f[x] \in Nat
  PROVE  SumFunctionOnSet(f, S \cup {z}) = f[z] + SumFunctionOnSet(f, S)
<1>1. IsFiniteSet(S \cup {z}) BY FS_AddElement
<1>2. (S \cup {z}) \ {z} = S OBVIOUS
<1>3. QED BY <1>1, <1>2, SumRemove

(* A part of the set adds up to no more. *)
LEMMA SumPart ==
  ASSUME NEW S, IsFiniteSet(S), NEW f, \A x \in S : f[x] \in Nat, NEW R \in SUBSET S
  PROVE  SumFunctionOnSet(f, R) <= SumFunctionOnSet(f, S)
<1> DEFINE Total(T) == SumFunctionOnSet(f, T)
           B == {T \in SUBSET S : R \subseteq T /\ ~(Total(R) <= Total(T))}
<1> SUFFICES ASSUME B # {} PROVE FALSE OBVIOUS
<1>1. PICK T \in B : \A U \in B : U \subseteq T => U = T
  <2>1. B \in SUBSET (SUBSET S) OBVIOUS
  <2> HIDE DEF B
  <2>2. QED BY <2>1, SmallestSet
<1>2. \A U \in SUBSET S : IsFiniteSet(U) /\ Total(U) \in Nat BY FS_Subset, SumNat
<1>3. T # R BY <1>2
<1>4. PICK x \in T : x \notin R BY <1>3
<1>5. T \ {x} \notin B /\ R \subseteq T \ {x} BY <1>1, <1>4
<1>6. Total(R) <= Total(T \ {x}) BY <1>5
<1>7. Total(T) = f[x] + Total(T \ {x}) BY <1>2, SumRemove
<1>8. f[x] \in Nat /\ Total(T \ {x}) \in Nat /\ Total(R) \in Nat BY <1>2
<1> HIDE DEF Total
<1>9. QED BY <1>1, <1>6, <1>7, <1>8

(* The sum depends on the values at the elements only. *)
LEMMA SumSame ==
  ASSUME NEW S, IsFiniteSet(S), NEW f, NEW g, \A x \in S : f[x] = g[x]
  PROVE  SumFunctionOnSet(f, S) = SumFunctionOnSet(g, S)
<1> DEFINE B == {T \in SUBSET S : SumFunctionOnSet(f, T) # SumFunctionOnSet(g, T)}
<1> SUFFICES ASSUME B # {} PROVE FALSE OBVIOUS
<1>1. PICK T \in B : \A U \in B : U \subseteq T => U = T
  <2>1. B \in SUBSET (SUBSET S) OBVIOUS
  <2> HIDE DEF B
  <2>2. QED BY <2>1, SmallestSet
<1>2. IsFiniteSet(T) BY FS_Subset
<1>3. T # {} BY SumEmpty
<1>4. Some(T) \in T BY <1>3 DEF Some
<1>5. SumFunctionOnSet(f, T \ {Some(T)}) = SumFunctionOnSet(g, T \ {Some(T)}) BY <1>1, <1>4
<1>6. /\ SumFunctionOnSet(f, T) = f[Some(T)] + SumFunctionOnSet(f, T \ {Some(T)})
      /\ SumFunctionOnSet(g, T) = g[Some(T)] + SumFunctionOnSet(g, T \ {Some(T)})
  BY <1>2, <1>3, SumDef
<1>7. QED BY <1>1, <1>4, <1>5, <1>6

----------------------------------------------------------------------------
(* GuildScore.  Requests that share no user do not disturb one another:    *)
(* what one has read holds until it writes.                                *)
LocalScore ==
  /\ kind \in [Request -> Kinds \cup {"vote", "snapshot", None}]
  /\ user \in [Request -> User \cup {None}] /\ granter \in [Request -> User \cup {None}]
  /\ ref \in [Request -> Ref \cup {None}] /\ start \in [Request -> Nat]
  /\ copy \in [Request -> Nat] /\ delta \in [Request -> Int]
  /\ ledger \in [User -> Nat]

EventsOK ==
  /\ IsFiniteSet(events)
  /\ \A e \in events : e.id \in Nat /\ e.id < added /\ e.delta \in Int /\ e.day \in Nat

Active == {r \in Request : pc[r] # "idle"}
Bounded == added + Cardinality(Active) <= MaxEvent

(* Two requests of a user make the user one of the crossed. *)
Alone ==
  \A r, q \in Request, u \in User : r # q /\ r \in Busy(u) /\ q \in Busy(u) => u \in crossed

Shape(r) ==
  /\ pc[r] # "idle" => user[r] \in User
  /\ pc[r] # "idle" /\ kind[r] = "vote" => granter[r] \in User /\ delta[r] >= 0
  /\ pc[r] \in {"granter", "cap"} => kind[r] = "vote"
  /\ \A u \in User : rank1[r][u] # None => r \in Busy(u)

CopyFresh(r) == pc[r] # "idle" /\ user[r] \notin crossed => copy[r] = score[user[r]]
RankFresh(r) ==
  \A u \in User \ crossed : rank1[r][u] # None => rank1[r][u] = rank_policy_for_score(score[u])
Checked(r) == pc[r] \in {"granter", "cap", "write"}
RefFresh(r) == Checked(r) /\ user[r] \notin crossed => ~HasEvent(r)
VoteFresh(r) ==
  Checked(r) /\ kind[r] = "vote" /\ delta[r] > 0 /\ user[r] \notin crossed /\ granter[r] \notin crossed
    => granter[r] # user[r] /\ ~is_reciprocal_vote(r)
VotesOf(u, d) == {e \in PositiveVotes : e.user = u /\ e.day = d}
CapFresh(r) ==
  pc[r] = "write" /\ kind[r] = "vote" /\ delta[r] > 0 /\ user[r] \notin crossed
    => Points(VotesOf(user[r], start[r])) + delta[r] <= Cap
Fresh(r) ==
  Shape(r) /\ CopyFresh(r) /\ RankFresh(r) /\ RefFresh(r) /\ VoteFresh(r) /\ CapFresh(r)

ScoreInd ==
  /\ ScoreInv /\ LocalScore /\ EventsOK /\ Bounded /\ Alone /\ \A r \in Request : Fresh(r)

LEMMA MaxOf == ASSUME NEW a \in Int, NEW b \in Int
               PROVE  Max({a, b}) = IF a >= b THEN a ELSE b
<1>1. \E x \in {a, b} : \A y \in {a, b} : x >= y OBVIOUS
<1>2. Max({a, b}) \in {a, b} /\ \A y \in {a, b} : Max({a, b}) >= y BY <1>1 DEF Max
<1>3. QED BY <1>2

LEMMA MinOf == ASSUME NEW a \in Int, NEW b \in Int
               PROVE  Min({a, b}) = IF a <= b THEN a ELSE b
<1>1. \E x \in {a, b} : \A y \in {a, b} : x <= y OBVIOUS
<1>2. Min({a, b}) \in {a, b} /\ \A y \in {a, b} : Min({a, b}) <= y BY <1>1 DEF Min
<1>3. QED BY <1>2

LEMMA FloorNat == ASSUME NEW s \in Int PROVE Floor(s) \in Nat /\ Floor(s) = IF s >= 0 THEN s ELSE 0
BY MaxOf DEF Floor

LEMMA RankOf == ASSUME NEW s \in Int PROVE rank_policy_for_score(s) \in {0, 1}
BY DEF rank_policy_for_score

(* Points of votes: those of fewer votes are not more, whatever else is in *)
(* the table.                                                              *)
LEMMA FewerVotes ==
  ASSUME NEW E, NEW F, IsFiniteSet(E), IsFiniteSet(F), NEW V \in SUBSET E, NEW W \in SUBSET F, W \subseteq V,
         \A e \in V : e.delta \in Nat
  PROVE  /\ SumFunctionOnSet([e \in E |-> e.delta], V) \in Nat
         /\ SumFunctionOnSet([e \in F |-> e.delta], W) \in Nat
         /\ SumFunctionOnSet([e \in F |-> e.delta], W) <= SumFunctionOnSet([e \in E |-> e.delta], V)
<1> DEFINE f == [e \in E |-> e.delta]
           g == [e \in F |-> e.delta]
<1>1. /\ IsFiniteSet(V) /\ IsFiniteSet(W)
      /\ \A x \in V : f[x] \in Nat
      /\ \A x \in W : g[x] = f[x] /\ g[x] \in Nat
  BY FS_Subset
<1> HIDE DEF f, g
<1>2. SumFunctionOnSet(g, W) = SumFunctionOnSet(f, W) BY <1>1, SumSame
<1>3. SumFunctionOnSet(f, W) <= SumFunctionOnSet(f, V) BY <1>1, SumPart
<1>4. SumFunctionOnSet(f, V) \in Nat /\ SumFunctionOnSet(g, W) \in Nat BY <1>1, SumNat
<1>5. QED BY <1>2, <1>3, <1>4 DEF f, g

LEMMA OneVoteMore ==
  ASSUME NEW E, IsFiniteSet(E), NEW x, x \notin E, NEW V \in SUBSET E,
         \A e \in V \cup {x} : e.delta \in Nat
  PROVE  SumFunctionOnSet([e \in E \cup {x} |-> e.delta], V \cup {x})
           = x.delta + SumFunctionOnSet([e \in E |-> e.delta], V)
<1> DEFINE f == [e \in E |-> e.delta]
           g == [e \in E \cup {x} |-> e.delta]
<1>1. /\ IsFiniteSet(V) /\ x \notin V /\ g[x] = x.delta
      /\ \A e \in V : g[e] = f[e]
      /\ \A e \in V \cup {x} : g[e] \in Nat
  BY FS_Subset
<1> HIDE DEF f, g
<1>2. SumFunctionOnSet(g, V) = SumFunctionOnSet(f, V) BY <1>1, SumSame
<1>3. SumFunctionOnSet(g, V \cup {x}) = g[x] + SumFunctionOnSet(g, V) BY <1>1, SumAdd
<1>4. QED BY <1>1, <1>2, <1>3 DEF f, g

(* A request keeps what it has read while no other touches its users. *)
LEMMA Untouched ==
  ASSUME EventsOK, EventsOK', LocalScore, NEW q \in Request, Fresh(q),
         pc'[q] = pc[q], kind'[q] = kind[q], user'[q] = user[q], granter'[q] = granter[q],
         ref'[q] = ref[q], start'[q] = start[q], copy'[q] = copy[q], delta'[q] = delta[q],
         rank1'[q] = rank1[q], crossed \subseteq crossed',
         \A u \in User \ crossed' : q \in Busy(u) =>
           score'[u] = score[u] /\ \A e \in events' : e.user = u => e \in events
  PROVE  Fresh(q)'
<1>1. \A u : q \in Busy(u)' <=> q \in Busy(u) BY DEF Busy
<1>2. Shape(q)' BY <1>1 DEF Fresh, Shape
<1>3. pc[q] # "idle" => user[q] \in User /\ q \in Busy(user[q]) BY DEF Fresh, Shape, Busy
<1>4. pc[q] # "idle" /\ kind[q] = "vote" => granter[q] \in User /\ q \in Busy(granter[q]) BY DEF Fresh, Shape, Busy
<1>5. CopyFresh(q)' BY <1>3 DEF Fresh, CopyFresh
<1>6. RankFresh(q)' BY DEF Fresh, Shape, RankFresh, rank_policy_for_score
<1>7. RefFresh(q)' BY <1>3 DEF Fresh, RefFresh, Checked, HasEvent
<1>8. VoteFresh(q)' BY <1>3, <1>4 DEF Fresh, VoteFresh, Checked, is_reciprocal_vote, PositiveVotes
<1>9. CapFresh(q)'
  <2> SUFFICES ASSUME pc[q] = "write", kind[q] = "vote", delta[q] > 0, user[q] \notin crossed'
               PROVE  Points(VotesOf(user[q], start[q]))' + delta[q] <= Cap
    BY DEF CapFresh
  <2> DEFINE V == VotesOf(user[q], start[q])
             W == VotesOf(user[q], start[q])'
  <2>1. /\ V \in SUBSET events /\ W \in SUBSET events' /\ \A e \in V : e.delta \in Nat
    BY DEF VotesOf, PositiveVotes, EventsOK
  <2>2. W \subseteq V BY <1>3 DEF VotesOf, PositiveVotes
  <2>3. Points(V) + delta[q] <= Cap BY DEF Fresh, CapFresh
  <2>4. /\ Points(V) = SumFunctionOnSet([e \in events |-> e.delta], V)
        /\ Points(VotesOf(user[q], start[q]))' = SumFunctionOnSet([e \in events' |-> e.delta], W)
    BY DEF Points
  <2> HIDE DEF V, W
  <2>5. /\ SumFunctionOnSet([e \in events |-> e.delta], V) \in Nat
        /\ SumFunctionOnSet([e \in events' |-> e.delta], W) \in Nat
        /\ SumFunctionOnSet([e \in events' |-> e.delta], W) <= SumFunctionOnSet([e \in events |-> e.delta], V)
    BY <2>1, <2>2, FewerVotes DEF EventsOK
  <2>6. delta[q] \in Int /\ Cap \in Nat BY ScoreAssumption DEF LocalScore
  <2>7. QED BY <2>3, <2>4, <2>5, <2>6
<1>10. QED BY <1>2, <1>5, <1>6, <1>7, <1>8, <1>9 DEF Fresh

LEMMA ScoreInit == Init => ScoreInd
<1> SUFFICES ASSUME Init PROVE ScoreInd OBVIOUS
<1>1. TypeOK BY ScoreAssumption DEF Init, TypeOK, NoLock
<1>2. CountedOnce /\ NoVoteRing BY DEF Init, CountedOnce, NoVoteRing, PositiveVotes
<1>3. ScoreIsLedger BY DEF Init, ScoreIsLedger
<1>4. CapHolds
  <2>1. \A u \in User, d \in 0..MaxDay : {e \in PositiveVotes : e.user = u /\ e.day = d} = {}
    BY DEF Init, PositiveVotes
  <2>2. Points({}) = 0 BY SumEmpty DEF Points
  <2>3. QED BY <2>1, <2>2, ScoreAssumption DEF CapHolds
<1>5. LocalScore BY DEF Init, LocalScore
<1>6. EventsOK BY FS_EmptySet DEF Init, EventsOK
<1>7. Bounded
  <2>1. Active = {} BY DEF Init, Active
  <2>2. QED BY <2>1, FS_EmptySet, ScoreAssumption DEF Init, Bounded
<1>8. Alone BY DEF Init, Alone, Busy
<1>9. ASSUME NEW r \in Request PROVE Fresh(r)
  <2>1. pc[r] = "idle" /\ \A u \in User : rank1[r][u] = None BY DEF Init, NoLock
  <2>2. QED BY <2>1 DEF Fresh, Shape, CopyFresh, RankFresh, RefFresh, VoteFresh, CapFresh, Checked
<1>10. QED BY <1>1, <1>2, <1>3, <1>4, <1>5, <1>6, <1>7, <1>8, <1>9 DEF ScoreInd, ScoreInv

(* A step that leaves the table as it is. *)
LEMMA SameTable ==
  ASSUME ScoreInv, UNCHANGED <<score, rank, events, ledger, outdated>>, crossed \subseteq crossed'
  PROVE  CountedOnce' /\ CapHolds' /\ NoVoteRing' /\ ScoreIsLedger'
<1>1. CountedOnce' BY DEF ScoreInv, CountedOnce
<1>2. CapHolds' BY DEF ScoreInv, CapHolds, Points, PositiveVotes
<1>3. NoVoteRing' BY DEF ScoreInv, NoVoteRing, PositiveVotes
<1>4. ScoreIsLedger' BY DEF ScoreInv, ScoreIsLedger, rank_policy_for_score
<1>5. QED BY <1>1, <1>2, <1>3, <1>4

LEMMA ActiveFinite ==
  ASSUME NEW r \in Request
  PROVE  /\ IsFiniteSet(Active) /\ Cardinality(Active) \in Nat
         /\ r \notin Active => Cardinality(Active \cup {r}) = Cardinality(Active) + 1
         /\ r \in Active => Cardinality(Active \ {r}) = Cardinality(Active) - 1
<1>1. IsFiniteSet(Active) BY FS_Subset, ScoreAssumption DEF Active
<1>2. QED BY <1>1, FS_CardinalityType, FS_AddElement, FS_RemoveElement

(* ensure_user_guild_stats: a request begins with the user's row as it is. *)
LEMMA BeginScore ==
  ASSUME ScoreInd, NEW r \in Request, NEW k \in Kinds \cup {"vote", "snapshot"}, NEW u \in User,
         NEW g \in User \cup {None}, NEW f \in Ref \cup {None},
         k = "vote" => g \in User, Begin(r, k, u, g, f)
  PROVE  ScoreInd'
<1> USE DEF Goto
<1>0. TypeOK /\ LocalScore /\ EventsOK BY DEF ScoreInd, ScoreInv
<1>1. /\ pc[r] = "idle" /\ crossed' = crossed \cup {v \in {u, g} \ {None} : Busy(v) # {}}
      /\ UNCHANGED <<day, score, rank, events, added, rank1, ledger, outdated>>
      /\ added + Cardinality(Active) < MaxEvent
  BY DEF Begin, table, Active
<1>2. \A q \in Request : q # r =>
        /\ pc'[q] = pc[q] /\ kind'[q] = kind[q] /\ user'[q] = user[q] /\ granter'[q] = granter[q]
        /\ ref'[q] = ref[q] /\ start'[q] = start[q] /\ copy'[q] = copy[q] /\ delta'[q] = delta[q]
  BY <1>0 DEF Begin, TypeOK, LocalScore
<1>3. /\ pc'[r] \in {"sync", "check"} /\ kind'[r] = k /\ user'[r] = u /\ granter'[r] = g
      /\ copy'[r] = score[u]
      /\ k = "vote" => delta'[r] \in Nat
  <2>1. "vote" \in Kinds => requested_delta("vote") = Vote BY DEF requested_delta
  <2>2. QED BY <1>0, <2>1, ScoreAssumption DEF Begin, TypeOK, LocalScore
<1>4. LocalScore'
  <2>1. \A l \in Kinds : requested_delta(l) \in Int
    BY ScoreAssumption DEF requested_delta
  <2>2. day \in Nat /\ score[u] \in Nat BY <1>0, ScoreAssumption DEF TypeOK
  <2>3. delta' \in [Request -> Int] BY <1>0, <2>1 DEF Begin, LocalScore
  <2>4. QED BY <1>0, <1>1, <2>2, <2>3 DEF Begin, LocalScore
<1>5. TypeOK'
  <2>1. crossed' \subseteq User BY <1>0, <1>1 DEF TypeOK
  <2>2. pc' \in [Request -> {"idle", "sync", "check", "granter", "cap", "write", "commit"}]
    BY <1>0 DEF Begin, TypeOK
  <2>3. QED BY <1>0, <1>1, <2>1, <2>2 DEF TypeOK
<1>6. EventsOK' BY <1>0, <1>1 DEF EventsOK
<1>7. CountedOnce' /\ CapHolds' /\ NoVoteRing' /\ ScoreIsLedger'
  BY <1>1, SameTable DEF ScoreInd
<1>8. Bounded'
  <2>1. Active' = Active \cup {r} /\ r \notin Active BY <1>1, <1>2, <1>3 DEF Active
  <2>2. added \in Nat BY <1>0, ScoreAssumption DEF TypeOK
  <2>3. QED BY <1>1, <2>1, <2>2, ActiveFinite, ScoreAssumption DEF Bounded
<1>9. \A q \in Request, v \in User : q # r => (q \in Busy(v)' <=> q \in Busy(v)) BY <1>2 DEF Busy
<1>10. Alone'
  <2> SUFFICES ASSUME NEW p \in Request, NEW q \in Request, NEW v \in User, p # q,
                      p \in Busy(v)', q \in Busy(v)', v \notin crossed'
               PROVE  FALSE
    BY DEF Alone
  <2>1. CASE p # r /\ q # r BY <1>1, <1>9, <2>1 DEF ScoreInd, Alone
  <2>2. CASE p = r \/ q = r
    <3>1. v \in {u, g} BY <1>3, <2>2 DEF Busy
    <3>2. Busy(v) # {} BY <1>9, <2>2
    <3>3. QED BY <1>1, <3>1, <3>2, ScoreAssumption
  <2>3. QED BY <2>1, <2>2
<1>11. Fresh(r)'
  <2>1. \A v \in User : rank1[r][v] = None
    BY <1>1 DEF ScoreInd, Fresh, Shape, Busy
  <2>2. Shape(r)'
    <3>1. \A v \in User : rank1'[r][v] = None BY <1>1, <2>1
    <3>2. QED BY <1>3, <3>1 DEF Shape
  <2>3. CopyFresh(r)' /\ RankFresh(r)' BY <1>1, <1>3, <2>1 DEF CopyFresh, RankFresh
  <2>4. ~Checked(r)' BY <1>3 DEF Checked
  <2>5. QED BY <2>2, <2>3, <2>4 DEF Fresh, RefFresh, VoteFresh, CapFresh, Checked
<1>12. ASSUME NEW q \in Request, q # r PROVE Fresh(q)'
  BY <1>0, <1>1, <1>2, <1>6, <1>12, Untouched DEF ScoreInd
<1>13. QED BY <1>4, <1>5, <1>6, <1>7, <1>8, <1>10, <1>11, <1>12 DEF ScoreInd, ScoreInv

(* A step of one request that writes nothing yet. *)
LEMMA WithinScore ==
  ASSUME ScoreInd, NEW r \in Request, pc[r] # "idle",
         NEW to \in {"sync", "check", "granter", "cap", "write", "commit"}, Goto(r, to),
         UNCHANGED <<day, score, rank, events, added, kind, user, granter, ref, start, ledger, crossed, outdated>>,
         copy' \in [Request -> Nat], delta' \in [Request -> Int],
         rank1' \in [Request -> [User -> {0, 1, None}]],
         \A q \in Request : q # r => copy'[q] = copy[q] /\ delta'[q] = delta[q] /\ rank1'[q] = rank1[q],
         Fresh(r)'
  PROVE  ScoreInd'
<1> USE DEF Goto
<1>0. TypeOK /\ LocalScore /\ EventsOK BY DEF ScoreInd, ScoreInv
<1>1. \A q \in Request : (q # r => pc'[q] = pc[q]) /\ (pc'[q] = "idle" <=> pc[q] = "idle") BY <1>0 DEF TypeOK
<1>2. TypeOK' BY <1>0 DEF TypeOK
<1>3. LocalScore' BY <1>0 DEF LocalScore
<1>4. EventsOK' BY <1>0 DEF EventsOK
<1>5. CountedOnce' /\ CapHolds' /\ NoVoteRing' /\ ScoreIsLedger' BY SameTable DEF ScoreInd
<1>6. Active' = Active BY <1>1 DEF Active
<1>7. Bounded' BY <1>6 DEF ScoreInd, Bounded
<1>8. Alone' BY <1>1 DEF ScoreInd, Alone, Busy
<1>9. ASSUME NEW q \in Request, q # r PROVE Fresh(q)'
  BY <1>0, <1>1, <1>4, <1>9, Untouched DEF ScoreInd
<1>10. QED BY <1>2, <1>3, <1>4, <1>5, <1>7, <1>8, <1>9 DEF ScoreInd, ScoreInv

LEMMA SyncScore == ASSUME ScoreInd, NEW r \in Request, sync_derived_state(r) PROVE ScoreInd'
<1> DEFINE u == user[r]
           to == IF kind[r] = "snapshot" THEN "commit" ELSE "check"
<1>0. TypeOK /\ LocalScore /\ Fresh(r) BY DEF ScoreInd, ScoreInv
<1>1. /\ pc[r] = "sync" /\ u \in User
      /\ UNCHANGED <<day, score, rank, events, added, kind, user, granter, ref, start, delta, ledger, crossed, outdated>>
      /\ Goto(r, to)
      /\ copy' = [copy EXCEPT ![r] = score[u]]
      /\ rank1' = [rank1 EXCEPT ![r][u] = rank_policy_for_score(copy[r])]
  BY <1>0 DEF sync_derived_state, Fresh, Shape, table, history
<1>2. score[u] \in Nat /\ copy[r] \in Int BY <1>0, <1>1 DEF TypeOK, LocalScore
<1>3. /\ copy' \in [Request -> Nat] /\ copy'[r] = score[u]
      /\ rank1' \in [Request -> [User -> {0, 1, None}]]
      /\ rank1'[r][u] = rank_policy_for_score(copy[r])
      /\ \A v \in User : v # u => rank1'[r][v] = rank1[r][v]
      /\ \A q \in Request : q # r => copy'[q] = copy[q] /\ rank1'[q] = rank1[q]
  BY <1>0, <1>1, <1>2, RankOf DEF TypeOK, LocalScore
<1>4. pc'[r] = to /\ to \in {"commit", "check"} BY <1>0, <1>1 DEF Goto, TypeOK
<1>5. Shape(r)'
  <2>1. \A v : r \in Busy(v)' <=> r \in Busy(v) BY <1>1, <1>4 DEF Busy
  <2>2. r \in Busy(u) BY <1>1 DEF Busy
  <2>3. \A v \in User : rank1'[r][v] # None => r \in Busy(v)' BY <1>0, <1>3, <2>1, <2>2 DEF Fresh, Shape
  <2>4. QED BY <1>0, <1>1, <1>4, <2>3 DEF Fresh, Shape
<1>6. CopyFresh(r)' BY <1>1, <1>3 DEF CopyFresh
<1>7. RankFresh(r)'
  <2>1. \A v : rank_policy_for_score(score'[v]) = rank_policy_for_score(score[v]) BY <1>1
  <2>2. u \notin crossed => copy[r] = score[u] BY <1>0, <1>1 DEF Fresh, CopyFresh
  <2> SUFFICES ASSUME NEW v \in User \ crossed, rank1'[r][v] # None
               PROVE  rank1'[r][v] = rank_policy_for_score(score[v])
    BY <1>1, <2>1 DEF RankFresh, rank_policy_for_score
  <2>3. QED BY <1>0, <1>3, <2>2 DEF Fresh, RankFresh
<1>8. ~Checked(r)' BY <1>4 DEF Checked
<1>9. Fresh(r)' BY <1>5, <1>6, <1>7, <1>8 DEF Fresh, RefFresh, VoteFresh, CapFresh, Checked
<1>10. delta' \in [Request -> Int] /\ \A q \in Request : delta'[q] = delta[q] BY <1>0, <1>1 DEF LocalScore
<1> HIDE DEF to
<1>11. QED BY <1>1, <1>3, <1>4, <1>9, <1>10, WithinScore

LEMMA CheckScore == ASSUME ScoreInd, NEW r \in Request, CheckEvents(r) PROVE ScoreInd'
<1>0. TypeOK /\ LocalScore /\ Fresh(r) BY DEF ScoreInd, ScoreInv
<1>1. /\ pc[r] = "check"
      /\ UNCHANGED <<day, score, rank, events, added, kind, user, granter, ref, start, copy, rank1, ledger, crossed, outdated>>
  BY DEF CheckEvents, table, history
<1>2. PICK to \in {"granter", "cap", "write", "commit"} :
        /\ Goto(r, to)
        /\ to # "commit" => ~HasEvent(r)
        /\ to \in {"granter", "cap"} <=> to # "commit" /\ kind[r] = "vote"
        /\ delta' = [delta EXCEPT ![r] = IF to = "cap" THEN 0 ELSE @]
        /\ to = "granter" => ~Suppressed(r)
  <2>1. delta = [delta EXCEPT ![r] = delta[r]] BY <1>0 DEF LocalScore
  <2>2. CASE HasEvent(r) /\ Goto(r, "commit") /\ UNCHANGED delta BY <2>1, <2>2
  <2>3. CASE ~HasEvent(r) /\ kind[r] # "vote" /\ Goto(r, "write") /\ UNCHANGED delta BY <2>1, <2>3
  <2>4. CASE ~HasEvent(r) /\ kind[r] = "vote" /\ Suppressed(r) /\ delta' = [delta EXCEPT ![r] = 0] /\ Goto(r, "cap")
    BY <2>4
  <2>5. CASE ~HasEvent(r) /\ kind[r] = "vote" /\ ~Suppressed(r) /\ Goto(r, "granter") /\ UNCHANGED delta BY <2>1, <2>5
  <2>6. QED BY <2>2, <2>3, <2>4, <2>5 DEF CheckEvents
<1>3. /\ pc'[r] = to /\ delta'[r] = IF to = "cap" THEN 0 ELSE delta[r]
      /\ delta' \in [Request -> Int]
      /\ \A q \in Request : q # r => delta'[q] = delta[q]
  BY <1>0, <1>2 DEF Goto, TypeOK, LocalScore
<1>4. Shape(r)'
  <2>1. \A v : r \in Busy(v)' <=> r \in Busy(v) BY <1>1, <1>3 DEF Busy
  <2>2. QED BY <1>0, <1>1, <1>2, <1>3, <2>1 DEF Fresh, Shape
<1>5. CopyFresh(r)' /\ RankFresh(r)'
  BY <1>0, <1>1 DEF Fresh, CopyFresh, RankFresh, rank_policy_for_score
<1>6. RefFresh(r)' BY <1>1, <1>2, <1>3 DEF RefFresh, Checked, HasEvent
<1>7. VoteFresh(r)'
  BY <1>1, <1>2, <1>3 DEF VoteFresh, Checked, Suppressed, is_reciprocal_vote, PositiveVotes
<1>8. CapFresh(r)' BY <1>1, <1>2, <1>3 DEF CapFresh
<1>9. Fresh(r)' BY <1>4, <1>5, <1>6, <1>7, <1>8 DEF Fresh
<1>10. /\ copy' \in [Request -> Nat] /\ rank1' \in [Request -> [User -> {0, 1, None}]]
       /\ \A q \in Request : copy'[q] = copy[q] /\ rank1'[q] = rank1[q]
  BY <1>0, <1>1 DEF TypeOK, LocalScore
<1>11. QED BY <1>1, <1>2, <1>3, <1>9, <1>10, WithinScore

LEMMA GranterScore == ASSUME ScoreInd, NEW r \in Request, granter_is_meaningful(r) PROVE ScoreInd'
<1> DEFINE g == granter[r]
           now1 == rank_policy_for_score(score[g])
<1>0. TypeOK /\ LocalScore /\ Fresh(r) BY DEF ScoreInd, ScoreInv
<1>1. /\ pc[r] = "granter" /\ Goto(r, "cap")
      /\ UNCHANGED <<day, score, rank, events, added, kind, user, granter, ref, start, copy, ledger, crossed, outdated>>
  BY DEF granter_is_meaningful, table, history
<1>2. kind[r] = "vote" /\ g \in User BY <1>0, <1>1 DEF Fresh, Shape
<1>3. score[g] \in Int /\ now1 \in {0, 1} BY <1>0, <1>2, RankOf DEF TypeOK
<1> HIDE DEF now1
<1>4. /\ delta' \in [Request -> Int] /\ delta'[r] \in {0, delta[r]}
      /\ \A q \in Request : q # r => delta'[q] = delta[q]
  <2>1. PICK d \in {0, delta[r]} : delta' = [delta EXCEPT ![r] = d]
    BY <1>0, <1>3 DEF granter_is_meaningful, LocalScore, now1
  <2>2. QED BY <1>0, <2>1 DEF LocalScore
<1>5. /\ rank1' \in [Request -> [User -> {0, 1, None}]]
      /\ rank1'[r][g] \in {rank1[r][g], now1}
      /\ \A v \in User : v # g => rank1'[r][v] = rank1[r][v]
      /\ \A q \in Request : q # r => rank1'[q] = rank1[q]
  <2>1. rank1' = rank1 \/ rank1' = [rank1 EXCEPT ![r][g] = now1] BY DEF granter_is_meaningful, now1
  <2>2. CASE rank1' = rank1 BY <1>0, <2>2 DEF TypeOK
  <2>3. CASE rank1' = [rank1 EXCEPT ![r][g] = now1]
    <3> HIDE DEF g
    <3>1. QED BY <1>0, <1>2, <1>3, <2>3 DEF TypeOK
  <2>4. QED BY <2>1, <2>2, <2>3
<1>6. pc'[r] = "cap" BY <1>0, <1>1 DEF Goto, TypeOK
<1>7. Shape(r)'
  <2>1. \A v : r \in Busy(v)' <=> r \in Busy(v) BY <1>1, <1>6 DEF Busy
  <2>2. r \in Busy(g) BY <1>1 DEF Busy
  <2>3. \A v \in User : rank1'[r][v] # None => r \in Busy(v)' BY <1>0, <1>5, <2>1, <2>2 DEF Fresh, Shape
  <2>4. delta'[r] >= 0 BY <1>0, <1>1, <1>2, <1>4 DEF Fresh, Shape
  <2>5. QED BY <1>0, <1>1, <1>2, <1>6, <2>3, <2>4 DEF Fresh, Shape
<1>8. CopyFresh(r)' BY <1>0, <1>1 DEF Fresh, CopyFresh
<1>9. RankFresh(r)'
  <2> SUFFICES ASSUME NEW v \in User \ crossed, rank1'[r][v] # None
               PROVE  rank1'[r][v] = rank_policy_for_score(score[v])
    BY <1>1 DEF RankFresh, rank_policy_for_score
  <2>1. QED BY <1>0, <1>5 DEF Fresh, RankFresh, now1
<1>10. RefFresh(r)' BY <1>0, <1>1 DEF Fresh, RefFresh, Checked, HasEvent
<1>11. VoteFresh(r)'
  BY <1>0, <1>1, <1>4 DEF Fresh, VoteFresh, Checked, is_reciprocal_vote, PositiveVotes
<1>12. CapFresh(r)' BY <1>6 DEF CapFresh
<1>13. Fresh(r)' BY <1>7, <1>8, <1>9, <1>10, <1>11, <1>12 DEF Fresh
<1>14. copy' \in [Request -> Nat] /\ \A q \in Request : copy'[q] = copy[q] BY <1>0, <1>1 DEF LocalScore
<1>15. QED BY <1>1, <1>4, <1>5, <1>13, <1>14, WithinScore

(* ApplyCap: what is left of the cap covers the day's votes of the user. *)
LEMMA CapScore == ASSUME ScoreInd, NEW r \in Request, ApplyCap(r) PROVE ScoreInd'
<1> DEFINE earned == positive_points_earned_today(r)
           d == Min({delta[r], Max({0, Cap - earned})})
<1>0. TypeOK /\ LocalScore /\ Fresh(r) /\ EventsOK BY DEF ScoreInd, ScoreInv
<1>1. /\ pc[r] = "cap" /\ Goto(r, "write") /\ delta' = [delta EXCEPT ![r] = d]
      /\ UNCHANGED <<day, score, rank, events, added, kind, user, granter, ref, start, copy, rank1, ledger, crossed, outdated>>
  BY <1>0 DEF ApplyCap, table, history, LocalScore
<1>2. kind[r] = "vote" /\ delta[r] \in Nat BY <1>0, <1>1 DEF Fresh, Shape, LocalScore
<1> DEFINE V == {e \in PositiveVotes : e.user = user[r] /\ e.day >= start[r]}
           W == VotesOf(user[r], start[r])
<1>3. V \in SUBSET events /\ W \in SUBSET events /\ W \subseteq V /\ \A e \in V : e.delta \in Nat
  BY <1>0 DEF VotesOf, PositiveVotes, EventsOK
<1>4. /\ earned = SumFunctionOnSet([e \in events |-> e.delta], V)
      /\ Points(W) = SumFunctionOnSet([e \in events |-> e.delta], W)
  BY DEF positive_points_earned_today, Points
<1> HIDE DEF V, W, earned
<1>5. earned \in Nat /\ Points(W) \in Nat /\ Points(W) <= earned
  BY <1>0, <1>3, <1>4, FewerVotes DEF EventsOK
<1>6. d \in Nat /\ d <= delta[r] /\ (d > 0 => d <= Cap - earned)
  <2>1. Cap - earned \in Int /\ 0 \in Int BY <1>5, ScoreAssumption
  <2>2. Max({0, Cap - earned}) = IF 0 >= Cap - earned THEN 0 ELSE Cap - earned BY <2>1, MaxOf
  <2>3. Max({0, Cap - earned}) \in Int BY <2>1, <2>2
  <2>4. d = IF delta[r] <= Max({0, Cap - earned}) THEN delta[r] ELSE Max({0, Cap - earned})
    BY <1>2, <2>3, MinOf
  <2>5. QED BY <1>2, <2>1, <2>2, <2>4
<1> HIDE DEF d
<1>7. /\ delta' \in [Request -> Int] /\ delta'[r] = d /\ pc'[r] = "write"
      /\ \A q \in Request : q # r => delta'[q] = delta[q]
  BY <1>0, <1>1, <1>6 DEF LocalScore, Goto, TypeOK
<1>8. Shape(r)'
  <2>1. \A v : r \in Busy(v)' <=> r \in Busy(v) BY <1>1, <1>7 DEF Busy
  <2>2. QED BY <1>0, <1>1, <1>6, <1>7, <2>1 DEF Fresh, Shape
<1>9. CopyFresh(r)' /\ RankFresh(r)'
  BY <1>0, <1>1 DEF Fresh, CopyFresh, RankFresh, rank_policy_for_score
<1>10. RefFresh(r)' BY <1>0, <1>1 DEF Fresh, RefFresh, Checked, HasEvent
<1>11. VoteFresh(r)'
  BY <1>0, <1>1, <1>2, <1>6, <1>7 DEF Fresh, VoteFresh, Checked, is_reciprocal_vote, PositiveVotes
<1>12. CapFresh(r)'
  <2>1. Points(VotesOf(user[r], start[r]))' = Points(W) BY <1>1 DEF Points, VotesOf, PositiveVotes, W
  <2>2. d > 0 => Points(W) + d <= Cap BY <1>5, <1>6, ScoreAssumption
  <2>3. QED BY <1>1, <1>7, <2>1, <2>2 DEF CapFresh
<1>13. Fresh(r)' BY <1>8, <1>9, <1>10, <1>11, <1>12 DEF Fresh
<1>14. /\ copy' \in [Request -> Nat] /\ rank1' \in [Request -> [User -> {0, 1, None}]]
       /\ \A q \in Request : copy'[q] = copy[q] /\ rank1'[q] = rank1[q]
  BY <1>0, <1>1 DEF TypeOK, LocalScore
<1>15. QED BY <1>1, <1>7, <1>13, <1>14, WithinScore

(* A request that ends leaves the others what they have read. *)
LEMMA FinishScore ==
  ASSUME ScoreInd, NEW r \in Request, pc[r] # "idle", Finish(r), UNCHANGED <<day, crossed>>,
         added' \in {added, added + 1}, score' \in [User -> Nat], rank' \in [User -> {0, 1}],
         ledger' \in [User -> Nat], outdated' \subseteq User, EventsOK',
         \A u \in User : u # user[r] => score'[u] = score[u],
         \A e \in events' : e.user # user[r] => e \in events,
         CountedOnce', CapHolds', NoVoteRing', ScoreIsLedger'
  PROVE  ScoreInd'
<1> USE DEF Goto
<1>0. TypeOK /\ LocalScore /\ EventsOK /\ Alone /\ Fresh(r) BY DEF ScoreInd, ScoreInv
<1>1. /\ \A q \in Request : q # r =>
           /\ pc'[q] = pc[q] /\ kind'[q] = kind[q] /\ user'[q] = user[q] /\ granter'[q] = granter[q]
           /\ ref'[q] = ref[q] /\ start'[q] = start[q] /\ copy'[q] = copy[q] /\ delta'[q] = delta[q]
           /\ rank1'[q] = rank1[q]
      /\ pc'[r] = "idle" /\ rank1'[r] = NoLock
  BY <1>0 DEF Finish, TypeOK, LocalScore
<1>2. LocalScore' BY <1>0 DEF Finish, LocalScore
<1>3. Active' = Active \ {r} /\ r \in Active BY <1>1 DEF Active
<1>4. added \in Nat /\ added + Cardinality(Active) <= MaxEvent BY <1>0, ScoreAssumption DEF ScoreInd, Bounded, TypeOK
<1>5. Bounded' /\ added' \in 0..MaxEvent
  <2>1. Cardinality(Active) \in Nat /\ Cardinality(Active \ {r}) = Cardinality(Active) - 1 BY <1>3, ActiveFinite
  <2>2. Cardinality(Active \ {r}) \in Nat
    <3>1. IsFiniteSet(Active \ {r}) BY FS_RemoveElement, ActiveFinite
    <3>2. QED BY <3>1, FS_CardinalityType
  <2>3. QED BY <1>3, <1>4, <2>1, <2>2, ScoreAssumption DEF Bounded
<1>6. TypeOK'
  <2>1. pc' \in [Request -> {"idle", "sync", "check", "granter", "cap", "write", "commit"}]
    BY <1>0 DEF Finish, TypeOK
  <2>2. rank1' \in [Request -> [User -> {0, 1, None}]] BY <1>0 DEF Finish, TypeOK, NoLock
  <2>3. QED BY <1>0, <1>5, <2>1, <2>2 DEF TypeOK
<1>7. \A q \in Request, v \in User : q \in Busy(v)' <=> (q # r /\ q \in Busy(v)) BY <1>1 DEF Busy
<1>8. Alone' BY <1>0, <1>7 DEF Alone
<1>9. Fresh(r)'
  <2>1. \A u \in User : rank1'[r][u] = None BY <1>1 DEF NoLock
  <2>2. QED BY <1>1, <2>1 DEF Fresh, Shape, CopyFresh, RankFresh, RefFresh, VoteFresh, CapFresh, Checked
<1>10. ASSUME NEW q \in Request, q # r PROVE Fresh(q)'
  <2>1. user[r] \in User /\ r \in Busy(user[r]) BY <1>0 DEF Fresh, Shape, Busy
  <2>2. \A u \in User \ crossed' : q \in Busy(u) =>
          score'[u] = score[u] /\ \A e \in events' : e.user = u => e \in events
    BY <1>0, <1>10, <2>1 DEF Alone
  <2>3. Fresh(q) BY DEF ScoreInd
  <2>4. QED BY <1>0, <1>1, <1>10, <2>2, <2>3, Untouched
<1>11. QED BY <1>2, <1>5, <1>6, <1>8, <1>9, <1>10 DEF ScoreInd, ScoreInv

LEMMA RollbackScore == ASSUME ScoreInd, NEW r \in Request, Rollback(r) PROVE ScoreInd'
<1>0. TypeOK /\ LocalScore /\ EventsOK BY DEF ScoreInd, ScoreInv
<1>1. /\ pc[r] # "idle" /\ Finish(r)
      /\ UNCHANGED <<day, score, rank, events, added, ledger, crossed, outdated>>
  BY DEF Rollback, table, history
<1>2. CountedOnce' /\ CapHolds' /\ NoVoteRing' /\ ScoreIsLedger' BY <1>1, SameTable DEF ScoreInd
<1>3. EventsOK' BY <1>0, <1>1 DEF EventsOK
<1>4. score' \in [User -> Nat] /\ rank' \in [User -> {0, 1}] /\ ledger' \in [User -> Nat] /\ outdated' \subseteq User
  BY <1>0, <1>1 DEF TypeOK, LocalScore
<1>5. QED BY <1>1, <1>2, <1>3, <1>4, FinishScore

LEMMA CommitScore == ASSUME ScoreInd, NEW r \in Request, CommitUnchanged(r) PROVE ScoreInd'
<1>0. TypeOK /\ LocalScore /\ EventsOK /\ Fresh(r) BY DEF ScoreInd, ScoreInv
<1>1. /\ pc[r] = "commit" /\ Finish(r)
      /\ UNCHANGED <<day, score, events, added, ledger, crossed>>
      /\ rank' = [v \in User |-> IF rank1[r][v] # None THEN rank1[r][v] ELSE rank[v]]
      /\ outdated' = outdated \ {v \in User : rank1[r][v] # None}
  BY DEF CommitUnchanged, Settle
<1>2. CountedOnce' /\ CapHolds' /\ NoVoteRing'
  BY <1>1 DEF ScoreInd, ScoreInv, CountedOnce, CapHolds, NoVoteRing, Points, PositiveVotes
<1>3. ScoreIsLedger'
  <2> SUFFICES ASSUME NEW u \in User \ crossed
               PROVE  score[u] = ledger[u] /\ (u \notin outdated' => rank'[u] = rank_policy_for_score(score[u]))
    BY <1>1 DEF ScoreIsLedger, rank_policy_for_score
  <2>1. score[u] = ledger[u] /\ (u \notin outdated => rank[u] = rank_policy_for_score(score[u]))
    BY DEF ScoreInd, ScoreInv, ScoreIsLedger
  <2>2. rank1[r][u] # None => rank1[r][u] = rank_policy_for_score(score[u]) BY <1>0 DEF Fresh, RankFresh
  <2>3. QED BY <1>1, <2>1, <2>2
<1>4. EventsOK' BY <1>0, <1>1 DEF EventsOK
<1>5. score' \in [User -> Nat] /\ rank' \in [User -> {0, 1}] /\ ledger' \in [User -> Nat] /\ outdated' \subseteq User
  BY <1>0, <1>1 DEF TypeOK, LocalScore
<1>6. QED BY <1>1, <1>2, <1>3, <1>4, <1>5, FinishScore

(* InsertEvent: the event, and the score and rank computed from the row    *)
(* that was read.                                                          *)
LEMMA InsertScore == ASSUME ScoreInd, NEW r \in Request, InsertEvent(r) PROVE ScoreInd'
<1> DEFINE u == user[r]
           s == NextScore(copy[r], delta[r])
           x == [id |-> added, user |-> u, kind |-> kind[r], ref |-> ref[r],
                 granter |-> granter[r], delta |-> delta[r], day |-> start[r]]
<1>0. TypeOK /\ LocalScore /\ EventsOK /\ Fresh(r) BY DEF ScoreInd, ScoreInv
<1>1. /\ pc[r] = "write" /\ Finish(r) /\ UNCHANGED <<day, crossed>>
      /\ events' = events \cup {x} /\ added' = added + 1
      /\ score' = [score EXCEPT ![u] = s]
      /\ rank' = [v \in User |-> IF v = u THEN rank_policy_for_score(s)
                                 ELSE IF rank1[r][v] # None THEN rank1[r][v] ELSE rank[v]]
      /\ ledger' = [ledger EXCEPT ![u] = IF u \in crossed THEN 0 ELSE Floor(@ + delta[r])]
      /\ outdated' = outdated \ ({u} \cup {v \in User : rank1[r][v] # None})
  BY DEF InsertEvent, Settle
<1>2. /\ u \in User /\ delta[r] \in Int /\ copy[r] \in Nat /\ added \in Nat /\ start[r] \in Nat
      /\ ledger[u] \in Nat /\ score[u] \in Nat
  BY <1>0, <1>1, ScoreAssumption DEF Fresh, Shape, LocalScore, TypeOK
<1>3. s \in Nat /\ s = Floor(copy[r] + delta[r]) /\ Floor(ledger[u] + delta[r]) \in Nat
      /\ rank_policy_for_score(s) \in {0, 1}
  <2>1. s \in Nat /\ s = Floor(copy[r] + delta[r]) BY <1>2, FloorNat DEF NextScore
  <2>2. Floor(ledger[u] + delta[r]) \in Nat BY <1>2, FloorNat
  <2> HIDE DEF s
  <2>3. rank_policy_for_score(s) \in {0, 1} BY <2>1, RankOf
  <2>4. QED BY <2>1, <2>2, <2>3
<1>4. /\ x.id = added /\ x.user = u /\ x.kind = kind[r] /\ x.ref = ref[r] /\ x.granter = granter[r]
      /\ x.delta = delta[r] /\ x.day = start[r] /\ x \notin events
  BY <1>0, <1>2 DEF EventsOK
<1> HIDE DEF x, s
<1>5. EventsOK'
  <2>1. IsFiniteSet(events') BY <1>0, <1>1, FS_AddElement DEF EventsOK
  <2>2. QED BY <1>0, <1>1, <1>2, <1>4, <2>1 DEF EventsOK
<1>6. /\ score' \in [User -> Nat] /\ rank' \in [User -> {0, 1}] /\ ledger' \in [User -> Nat]
      /\ outdated' \subseteq User /\ score'[u] = s
      /\ \A v \in User : v # u => score'[v] = score[v] /\ ledger'[v] = ledger[v]
      /\ ledger'[u] = IF u \in crossed THEN 0 ELSE Floor(ledger[u] + delta[r])
  BY <1>0, <1>1, <1>2, <1>3 DEF TypeOK, LocalScore
<1>7. CountedOnce'
  <2> SUFFICES ASSUME NEW e \in events', NEW f \in events', e.user = f.user, e.kind = f.kind,
                      e.ref = f.ref, e.ref # None, e # f, e.user \notin crossed
               PROVE  FALSE
    BY <1>1 DEF CountedOnce
  <2>1. CASE e \in events /\ f \in events BY <2>1 DEF ScoreInd, ScoreInv, CountedOnce
  <2>2. CASE e = x \/ f = x
    <3>1. PICK h \in events : h.user = u /\ h.kind = kind[r] /\ h.ref = ref[r] BY <1>1, <1>4, <2>2
    <3>2. u \notin crossed /\ ref[r] # None BY <1>4, <2>2
    <3>3. QED BY <1>0, <1>1, <3>1, <3>2 DEF Fresh, RefFresh, Checked, HasEvent
  <2>3. QED BY <1>1, <2>1, <2>2
<1>8. PositiveVotes' = IF kind[r] = "vote" /\ delta[r] > 0 THEN PositiveVotes \cup {x} ELSE PositiveVotes
  BY <1>1, <1>4 DEF PositiveVotes
<1>9. NoVoteRing'
  <2> SUFFICES ASSUME NEW e \in PositiveVotes', NEW f \in PositiveVotes', e.user = f.granter, f.user = e.granter,
                      ~(f.day > e.day + Window), ~(e.day > f.day + Window),
                      e.user \notin crossed, f.user \notin crossed
               PROVE  FALSE
    BY <1>1 DEF NoVoteRing
  <2>1. CASE e \in PositiveVotes /\ f \in PositiveVotes BY <2>1 DEF ScoreInd, ScoreInv, NoVoteRing
  <2>2. CASE e = x \/ f = x
    <3>1. (kind[r] = "vote" /\ delta[r] > 0) \/ x \in PositiveVotes BY <1>8, <2>2
    <3>2. kind[r] = "vote" /\ delta[r] > 0 BY <1>4, <3>1 DEF PositiveVotes
    <3>3. granter[r] \notin crossed /\ u \notin crossed BY <1>4, <2>2
    <3>4. granter[r] # u /\ ~is_reciprocal_vote(r) BY <1>0, <1>1, <3>2, <3>3 DEF Fresh, VoteFresh, Checked
    <3>5. PICK h \in PositiveVotes : /\ h.user = granter[r] /\ h.granter = u
                                     /\ ~(start[r] > h.day + Window)
      BY <1>4, <1>8, <2>2, <3>4
    <3>6. h.day \in Nat BY <1>0 DEF EventsOK, PositiveVotes
    <3>7. h.day >= start[r] - Window BY <1>2, <3>5, <3>6, ScoreAssumption
    <3>8. QED BY <3>4, <3>5, <3>7 DEF is_reciprocal_vote
  <2>3. QED BY <1>8, <2>1, <2>2
<1>10. ScoreIsLedger'
  <2> SUFFICES ASSUME NEW v \in User \ crossed
               PROVE  score'[v] = ledger'[v] /\ (v \notin outdated' => rank'[v] = rank_policy_for_score(score'[v]))
    BY <1>1 DEF ScoreIsLedger, rank_policy_for_score
  <2>1. score[v] = ledger[v] /\ (v \notin outdated => rank[v] = rank_policy_for_score(score[v]))
    BY DEF ScoreInd, ScoreInv, ScoreIsLedger
  <2>2. CASE v = u
    <3>1. copy[r] = score[u] BY <1>0, <1>1, <2>2 DEF Fresh, CopyFresh
    <3>2. QED BY <1>1, <1>2, <1>3, <1>6, <2>1, <2>2, <3>1
  <2>3. CASE v # u
    <3>1. rank1[r][v] # None => rank1[r][v] = rank_policy_for_score(score[v]) BY <1>0 DEF Fresh, RankFresh
    <3>2. QED BY <1>1, <1>6, <2>1, <2>3, <3>1
  <2>4. QED BY <2>2, <2>3
<1>11. CapHolds'
  <2> SUFFICES ASSUME NEW v \in User \ crossed, NEW d \in 0..MaxDay
               PROVE  Points(VotesOf(v, d))' <= Cap
    BY <1>1 DEF CapHolds, VotesOf
  <2> DEFINE V == VotesOf(v, d)
             W == VotesOf(v, d)'
  <2>1. Points(V) <= Cap /\ Points(V) = SumFunctionOnSet([e \in events |-> e.delta], V)
    BY DEF ScoreInd, ScoreInv, CapHolds, VotesOf, Points
  <2>2. Points(VotesOf(v, d))' = SumFunctionOnSet([e \in events' |-> e.delta], W) BY DEF Points
  <2>3. V \in SUBSET events /\ W \in SUBSET events' /\ \A e \in V : e.delta \in Nat
    BY <1>0 DEF VotesOf, PositiveVotes, EventsOK
  <2>4. CASE W = V
    <3> HIDE DEF V, W
    <3>1. SumFunctionOnSet([e \in events' |-> e.delta], W) <= SumFunctionOnSet([e \in events |-> e.delta], V)
      /\ SumFunctionOnSet([e \in events' |-> e.delta], W) \in Nat
      /\ SumFunctionOnSet([e \in events |-> e.delta], V) \in Nat
      BY <1>0, <1>5, <2>3, <2>4, FewerVotes DEF EventsOK
    <3>2. QED BY <2>1, <2>2, <3>1, ScoreAssumption
  <2>5. CASE W # V
    <3>1. kind[r] = "vote" /\ delta[r] > 0 /\ v = u /\ d = start[r] /\ W = V \cup {x}
      BY <1>4, <1>8, <2>5 DEF VotesOf
    <3>2. Points(V) + delta[r] <= Cap BY <1>0, <1>1, <3>1 DEF Fresh, CapFresh
    <3>3. \A e \in V \cup {x} : e.delta \in Nat BY <1>2, <1>4, <2>3, <3>1
    <3> HIDE DEF V, W
    <3>4. SumFunctionOnSet([e \in events' |-> e.delta], W)
            = x.delta + SumFunctionOnSet([e \in events |-> e.delta], V)
      BY <1>0, <1>1, <1>4, <2>3, <3>1, <3>3, OneVoteMore DEF EventsOK
    <3>5. SumFunctionOnSet([e \in events |-> e.delta], V) \in Nat
      BY <1>0, <2>3, FewerVotes DEF EventsOK
    <3>6. QED BY <1>2, <1>4, <2>1, <2>2, <3>2, <3>4, <3>5
  <2>6. QED BY <2>4, <2>5
<1>12. \A e \in events' : e.user # user[r] => e \in events BY <1>1, <1>4
<1>13. QED BY <1>1, <1>5, <1>6, <1>7, <1>9, <1>10, <1>11, <1>12, FinishScore

(* A step of no request: other events go, or a day passes. *)
LEMMA AsideScore ==
  ASSUME ScoreInd, EventsOK', events' \subseteq events, day' \in 0..MaxDay,
         UNCHANGED <<score, rank, added, pc, kind, user, granter, ref, start, copy, delta, rank1,
                     ledger, crossed, outdated>>
  PROVE  ScoreInd'
<1>0. TypeOK /\ LocalScore /\ EventsOK BY DEF ScoreInd, ScoreInv
<1>1. TypeOK' /\ LocalScore' BY <1>0 DEF TypeOK, LocalScore
<1>2. CountedOnce' BY DEF ScoreInd, ScoreInv, CountedOnce
<1>3. NoVoteRing' BY DEF ScoreInd, ScoreInv, NoVoteRing, PositiveVotes
<1>4. ScoreIsLedger' BY DEF ScoreInd, ScoreInv, ScoreIsLedger, rank_policy_for_score
<1>5. CapHolds'
  <2> SUFFICES ASSUME NEW v \in User \ crossed, NEW d \in 0..MaxDay
               PROVE  Points(VotesOf(v, d))' <= Cap
    BY DEF CapHolds, VotesOf
  <2> DEFINE V == VotesOf(v, d)
             W == VotesOf(v, d)'
  <2>1. Points(V) <= Cap /\ Points(V) = SumFunctionOnSet([e \in events |-> e.delta], V)
    BY DEF ScoreInd, ScoreInv, CapHolds, VotesOf, Points
  <2>2. Points(VotesOf(v, d))' = SumFunctionOnSet([e \in events' |-> e.delta], W) BY DEF Points
  <2>3. /\ V \in SUBSET events /\ W \in SUBSET events' /\ W \subseteq V
        /\ \A e \in V : e.delta \in Nat
    BY <1>0 DEF VotesOf, PositiveVotes, EventsOK
  <2> HIDE DEF V, W
  <2>4. /\ SumFunctionOnSet([e \in events' |-> e.delta], W) <= SumFunctionOnSet([e \in events |-> e.delta], V)
        /\ SumFunctionOnSet([e \in events' |-> e.delta], W) \in Nat
        /\ SumFunctionOnSet([e \in events |-> e.delta], V) \in Nat
    BY <1>0, <2>3, FewerVotes DEF EventsOK
  <2>5. QED BY <2>1, <2>2, <2>4, ScoreAssumption
<1>6. Bounded' BY DEF ScoreInd, Bounded, Active
<1>7. Alone' BY DEF ScoreInd, Alone, Busy
<1>8. ASSUME NEW q \in Request PROVE Fresh(q)' BY <1>0, Untouched DEF ScoreInd
<1>9. QED BY <1>1, <1>2, <1>3, <1>4, <1>5, <1>6, <1>7, <1>8 DEF ScoreInd, ScoreInv

LEMMA ScoreNext == ScoreInd /\ [Next]_vars => ScoreInd'
<1> SUFFICES ASSUME ScoreInd, [Next]_vars PROVE ScoreInd' OBVIOUS
<1>0. TypeOK /\ EventsOK /\ MaxDay \in Nat BY ScoreAssumption DEF ScoreInd, ScoreInv
<1>1. ASSUME NEW r \in Request, NEW u \in User, NEW f \in Ref \cup {None}, NEW k \in Kinds,
             record_contribution_event(r, k, u, f)
      PROVE  ScoreInd'
  BY <1>1, BeginScore DEF record_contribution_event
<1>2. ASSUME NEW r \in Request, NEW u \in User, NEW f \in Ref \cup {None}, NEW g \in User,
             award_community_upvote(r, u, g, f)
      PROVE  ScoreInd'
  BY <1>2, BeginScore DEF award_community_upvote
<1>3. ASSUME NEW r \in Request, NEW u \in User, get_guild_snapshot(r, u) PROVE ScoreInd'
  BY <1>3, BeginScore DEF get_guild_snapshot
<1>4. ASSUME NEW r \in Request, RequestStep(r) PROVE ScoreInd'
  BY <1>4, SyncScore, CheckScore, GranterScore, CapScore, InsertScore, CommitScore, RollbackScore DEF RequestStep
<1>5. CASE prune_guild_history
  <2>1. events' \subseteq events /\ UNCHANGED <<day, added>> BY <1>5 DEF prune_guild_history
  <2>2. EventsOK' BY <1>0, <2>1, FS_Subset DEF EventsOK
  <2>3. day' \in 0..MaxDay BY <1>0, <2>1 DEF TypeOK
  <2>4. QED BY <1>5, <2>1, <2>2, <2>3, AsideScore DEF prune_guild_history, local
<1>6. CASE Midnight
  <2>1. day' \in 0..MaxDay /\ EventsOK' BY <1>0, <1>6 DEF Midnight, TypeOK, EventsOK
  <2>2. QED BY <1>6, <2>1, AsideScore DEF Midnight, local, history
<1>7. CASE UNCHANGED vars
  <2>1. day' \in 0..MaxDay /\ EventsOK' BY <1>0, <1>7 DEF vars, table, TypeOK, EventsOK
  <2>2. QED BY <1>7, <2>1, AsideScore DEF vars, table, local, history
<1>8. QED BY <1>1, <1>2, <1>3, <1>4, <1>5, <1>6, <1>7 DEF Next

(* record_contribution_event, for any number of users, requests at a time, *)
(* events and days: an event is counted once, the votes of a day stay      *)
(* under the cap, no two users vote for each other, and the score and the  *)
(* rank are what the events make them, but for users whose requests        *)
(* overlapped.                                                             *)
THEOREM ScoresHold == Spec => []ScoreInv
<1>1. ScoreInd => ScoreInv BY DEF ScoreInd
<1>2. QED BY <1>1, ScoreInit, ScoreNext, PTL DEF Spec

(* The same of the runs. *)
THEOREM ScoresRun == MCSpec => []ScoreInv
<1>1. MCInit => ScoreInd BY ScoreInit DEF MCInit
<1>2. ScoreInd /\ [MCNext]_mcVars => ScoreInd'
  <2> SUFFICES ASSUME ScoreInd, [MCNext]_mcVars PROVE ScoreInd' OBVIOUS
  <2>1. [Next]_vars BY DEF MCNext, mcVars
  <2>2. QED BY <2>1, ScoreNext
<1>3. QED BY <1>1, <1>2, PTL DEF MCSpec, ScoreInd

----------------------------------------------------------------------------
(* Stickers.  list_sticker_groups walks the rows: what it has after k of   *)
(* them is what those k make, by induction on k.                           *)
Walks(n, w) ==
  w = [k \in 0..n |-> IF k = 0 THEN [g \in {} |-> None]
                      ELSE IF stickers[k].status = "active" THEN Sticking!AddSticker(w[k - 1], k)
                      ELSE w[k - 1]]
Upto(g, t, k) ==
  {i \in 1..k : stickers[i].status = "active" /\ stickers[i].group = g /\ stickers[i].tab = t}
Listed(all, k) ==
  /\ DOMAIN all = {g \in Group : Upto(g, TRUE, k) \cup Upto(g, FALSE, k) # {}}
  /\ \A g \in DOMAIN all :
       /\ all[g] \in [tab : Nat \cup {None}, total : Nat]
       /\ all[g].total = Cardinality(Upto(g, FALSE, k))
       /\ Upto(g, TRUE, k) = {} => all[g].tab = None
       /\ Upto(g, TRUE, k) # {} =>
            all[g].tab \in Upto(g, TRUE, k) /\ \A i \in Upto(g, TRUE, k) : i <= all[g].tab

LEMMA WalkExists ==
  ASSUME NEW n \in Nat
  PROVE  \E w : Walks(n, w)
<1> DEFINE Bad == {m \in Nat : ~\E w : Walks(m, w)}
<1> SUFFICES ASSUME Bad # {} PROVE FALSE OBVIOUS
<1>1. PICK m \in Bad : \A k \in Bad : m <= k
  <2>1. Bad \subseteq Nat OBVIOUS
  <2> HIDE DEF Bad
  <2>2. QED BY <2>1, Least
<1>2. CASE m = 0
  <2> DEFINE w == [k \in 0..0 |-> [g \in {} |-> None]]
  <2>1. Walks(0, w) BY DEF Walks
  <2>2. QED BY <1>2, <2>1
<1>3. CASE m # 0
  <2>1. m - 1 \in Nat /\ m - 1 \notin Bad BY <1>1, <1>3
  <2>2. PICK v : Walks(m - 1, v) BY <2>1
  <2> DEFINE w == [k \in 0..m |-> IF k < m THEN v[k]
                                  ELSE IF stickers[m].status = "active" THEN Sticking!AddSticker(v[m - 1], m)
                                  ELSE v[m - 1]]
  <2>3. ASSUME NEW k \in 0..m
        PROVE  w[k] = IF k = 0 THEN [g \in {} |-> None]
                      ELSE IF stickers[k].status = "active" THEN Sticking!AddSticker(w[k - 1], k)
                      ELSE w[k - 1]
    <3>1. k # 0 => w[k - 1] = v[k - 1] BY <1>3
    <3>2. CASE k < m
      <4>1. v[k] = IF k = 0 THEN [g \in {} |-> None]
                   ELSE IF stickers[k].status = "active" THEN Sticking!AddSticker(v[k - 1], k)
                   ELSE v[k - 1]
        BY <2>1, <2>2, <3>2 DEF Walks
      <4>2. w[k] = v[k] BY <3>2
      <4> HIDE DEF w
      <4>3. QED BY <3>1, <4>1, <4>2
    <3>3. CASE k = m
      <4>1. w[k] = IF stickers[m].status = "active" THEN Sticking!AddSticker(v[m - 1], m) ELSE v[m - 1]
        BY <3>3
      <4> HIDE DEF w
      <4>2. QED BY <1>3, <3>1, <3>3, <4>1
    <3>4. QED BY <3>2, <3>3
  <2>4. Walks(m, w)
    <3>1. w = [k \in 0..m |-> w[k]] OBVIOUS
    <3> HIDE DEF w
    <3>2. QED BY <2>3, <3>1 DEF Walks
  <2>5. QED BY <2>4
<1>4. QED BY <1>2, <1>3

LEMMA UptoNext ==
  ASSUME NEW k \in Nat, k > 0, NEW g, NEW t
  PROVE  /\ Upto(g, t, k) = IF stickers[k].status = "active" /\ stickers[k].group = g /\ stickers[k].tab = t
                            THEN Upto(g, t, k - 1) \cup {k} ELSE Upto(g, t, k - 1)
         /\ IsFiniteSet(Upto(g, t, k - 1)) /\ Cardinality(Upto(g, t, k - 1)) \in Nat
         /\ Upto(g, t, k - 1) \subseteq 1..(k - 1) /\ k \notin Upto(g, t, k - 1)
<1>1. Upto(g, t, k - 1) \subseteq 1..(k - 1) BY DEF Upto
<1>2. IsFiniteSet(1..(k - 1)) BY FS_Interval
<1>3. IsFiniteSet(Upto(g, t, k - 1)) BY <1>1, <1>2, FS_Subset
<1>4. \A i : i \in 1..k <=> i \in 1..(k - 1) \/ i = k OBVIOUS
<1>5. Upto(g, t, k) = IF stickers[k].status = "active" /\ stickers[k].group = g /\ stickers[k].tab = t
                      THEN Upto(g, t, k - 1) \cup {k} ELSE Upto(g, t, k - 1)
  BY <1>4 DEF Upto
<1>6. QED BY <1>1, <1>3, <1>5, FS_CardinalityType

(* AddSticker, with one row more. *)
LEMMA AddListed ==
  ASSUME NEW k \in Nat, k > 0, stickers[k] \in Sticking!Row, stickers[k].status = "active",
         NEW all, Listed(all, k - 1)
  PROVE  Listed(Sticking!AddSticker(all, k), k)
<1> DEFINE g == stickers[k].group
           seen == IF g \in DOMAIN all THEN all[g] ELSE [tab |-> None, total |-> 0]
           new == IF stickers[k].tab THEN [seen EXCEPT !.tab = k] ELSE [seen EXCEPT !.total = @ + 1]
           next == [h \in DOMAIN all \cup {g} |-> IF h = g THEN new ELSE all[h]]
<1>1. Sticking!AddSticker(all, k) = next BY DEF Sticking!AddSticker
<1>2. g \in Group /\ stickers[k].tab \in BOOLEAN BY DEF Sticking!Row
<1>3. \A h : h # g => Upto(h, TRUE, k) = Upto(h, TRUE, k - 1) /\ Upto(h, FALSE, k) = Upto(h, FALSE, k - 1)
  BY UptoNext
<1>4. CASE stickers[k].tab = TRUE
  <2>1. /\ Upto(g, TRUE, k) = Upto(g, TRUE, k - 1) \cup {k} /\ Upto(g, FALSE, k) = Upto(g, FALSE, k - 1)
        /\ Upto(g, TRUE, k - 1) \subseteq 1..(k - 1)
    BY <1>4, UptoNext
  <2>2. /\ seen \in [tab : Nat \cup {None}, total : Nat] /\ seen.total = Cardinality(Upto(g, FALSE, k - 1))
    <3>1. CASE g \in DOMAIN all BY <3>1 DEF Listed
    <3>2. CASE g \notin DOMAIN all
      <4>1. Upto(g, FALSE, k - 1) = {} BY <1>2, <3>2 DEF Listed
      <4>2. QED BY <3>2, <4>1, FS_EmptySet
    <3>3. QED BY <3>1, <3>2
  <2> HIDE DEF seen
  <2>3. new = [seen EXCEPT !.tab = k] BY <1>4
  <2>4. new \in [tab : Nat \cup {None}, total : Nat] /\ new.tab = k /\ new.total = seen.total BY <2>2, <2>3
  <2>5. DOMAIN next = {h \in Group : Upto(h, TRUE, k) \cup Upto(h, FALSE, k) # {}}
    BY <1>2, <1>3, <2>1 DEF Listed
  <2> HIDE DEF new
  <2>6. next[g] = new /\ \A h \in DOMAIN next : h # g => h \in DOMAIN all /\ next[h] = all[h] OBVIOUS
  <2>7. \A i \in Upto(g, TRUE, k) : i <= k
    <3>1. \A i \in 1..(k - 1) : i <= k OBVIOUS
    <3>2. k <= k OBVIOUS
    <3>3. QED BY <2>1, <3>1, <3>2, Zenon
  <2> HIDE DEF next
  <2>8. ASSUME NEW h \in DOMAIN next
        PROVE  /\ next[h] \in [tab : Nat \cup {None}, total : Nat]
               /\ next[h].total = Cardinality(Upto(h, FALSE, k))
               /\ Upto(h, TRUE, k) = {} => next[h].tab = None
               /\ Upto(h, TRUE, k) # {} =>
                    next[h].tab \in Upto(h, TRUE, k) /\ \A i \in Upto(h, TRUE, k) : i <= next[h].tab
    <3>1. CASE h = g BY <2>1, <2>2, <2>4, <2>6, <2>7, <3>1
    <3>2. CASE h # g BY <1>3, <2>6, <3>2 DEF Listed
    <3>3. QED BY <3>1, <3>2
  <2>9. QED BY <1>1, <2>5, <2>8 DEF Listed
<1>5. CASE stickers[k].tab = FALSE
  <2>1. /\ Upto(g, FALSE, k) = Upto(g, FALSE, k - 1) \cup {k} /\ Upto(g, TRUE, k) = Upto(g, TRUE, k - 1)
        /\ IsFiniteSet(Upto(g, FALSE, k - 1)) /\ k \notin Upto(g, FALSE, k - 1)
    BY <1>5, UptoNext
  <2>2. Cardinality(Upto(g, FALSE, k)) = Cardinality(Upto(g, FALSE, k - 1)) + 1 BY <2>1, FS_AddElement
  <2>3. /\ seen \in [tab : Nat \cup {None}, total : Nat] /\ seen.total = Cardinality(Upto(g, FALSE, k - 1))
        /\ Upto(g, TRUE, k - 1) = {} => seen.tab = None
        /\ Upto(g, TRUE, k - 1) # {} =>
             seen.tab \in Upto(g, TRUE, k - 1) /\ \A i \in Upto(g, TRUE, k - 1) : i <= seen.tab
    <3>1. CASE g \in DOMAIN all BY <3>1 DEF Listed
    <3>2. CASE g \notin DOMAIN all
      <4>1. Upto(g, FALSE, k - 1) = {} /\ Upto(g, TRUE, k - 1) = {} BY <1>2, <3>2 DEF Listed
      <4>2. QED BY <3>2, <4>1, FS_EmptySet
    <3>3. QED BY <3>1, <3>2
  <2> HIDE DEF seen
  <2>4. new = [seen EXCEPT !.total = @ + 1] BY <1>5
  <2>5. new \in [tab : Nat \cup {None}, total : Nat] /\ new.tab = seen.tab /\ new.total = seen.total + 1
    <3>1. seen \in [tab : Nat \cup {None}, total : Nat] BY <2>3
    <3> HIDE DEF new
    <3>2. QED BY <2>4, <3>1
  <2>6. DOMAIN next = {h \in Group : Upto(h, TRUE, k) \cup Upto(h, FALSE, k) # {}}
    BY <1>2, <1>3, <2>1 DEF Listed
  <2> HIDE DEF new
  <2>7. next[g] = new /\ \A h \in DOMAIN next : h # g => h \in DOMAIN all /\ next[h] = all[h] OBVIOUS
  <2> HIDE DEF next
  <2>8. ASSUME NEW h \in DOMAIN next
        PROVE  /\ next[h] \in [tab : Nat \cup {None}, total : Nat]
               /\ next[h].total = Cardinality(Upto(h, FALSE, k))
               /\ Upto(h, TRUE, k) = {} => next[h].tab = None
               /\ Upto(h, TRUE, k) # {} =>
                    next[h].tab \in Upto(h, TRUE, k) /\ \A i \in Upto(h, TRUE, k) : i <= next[h].tab
    <3>1. CASE h = g BY <2>1, <2>2, <2>3, <2>5, <2>7, <3>1
    <3>2. CASE h # g BY <1>3, <2>7, <3>2 DEF Listed
    <3>3. QED BY <3>1, <3>2
  <2>9. QED BY <1>1, <2>6, <2>8 DEF Listed
<1>6. QED BY <1>2, <1>4, <1>5

(* list_sticker_groups, whatever the rows are. *)
LEMMA GroupsListed ==
  ASSUME stickers \in Seq(Sticking!Row)
  PROVE  Sticking!GroupsAreComplete
<1> DEFINE n == Len(stickers)
           w == CHOOSE v : Walks(n, v)
           all == w[n]
<1>0. n \in Nat /\ DOMAIN stickers = 1..n /\ \A k \in 1..n : stickers[k] \in Sticking!Row OBVIOUS
<1>1. Sticking!list_sticker_groups = [g \in {h \in DOMAIN all : all[h].tab # None} |-> all[g]]
  BY DEF Sticking!list_sticker_groups, Walks
<1>2. Walks(n, w) BY <1>0, WalkExists
<1> HIDE DEF w, n
<1>3. \A k \in 0..n : Listed(w[k], k)
  <2> DEFINE Bad == {k \in Nat : k <= n /\ ~Listed(w[k], k)}
  <2> SUFFICES ASSUME Bad # {} PROVE FALSE BY <1>0
  <2>1. PICK k \in Bad : \A m \in Bad : k <= m
    <3>1. Bad \subseteq Nat OBVIOUS
    <3> HIDE DEF Bad
    <3>2. QED BY <3>1, Least
  <2>2. w[k] = IF k = 0 THEN [g \in {} |-> None]
               ELSE IF stickers[k].status = "active" THEN Sticking!AddSticker(w[k - 1], k)
               ELSE w[k - 1]
    BY <1>0, <1>2 DEF Walks
  <2>3. CASE k = 0
    <3>1. \A g, t : Upto(g, t, 0) = {} BY DEF Upto
    <3>2. DOMAIN w[0] = {} BY <2>2, <2>3
    <3>3. QED BY <2>3, <3>1, <3>2 DEF Listed
  <2>4. CASE k # 0
    <3>1. k - 1 \in Nat /\ k > 0 /\ k \in 1..n BY <1>0, <2>4
    <3>2. Listed(w[k - 1], k - 1) BY <1>0, <2>1, <3>1
    <3>3. CASE stickers[k].status = "active"
      <4>1. w[k] = Sticking!AddSticker(w[k - 1], k) BY <2>2, <2>4, <3>3
      <4>2. QED BY <1>0, <3>1, <3>2, <3>3, <4>1, AddListed
    <3>4. CASE stickers[k].status # "active"
      <4>1. w[k] = w[k - 1] BY <2>2, <2>4, <3>4
      <4>2. \A g, t : Upto(g, t, k) = Upto(g, t, k - 1) BY <3>1, <3>4, UptoNext
      <4> HIDE DEF Bad
      <4>3. Listed(w[k - 1], k) BY <3>2, <4>2 DEF Listed
      <4>4. QED BY <4>1, <4>3 DEF Bad
    <3>5. QED BY <3>3, <3>4
  <2>5. QED BY <2>3, <2>4
<1>4. Listed(all, n) BY <1>0, <1>3
<1> HIDE DEF all
<1> DEFINE Shown == Sticking!list_sticker_groups
<1>5. ASSUME NEW h \in DOMAIN all PROVE all[h].tab # None <=> Upto(h, TRUE, n) # {}
  <2>1. Upto(h, TRUE, n) \subseteq Int BY <1>0 DEF Upto
  <2>2. Upto(h, TRUE, n) # {} => all[h].tab \in Upto(h, TRUE, n) BY <1>4 DEF Listed
  <2>3. Upto(h, TRUE, n) = {} => all[h].tab = None BY <1>4 DEF Listed
  <2>4. QED BY <2>1, <2>2, <2>3, ScoreAssumption
<1>6. DOMAIN Shown = {g \in Group : Upto(g, TRUE, n) # {}} BY <1>1, <1>4, <1>5 DEF Listed
<1>7. \A g \in DOMAIN Shown : g \in DOMAIN all /\ Shown[g] = all[g] /\ Upto(g, TRUE, n) # {} BY <1>1, <1>6
<1> HIDE DEF Shown
<1>8. \A g \in DOMAIN Shown :
        /\ Shown[g].tab \in Upto(g, TRUE, n) /\ \A i \in Upto(g, TRUE, n) : i <= Shown[g].tab
        /\ Shown[g].total = Cardinality(Upto(g, FALSE, n))
  BY <1>4, <1>7 DEF Listed
<1>9. \A g, t : {i \in DOMAIN stickers : stickers[i].status = "active" /\ stickers[i].group = g /\ stickers[i].tab = t}
                  = Upto(g, t, n)
  BY <1>0 DEF Upto
<1>10. \A S : Sticking!Cardinality(S) = Cardinality(S) BY DEF Sticking!Cardinality, Cardinality
<1>11. QED BY <1>6, <1>8, <1>9, <1>10, ZenonT(30) DEF Sticking!GroupsAreComplete, Shown
----------------------------------------------------------------------------
(* upload_sticker_conn: who has counted the stickers of an uploader is the *)
(* only one to add any.                                                    *)
Sizes == [i \in DOMAIN stickers |-> stickers[i].size]
Uploaded(u) == Sticking!Of(u)
CountOf(u) == Cardinality(Uploaded(u))
BytesOf(u) == SumFunctionOnSet(Sizes, Uploaded(u))
Input == [size : Size, group : Group, tab : BOOLEAN]

UploadOK(r) ==
  /\ phase[r] # "idle" => uploader[r] \in Owner \cup Admin /\ upload[r] \in Input
  /\ phase[r] = "gate" => uploader[r] \notin Admin
  /\ phase[r] \in {"count", "bytes", "insert"} /\ uploader[r] \notin Admin => held[r] = uploader[r]
  /\ held[r] # None => phase[r] # "idle" /\ held[r] = uploader[r]

LockInv ==
  \A r, q \in Request : r # q =>
    /\ held[r] # None => held[q] # held[r]
    /\ phase[r] # "idle" /\ phase[q] # "idle" /\ uploader[r] = uploader[q] /\ uploader[r] \in Admin
         => uploader[r] \in tangled

(* What a request has counted still holds when it inserts. *)
CountOK(r) ==
  uploader[r] \notin tangled =>
    /\ phase[r] \in {"bytes", "insert"} => CountOf(uploader[r]) < MaxCount
    /\ phase[r] = "insert" => BytesOf(uploader[r]) + upload[r].size <= MaxBytes

Running == {r \in Request : phase[r] # "idle"}
Quota ==
  \A u \in (Owner \cup Admin) \ tangled : CountOf(u) <= MaxCount /\ BytesOf(u) <= MaxBytes

StickerInd ==
  /\ Sticking!TypeOK /\ Quota /\ upload \in [Request -> Input \cup {None}]
  /\ Len(stickers) + Cardinality(Running) <= MaxStickers
  /\ LockInv /\ \A r \in Request : UploadOK(r) /\ CountOK(r)

(* The quotas, as the code computes them. *)
LEMMA QuotaDef ==
  /\ \A S : Sticking!Cardinality(S) = Cardinality(S)
  /\ \A u : Sticking!Bytes(u) = BytesOf(u)
<1>1. \A S : Sticking!Cardinality(S) = Cardinality(S) BY DEF Sticking!Cardinality, Cardinality
<1>2. ASSUME NEW f, NEW S PROVE Sticking!SumFunctionOnSet(f, S) = SumFunctionOnSet(f, S)
  BY DEF Sticking!SumFunctionOnSet, Sticking!FoldFunctionOnSet, Sticking!MapThenFoldSet,
         SumFunctionOnSet, FoldFunctionOnSet, MapThenFoldSet
<1>3. \A u : Sticking!Bytes(u) = BytesOf(u) BY <1>2 DEF Sticking!Bytes, BytesOf, Sizes, Uploaded
<1>4. QED BY <1>1, <1>3

LEMMA StickersHold == StickerInd => Sticking!StickerInv
<1> SUFFICES ASSUME StickerInd PROVE Sticking!StickerInv OBVIOUS
<1>1. Sticking!QuotaHolds
  BY QuotaDef DEF StickerInd, Quota, Sticking!QuotaHolds, Sticking!Uploader, CountOf, Uploaded
<1>2. Sticking!GroupsAreComplete BY GroupsListed DEF StickerInd, Sticking!TypeOK
<1>3. QED BY <1>1, <1>2 DEF StickerInd, Sticking!StickerInv

LEMMA StickerInit == Sticking!Init => StickerInd
<1> SUFFICES ASSUME Sticking!Init PROVE StickerInd OBVIOUS
<1>1. /\ stickers = << >> /\ phase = [r \in Request |-> "idle"] /\ uploader = [r \in Request |-> None]
      /\ upload = [r \in Request |-> None] /\ held = [r \in Request |-> None] /\ tangled = {}
  BY DEF Sticking!Init
<1>2. Sticking!TypeOK
  <2>1. stickers \in Seq(Sticking!Row) /\ Len(stickers) <= MaxStickers BY <1>1, StickerAssumption
  <2>2. QED BY <1>1, <2>1 DEF Sticking!TypeOK
<1>3. Quota
  <2>1. \A u : Uploaded(u) = {} BY <1>1 DEF Uploaded, Sticking!Of
  <2>2. Cardinality({}) = 0 /\ SumFunctionOnSet(Sizes, {}) = 0 BY FS_EmptySet, SumEmpty
  <2>3. QED BY <2>1, <2>2, StickerAssumption DEF Quota, CountOf, BytesOf
<1>4. Len(stickers) + Cardinality(Running) <= MaxStickers
  <2>1. Running = {} BY <1>1 DEF Running
  <2>2. QED BY <1>1, <2>1, FS_EmptySet, StickerAssumption
<1>5. LockInv BY <1>1 DEF LockInv
<1>6. \A r \in Request : UploadOK(r) /\ CountOK(r) BY <1>1 DEF UploadOK, CountOK
<1>7. QED BY <1>1, <1>2, <1>3, <1>4, <1>5, <1>6 DEF StickerInd

(* One request takes a step; the others keep what they have counted. *)
LEMMA UploadStep ==
  ASSUME StickerInd, NEW r \in Request,
         Sticking!TypeOK', Quota', upload' \in [Request -> Input \cup {None}],
         (Len(stickers) + Cardinality(Running) <= MaxStickers)',
         LockInv', UploadOK(r)', CountOK(r)', tangled \subseteq tangled',
         \A q \in Request : q # r =>
           /\ phase'[q] = phase[q] /\ uploader'[q] = uploader[q] /\ upload'[q] = upload[q] /\ held'[q] = held[q]
           /\ uploader[q] \notin tangled' /\ phase[q] \in {"bytes", "insert"} =>
                CountOf(uploader[q])' = CountOf(uploader[q]) /\ BytesOf(uploader[q])' = BytesOf(uploader[q])
  PROVE  StickerInd'
<1>1. ASSUME NEW q \in Request, q # r PROVE UploadOK(q)' /\ CountOK(q)'
  <2>1. UploadOK(q)' BY <1>1 DEF StickerInd, UploadOK
  <2>2. CountOK(q)' BY <1>1 DEF StickerInd, CountOK
  <2>3. QED BY <2>1, <2>2
<1>2. QED BY <1>1 DEF StickerInd

LEMMA RunningFinite ==
  ASSUME NEW r \in Request
  PROVE  /\ IsFiniteSet(Running) /\ Cardinality(Running) \in Nat
         /\ r \notin Running => Cardinality(Running \cup {r}) = Cardinality(Running) + 1
         /\ r \in Running => Cardinality(Running \ {r}) = Cardinality(Running) - 1
<1>1. IsFiniteSet(Running) BY FS_Subset, ScoreAssumption DEF Running
<1>2. QED BY <1>1, FS_CardinalityType, FS_AddElement, FS_RemoveElement

LEMMA SameRows ==
  ASSUME UNCHANGED stickers
  PROVE  \A u : CountOf(u)' = CountOf(u) /\ BytesOf(u)' = BytesOf(u)
BY DEF CountOf, BytesOf, Sizes, Uploaded, Sticking!Of

(* An upload that ends, whatever it did to the rows. *)
LEMMA FinishSticker ==
  ASSUME StickerInd, NEW r \in Request, phase[r] # "idle", Sticking!Finish(r), UNCHANGED tangled,
         stickers' \in Seq(Sticking!Row), Len(stickers') \in {Len(stickers), Len(stickers) + 1}, Quota',
         \A q \in Request : q # r /\ uploader[q] \notin tangled /\ phase[q] \in {"bytes", "insert"} =>
           CountOf(uploader[q])' = CountOf(uploader[q]) /\ BytesOf(uploader[q])' = BytesOf(uploader[q])
  PROVE  StickerInd'
<1>0. Sticking!TypeOK /\ upload \in [Request -> Input \cup {None}] BY DEF StickerInd
<1>1. /\ phase' = [phase EXCEPT ![r] = "idle"] /\ uploader' = [uploader EXCEPT ![r] = None]
      /\ upload' = [upload EXCEPT ![r] = None] /\ held' = [held EXCEPT ![r] = None]
  BY DEF Sticking!Finish, Sticking!Goto
<1>2. /\ phase'[r] = "idle" /\ held'[r] = None
      /\ \A q \in Request : q # r =>
           /\ phase'[q] = phase[q] /\ uploader'[q] = uploader[q] /\ upload'[q] = upload[q] /\ held'[q] = held[q]
  BY <1>0, <1>1 DEF Sticking!TypeOK
<1>3. Running' = Running \ {r} /\ r \in Running BY <1>2 DEF Running
<1>4. (Len(stickers) + Cardinality(Running) <= MaxStickers)' /\ Len(stickers') <= MaxStickers
  <2>1. Cardinality(Running) \in Nat /\ Cardinality(Running \ {r}) = Cardinality(Running) - 1 BY <1>3, RunningFinite
  <2>2. Cardinality(Running \ {r}) \in Nat
    <3>1. IsFiniteSet(Running \ {r}) BY FS_RemoveElement, RunningFinite
    <3>2. QED BY <3>1, FS_CardinalityType
  <2>3. Len(stickers) \in Nat /\ Len(stickers) + Cardinality(Running) <= MaxStickers
    BY <1>0 DEF StickerInd, Sticking!TypeOK
  <2>4. QED BY <1>3, <2>1, <2>2, <2>3, StickerAssumption
<1>5. Sticking!TypeOK' /\ upload' \in [Request -> Input \cup {None}]
  BY <1>0, <1>1, <1>4 DEF Sticking!TypeOK
<1>6. LockInv' BY <1>2 DEF StickerInd, LockInv
<1>7. UploadOK(r)' /\ CountOK(r)' BY <1>2 DEF UploadOK, CountOK
<1>8. QED BY <1>2, <1>4, <1>5, <1>6, <1>7, UploadStep

(* A request goes on to a next phase and the rows stay as they are. *)
LEMMA GoOnSticker ==
  ASSUME StickerInd, NEW r \in Request, phase[r] # "idle", UNCHANGED <<stickers, uploader, upload, tangled>>,
         NEW to \in {"count", "bytes", "insert"}, phase' = [phase EXCEPT ![r] = to],
         NEW h \in Owner \cup {None}, held' = [held EXCEPT ![r] = h],
         h # None => h = uploader[r] /\ \A q \in Request : q # r => held[q] # h,
         uploader[r] \notin Admin => h = uploader[r], CountOK(r)'
  PROVE  StickerInd'
<1>0. Sticking!TypeOK /\ upload \in [Request -> Input \cup {None}] /\ UploadOK(r) /\ LockInv BY DEF StickerInd
<1>1. /\ phase'[r] = to /\ held'[r] = h
      /\ \A q \in Request : q # r => phase'[q] = phase[q] /\ held'[q] = held[q]
  BY <1>0 DEF Sticking!TypeOK
<1>2. Running' = Running BY <1>1 DEF Running
<1>3. (Len(stickers) + Cardinality(Running) <= MaxStickers)' BY <1>2 DEF StickerInd
<1>4. Sticking!TypeOK'
  <2>1. phase' \in [Request -> {"idle", "gate", "count", "bytes", "insert"}] BY <1>0 DEF Sticking!TypeOK
  <2>2. held' \in [Request -> Owner \cup {None}] BY <1>0 DEF Sticking!TypeOK
  <2>3. QED BY <1>0, <2>1, <2>2 DEF Sticking!TypeOK
<1>5. UploadOK(r)' BY <1>0, <1>1 DEF UploadOK
<1>6. LockInv' BY <1>0, <1>1 DEF LockInv
<1>7. Quota' BY SameRows DEF StickerInd, Quota
<1>8. QED BY <1>0, <1>1, <1>3, <1>4, <1>5, <1>6, <1>7, SameRows, UploadStep

(* An upload ends without a row of its own. *)
LEMMA GiveUpSticker ==
  ASSUME StickerInd, NEW r \in Request, phase[r] # "idle", Sticking!Finish(r), UNCHANGED <<stickers, tangled>>
  PROVE  StickerInd'
<1>1. stickers' \in Seq(Sticking!Row) /\ Len(stickers') = Len(stickers) BY DEF StickerInd, Sticking!TypeOK
<1>2. Quota' BY SameRows DEF StickerInd, Quota
<1>3. \A q \in Request : q # r => uploader'[q] = uploader[q] BY DEF StickerInd, Sticking!TypeOK, Sticking!Finish
<1>4. QED BY <1>1, <1>2, <1>3, SameRows, FinishSticker

LEMMA BeginSticker ==
  ASSUME StickerInd, NEW r \in Request, NEW u \in Owner \cup Admin, NEW s \in Input, Sticking!upload(r, u, s)
  PROVE  StickerInd'
<1>0. Sticking!TypeOK /\ upload \in [Request -> Input \cup {None}] /\ UploadOK(r) /\ LockInv BY DEF StickerInd
<1> DEFINE to == IF u \in Admin THEN "count" ELSE "gate"
<1>1. /\ phase[r] = "idle" /\ phase' = [phase EXCEPT ![r] = to]
      /\ uploader' = [uploader EXCEPT ![r] = u] /\ upload' = [upload EXCEPT ![r] = s]
      /\ UNCHANGED <<stickers, held>>
      /\ tangled' = IF u \in Admin /\ Sticking!Uploading(u) # {} THEN tangled \cup {u} ELSE tangled
  BY DEF Sticking!upload, Sticking!Goto
<1>2. /\ phase'[r] = to /\ uploader'[r] = u /\ upload'[r] = s /\ held'[r] = None
      /\ \A q \in Request : q # r =>
           /\ phase'[q] = phase[q] /\ uploader'[q] = uploader[q] /\ upload'[q] = upload[q] /\ held'[q] = held[q]
  BY <1>0, <1>1 DEF Sticking!TypeOK, UploadOK
<1>3. tangled \subseteq tangled' /\ tangled' \subseteq tangled \cup Admin BY <1>1
<1>4. Running' = Running \cup {r} /\ r \notin Running BY <1>1, <1>2 DEF Running
<1>5. (Len(stickers) + Cardinality(Running) <= MaxStickers)'
  <2>1. Len(stickers) + Cardinality(Running) < MaxStickers
    BY QuotaDef DEF Sticking!upload, Running
  <2>2. Cardinality(Running \cup {r}) = Cardinality(Running) + 1 /\ Cardinality(Running) \in Nat BY <1>4, RunningFinite
  <2>3. Len(stickers) \in Nat BY <1>0 DEF Sticking!TypeOK
  <2>4. QED BY <1>1, <1>4, <2>1, <2>2, <2>3, StickerAssumption
<1>6. Sticking!TypeOK'
  <2>1. phase' \in [Request -> {"idle", "gate", "count", "bytes", "insert"}] BY <1>0, <1>1 DEF Sticking!TypeOK
  <2>2. uploader' \in [Request -> Owner \cup Admin \cup {None}]
    BY <1>0, <1>1 DEF Sticking!TypeOK, Sticking!Uploader
  <2>3. tangled' \subseteq Admin BY <1>0, <1>3 DEF Sticking!TypeOK
  <2>4. QED BY <1>0, <1>1, <2>1, <2>2, <2>3 DEF Sticking!TypeOK, Sticking!Uploader
<1>7. upload' \in [Request -> Input \cup {None}] BY <1>0, <1>1
<1>8. UploadOK(r)' BY <1>2 DEF UploadOK
<1>9. CountOK(r)' BY <1>2 DEF CountOK
<1>10. LockInv'
  <2>1. ASSUME NEW q \in Request, q # r, phase[q] # "idle", uploader[q] = u, u \in Admin PROVE u \in tangled'
    <3>1. q \in Sticking!Uploading(u) BY <2>1 DEF Sticking!Uploading
    <3>2. QED BY <1>1, <2>1, <3>1
  <2>2. QED BY <1>0, <1>2, <1>3, <2>1 DEF LockInv
<1>11. Quota' BY <1>1, <1>3, SameRows DEF StickerInd, Quota
<1>12. QED BY <1>1, <1>2, <1>3, <1>5, <1>6, <1>7, <1>8, <1>9, <1>10, <1>11, SameRows, UploadStep

LEMMA GateSticker ==
  ASSUME StickerInd, NEW r \in Request, Sticking!run_attachment_action_with_guild(r) PROVE StickerInd'
<1>0. Sticking!TypeOK /\ UploadOK(r) BY DEF StickerInd
<1>1. /\ phase[r] = "gate" /\ \A q \in Request : held[q] # uploader[r]
      /\ UNCHANGED <<stickers, tangled>>
  BY DEF Sticking!run_attachment_action_with_guild
<1>2. CASE Sticking!Goto(r, "count") /\ held' = [held EXCEPT ![r] = uploader[r]] /\ UNCHANGED <<uploader, upload>>
  <2>1. phase' = [phase EXCEPT ![r] = "count"] BY <1>2 DEF Sticking!Goto
  <2>2. uploader[r] \in Owner BY <1>0, <1>1 DEF UploadOK
  <2>3. CountOK(r)' BY <1>0, <1>2, <2>1 DEF CountOK, Sticking!TypeOK
  <2>4. QED BY <1>1, <1>2, <2>1, <2>2, <2>3, GoOnSticker
<1>3. CASE Sticking!Finish(r) BY <1>1, <1>3, GiveUpSticker
<1>4. QED BY <1>2, <1>3 DEF Sticking!run_attachment_action_with_guild

LEMMA SameLock ==
  ASSUME StickerInd, NEW r \in Request, phase[r] \in {"count", "bytes", "insert"}
  PROVE  /\ held[r] \in Owner \cup {None} /\ held = [held EXCEPT ![r] = held[r]]
         /\ held[r] # None => held[r] = uploader[r] /\ \A q \in Request : q # r => held[q] # held[r]
         /\ uploader[r] \notin Admin => held[r] = uploader[r]
BY DEF StickerInd, Sticking!TypeOK, UploadOK, LockInv

LEMMA CountSticker ==
  ASSUME StickerInd, NEW r \in Request, Sticking!CountStickers(r) PROVE StickerInd'
<1>0. Sticking!TypeOK BY DEF StickerInd
<1>1. phase[r] = "count" /\ UNCHANGED <<stickers, tangled>> BY DEF Sticking!CountStickers
<1>2. CASE CountOf(uploader[r]) < MaxCount /\ Sticking!Goto(r, "bytes") /\ UNCHANGED <<uploader, upload, held>>
  <2>1. phase' = [phase EXCEPT ![r] = "bytes"] BY <1>2 DEF Sticking!Goto
  <2>2. CountOK(r)'
    <3>1. phase'[r] = "bytes" BY <1>0, <2>1 DEF Sticking!TypeOK
    <3>2. CountOf(uploader[r])' = CountOf(uploader[r]) BY <1>1, <1>2, SameRows DEF CountOf, Uploaded, Sticking!Of
    <3>3. QED BY <1>2, <3>1, <3>2 DEF CountOK
  <2>3. QED BY <1>1, <1>2, <2>1, <2>2, SameLock, GoOnSticker
<1>3. CASE Sticking!Finish(r) BY <1>1, <1>3, GiveUpSticker
<1>4. QED BY <1>2, <1>3, QuotaDef DEF Sticking!CountStickers, CountOf, Uploaded

LEMMA BytesSticker ==
  ASSUME StickerInd, NEW r \in Request, Sticking!SumBytes(r) PROVE StickerInd'
<1>0. Sticking!TypeOK /\ CountOK(r) BY DEF StickerInd
<1>1. phase[r] = "bytes" /\ UNCHANGED <<stickers, tangled>> BY DEF Sticking!SumBytes
<1>2. CASE /\ BytesOf(uploader[r]) + upload[r].size <= MaxBytes /\ Sticking!Goto(r, "insert")
           /\ UNCHANGED <<uploader, upload, held>>
  <2>1. phase' = [phase EXCEPT ![r] = "insert"] BY <1>2 DEF Sticking!Goto
  <2>2. CountOK(r)'
    <3>1. phase'[r] = "insert" BY <1>0, <2>1 DEF Sticking!TypeOK
    <3>2. CountOf(uploader[r])' = CountOf(uploader[r]) /\ BytesOf(uploader[r])' = BytesOf(uploader[r])
      BY <1>1, <1>2 DEF CountOf, BytesOf, Sizes, Uploaded, Sticking!Of
    <3>3. QED BY <1>0, <1>1, <1>2, <3>1, <3>2 DEF CountOK
  <2>3. QED BY <1>1, <1>2, <2>1, <2>2, SameLock, GoOnSticker
<1>3. CASE Sticking!Finish(r) BY <1>1, <1>3, GiveUpSticker
<1>4. QED BY <1>2, <1>3, QuotaDef DEF Sticking!SumBytes

(* The INSERT.  No other request has counted the stickers of the uploader: *)
(* a user's would hold the lock, an administrator's would have overlapped. *)
LEMMA InsertSticker ==
  ASSUME StickerInd, NEW r \in Request, Sticking!InsertSticker(r) PROVE StickerInd'
<1>0. /\ Sticking!TypeOK /\ upload \in [Request -> Input \cup {None}] /\ UploadOK(r) /\ CountOK(r) /\ LockInv /\ Quota
  BY DEF StickerInd
<1> DEFINE n == Len(stickers)
           u == uploader[r]
           new == [owner |-> u, size |-> upload[r].size, group |-> upload[r].group, tab |-> upload[r].tab,
                   status |-> IF u \in Admin THEN "active" ELSE "pending"]
<1>1. phase[r] = "insert" /\ stickers' = Append(stickers, new) /\ Sticking!Finish(r) /\ UNCHANGED tangled
  BY DEF Sticking!InsertSticker
<1>2. u \in Owner \cup Admin /\ upload[r] \in Input BY <1>0, <1>1 DEF UploadOK
<1>3. new \in Sticking!Row BY <1>2 DEF Sticking!Row, Sticking!Uploader, Input
<1>4. new.owner = u /\ new.size = upload[r].size /\ new.size \in Nat BY <1>2, StickerAssumption DEF Input
<1> HIDE DEF new, u
<1>5. /\ n \in Nat /\ DOMAIN stickers = 1..n /\ \A i \in 1..n : stickers[i] \in Sticking!Row
  BY <1>0 DEF Sticking!TypeOK
<1>6. /\ stickers' \in Seq(Sticking!Row) /\ Len(stickers') = n + 1 /\ DOMAIN stickers' = 1..(n + 1)
      /\ stickers'[n + 1] = new /\ \A i \in 1..n : stickers'[i] = stickers[i]
  BY <1>0, <1>1, <1>3 DEF Sticking!TypeOK
<1> HIDE DEF n
<1>7. \A i : i \in 1..(n + 1) <=> i \in 1..n \/ i = n + 1 BY <1>5
<1>8. n + 1 \notin 1..n BY <1>5
<1>9. \A v : /\ v = u => Uploaded(v)' = Uploaded(v) \cup {n + 1}
             /\ v # u => Uploaded(v)' = Uploaded(v)
  BY <1>4, <1>5, <1>6, <1>7, <1>8 DEF Uploaded, Sticking!Of
<1>10. \A v : IsFiniteSet(Uploaded(v)) /\ Uploaded(v) \subseteq 1..n
  <2>1. IsFiniteSet(1..n) BY <1>5, FS_Interval
  <2>2. \A v : Uploaded(v) \subseteq 1..n BY <1>5 DEF Uploaded, Sticking!Of
  <2>3. QED BY <2>1, <2>2, FS_Subset
<1>11. /\ \A i \in 1..n : Sizes'[i] = Sizes[i] /\ Sizes'[i] \in Nat
       /\ Sizes'[n + 1] = upload[r].size
  <2>1. Sizes' = [i \in 1..(n + 1) |-> stickers'[i].size] /\ Sizes = [i \in 1..n |-> stickers[i].size]
    BY <1>5, <1>6 DEF Sizes
  <2>2. \A i \in 1..n : stickers[i].size \in Nat BY <1>5, StickerAssumption DEF Sticking!Row
  <2>3. n + 1 \in 1..(n + 1) BY <1>5
  <2>4. QED BY <1>4, <1>6, <1>7, <2>1, <2>2, <2>3
<1>12. \A v : SumFunctionOnSet(Sizes', Uploaded(v)) = BytesOf(v)
  <2> SUFFICES ASSUME NEW v PROVE SumFunctionOnSet(Sizes', Uploaded(v)) = SumFunctionOnSet(Sizes, Uploaded(v))
    BY DEF BytesOf
  <2>1. \A i \in Uploaded(v) : Sizes'[i] = Sizes[i] BY <1>10, <1>11
  <2>2. IsFiniteSet(Uploaded(v)) BY <1>10
  <2>3. QED BY <2>1, <2>2, SumSame
<1>13. ASSUME NEW v, v # u
       PROVE  Cardinality(Uploaded(v)') = CountOf(v) /\ SumFunctionOnSet(Sizes', Uploaded(v)') = BytesOf(v)
  BY <1>9, <1>12, <1>13 DEF CountOf
<1>14. /\ Cardinality(Uploaded(u) \cup {n + 1}) = CountOf(u) + 1
       /\ SumFunctionOnSet(Sizes', Uploaded(u) \cup {n + 1}) = upload[r].size + BytesOf(u)
  <2>1. IsFiniteSet(Uploaded(u)) /\ n + 1 \notin Uploaded(u) BY <1>8, <1>10
  <2>2. \A i \in Uploaded(u) \cup {n + 1} : Sizes'[i] \in Nat BY <1>4, <1>10, <1>11
  <2>3. SumFunctionOnSet(Sizes', Uploaded(u) \cup {n + 1}) = Sizes'[n + 1] + SumFunctionOnSet(Sizes', Uploaded(u))
    BY <2>1, <2>2, SumAdd
  <2>4. QED BY <1>11, <1>12, <2>1, <2>3, FS_AddElement DEF CountOf
<1>15. /\ \A v : v # u => CountOf(v)' = CountOf(v) /\ BytesOf(v)' = BytesOf(v)
       /\ \A v : v = u => CountOf(v)' = CountOf(v) + 1 /\ BytesOf(v)' = BytesOf(v) + upload[r].size
  <2>1. CountOf(u) \in Nat /\ BytesOf(u) \in Nat /\ upload[r].size \in Nat
    <3>1. \A i \in Uploaded(u) : Sizes'[i] \in Nat BY <1>10, <1>11
    <3>2. SumFunctionOnSet(Sizes', Uploaded(u)) \in Nat BY <1>10, <3>1, SumNat
    <3>3. QED BY <1>4, <1>10, <1>12, <3>2, FS_CardinalityType DEF CountOf
  <2>2. \A v : /\ CountOf(v)' = Cardinality(Uploaded(v)')
               /\ BytesOf(v)' = SumFunctionOnSet(Sizes', Uploaded(v)')
    BY DEF CountOf, BytesOf
  <2>3. ASSUME NEW v, v # u PROVE CountOf(v)' = CountOf(v) /\ BytesOf(v)' = BytesOf(v)
    BY <1>13, <2>2, <2>3
  <2>4. ASSUME NEW v, v = u
        PROVE  CountOf(v)' = CountOf(v) + 1 /\ BytesOf(v)' = BytesOf(v) + upload[r].size
    <3>1. Uploaded(v)' = Uploaded(v) \cup {n + 1} BY <1>9, <2>4
    <3>2. CountOf(v)' = CountOf(v) + 1 BY <1>14, <2>2, <2>4, <3>1
    <3>3. BytesOf(v)' = upload[r].size + BytesOf(v) BY <1>14, <2>2, <2>4, <3>1
    <3>4. QED BY <2>1, <2>4, <3>2, <3>3
  <2>5. QED BY <2>3, <2>4
<1>16. Quota'
  <2> SUFFICES ASSUME NEW v \in (Owner \cup Admin) \ tangled PROVE (CountOf(v) <= MaxCount /\ BytesOf(v) <= MaxBytes)'
    BY <1>1 DEF Quota
  <2>1. CASE v # u BY <1>0, <1>15, <2>1 DEF Quota
  <2>2. CASE v = u
    <3>1. CountOf(v) < MaxCount /\ BytesOf(v) + upload[r].size <= MaxBytes BY <1>0, <1>1, <2>2 DEF CountOK, u
    <3>2. CountOf(v) \in Nat BY <1>10, FS_CardinalityType DEF CountOf
    <3>3. CountOf(v)' = CountOf(v) + 1 /\ BytesOf(v)' = BytesOf(v) + upload[r].size BY <1>15, <2>2
    <3>4. CountOf(v)' <= MaxCount BY <3>1, <3>2, <3>3, StickerAssumption
    <3>5. QED BY <3>1, <3>3, <3>4
  <2>3. QED BY <2>1, <2>2
<1>17. ASSUME NEW q \in Request, q # r, uploader[q] \notin tangled, phase[q] \in {"bytes", "insert"}
       PROVE  uploader'[q] = uploader[q] /\ uploader[q] # u
  <2>1. uploader'[q] = uploader[q] BY <1>0, <1>1, <1>17 DEF Sticking!TypeOK, Sticking!Finish
  <2>2. UploadOK(q) BY DEF StickerInd
  <2>3. ASSUME uploader[q] = u PROVE FALSE
    <3>1. u \notin Admin BY <1>0, <1>1, <1>17, <2>3 DEF LockInv, u
    <3>2. held[r] = u /\ held[q] = u /\ u # None
      BY <1>0, <1>1, <1>2, <1>17, <2>2, <2>3, <3>1, StickerAssumption DEF UploadOK, u
    <3>3. QED BY <1>0, <1>17, <3>2 DEF LockInv
  <2>4. QED BY <2>1, <2>3
<1>18. QED BY <1>1, <1>6, <1>15, <1>16, <1>17, FinishSticker DEF n

(* A review or a new name: owners and sizes stay. *)
LEMMA EditSticker ==
  ASSUME StickerInd, UNCHANGED <<phase, uploader, upload, held, tangled>>,
         stickers' \in Seq(Sticking!Row), DOMAIN stickers' = DOMAIN stickers,
         \A i \in DOMAIN stickers : stickers'[i].owner = stickers[i].owner /\ stickers'[i].size = stickers[i].size
  PROVE  StickerInd'
<1>1. \A u : Uploaded(u)' = Uploaded(u) BY DEF Uploaded, Sticking!Of
<1>2. Sizes' = Sizes BY DEF Sizes
<1>3. \A u : CountOf(u)' = CountOf(u) /\ BytesOf(u)' = BytesOf(u) BY <1>1, <1>2 DEF CountOf, BytesOf
<1>4. Sticking!TypeOK BY DEF StickerInd
<1>5. Len(stickers') = Len(stickers)
  <2>1. Len(stickers) \in Nat /\ DOMAIN stickers = 1..Len(stickers) BY <1>4 DEF Sticking!TypeOK
  <2>2. Len(stickers') \in Nat /\ DOMAIN stickers' = 1..Len(stickers') OBVIOUS
  <2>3. QED BY <2>1, <2>2
<1>6. Sticking!TypeOK' BY <1>4, <1>5 DEF Sticking!TypeOK
<1>7. Quota' BY <1>3 DEF StickerInd, Quota
<1>8. Running' = Running /\ LockInv' BY DEF StickerInd, Running, LockInv
<1>9. \A r \in Request : UploadOK(r)' /\ CountOK(r)' BY <1>3 DEF StickerInd, UploadOK, CountOK
<1>10. QED BY <1>5, <1>6, <1>7, <1>8, <1>9 DEF StickerInd

LEMMA ReviewSticker ==
  ASSUME StickerInd, NEW i, NEW to \in {"active", "rejected"}, Sticking!moderate_sticker(i, to)
  PROVE  StickerInd'
<1>0. stickers \in Seq(Sticking!Row) BY DEF StickerInd, Sticking!TypeOK
<1>1. /\ i \in DOMAIN stickers /\ stickers' = [stickers EXCEPT ![i] = [stickers[i] EXCEPT !.status = to]]
      /\ UNCHANGED <<phase, uploader, upload, held, tangled>>
  BY DEF Sticking!moderate_sticker, Sticking!local
<1> DEFINE row == [stickers[i] EXCEPT !.status = to]
<1>2. stickers[i] \in Sticking!Row BY <1>0, <1>1
<1>3. row \in Sticking!Row /\ row.owner = stickers[i].owner /\ row.size = stickers[i].size BY <1>2 DEF Sticking!Row
<1> HIDE DEF row
<1>4. stickers' = [stickers EXCEPT ![i] = row] BY <1>1 DEF row
<1>5. stickers' \in Seq(Sticking!Row) /\ DOMAIN stickers' = DOMAIN stickers BY <1>0, <1>1, <1>3, <1>4
<1>6. \A k \in DOMAIN stickers : stickers'[k] = IF k = i THEN row ELSE stickers[k] BY <1>0, <1>1, <1>4
<1>7. QED BY <1>1, <1>3, <1>5, <1>6, EditSticker

LEMMA RenameSticker ==
  ASSUME StickerInd, NEW old \in Group, NEW new \in Group, Sticking!rename_sticker_group(old, new)
  PROVE  StickerInd'
<1>0. stickers \in Seq(Sticking!Row) BY DEF StickerInd, Sticking!TypeOK
<1> DEFINE Renamed(i) == IF stickers[i].group = old THEN [stickers[i] EXCEPT !.group = new] ELSE stickers[i]
<1>1. stickers' = [i \in DOMAIN stickers |-> Renamed(i)] /\ UNCHANGED <<phase, uploader, upload, held, tangled>>
  BY DEF Sticking!rename_sticker_group, Sticking!local
<1>2. \A i \in DOMAIN stickers : stickers[i] \in Sticking!Row BY <1>0
<1>3. \A i \in DOMAIN stickers :
        /\ Renamed(i) \in Sticking!Row
        /\ Renamed(i).owner = stickers[i].owner /\ Renamed(i).size = stickers[i].size
  BY <1>2 DEF Sticking!Row
<1> HIDE DEF Renamed
<1>4. stickers' \in Seq(Sticking!Row)
  <2>1. Len(stickers) \in Nat /\ DOMAIN stickers = 1..Len(stickers) BY <1>0
  <2>2. stickers' \in [1..Len(stickers) -> Sticking!Row] BY <1>1, <1>3, <2>1
  <2>3. QED BY <2>1, <2>2
<1>5. QED BY <1>1, <1>3, <1>4, EditSticker

LEMMA StickerNext == StickerInd /\ [Sticking!Next]_(Sticking!vars) => StickerInd'
<1> SUFFICES ASSUME StickerInd, [Sticking!Next]_(Sticking!vars) PROVE StickerInd' OBVIOUS
<1>1. ASSUME NEW r \in Request, NEW u \in Sticking!Uploader, NEW s \in [size : Size, group : Group, tab : BOOLEAN],
             Sticking!upload(r, u, s)
      PROVE  StickerInd'
  BY <1>1, BeginSticker DEF Sticking!Uploader, Input
<1>2. ASSUME NEW r \in Request, Sticking!run_attachment_action_with_guild(r) PROVE StickerInd' BY <1>2, GateSticker
<1>3. ASSUME NEW r \in Request, Sticking!CountStickers(r) PROVE StickerInd' BY <1>3, CountSticker
<1>4. ASSUME NEW r \in Request, Sticking!SumBytes(r) PROVE StickerInd' BY <1>4, BytesSticker
<1>5. ASSUME NEW r \in Request, Sticking!InsertSticker(r) PROVE StickerInd' BY <1>5, InsertSticker
<1>6. ASSUME NEW r \in Request, Sticking!Fail(r) PROVE StickerInd'
  BY <1>6, GiveUpSticker DEF Sticking!Fail
<1>7. ASSUME NEW i \in 1..MaxStickers, NEW to \in {"active", "rejected"}, Sticking!moderate_sticker(i, to)
      PROVE  StickerInd'
  BY <1>7, ReviewSticker
<1>8. ASSUME NEW old \in Group, NEW new \in Group, Sticking!rename_sticker_group(old, new) PROVE StickerInd'
  BY <1>8, RenameSticker
<1>9. ASSUME UNCHANGED Sticking!vars PROVE StickerInd'
  <2>1. UNCHANGED <<stickers, phase, uploader, upload, held, tangled>> BY <1>9 DEF Sticking!vars, Sticking!local
  <2>2. stickers \in Seq(Sticking!Row) BY DEF StickerInd, Sticking!TypeOK
  <2>3. QED BY <2>1, <2>2, EditSticker
<1>10. QED BY <1>1, <1>2, <1>3, <1>4, <1>5, <1>6, <1>7, <1>8, <1>9 DEF Sticking!Next

(* upload_sticker_conn and list_sticker_groups, whatever requests overlap: *)
(* a user's stickers stay within MAX_STICKERS_PER_USER and                 *)
(* MAX_TOTAL_BYTES_PER_USER, an administrator's do while their uploads do  *)
(* not overlap, and the public list has every group with an active tab     *)
(* sticker, its newest one and the number of its other active stickers.    *)
THEOREM StickersServe == Sticking!Spec => []Sticking!StickerInv
BY StickerInit, StickerNext, StickersHold, PTL DEF Sticking!Spec

(* The same of the runs. *)
THEOREM StickersRun == MCSpec => []StickerInv
<1> DEFINE Ind == part \in {"moderation", "score", "policy", "stickers"} /\ (part = "stickers" => StickerInd)
<1>1. MCInit => Ind BY StickerInit DEF MCInit
<1>2. Ind /\ [MCNext]_mcVars => Ind'
  <2> SUFFICES ASSUME Ind, [MCNext]_mcVars PROVE Ind' OBVIOUS
  <2>1. UNCHANGED part BY DEF MCNext, mcVars
  <2>2. CASE part = "stickers"
    <3>1. [Sticking!Next]_(Sticking!vars)
      <4>1. CASE MCNext BY <2>2, <4>1 DEF MCNext
      <4>2. CASE UNCHANGED mcVars BY <4>2 DEF mcVars, stickerVars, Sticking!vars, Sticking!local
      <4>3. QED BY <4>1, <4>2
    <3>2. QED BY <2>1, <2>2, <3>1, StickerNext
  <2>3. CASE part # "stickers" BY <2>1, <2>3
  <2>4. QED BY <2>2, <2>3
<1>3. Ind => StickerInv BY StickersHold DEF StickerInv
<1>4. QED BY <1>1, <1>2, <1>3, PTL DEF MCSpec
=============================================================================
