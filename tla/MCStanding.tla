----------------------------- MODULE MCStanding -----------------------------
(***************************************************************************)
(* TLC instance of what a user's standing rests on and what it admits:     *)
(* reports and their review (Moderation), the contribution score           *)
(* (GuildScore), the policy of levels and limits (GuildPolicy) and the     *)
(* uploads of stickers within their quotas (Stickers).  They share no      *)
(* state that is modelled; TLC looks at the behaviours of one, chosen at   *)
(* the start as `part', while the others do not begin.                     *)
(***************************************************************************)
EXTENDS GuildScore, TLC

CONSTANTS
  Suspect, Reviewer, Daily, MaxReport, MaxTime, DayLen, ReviewHour, DueAfter,
  RestrictFor, Repeat, MaxRestart,              \* of Moderation
  Entry, MaxRows, MaxDays, Percent, Int32,      \* of GuildPolicy
  Owner, Admin, Group, Size, MaxCount, MaxBytes, MaxStickers    \* of Stickers

VARIABLES
  part,
  now, filed, of, risky, made, status, action, cleared, active, until, warned, place,
  plan, draft, stamp, until1, warned1, suspends, resolves, lastRun, runDay, restarts,
  doubled, entangled, warnings, reinstated,
  stored, days, level, news,
  stickers, phase, uploader, upload, held, tangled

modVars == <<now, filed, of, risky, made, status, action, cleared, active, until, warned, place,
    plan, draft, stamp, until1, warned1, suspends, resolves, lastRun, runDay, restarts,
    doubled, entangled, warnings, reinstated>>
policyVars == <<stored, days, level, news>>
stickerVars == <<stickers, phase, uploader, upload, held, tangled>>

\* The rows of a level table that an administrator may enter.
MCEntry ==
  [level : 1..2, min : 0..3, max : {None} \cup (0..3), limit : {10}]
    \cup [level : {0}, min : {-1, 0}, max : {None}, limit : {None, -1}]

Moderating == INSTANCE Moderation WITH
  User <- Suspect, Request <- Reviewer, pc <- place, copy <- draft
Policy == INSTANCE GuildPolicy
Sticking == INSTANCE Stickers WITH
  User <- Owner, MaxRows <- MaxStickers, rows <- stickers, pc <- phase, who <- uploader,
  input <- upload, lock <- held, crossed <- tangled

ASSUME ReviewAssumption ==
  /\ Daily \in Reviewer /\ None \notin Nat /\ None \notin Moderating!Actions
  /\ MaxReport \in Nat /\ MaxTime \in Nat /\ RestrictFor \in Nat

\* A user is active on a day at most once a day: 100 times the days fit in an i32.
ASSUME PolicyAssumption ==
  /\ None \notin Int /\ MaxDays \in Nat /\ Percent \subseteq Nat
  /\ Int32 \in Nat /\ MaxDays * 100 < Int32
  /\ \A e \in Entry :
       /\ e.level \in Int /\ e.min \in Int
       /\ e.max \in Int \cup {None} /\ e.limit \in Int \cup {None}

ASSUME StickerAssumption ==
  /\ Size \subseteq Nat /\ MaxCount \in Nat /\ MaxBytes \in Nat /\ MaxStickers \in Nat
  /\ None \notin Owner \cup Admin

\* A part that does not begin has nothing in its variables.
NoModeration ==
  /\ now = None /\ filed = None /\ of = None /\ risky = None /\ made = None
  /\ status = None /\ action = None /\ cleared = None /\ active = None
  /\ until = None /\ warned = None /\ place = None /\ plan = None /\ draft = None
  /\ stamp = None /\ until1 = None /\ warned1 = None /\ suspends = None
  /\ resolves = None /\ lastRun = None /\ runDay = None /\ restarts = None
  /\ doubled = None /\ entangled = None /\ warnings = None /\ reinstated = None

NoPolicy ==
  /\ stored = None /\ days = None /\ level = None /\ news = None

NoStickers ==
  /\ stickers = None /\ phase = None /\ uploader = None /\ upload = None /\ held = None
  /\ tangled = None

\* Only users whose rank their votes depend on begin with that of an older policy.
MCInit ==
  /\ part \in {"moderation", "score", "policy", "stickers"}
  /\ Init /\ outdated \subseteq (IF part = "score" THEN User \ Trusted ELSE {})
  /\ IF part = "moderation" THEN Moderating!Init ELSE NoModeration
  /\ IF part = "policy" THEN Policy!Init ELSE NoPolicy
  /\ IF part = "stickers" THEN Sticking!Init ELSE NoStickers

MCNext ==
  /\ UNCHANGED part
  /\ \/ part = "score" /\ Next /\ UNCHANGED <<modVars, policyVars, stickerVars>>
     \/ part = "moderation" /\ Moderating!Next /\ UNCHANGED <<vars, policyVars, stickerVars>>
     \/ part = "policy" /\ Policy!Next /\ UNCHANGED <<vars, modVars, stickerVars>>
     \/ part = "stickers" /\ Sticking!Next /\ UNCHANGED <<vars, modVars, policyVars>>

mcVars == <<part, vars, modVars, policyVars, stickerVars>>
MCSpec == MCInit /\ [][MCNext]_mcVars

Symmetry == Permutations(Request) \cup Permutations(Group)

(* Of Moderation: what a report says was done holds, and                   *)
(* safety_warning_count counts the restrictions unless reviews overlapped. *)
ReviewInv == part = "moderation" => Moderating!ReviewInv

(* Of GuildPolicy: whatever table was saved, every number of days has one  *)
(* row, a progress in range and a limit that no rank lowers.               *)
PolicyInv == part = "policy" => Policy!PolicyInv

(* Of Stickers: the uploads of a user stay within the quota, and a group   *)
(* is listed with all of its stickers.                                     *)
StickerInv == part = "stickers" => Sticking!StickerInv

(* Of Moderation and GuildPolicy: no review is overwritten and no          *)
(* restriction shortened but by overlapping reviews, and an active day     *)
(* costs nobody a level.                                                   *)
StandingIsKept ==
  [][/\ part = "moderation" => Moderating!ReviewStays /\ Moderating!RestrictionStays
     /\ part = "policy" => Policy!LevelStays]_<<modVars, policyVars>>
=============================================================================
