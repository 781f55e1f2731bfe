----------------------------- MODULE OneTimeUse -----------------------------
(***************************************************************************)
(* What a one-time credential promises: it is issued, used at most once,   *)
(* and spent for good; nothing makes a new one of it.  Circumstances that  *)
(* the implementation names may excuse a credential, which can then be     *)
(* used again as long as it is not spent.                                  *)
(***************************************************************************)
EXTENDS Naturals

CONSTANT Credential

VARIABLE life \* of each credential: its stage, its uses, and whether it is excused

\* Uses are 0, 1, or Several.
Several == 2
Life == [stage : {"new", "live", "spent"}, uses : 0..Several, excused : BOOLEAN]
Unissued == [stage |-> "new", uses |-> 0, excused |-> FALSE]

Init == life = [c \in Credential |-> Unissued]

Issue(old, new) == old.stage = "new" /\ new.stage = "live" /\ new.uses = old.uses

(* The use may spend the credential as well. *)
Use(old, new) ==
  /\ old.stage = "live" /\ new.stage \in {"live", "spent"}
  /\ IF old.uses = 0 THEN new.uses = 1 ELSE new.excused /\ new.uses = Several

Spend(old, new) == old.stage = "live" /\ new.stage = "spent" /\ new.uses = old.uses

Rest(old, new) == new.stage = old.stage /\ new.uses = old.uses

(* An excuse is not taken back. *)
Step(old, new) ==
  /\ Issue(old, new) \/ Use(old, new) \/ Spend(old, new) \/ Rest(old, new)
  /\ old.excused => new.excused

(* An event may concern several of the credentials, as a crash does. *)
Next ==
  /\ life' \in [Credential -> Life]
  /\ \A c \in Credential : Step(life[c], life'[c])

Spec == Init /\ [][Next]_life
=============================================================================
