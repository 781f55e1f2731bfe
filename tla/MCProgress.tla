----------------------------- MODULE MCProgress -----------------------------
(***************************************************************************)
(* TLC instance of what must eventually happen: a guarded request of       *)
(* GuildActivity ends, and a call whose clients fall silent is ended by    *)
(* the sessions of Calls.  The two share no state; a behaviour is one of   *)
(* either, chosen at the start as `part', while the other does not begin,  *)
(* and its actions, which are not enabled then, owe nothing.               *)
(***************************************************************************)
EXTENDS GuildActivity, TLC

CONSTANTS Person, Session, Call, UserOf, MaxFault, alice, bob, a1, b1

VARIABLES
  part,
  status, caller, callee, offer, place, work, active, subscribed, silent, faults, told,
  endedBy, forgotten, missed

callVars == <<status, caller, callee, offer, place, work, active, subscribed, silent, faults,
              told, endedBy, forgotten, missed>>

Calling == INSTANCE Calls WITH User <- Person, pc <- place

MCLimit == [a \in Action |-> [n \in 0..MaxActiveDays |-> IF n = 0 THEN 1 ELSE 2]]
MCUserOf == (a1 :> alice) @@ (b1 :> bob)

ProgressInit == part \in {"guild", "calls"} /\ Init /\ Calling!Init

ProgressNext ==
  /\ UNCHANGED part
  /\ \/ part = "guild" /\ Next /\ UNCHANGED callVars
     \/ part = "calls" /\ Calling!Next /\ UNCHANGED vars

ProgressSpec ==
  /\ ProgressInit /\ [][ProgressNext]_<<part, vars, callVars>>
  /\ Fairness
  /\ \A s \in Session : WF_callVars(Calling!SessionStep(s))

(* Of Calls: a live call whose clients have fallen silent comes to an end. *)
SilentCallEnds == Calling!SilentCallEnds
=============================================================================
