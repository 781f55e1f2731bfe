-------------------------- MODULE DeliveryContract --------------------------
(***************************************************************************)
(* What federation promises between two planets: an activity is accepted   *)
(* once, becomes at most one message, and only after it was accepted; and  *)
(* what the sender's outbox lists as delivered has been accepted.          *)
(* It does not promise that an accepted activity becomes a message.        *)
(***************************************************************************)
EXTENDS Naturals

CONSTANT Activity

VARIABLES accepted, copies, reported

vars == <<accepted, copies, reported>>

Init == accepted = {} /\ copies = [a \in Activity |-> 0] /\ reported = {}

Accept(a) ==
  /\ a \notin accepted
  /\ accepted' = accepted \cup {a}
  /\ UNCHANGED <<copies, reported>>

Store(a) ==
  /\ a \in accepted /\ copies[a] = 0
  /\ copies' = [copies EXCEPT ![a] = 1]
  /\ UNCHANGED <<accepted, reported>>

Report ==
  /\ reported' \in SUBSET accepted
  /\ UNCHANGED <<accepted, copies>>

Next == (\E a \in Activity : Accept(a) \/ Store(a)) \/ Report

Spec == Init /\ [][Next]_vars
=============================================================================
