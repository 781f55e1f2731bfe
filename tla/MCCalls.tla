------------------------------ MODULE MCCalls ------------------------------
(***************************************************************************)
(* TLC instance of Calls: a caller with one device, a callee with two, two *)
(* calls and one fault.  Focus keeps to one call where there is a fault or *)
(* where the callee uses its second device; two calls are one either way,  *)
(* so that a session may offer or answer one while it is in the other.     *)
(***************************************************************************)
EXTENDS Calls, FiniteSets, TLC

CONSTANTS alice, bob, a1, b1, b2, c1, c2

MCUserOf == (a1 :> alice) @@ (b1 :> bob) @@ (b2 :> bob)
PairUserOf == (a1 :> alice) @@ (b1 :> bob)

OneDevice == \E b \in {b1, b2} : pc[b] = "off" /\ told[b] = {}

Begun == {c \in Call : status[c] # "none"}
FromAlice == {c \in Begun : caller[c] = alice}

Focus ==
  IF Cardinality(Begun) <= 1 THEN faults = 0 \/ FromAlice = Begun
  ELSE faults = 0 /\ OneDevice /\ Cardinality(FromAlice) = 1

Symmetry == Permutations({b1, b2}) \cup Permutations(Call)
=============================================================================
