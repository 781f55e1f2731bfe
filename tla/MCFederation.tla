---------------------------- MODULE MCFederation ----------------------------
(* TLC instance of Federation. *)
EXTENDS Federation, TLC

CONSTANTS note, follow   \* a Create of a Note, and an activity without one

Symmetry == Permutations(Delivery) \cup Permutations(Worker) \cup Permutations(Destination)
=============================================================================
