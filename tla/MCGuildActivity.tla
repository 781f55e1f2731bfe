-------------------------- MODULE MCGuildActivity --------------------------
(* Small instances of GuildActivity.  The cap is one action a day until the *)
(* user has an active day, then two; requests are interchangeable.          *)
EXTENDS GuildActivity, TLC

MCLimit == [a \in Action |-> [n \in 0..MaxActiveDays |-> IF n = 0 THEN 1 ELSE 2]]

Symmetry == Permutations(Request)
=============================================================================
