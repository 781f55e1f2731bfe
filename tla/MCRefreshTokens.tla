-------------------------- MODULE MCRefreshTokens --------------------------
(* Small instances of RefreshTokens.  Requests, tokens, families and users  *)
(* are interchangeable, so each set is a symmetry set.                      *)
EXTENDS RefreshTokens, TLC

Symmetry ==
  Permutations(Request) \cup Permutations(Token) \cup Permutations(Family)
    \cup Permutations(User)
=============================================================================
