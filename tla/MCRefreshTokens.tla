-------------------------- MODULE MCRefreshTokens --------------------------
(* RefreshTokens on small instances. *)
EXTENDS RefreshTokens, TLC

Symmetry == Permutations(Tokens) \cup Permutations(Families) \cup Permutations(Requests)
=============================================================================
