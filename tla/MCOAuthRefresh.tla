--------------------------- MODULE MCOAuthRefresh ---------------------------
(* OAuthRefresh on a small instance. *)
EXTENDS OAuthRefresh, TLC

Symmetry == Permutations(Procs)
=============================================================================
