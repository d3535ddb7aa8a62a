---------------------------- MODULE MCAuthCache ----------------------------
(* Instances of AuthCache for TLC. *)
EXTENDS AuthCache, TLC

Symmetry == Permutations(Instances) \cup Permutations(Readers)
=============================================================================
