---------------------------- MODULE MCBatchImage ----------------------------
(* BatchImage on small instances. *)
EXTENDS BatchImage, TLC

Symmetry == Permutations(Workers)
=============================================================================
