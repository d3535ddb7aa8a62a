------------------------- MODULE MCConcurrencySlots -------------------------
(* ConcurrencySlots on small instances. *)
EXTENDS ConcurrencySlots, TLC

ReqSymmetry == Permutations(Reqs)
ProcSymmetry == Permutations(Procs)
Symmetry == ReqSymmetry \cup ProcSymmetry

=============================================================================
