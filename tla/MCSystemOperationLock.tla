----------------------- MODULE MCSystemOperationLock -----------------------
(* SystemOperationLock on small instances. *)
EXTENDS SystemOperationLock, TLC

Symmetry == Permutations(Ops)
=============================================================================
