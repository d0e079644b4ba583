--------------------------- MODULE MCSessionLock ---------------------------
(* Instances of SessionLock for TLC. *)
EXTENDS SessionLock, TLC

Symmetry == Permutations(Outputs) \cup Permutations(Locks)
=============================================================================
