-------------------------- MODULE MCHandleDatabase --------------------------
(* A handle database for model checking: two drivers, one application. *)
EXTENDS HandleDatabase

MCSymmetry == Permutations(Handle) \cup Permutations(Protocol)
    \cup Permutations(Instance) \cup Permutations(Driver)
=============================================================================
