-------------------------- MODULE MCStrongPointer --------------------------
(* Small instances of StrongPointer for TLC.                               *)
EXTENDS StrongPointer, TLC

Addresses == Permutations(Object) \cup Permutations(Global)
=============================================================================
