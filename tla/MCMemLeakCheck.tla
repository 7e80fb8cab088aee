--------------------------- MODULE MCMemLeakCheck ---------------------------
(* Small instances of MemLeakCheck for TLC.                                *)
EXTENDS MemLeakCheck, TLC

Addresses == Permutations(Buffer)

\* What follows a stray write into the links of an entry is not explored.
Explored == ~cut
=============================================================================
