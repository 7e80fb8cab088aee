---------------------------- MODULE MCVariableStore ----------------------------
(* Instances of VariableStore for TLC: y takes twice the space of x. *)
EXTENDS VariableStore

CONSTANTS a, b, x, y

SizeOf == [v \in {x, y} |-> IF v = y THEN 2 ELSE 1]
NameSymmetry == Permutations({a, b})

\* With a write pending the run stays before ExitBootServices, as nothing is reclaimed
\* at runtime, and follows stores of up to three entries.
Explored == pending = None \/ (~runtime /\ Len(flash) <= 3)
===============================================================================
