------------------------- MODULE MCFaultTolerantWrite -------------------------
(* Instances of FaultTolerantWrite for TLC. *)
EXTENDS FaultTolerantWrite

CONSTANTS a, b, x, y

\* After an initialization that found no memory only the boots are followed, not the
\* calls that come between them.
Explored == starved => op \in {"none", "init"}
===============================================================================
