----------------------------- MODULE MCBarrier -----------------------------
(* Instances of Barrier with three cores, for TLC.                         *)
EXTENDS Barrier

CONSTANTS A, B, C

\* Two barriers on each core, at different places, the second next to the
\* first on core B.
MCBarriers == [c \in Cores |-> CASE c = A -> {2, 4} [] c = B -> {3, 4} [] c = C -> {1, 3}]

\* A decoupled store after the last barrier.
MCEarly == [c \in Cores |-> IF c = A THEN {5} ELSE {}]
=============================================================================
