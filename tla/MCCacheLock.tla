---------------------------- MODULE MCCacheLock ----------------------------
(* Instances of CacheLock with two cores, for TLC.                         *)
EXTENDS CacheLock

CONSTANTS A, B, a1, a2, b1, l1

\* The first core has two atomics on the line, the second core the others.
MCCoreOf == [n \in Nodes |-> IF n \in {a1, a2} THEN A ELSE B]
=============================================================================
