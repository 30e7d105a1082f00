-------------------------- MODULE MCDecoupledQueue --------------------------
(* Programs and sizes for checking DecoupledQueue.                         *)
EXTENDS DecoupledQueue

CONSTANTS a1, a2

\* Three producers of the given kinds, the first after as many stores, the
\* others after all three; the last two may wait for the value of the second.
Program(kinds, before, second) ==
  [kind |-> [p \in Prods |-> kinds[p + 1]],
   ldAddr |-> [p \in Prods |-> IF p = 0 THEN a1 ELSE a2],
   stAddr |-> [s \in Stores |-> IF s = 1 THEN second ELSE a1],
   olderStores |-> [p \in Prods |-> IF p = 0 THEN before ELSE NumStores]]

\* Producers that issue in any order, next to each other or around a store, so
\* that the younger ones may take the commQ; values forwarded to one load, to
\* two, or to none.
MixedPrograms ==
  {Program(<<"SEND", "TRM_ATOMIC", "LD_PROD">>, 2, a2),
   Program(<<"TRM_ATOMIC", "LD_PROD", "LD_PROD">>, 3, a1),
   Program(<<"SEND", "LD_PROD", "LD_PROD">>, 1, a2),
   Program(<<"TRM_ATOMIC", "TRM_ATOMIC", "LD_PROD">>, 1, a1)}
=============================================================================
