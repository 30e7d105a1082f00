------------------------------ MODULE LruSets ------------------------------
(***************************************************************************)
(* What the sets of write-back caches promise: each holds the last lines   *)
(* of it that were used, and whether they were written to since they came, *)
(* and a step changes one set.                                             *)
(***************************************************************************)
EXTENDS Integers, Sequences, SequencesExt

CONSTANTS Lines, SetIds, Ways   \* Ways[s]: the number of lines set s holds
VARIABLE contents             \* of each set: [line, dirty], most recently used first

\* Of the contents q of a set: the lines, where one of them is, and the
\* contents after it is used or taken out and after a new one comes.
Held(q) == {q[i].line : i \in DOMAIN q}
Place(q, l) == CHOOSE i \in DOMAIN q : q[i].line = l
Without(q, l) == RemoveAt(q, Place(q, l))
Used(q, l, write) == <<[line |-> l, dirty |-> q[Place(q, l)].dirty \/ write]>> \o Without(q, l)
Newest(q, n) == IF Len(q) <= n THEN q ELSE SubSeq(q, 1, n)
With(q, l, write, n) == <<[line |-> l, dirty |-> write]>> \o Newest(q, n - 1)

Init == contents = [s \in SetIds |-> <<>>]

Becomes(s, content) == contents' = [contents EXCEPT ![s] = content]

Touch(s, l, write) == l \in Held(contents[s]) /\ Becomes(s, Used(contents[s], l, write))
Fill(s, l, write) == l \notin Held(contents[s]) /\ Becomes(s, With(contents[s], l, write, Ways[s]))
Discard(s, l) == l \in Held(contents[s]) /\ Becomes(s, Without(contents[s], l))

Next ==
  \E s \in SetIds, l \in Lines :
     Discard(s, l) \/ \E write \in BOOLEAN : Touch(s, l, write) \/ Fill(s, l, write)

Spec == Init /\ [][Next]_contents
=============================================================================
