----------------------------- MODULE CacheSet ------------------------------
(***************************************************************************)
(* A set of the functional cache (memsys/FunctionalCache.cpp): the entries *)
(* (CacheLine) of the set, those in use linked most recently used first,   *)
(* the others on a stack, and addr_map from lines to entries.              *)
(***************************************************************************)
EXTENDS Integers, Sequences, FiniteSets, SequencesExt

Absent == -1   \* a line without a key in addr_map
Null == 0      \* a key without an entry: operator[] inserts it

NewSet(ways, lines) ==
  [list |-> <<>>, free |-> [e \in 1..ways |-> e], map |-> [l \in lines |-> Absent],
   addr |-> [e \in 1..ways |-> Absent], dirty |-> [e \in 1..ways |-> FALSE]]

Hit(s, l) == s.map[l] \notin {Absent, Null}

\* deleteNode.
Unlinked(list, e) == RemoveAt(list, CHOOSE i \in DOMAIN list : list[i] = e)

\* access.  A miss leaves a null key behind.
\* Mutant: an entry that hits keeps its place.
AccessedMutant(s, l, isLoad) ==
  IF Hit(s, l) THEN [s EXCEPT !.dirty[s.map[l]] = @ \/ ~isLoad] ELSE [s EXCEPT !.map[l] = Null]

Accessed(s, l, isLoad) ==
  IF Hit(s, l) THEN [s EXCEPT !.list = <<s.map[l]>> \o Unlinked(@, s.map[l]),
                              !.dirty[s.map[l]] = @ \/ ~isLoad]
  ELSE [s EXCEPT !.map[l] = Null]

\* insert: takes a free entry, or the least recently used one.  It does not
\* look whether the line has an entry.
Full(s) == s.free = <<>>
Victim(s) == Last(s.list)
LosesDirty(s) == Full(s) /\ s.dirty[Victim(s)]

\* Mutant: the key of the victim stays.
WithoutVictimMutant(s) == s.map
WithoutVictim(s) == IF Full(s) THEN [s.map EXCEPT ![s.addr[Victim(s)]] = Absent] ELSE s.map

Inserted(s, l, isLoad) ==
  LET e == IF Full(s) THEN Victim(s) ELSE Last(s.free)
  IN  [list |-> <<e>> \o IF Full(s) THEN Front(s.list) ELSE s.list,
       free |-> IF Full(s) THEN <<>> ELSE Front(s.free),
       map |-> [WithoutVictim(s) EXCEPT ![l] = e],
       addr |-> [s.addr EXCEPT ![e] = l],
       dirty |-> [s.dirty EXCEPT ![e] = ~isLoad]]

\* evict; a null key stays.
Evicted(s, l) ==
  IF Hit(s, l) THEN [s EXCEPT !.list = Unlinked(@, s.map[l]), !.free = Append(@, s.map[l]),
                              !.map[l] = Absent]
  ELSE s

\* The lines of a set and whether they are dirty, most recently used first.
Contents(s) == [i \in DOMAIN s.list |-> [line |-> s.addr[s.list[i]], dirty |-> s.dirty[s.list[i]]]]

----------------------------------------------------------------------------

\* Every entry is either free or in use, once, and a line's pointer is to an
\* entry in use for that line: none is left to an entry used again.
PointersSound(s) ==
  /\ IsInjective(s.list \o s.free) /\ ToSet(s.list \o s.free) = DOMAIN s.addr
  /\ \A l \in DOMAIN s.map : Hit(s, l) => s.map[l] \in ToSet(s.list) /\ s.addr[s.map[l]] = l

\* Every entry in use can be found by its line.
NoGhost(s) == \A e \in ToSet(s.list) : s.map[s.addr[e]] = e
=============================================================================
