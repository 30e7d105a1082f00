-------------------------- MODULE CacheHierarchy ---------------------------
(***************************************************************************)
(* The caches of several cores: an L1 and an L2 each, and one LLC before   *)
(* the memory (memsys/Cache.cpp, L1Cache.cpp, L2Cache.cpp, LLCache.cpp).   *)
(* A miss of the L1 is one request for its line however many accesses wait *)
(* for it (L1MissPath), it goes up until it hits, and fills the caches on  *)
(* its way down; dirty victims are written to the cache above, and lines   *)
(* are evicted from outside, before an atomic (CacheLock) and for an       *)
(* accelerator (AcceleratorMemory).  The queues between the caches have    *)
(* latencies and ports; here each message is taken at any later time.      *)
(***************************************************************************)
EXTENDS CacheSet

CONSTANTS
  Cores,
  Lines,                     \* the lines the programs access
  L1Sets, L2Sets, LlcSets,   \* set_count of each cache
  L1Ways, L2Ways, LlcWays,
  MaxOperations  \* a bound: accesses of the cores and evictions from outside

ASSUME CacheAssumption ==
  /\ IsFiniteSet(Lines) /\ Lines \subseteq Nat
  /\ {L1Sets, L2Sets, LlcSets} \subseteq Nat \ {0} /\ MaxOperations \in Nat
  /\ {L1Ways, L2Ways, LlcWays} \subseteq Nat \ {0}

VARIABLES
  l1, l2, llc,   \* the sets of each cache
  waiting,       \* accesses that wait for a line (MSHR_entry)
  primary,       \* whether the request for a line is a load
  stage,         \* where that request is
  l1Evict, l2Evict,  \* to_evict: write-backs under way, of each line
  memWrites,         \* writes the LLC has sent to the memory, of each line
  forced,        \* evictions the L1 has passed on to the L2
  operations,
  stored         \* the lines some core has written to

requestVars == <<waiting, primary, stage>>
writebackVars == <<l1Evict, l2Evict, memWrites>>
vars == <<l1, l2, llc, requestVars, writebackVars, forced, operations, stored>>

\* extract takes log2(set_count) bits of a line, rounded down, for its set and
\* the rest for its tag: of a count that is no power of two the last sets are
\* never used.  FunctionalCache::insert puts a line together from its tag and
\* its set with set_count itself.
Sets(sets) == 0..(sets - 1)
IndexedSets(sets) == Max({2 ^ log : log \in 0..sets} \cap 1..sets)
SetOf(sets, l) == l % IndexedSets(sets)
TagOf(sets, l) == l \div IndexedSets(sets)
LineOf(sets, tag, set) == tag * sets + set
Rebuilt(sets, l) == LineOf(sets, TagOf(sets, l), SetOf(sets, l))

\* The lines that are accessed or written back.
Addresses == Lines \cup {Rebuilt(sets, l) : sets \in {L1Sets, L2Sets, LlcSets}, l \in Lines}
LinesOf(sets, k) == {l \in Addresses : SetOf(sets, l) = k}
NewCache(sets, ways) == [k \in Sets(sets) |-> NewSet(ways, LinesOf(sets, k))]
None == [l \in Addresses |-> 0]

Init ==
  /\ l1 = [c \in Cores |-> NewCache(L1Sets, L1Ways)]
  /\ l2 = [c \in Cores |-> NewCache(L2Sets, L2Ways)]
  /\ llc = NewCache(LlcSets, LlcWays)
  /\ waiting = [c \in Cores |-> [l \in Lines |-> 0]]
  /\ primary = [c \in Cores |-> [l \in Lines |-> TRUE]]
  /\ stage = [c \in Cores |-> [l \in Lines |-> "none"]]
  /\ l1Evict = [c \in Cores |-> None] /\ l2Evict = [c \in Cores |-> None] /\ memWrites = None
  /\ forced = [c \in Cores |-> {}]
  /\ operations = 0
  /\ stored = {}

\* Cache::TransactionComplete: a dirty victim is written back, to the line
\* that is put together from its tag.
WriteBack(pending, sets, s, l) ==
  IF ~LosesDirty(s) THEN pending
  ELSE [pending EXCEPT ![LineOf(sets, TagOf(sets, s.addr[Victim(s)]), SetOf(sets, l))] = @ + 1]

L1Of(c, l) == l1[c][SetOf(L1Sets, l)]
L2Of(c, l) == l2[c][SetOf(L2Sets, l)]
LlcOf(l) == llc[SetOf(LlcSets, l)]
PutL1(c, l, s) == l1' = [l1 EXCEPT ![c][SetOf(L1Sets, l)] = s]
PutL2(c, l, s) == l2' = [l2 EXCEPT ![c][SetOf(L2Sets, l)] = s]
PutLlc(l, s) == llc' = [llc EXCEPT ![SetOf(LlcSets, l)] = s]
Moves(c, l, from, to) == stage[c][l] = from /\ stage' = [stage EXCEPT ![c][l] = to]

\* Several requests the memory has answered enter the LLC in one cycle.
LlcFilling == \E c \in Cores, l \in Lines : stage[c][l] = "LLC fill"

----------------------------------------------------------------------------
(* Requests.                                                               *)

Operates == operations < MaxOperations /\ operations' = operations + 1

\* L1Cache::execute and process: a hit is answered, the first miss on a line
\* sends a request, later ones wait with it.
L1Access(c, l, isLoad) ==
  /\ Operates
  /\ stored' = IF isLoad THEN stored ELSE stored \cup {l}
  /\ PutL1(c, l, Accessed(L1Of(c, l), l, isLoad))
  /\ IF Hit(L1Of(c, l), l) THEN UNCHANGED requestVars
     ELSE /\ waiting' = [waiting EXCEPT ![c][l] = @ + 1]
          /\ IF stage[c][l] = "none"
             THEN Moves(c, l, "none", "L2") /\ primary' = [primary EXCEPT ![c][l] = isLoad]
             ELSE UNCHANGED <<stage, primary>>
  /\ UNCHANGED <<l2, llc, writebackVars, forced>>

L2Access(c, l) ==
  /\ Moves(c, l, "L2", IF Hit(L2Of(c, l), l) THEN "L1 fill" ELSE "LLC")
  /\ PutL2(c, l, Accessed(L2Of(c, l), l, primary[c][l]))
  /\ UNCHANGED <<l1, llc, waiting, primary, writebackVars, forced, operations, stored>>

LlcAccess(c, l) ==
  /\ ~LlcFilling
  /\ Moves(c, l, "LLC", IF Hit(LlcOf(l), l) THEN "L2 fill" ELSE "memory")
  /\ PutLlc(l, Accessed(LlcOf(l), l, primary[c][l]))
  /\ UNCHANGED <<l1, l2, waiting, primary, writebackVars, forced, operations, stored>>

\* read_complete answers all that wait for the line.
MemoryRead(l) ==
  /\ \E c \in Cores : stage[c][l] = "memory"
  /\ stage' = [c \in Cores |-> [stage[c] EXCEPT ![l] = IF @ = "memory" THEN "LLC fill" ELSE @]]
  /\ UNCHANGED <<l1, l2, llc, waiting, primary, writebackVars, forced, operations, stored>>

LlcFill(c, l) ==
  /\ Moves(c, l, "LLC fill", "L2 fill")
  /\ memWrites' = WriteBack(memWrites, LlcSets, LlcOf(l), l)
  /\ PutLlc(l, Inserted(LlcOf(l), l, primary[c][l]))
  /\ UNCHANGED <<l1, l2, waiting, primary, l1Evict, l2Evict, forced, operations, stored>>

L2Fill(c, l) ==
  /\ Moves(c, l, "L2 fill", "L1 fill")
  /\ l2Evict' = [l2Evict EXCEPT ![c] = WriteBack(@, L2Sets, L2Of(c, l), l)]
  /\ PutL2(c, l, Inserted(L2Of(c, l), l, primary[c][l]))
  /\ UNCHANGED <<l1, llc, waiting, primary, l1Evict, memWrites, forced, operations, stored>>

\* transComplete_MSHR_update answers every access that waits.
\* Mutant: answers the first of them.
AnsweredMutant(n) == n - 1
Answered(n) == 0

L1Fill(c, l) ==
  /\ Moves(c, l, "L1 fill", "none")
  /\ waiting' = [waiting EXCEPT ![c][l] = Answered(@)]
  /\ primary' = [primary EXCEPT ![c][l] = TRUE]
  /\ l1Evict' = [l1Evict EXCEPT ![c] = WriteBack(@, L1Sets, L1Of(c, l), l)]
  /\ PutL1(c, l, Inserted(L1Of(c, l), l, primary[c][l]))
  /\ UNCHANGED <<l2, llc, l2Evict, memWrites, forced, operations, stored>>

----------------------------------------------------------------------------
(* Write-backs: a store without a node (src_id -1).  One that misses is    *)
(* not sent further.                                                       *)

L2Write(c, l) ==
  /\ l1Evict[c][l] > 0 /\ l1Evict' = [l1Evict EXCEPT ![c][l] = @ - 1]
  /\ PutL2(c, l, Accessed(L2Of(c, l), l, FALSE))
  /\ UNCHANGED <<l1, llc, requestVars, l2Evict, memWrites, forced, operations, stored>>

LlcWrite(c, l) ==
  /\ ~LlcFilling
  /\ l2Evict[c][l] > 0 /\ l2Evict' = [l2Evict EXCEPT ![c][l] = @ - 1]
  /\ PutLlc(l, Accessed(LlcOf(l), l, FALSE))
  /\ UNCHANGED <<l1, l2, requestVars, l1Evict, memWrites, forced, operations, stored>>

----------------------------------------------------------------------------
(* Evictions from outside.                                                 *)

\* L1Cache::evict, and execute for an accelerator.
L1Evicts(c, l) ==
  /\ Operates
  /\ PutL1(c, l, Evicted(L1Of(c, l), l))
  /\ forced' = [forced EXCEPT ![c] = @ \cup {l}]
  /\ UNCHANGED <<l2, llc, requestVars, writebackVars, stored>>

L2Evicts(c, l) ==
  /\ l \in forced[c] /\ forced' = [forced EXCEPT ![c] = @ \ {l}]
  /\ PutL2(c, l, Evicted(L2Of(c, l), l))
  /\ UNCHANGED <<l1, llc, requestVars, writebackVars, operations, stored>>

LlcEvicts(l) ==
  /\ Operates /\ ~LlcFilling
  /\ PutLlc(l, Evicted(LlcOf(l), l))
  /\ UNCHANGED <<l1, l2, requestVars, writebackVars, forced, stored>>

----------------------------------------------------------------------------
Request(c, l) ==
  L2Access(c, l) \/ LlcAccess(c, l) \/ LlcFill(c, l) \/ L2Fill(c, l) \/ L1Fill(c, l)
Quiet ==
  /\ operations = MaxOperations
  /\ \A c \in Cores : l1Evict[c] = None /\ l2Evict[c] = None /\ forced[c] = {}
  /\ \A c \in Cores, l \in Lines : stage[c][l] = "none"
  /\ UNCHANGED vars

Next ==
  \/ \E c \in Cores, l \in Lines :
        \/ \E isLoad \in BOOLEAN : L1Access(c, l, isLoad)
        \/ Request(c, l) \/ L1Evicts(c, l) \/ L2Evicts(c, l)
  \/ \E c \in Cores, l \in Addresses : L2Write(c, l) \/ LlcWrite(c, l)
  \/ \E l \in Lines : MemoryRead(l) \/ LlcEvicts(l)
  \/ Quiet

Spec == Init /\ [][Next]_vars

\* Every cache processes in every cycle and the memory answers.  That one of
\* the requests of a core moves, and some line is answered, is enough here.
Fairness ==
  /\ WF_vars(\E l \in Lines : MemoryRead(l))
  /\ \A c \in Cores : WF_vars(\E l \in Lines : Request(c, l))
FairSpec == Spec /\ Fairness

----------------------------------------------------------------------------
(* Properties.                                                             *)

PrivateSetIds == {<<"L1", c, s>> : c \in Cores, s \in Sets(L1Sets)}
                   \cup {<<"L2", c, s>> : c \in Cores, s \in Sets(L2Sets)}
PrivateSet(k) == IF k[1] = "L1" THEN l1[k[2]][k[3]] ELSE l2[k[2]][k[3]]
PrivateSets == {PrivateSet(k) : k \in PrivateSetIds}
AllSets == PrivateSets \cup {llc[s] : s \in Sets(LlcSets)}

\* What may be dirty in a cache, or written back from it: a line that some
\* core has stored to, or, above the L1, one that the cache below has put
\* together for one.  The two are the same if set counts are powers of two.
RebuiltOf(sets, lines) == {Rebuilt(sets, l) : l \in lines}
WrittenL2 == stored \cup RebuiltOf(L1Sets, stored)
WrittenLlc == stored \cup RebuiltOf(L2Sets, WrittenL2)

DirtyWithin(s, lines) ==
  \A i \in DOMAIN Contents(s) : Contents(s)[i].dirty => Contents(s)[i].line \in lines
PendingWithin(pending, lines) == \A l \in Addresses : pending[l] > 0 => l \in lines

\* In no set does addr_map or the list point to an entry that is free or
\* used for another line, and the private caches have no line twice; the LLC
\* may, when two cores miss on it together (FunctionalCache.cpp:66).
\* Every dirty bit and every write-back is of a store of some core: no dirty
\* bit stays in an entry that is used again.  The line may be another one than
\* that was stored to, but only through the address that is put together of a
\* victim (FunctionalCache.cpp:221) where a set count is no power of two.
SetsSound ==
  /\ \A s \in AllSets : PointersSound(s)
  /\ \A s \in PrivateSets : NoGhost(s)
  /\ \A c \in Cores, k \in Sets(L1Sets) : DirtyWithin(l1[c][k], stored)
  /\ \A c \in Cores, k \in Sets(L2Sets) : DirtyWithin(l2[c][k], WrittenL2)
  /\ \A k \in Sets(LlcSets) : DirtyWithin(llc[k], WrittenLlc)
  /\ \A c \in Cores : PendingWithin(l1Evict[c], RebuiltOf(L1Sets, stored))
  /\ \A c \in Cores : PendingWithin(l2Evict[c], RebuiltOf(L2Sets, WrittenL2))
  /\ PendingWithin(memWrites, RebuiltOf(LlcSets, WrittenLlc))

\* A set of a private cache holds the lines that were used last.
Lru == INSTANCE LruSets WITH
         SetIds <- PrivateSetIds,
         Ways <- [k \in PrivateSetIds |-> IF k[1] = "L1" THEN L1Ways ELSE L2Ways],
         contents <- [k \in PrivateSetIds |-> Contents(PrivateSet(k))]
ImplementsLru == Lru!Spec

\* When the cores stop, every access that waits for a line is answered,
\* whatever is evicted and written back meanwhile.
EventuallyAnswered == <>[](waiting = [c \in Cores |-> [l \in Lines |-> 0]])
=============================================================================
