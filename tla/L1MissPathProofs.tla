-------------------------- MODULE L1MissPathProofs --------------------------
(***************************************************************************)
(* Proofs about L1MissPath, for any transactions, prefetches, lines, MSHR  *)
(* size and number of copies.                                              *)
(*                                                                         *)
(* That a hit finds no entry for its line is not inductive: a miss that    *)
(* waits for a free entry must not see its line enter the cache meanwhile. *)
(* What rules it out is the order of the loops of L1Cache::process: after  *)
(* to_send has been visited nothing waits for a line that has an entry, so *)
(* no answer that arrives before the next visit is for a waiting line,     *)
(* but one that belongs to a transaction that is deleted.                  *)
(***************************************************************************)
EXTENDS L1MissPath, FiniteSetTheorems, TLAPS

\* What holds of the entry of line l.  Its members are still to be answered and
\* one has a request out that does not join it; exactly one of them has one
\* request, if none is a listed prefetch.
MembersOf(l) ==
  \A t \in mshr[l] :
    /\ line[t] = l /\ stage[t] = "issued"
    /\ t \notin to_prefetch => copies[t]["pq"] = 0 /\ t \notin checkMSHR
AnchorOf(l) ==
  mshr[l] # {} => \E t \in mshr[l] : Requests(t) > 0 /\ (t \in checkMSHR => Requests(t) > 1)
ExactOf(l) ==
  mshr[l] # {} /\ mshr[l] \cap to_prefetch = {} =>
    \E t \in mshr[l] : Requests(t) = 1 /\ \A u \in mshr[l] \ {t} : Requests(u) = 0

EntryOf(l) == MembersOf(l) /\ AnchorOf(l) /\ ExactOf(l)

MembersInv == \A l \in Lines : EntryOf(l)

\* Where a transaction is that is still to be answered.
PlaceInv ==
  /\ \A t \in Txns : copies[t]["below"] + copies[t]["to_complete"] > 0 /\ stage[t] = "issued" => t \in mshr[line[t]]
  /\ \A t \in Txns : copies[t]["to_send"] > 0 /\ stage[t] = "issued" /\ t \notin checkMSHR => t \in mshr[line[t]]
  /\ \A t \in Txns \ to_prefetch : stage[t] = "issued" /\ InQueues(t) = 0 => t \in mshr[line[t]]
  /\ \A t \in Txns : stage[t] = "new" => InQueues(t) = 0 /\ t \notin to_prefetch
  /\ \A t \in Txns \ to_prefetch : InQueues(t) <= 1
  /\ \A t \in Txns \ to_prefetch : copies[t]["pq"] > 0 \/ t \in checkMSHR => stage[t] = "issued"
  /\ \A t \in Prefetches : stage[t] # "to_core"

\* Only a listed prefetch leaves something in a queue when it is answered.
DefinedInv ==
  to_prefetch = {} => ~Undefined /\ \A t \in Txns : InQueues(t) > 0 => stage[t] = "issued"

\* The transactions that wait for an entry.
WaitInv ==
  /\ \A t \in checkMSHR : line[t] \notin cached
  /\ phase \in {"core", "complete"} => \A t \in checkMSHR : mshr[line[t]] = {}
  /\ phase = "complete" => \A t \in checkMSHR : \A u \in Txns :
       line[u] = line[t] /\ copies[u]["to_complete"] > 0 => stage[u] = "done"
  /\ phase = "send" => \A t \in checkMSHR : visited[t] > 0 => mshr[line[t]] = {} /\ MshrFull

EntryInv == MembersInv /\ PlaceInv /\ DefinedInv

IInv == TypeOK /\ EntryInv /\ WaitInv /\ HitsReplaceNoEntry /\ MshrBounded

-----------------------------------------------------------------------------
LEMMA EntriesFinite == IsFiniteSet(Entries) /\ Cardinality(Entries) \in Nat
<1>1. Entries \subseteq Lines
  BY DEF Entries
<1>2. IsFiniteSet(Entries)
  BY <1>1, MissPathAssumption, FS_Subset
<1> QED BY <1>2, FS_CardinalityType

LEMMA InitIInv == Init => IInv
<1> SUFFICES ASSUME Init PROVE IInv
  OBVIOUS
<1>1. TypeOK
  BY MissPathAssumption DEF Init, TypeOK, Phases, Stages, Queues
<1>2. \A t \in Txns : Requests(t) = 0 /\ InQueues(t) = 0 /\ stage[t] = "new"
                      /\ copies[t]["below"] + copies[t]["to_complete"] = 0 /\ copies[t]["to_send"] = 0
  BY DEF Init, Requests, InQueues, Queues
<1>3. EntryInv
  <2>1. MembersInv
    BY DEF Init, MembersInv, EntryOf, MembersOf, AnchorOf, ExactOf
  <2>2. \A t \in Txns : copies[t]["pq"] = 0 /\ t \notin checkMSHR
    BY DEF Init, Queues
  <2>3. PlaceInv
    BY <1>2, <2>2, MissPathAssumption DEF Init, PlaceInv
  <2>4. DefinedInv
    BY <1>2 DEF Init, DefinedInv, Undefined
  <2> QED BY <2>1, <2>3, <2>4 DEF EntryInv
<1>4. WaitInv /\ HitsReplaceNoEntry
  BY DEF Init, WaitInv, HitsReplaceNoEntry
<1>5. MshrBounded
  <2>1. Entries = {}
    BY DEF Init, Entries
  <2> QED BY <2>1, FS_EmptySet, MissPathAssumption DEF MshrBounded
<1> QED BY <1>1, <1>3, <1>4, <1>5 DEF IInv

\* Steps that change no entry keep the bound, and whether the file is full.
LEMMA SameEntries ==
  ASSUME IInv, UNCHANGED mshr
  PROVE  MshrBounded' /\ (MshrFull' <=> MshrFull)
BY DEF IInv, MshrBounded, MshrFull, Entries

\* Erasing an entry keeps the bound.
LEMMA FewerEntries ==
  ASSUME IInv, NEW l \in Lines, mshr' = [mshr EXCEPT ![l] = {}]
  PROVE  MshrBounded'
<1>1. Entries' \subseteq Entries
  BY DEF IInv, TypeOK, Entries
<1>2. IsFiniteSet(Entries) /\ Cardinality(Entries) \in Nat
  BY EntriesFinite
<1>3. Cardinality(Entries') <= Cardinality(Entries) /\ Cardinality(Entries') \in Nat
  BY <1>1, <1>2, FS_Subset, FS_CardinalityType
<1> QED BY <1>2, <1>3, MissPathAssumption DEF IInv, MshrBounded

\* The counts of a transaction are numbers.
LEMMA CountTypes ==
  ASSUME TypeOK, NEW t \in Txns
  PROVE  /\ copies[t] \in [Queues -> Nat]
         /\ copies[t]["pq"] \in Nat /\ copies[t]["to_send"] \in Nat
         /\ copies[t]["below"] \in Nat /\ copies[t]["to_complete"] \in Nat
         /\ visited[t] \in Nat
BY DEF TypeOK, Queues

\* A transaction that is in no queue is in none of the four.
LEMMA NoCopies ==
  ASSUME TypeOK, NEW t \in Txns, InQueues(t) = 0
  PROVE  /\ copies[t]["pq"] = 0 /\ copies[t]["to_send"] = 0 /\ copies[t]["below"] = 0
         /\ copies[t]["to_complete"] = 0
<1> DEFINE a == copies[t]["pq"]  b == copies[t]["to_send"]  c == copies[t]["below"]  d == copies[t]["to_complete"]
<1>1. a \in Nat /\ b \in Nat /\ c \in Nat /\ d \in Nat
  BY CountTypes
<1>2. a + b + c + d = 0
  BY DEF InQueues
<1> HIDE DEF a, b, c, d
<1>3. a = 0 /\ b = 0 /\ c = 0 /\ d = 0
  BY <1>1, <1>2
<1> QED BY <1>3 DEF a, b, c, d

\* The sums of the counts.
LEMMA Sums ==
  ASSUME TypeOK, NEW t \in Txns
  PROVE  /\ InQueues(t) \in Nat /\ Requests(t) \in Nat
         /\ InQueues(t) = copies[t]["pq"] + Requests(t)
         /\ Requests(t) = copies[t]["to_send"] + (copies[t]["below"] + copies[t]["to_complete"])
<1> DEFINE a == copies[t]["pq"]  b == copies[t]["to_send"]  c == copies[t]["below"]  d == copies[t]["to_complete"]
<1>1. a \in Nat /\ b \in Nat /\ c \in Nat /\ d \in Nat
  BY CountTypes
<1>2. InQueues(t) = a + b + c + d /\ Requests(t) = b + c + d
  BY DEF InQueues, Requests
<1> HIDE DEF a, b, c, d
<1>3. InQueues(t) \in Nat /\ Requests(t) \in Nat /\ InQueues(t) = a + Requests(t) /\ Requests(t) = b + (c + d)
  BY <1>1, <1>2
<1> QED BY <1>3 DEF a, b, c, d

\* A transaction with one copy is in one queue only.
LEMMA OneCopy ==
  ASSUME TypeOK, NEW t \in Txns, InQueues(t) <= 1
  PROVE  /\ copies[t]["pq"] > 0 => copies[t]["pq"] = 1 /\ copies[t]["to_send"] = 0
         /\ copies[t]["to_send"] > 0 => copies[t]["pq"] = 0 /\ Requests(t) = 1
<1> DEFINE a == copies[t]["pq"]  b == copies[t]["to_send"]  c == copies[t]["below"]  d == copies[t]["to_complete"]
<1>1. a \in Nat /\ b \in Nat /\ c \in Nat /\ d \in Nat
  BY CountTypes
<1>2. InQueues(t) = a + b + c + d /\ Requests(t) = b + c + d
  BY DEF InQueues, Requests
<1> HIDE DEF a, b, c, d
<1>3. (a > 0 => a = 1 /\ b = 0) /\ (b > 0 => a = 0 /\ Requests(t) = 1)
  BY <1>1, <1>2
<1> QED BY <1>3 DEF a, b, c, d

\* A step keeps an entry if it changes none of the fields of its members.
LEMMA EntryKept ==
  ASSUME NEW l \in Lines, EntryOf(l), mshr'[l] = mshr[l], line' = line,
         \A t \in mshr[l] : /\ Requests(t)' = Requests(t) /\ stage'[t] = stage[t]
                            /\ t \in to_prefetch => t \in to_prefetch'
                            /\ t \in checkMSHR' => t \in checkMSHR
                            /\ t \notin to_prefetch' => copies'[t]["pq"] = copies[t]["pq"]
  PROVE  EntryOf(l)'
<1>1. MembersOf(l)'
  BY DEF EntryOf, MembersOf
<1>2. AnchorOf(l)'
  <2> SUFFICES ASSUME mshr[l] # {}
               PROVE  \E t \in mshr[l] : Requests(t)' > 0 /\ (t \in checkMSHR' => Requests(t)' > 1)
    BY DEF AnchorOf
  <2>1. PICK t \in mshr[l] : Requests(t) > 0 /\ (t \in checkMSHR => Requests(t) > 1)
    BY DEF EntryOf, AnchorOf
  <2> QED BY <2>1
<1>3. ExactOf(l)'
  <2> SUFFICES ASSUME mshr[l] # {}, mshr[l] \cap to_prefetch' = {}
               PROVE  \E t \in mshr[l] : Requests(t)' = 1 /\ \A u \in mshr[l] \ {t} : Requests(u)' = 0
    BY DEF ExactOf
  <2>1. PICK t \in mshr[l] : Requests(t) = 1 /\ \A u \in mshr[l] \ {t} : Requests(u) = 0
    BY DEF EntryOf, ExactOf
  <2> QED BY <2>1
<1> QED BY <1>1, <1>2, <1>3 DEF EntryOf

\* Steps that leave the queues, the flags and the transactions alone.
LEMMA SameCopies ==
  ASSUME IInv, UNCHANGED <<line, stage, copies, to_prefetch, checkMSHR, mshr>>,
         to_prefetch = {} => ~Undefined'
  PROVE  EntryInv'
BY DEF IInv, EntryInv, MembersInv, EntryOf, MembersOf, AnchorOf, ExactOf, PlaceInv, DefinedInv, Requests, InQueues

-----------------------------------------------------------------------------
(* Between two calls of process.                                           *)

LEMMA AccessInv == ASSUME IInv, NEW t \in Txns, Access(t) PROVE IInv'
<1>1. /\ UNCHANGED <<phase, line, to_prefetch, checkMSHR, visited, mshr, cached>>
      /\ phase = "core" /\ stage[t] = "new" /\ stage' = [stage EXCEPT ![t] = "issued"]
      /\ copies' = [copies EXCEPT ![t]["pq"] = @ + 1]
  BY DEF Access, Enter
<1>2. /\ \A u \in Txns : u # t => copies'[u] = copies[u] /\ stage'[u] = stage[u]
      /\ copies' \in [Txns -> [Queues -> Nat]]
      /\ copies'[t]["pq"] = copies[t]["pq"] + 1 /\ copies'[t]["to_send"] = copies[t]["to_send"]
      /\ copies'[t]["below"] = copies[t]["below"] /\ copies'[t]["to_complete"] = copies[t]["to_complete"]
      /\ stage'[t] = "issued" /\ stage' \in [Txns -> Stages]
  BY <1>1 DEF IInv, TypeOK, Queues, Stages
<1>3. InQueues(t) = 0 /\ t \notin to_prefetch /\ \A l \in Lines : t \notin mshr[l]
  BY <1>1 DEF IInv, TypeOK, EntryInv, PlaceInv, MembersInv, EntryOf, MembersOf
<1>4. /\ copies[t]["pq"] = 0 /\ copies[t]["to_send"] = 0 /\ copies[t]["below"] = 0
      /\ copies[t]["to_complete"] = 0
  BY <1>3, NoCopies DEF IInv
<1>5. TypeOK'
  BY <1>1, <1>2 DEF IInv, TypeOK
<1>6. EntryInv'
  <2>1. \A u \in Txns : u # t => Requests(u)' = Requests(u) /\ InQueues(u)' = InQueues(u)
    BY <1>2 DEF Requests, InQueues
  <2>2. Requests(t)' = 0 /\ InQueues(t)' = 1
    BY <1>2, <1>4 DEF Requests, InQueues
  <2>3. MembersInv'
    BY <1>1, <1>2, <1>3, <2>1, EntryKept DEF IInv, TypeOK, EntryInv, MembersInv
  <2>4. PlaceInv'
    BY <1>1, <1>2, <1>3, <1>4, <2>1, <2>2 DEF IInv, TypeOK, EntryInv, PlaceInv
  <2>5. DefinedInv'
    BY <1>1, <1>2, <2>1, <2>2 DEF IInv, EntryInv, DefinedInv, Undefined
  <2> QED BY <2>3, <2>4, <2>5 DEF EntryInv
<1>7. WaitInv' /\ HitsReplaceNoEntry'
  BY <1>1, <1>2, SameEntries DEF IInv, TypeOK, WaitInv, HitsReplaceNoEntry
<1> QED BY <1>1, <1>5, <1>6, <1>7, SameEntries DEF IInv

LEMMA ListPrefetchInv == ASSUME IInv, NEW t \in Txns, ListPrefetch(t) PROVE IInv'
<1>1. /\ UNCHANGED <<phase, line, copies, checkMSHR, visited, mshr, cached>>
      /\ phase = "core" /\ stage[t] = "new" /\ stage' = [stage EXCEPT ![t] = "issued"]
      /\ to_prefetch' = to_prefetch \cup {t} /\ t \in Prefetches
  BY DEF ListPrefetch
<1>2. /\ \A u \in Txns : u # t => stage'[u] = stage[u]
      /\ stage'[t] = "issued" /\ stage' \in [Txns -> Stages]
  BY <1>1 DEF IInv, TypeOK, Stages
<1>3. InQueues(t) = 0 /\ \A l \in Lines : t \notin mshr[l]
  BY <1>1 DEF IInv, TypeOK, EntryInv, PlaceInv, MembersInv, EntryOf, MembersOf
<1>4. /\ copies[t]["pq"] = 0 /\ copies[t]["to_send"] = 0 /\ copies[t]["below"] = 0
      /\ copies[t]["to_complete"] = 0
  BY <1>3, NoCopies DEF IInv
<1>5. TypeOK'
  BY <1>1, <1>2 DEF IInv, TypeOK
<1>6. EntryInv'
  <2>1. \A u \in Txns : Requests(u)' = Requests(u) /\ InQueues(u)' = InQueues(u)
    BY <1>1 DEF Requests, InQueues
  <2>2. MembersInv'
    BY <1>1, <1>2, <1>3, <2>1, EntryKept DEF IInv, TypeOK, EntryInv, MembersInv
  <2>3. PlaceInv'
    BY <1>1, <1>2, <1>4, <2>1 DEF IInv, TypeOK, EntryInv, PlaceInv
  <2>4. DefinedInv'
    BY <1>1 DEF DefinedInv
  <2> QED BY <2>2, <2>3, <2>4 DEF EntryInv
<1>7. WaitInv' /\ HitsReplaceNoEntry'
  BY <1>1, SameEntries DEF IInv, WaitInv, HitsReplaceNoEntry
<1> QED BY <1>1, <1>5, <1>6, <1>7, SameEntries DEF IInv

\* A copy moves on outside the pq, and nothing else changes but what was visited.
LEMMA MoveOn ==
  ASSUME IInv, NEW t \in Txns, UNCHANGED <<line, stage, to_prefetch, checkMSHR, mshr>>,
         phase' # "undefined", phase # "undefined",
         copies' \in [Txns -> [Queues -> Nat]],
         \A u \in Txns : u # t => copies'[u] = copies[u],
         copies'[t]["pq"] = copies[t]["pq"],
         Requests(t)' = Requests(t),
         copies'[t]["to_send"] <= copies[t]["to_send"],
         copies'[t]["to_send"] < copies[t]["to_send"] =>
            t \notin checkMSHR /\ copies[t]["to_send"] > 0
  PROVE  EntryInv'
<1>1. \A u \in Txns : Requests(u)' = Requests(u) /\ copies'[u]["pq"] = copies[u]["pq"]
  BY DEF Requests
<1>2. \A u \in Txns : InQueues(u) = copies[u]["pq"] + Requests(u)
  BY Sums DEF IInv
<1>3. \A u \in Txns : InQueues(u)' = copies'[u]["pq"] + Requests(u)'
  BY DEF InQueues, Requests, Queues
<1>4. \A u \in Txns : InQueues(u)' = InQueues(u)
  BY <1>1, <1>2, <1>3
<1>5. MembersInv' /\ DefinedInv'
  BY <1>1, <1>4, EntryKept DEF IInv, TypeOK, EntryInv, MembersInv, DefinedInv, Undefined
<1>6. \A u \in Txns : copies'[u]["below"] + copies'[u]["to_complete"] > 0 /\ stage[u] = "issued" => u \in mshr[line[u]]
  <2> SUFFICES ASSUME NEW u \in Txns, copies'[u]["below"] + copies'[u]["to_complete"] > 0, stage[u] = "issued"
               PROVE  u \in mshr[line[u]]
    OBVIOUS
  <2>1. CASE copies[u]["below"] + copies[u]["to_complete"] > 0
    BY <2>1 DEF IInv, EntryInv, PlaceInv
  <2>2. CASE ~(copies[u]["below"] + copies[u]["to_complete"] > 0)
    <3>1. u = t
      BY <2>2
    <3>2. copies'[t]["to_send"] < copies[t]["to_send"]
      BY <2>2, <3>1, CountTypes DEF IInv, Requests, Queues
    <3> QED BY <3>1, <3>2 DEF IInv, EntryInv, PlaceInv
  <2> QED BY <2>1, <2>2
<1>7. \A u \in Txns : copies'[u]["to_send"] > 0 => copies[u]["to_send"] > 0
  BY CountTypes DEF IInv, Queues
<1>8. PlaceInv'
  BY <1>4, <1>6, <1>7 DEF IInv, EntryInv, PlaceInv
<1> QED BY <1>5, <1>8 DEF EntryInv

LEMMA AnswerInv == ASSUME IInv, NEW t \in Txns, Answer(t) PROVE IInv'
<1>1. /\ UNCHANGED <<phase, line, stage, to_prefetch, checkMSHR, visited, mshr, cached>>
      /\ phase = "core" /\ copies[t]["below"] > 0
      /\ copies' = [copies EXCEPT ![t]["below"] = @ - 1, ![t]["to_complete"] = @ + 1]
  BY DEF Answer, Move
<1>2. /\ \A u \in Txns : u # t => copies'[u] = copies[u]
      /\ copies' \in [Txns -> [Queues -> Nat]]
      /\ copies'[t]["pq"] = copies[t]["pq"] /\ copies'[t]["to_send"] = copies[t]["to_send"]
      /\ copies'[t]["below"] = copies[t]["below"] - 1
      /\ copies'[t]["to_complete"] = copies[t]["to_complete"] + 1
  BY <1>1 DEF IInv, TypeOK, Queues
<1>3. TypeOK'
  BY <1>1, <1>2 DEF IInv, TypeOK
<1>4. Requests(t)' = Requests(t)
  BY <1>2, CountTypes DEF IInv, Requests
<1>5. EntryInv'
  BY <1>1, <1>2, <1>4, CountTypes, MoveOn DEF IInv
<1>6. WaitInv' /\ HitsReplaceNoEntry'
  BY <1>1, SameEntries DEF IInv, WaitInv, HitsReplaceNoEntry
<1> QED BY <1>1, <1>3, <1>5, <1>6, SameEntries DEF IInv

-----------------------------------------------------------------------------
(* The steps from one loop to the next.                                    *)

\* What comes back for a line that something waits for is of a transaction that
\* the core has, and that is deleted now.
LEMMA StartProcessInv == ASSUME IInv, StartProcess PROVE IInv'
<1>1. /\ UNCHANGED <<line, to_prefetch, checkMSHR, visited, mshr, cached>>
      /\ phase = "core" /\ phase' = "complete"
      /\ stage' = [t \in Txns |-> IF stage[t] = "to_core" THEN "done" ELSE stage[t]]
      /\ AddPrefetches \/ copies' = copies
  BY DEF StartProcess
<1>2. /\ copies' \in [Txns -> [Queues -> Nat]]
      /\ \A t \in Txns :
           /\ copies'[t]["to_send"] = copies[t]["to_send"] /\ copies'[t]["below"] = copies[t]["below"]
           /\ copies'[t]["to_complete"] = copies[t]["to_complete"]
           /\ t \notin to_prefetch => copies'[t] = copies[t]
  BY <1>1 DEF IInv, TypeOK, AddPrefetches, Queues
<1>3. TypeOK'
  <2>1. stage' \in [Txns -> Stages]
    BY <1>1 DEF IInv, TypeOK, Stages
  <2> QED BY <1>1, <1>2, <2>1 DEF IInv, TypeOK, Phases
<1>4. \A t \in Txns : (stage'[t] = "issued" <=> stage[t] = "issued") /\ (stage'[t] = "new" <=> stage[t] = "new")
  BY <1>1
<1>5. EntryInv'
  <2>1. \A t \in Txns : Requests(t)' = Requests(t)
    BY <1>2 DEF Requests
  <2>2. \A t \in Txns : t \notin to_prefetch => InQueues(t)' = InQueues(t)
    BY <1>2 DEF InQueues
  <2>3. MembersInv'
    <3> SUFFICES ASSUME NEW l \in Lines PROVE EntryOf(l)'
      BY DEF MembersInv
    <3>1. EntryOf(l) /\ \A t \in mshr[l] : t \in Txns /\ stage[t] = "issued"
      BY DEF IInv, TypeOK, EntryInv, MembersInv, EntryOf, MembersOf
    <3>2. \A t \in mshr[l] : stage'[t] = stage[t]
      BY <1>4, <3>1
    <3> QED BY <1>1, <1>2, <2>1, <3>1, <3>2, EntryKept
  <2>4. PlaceInv'
    <3>1. \A t \in Prefetches : stage'[t] # "to_core"
      BY <1>1, MissPathAssumption
    <3>2. \A t \in Txns \ to_prefetch : copies'[t]["pq"] > 0 \/ t \in checkMSHR => stage'[t] = "issued"
      BY <1>2, <1>4 DEF IInv, EntryInv, PlaceInv
    <3>3. \A t \in Txns : stage[t] = "new" => InQueues(t)' = 0
      BY <2>2 DEF IInv, EntryInv, PlaceInv
    <3>4. \A t \in Txns : copies'[t]["below"] + copies'[t]["to_complete"] > 0 /\ stage'[t] = "issued" => t \in mshr[line[t]]
      BY <1>2, <1>4 DEF IInv, EntryInv, PlaceInv
    <3>5. \A t \in Txns : copies'[t]["to_send"] > 0 /\ stage'[t] = "issued" /\ t \notin checkMSHR => t \in mshr[line[t]]
      BY <1>2, <1>4 DEF IInv, EntryInv, PlaceInv
    <3>6. \A t \in Txns \ to_prefetch : InQueues(t)' <= 1 /\ (stage'[t] = "issued" /\ InQueues(t)' = 0 => t \in mshr[line[t]])
      BY <1>4, <2>2 DEF IInv, EntryInv, PlaceInv
    <3>7. \A t \in Txns : stage'[t] = "new" => t \notin to_prefetch
      BY <1>4 DEF IInv, EntryInv, PlaceInv
    <3> QED BY <1>1, <1>4, <3>1, <3>2, <3>3, <3>4, <3>5, <3>6, <3>7 DEF PlaceInv
  <2>5. DefinedInv'
    BY <1>1, <1>4, <2>2 DEF IInv, EntryInv, DefinedInv, Undefined
  <2> QED BY <2>3, <2>4, <2>5 DEF EntryInv
<1>6. \A t \in checkMSHR : \A u \in Txns :
         line[u] = line[t] /\ copies'[u]["to_complete"] > 0 => stage'[u] = "done"
  <2> SUFFICES ASSUME NEW t \in checkMSHR, NEW u \in Txns, line[u] = line[t], copies'[u]["to_complete"] > 0
               PROVE  stage'[u] = "done"
    OBVIOUS
  <2>1. copies[u]["to_complete"] > 0 /\ copies[u]["below"] + copies[u]["to_complete"] > 0 /\ InQueues(u) > 0
    BY <1>2, CountTypes DEF IInv, InQueues
  <2>2. mshr[line[u]] = {}
    BY <1>1 DEF IInv, WaitInv
  <2>3. stage[u] # "issued" /\ stage[u] # "new"
    BY <2>1, <2>2 DEF IInv, EntryInv, PlaceInv
  <2> QED BY <1>1, <2>3 DEF IInv, TypeOK, Stages
<1>7. WaitInv' /\ HitsReplaceNoEntry'
  BY <1>1, <1>6 DEF IInv, WaitInv, HitsReplaceNoEntry
<1> QED BY <1>1, <1>3, <1>5, <1>7, SameEntries DEF IInv

LEMMA StartExecuteInv == ASSUME IInv, StartExecute PROVE IInv'
<1>1. /\ UNCHANGED <<line, stage, copies, to_prefetch, checkMSHR, visited, mshr>>
      /\ phase = "complete" /\ phase' = "execute" /\ cached' \subseteq cached
  BY DEF StartExecute
<1>2. TypeOK' /\ EntryInv'
  BY <1>1, SameCopies DEF IInv, TypeOK, Phases, Undefined
<1>3. WaitInv' /\ HitsReplaceNoEntry'
  BY <1>1 DEF IInv, WaitInv, HitsReplaceNoEntry
<1> QED BY <1>1, <1>2, <1>3, SameEntries DEF IInv

LEMMA StartSendInv == ASSUME IInv, StartSend PROVE IInv'
<1>1. /\ UNCHANGED <<line, stage, copies, to_prefetch, checkMSHR, mshr, cached>>
      /\ phase = "execute" /\ phase' = "send" /\ visited' = [t \in Txns |-> 0]
  BY DEF StartSend, NoneVisited
<1>2. TypeOK'
  BY <1>1, CountTypes DEF IInv, TypeOK, Phases
<1>3. EntryInv'
  BY <1>1, SameCopies DEF Undefined
<1>4. WaitInv' /\ HitsReplaceNoEntry'
  BY <1>1 DEF IInv, TypeOK, WaitInv, HitsReplaceNoEntry
<1> QED BY <1>1, <1>2, <1>3, <1>4, SameEntries DEF IInv

\* All of to_send has been visited, so nothing waits for a line with an entry.
LEMMA EndProcessInv == ASSUME IInv, EndProcess PROVE IInv'
<1>1. /\ UNCHANGED <<line, stage, copies, to_prefetch, checkMSHR, mshr, cached>>
      /\ phase = "send" /\ phase' = "core" /\ visited' = [t \in Txns |-> 0]
      /\ \A t \in Txns : copies[t]["to_send"] = visited[t]
  BY DEF EndProcess, NoneVisited
<1>2. TypeOK'
  BY <1>1, CountTypes DEF IInv, TypeOK, Phases
<1>3. EntryInv'
  BY <1>1, SameCopies DEF Undefined
<1>4. \A t \in checkMSHR : visited[t] > 0
  BY <1>1 DEF IInv, TypeOK
<1>5. WaitInv' /\ HitsReplaceNoEntry'
  BY <1>1, <1>4 DEF IInv, WaitInv, HitsReplaceNoEntry
<1> QED BY <1>1, <1>2, <1>3, <1>5, SameEntries DEF IInv

\* Undefined behaviour begins, with a prefetch in the list.
LEMMA UseDeletedInv == ASSUME IInv, NEW t \in Txns, UseDeleted(t) PROVE IInv'
<1>1. /\ UNCHANGED <<line, stage, copies, to_prefetch, checkMSHR, visited, mshr, cached>>
      /\ phase' = "undefined" /\ stage[t] = "done"
  BY DEF UseDeleted, Deleted
<1>2. InQueues(t) > 0
  BY CountTypes DEF IInv, UseDeleted, InQueues
<1>3. to_prefetch # {}
  BY <1>1, <1>2 DEF IInv, EntryInv, DefinedInv
<1>4. TypeOK' /\ EntryInv'
  BY <1>1, <1>3, SameCopies DEF IInv, TypeOK, Phases
<1>5. WaitInv' /\ HitsReplaceNoEntry'
  BY <1>1 DEF IInv, WaitInv, HitsReplaceNoEntry
<1> QED BY <1>1, <1>4, <1>5, SameEntries DEF IInv

LEMMA AccEvictionInv ==
  ASSUME IInv, NEW l \in Lines, ExecuteAccEviction(l)
  PROVE  IInv'
<1>1. /\ UNCHANGED <<phase, line, stage, copies, to_prefetch, checkMSHR, visited, mshr>>
      /\ phase = "execute" /\ cached' \subseteq cached
  BY DEF ExecuteAccEviction
<1>2. TypeOK' /\ EntryInv'
  BY <1>1, SameCopies DEF IInv, TypeOK, Undefined
<1>3. WaitInv' /\ HitsReplaceNoEntry'
  BY <1>1 DEF IInv, WaitInv, HitsReplaceNoEntry
<1> QED BY <1>1, <1>2, <1>3, SameEntries DEF IInv

-----------------------------------------------------------------------------
(* The answers and the pq.                                                 *)

\* Only the members of the entry are answered, and a transaction leaves nothing
\* behind in the queues unless a prefetch is listed.
LEMMA CompleteInv == ASSUME IInv, NEW t \in Txns, Complete(t) PROVE IInv'
<1> DEFINE k == line[t]
<1>1. /\ UNCHANGED <<phase, line, to_prefetch, checkMSHR, visited>>
      /\ phase = "complete" /\ stage[t] # "done" /\ copies[t]["to_complete"] > 0
      /\ copies' = [copies EXCEPT ![t]["to_complete"] = @ - 1]
      /\ stage' = [u \in Txns |-> IF u \notin mshr[k] THEN stage[u]
                                  ELSE IF u \in Prefetches THEN "done" ELSE "to_core"]
      /\ mshr' = [mshr EXCEPT ![k] = {}]
      /\ cached' \in SUBSET Lines /\ cached' \subseteq cached \cup {k}
  BY DEF IInv, TypeOK, Complete, Leave, Insert, Answered, Deleted
<1>2. /\ \A u \in Txns : u # t => copies'[u] = copies[u]
      /\ copies' \in [Txns -> [Queues -> Nat]]
      /\ copies'[t]["pq"] = copies[t]["pq"] /\ copies'[t]["to_send"] = copies[t]["to_send"]
      /\ copies'[t]["below"] = copies[t]["below"]
      /\ copies'[t]["to_complete"] = copies[t]["to_complete"] - 1
      /\ stage' \in [Txns -> Stages] /\ mshr' \in [Lines -> SUBSET Txns]
      /\ k \in Lines /\ mshr'[k] = {} /\ \A l \in Lines : l # k => mshr'[l] = mshr[l]
  BY <1>1, CountTypes DEF IInv, TypeOK, Queues, Stages
<1> HIDE DEF k
<1>3. TypeOK'
  BY <1>1, <1>2 DEF IInv, TypeOK
<1>4. \A l \in Lines : EntryOf(l) /\ \A u \in mshr[l] : u \in Txns /\ line[u] = l /\ stage[u] = "issued"
  BY DEF IInv, TypeOK, EntryInv, MembersInv, EntryOf, MembersOf
<1>5. /\ \A u \in Txns : u # t => Requests(u)' = Requests(u) /\ InQueues(u)' = InQueues(u)
      /\ Requests(t)' = Requests(t) - 1 /\ InQueues(t)' = InQueues(t) - 1
  <2>1. \A u \in Txns : u # t => Requests(u)' = Requests(u) /\ InQueues(u)' = InQueues(u)
    BY <1>2 DEF Requests, InQueues
  <2>2. Requests(t)' = Requests(t) - 1 /\ InQueues(t)' = InQueues(t) - 1
    <3> DEFINE a == copies[t]["pq"]  b == copies[t]["to_send"]  c == copies[t]["below"]  d == copies[t]["to_complete"]
    <3>1. a \in Nat /\ b \in Nat /\ c \in Nat /\ d \in Nat
      BY CountTypes DEF IInv
    <3>2. /\ Requests(t) = b + c + d /\ InQueues(t) = a + b + c + d
          /\ Requests(t)' = b + c + (d - 1) /\ InQueues(t)' = a + b + c + (d - 1)
      BY <1>2 DEF Requests, InQueues
    <3> HIDE DEF a, b, c, d
    <3> QED BY <3>1, <3>2
  <2> QED BY <2>1, <2>2
<1>6. \A u \in Txns : (stage'[u] = "issued" => stage[u] = "issued" /\ u \notin mshr[k])
                      /\ (stage'[u] = "new" => stage[u] = "new")
  BY <1>1
<1>7. stage'[t] # "issued"
  <2>1. copies[t]["below"] + copies[t]["to_complete"] > 0
    BY <1>1, CountTypes DEF IInv
  <2> QED BY <1>6, <2>1 DEF IInv, EntryInv, PlaceInv, k
<1>8. MembersInv'
  <2> SUFFICES ASSUME NEW l \in Lines PROVE EntryOf(l)'
    BY DEF MembersInv
  <2>1. CASE l = k
    BY <1>2, <2>1 DEF EntryOf, MembersOf, AnchorOf, ExactOf
  <2>2. CASE l # k
    <3>1. \A u \in mshr[l] : u # t /\ u \notin mshr[k]
      BY <1>2, <1>4, <2>2 DEF k
    <3>2. \A u \in mshr[l] : stage'[u] = stage[u]
      BY <1>1, <1>4, <3>1
    <3> QED BY <1>1, <1>2, <1>4, <1>5, <2>2, <3>1, <3>2, EntryKept
  <2> QED BY <2>1, <2>2
<1>9. PlaceInv'
  <2>1. \A u \in Txns : stage'[u] = "issued" => u # t /\ (mshr'[line[u]] = mshr[line[u]] \/ u \notin mshr[line[u]])
    BY <1>2, <1>6, <1>7 DEF IInv, TypeOK
  <2>2. \A u \in Txns : copies'[u]["below"] + copies'[u]["to_complete"] > 0 /\ stage'[u] = "issued" => u \in mshr'[line[u]]
    BY <1>2, <1>6, <1>7, <2>1 DEF IInv, EntryInv, PlaceInv
  <2>3. \A u \in Txns : copies'[u]["to_send"] > 0 /\ stage'[u] = "issued" /\ u \notin checkMSHR => u \in mshr'[line[u]]
    BY <1>2, <1>6, <1>7, <2>1 DEF IInv, EntryInv, PlaceInv
  <2>4. \A u \in Txns \ to_prefetch : stage'[u] = "issued" /\ InQueues(u)' = 0 => u \in mshr'[line[u]]
    BY <1>5, <1>6, <1>7, <2>1 DEF IInv, EntryInv, PlaceInv
  <2>5. \A u \in Txns : stage'[u] = "new" => InQueues(u)' = 0 /\ u \notin to_prefetch
    <3>1. stage[t] # "new"
      <4>1. InQueues(t) # 0
        BY <1>1, NoCopies DEF IInv
      <4> QED BY <4>1 DEF IInv, EntryInv, PlaceInv
    <3> QED BY <1>5, <1>6, <3>1 DEF IInv, EntryInv, PlaceInv
  <2>6. \A u \in Txns \ to_prefetch : InQueues(u)' <= 1
    BY <1>5, Sums DEF IInv, EntryInv, PlaceInv
  <2>7. \A u \in Txns \ to_prefetch : copies'[u]["pq"] > 0 \/ u \in checkMSHR => stage'[u] = "issued"
    <3> SUFFICES ASSUME NEW u \in Txns \ to_prefetch, copies'[u]["pq"] > 0 \/ u \in checkMSHR
                 PROVE  stage'[u] = "issued"
      OBVIOUS
    <3>1. copies[u]["pq"] > 0 \/ u \in checkMSHR
      BY <1>2
    <3>2. u \notin mshr[k]
      BY <1>2, <1>4, <3>1 DEF EntryOf, MembersOf
    <3> QED BY <1>1, <3>1, <3>2 DEF IInv, EntryInv, PlaceInv
  <2>8. \A u \in Prefetches : stage'[u] # "to_core"
    BY <1>1, MissPathAssumption DEF IInv, EntryInv, PlaceInv
  <2> QED BY <1>1, <2>2, <2>3, <2>4, <2>5, <2>6, <2>7, <2>8 DEF PlaceInv
<1>10. DefinedInv'
  <2> SUFFICES ASSUME to_prefetch = {}, NEW u \in Txns, InQueues(u)' > 0
               PROVE  stage'[u] = "issued"
    BY <1>1 DEF DefinedInv, Undefined
  <2>1. \A v \in Txns : InQueues(v) > 0 => stage[v] = "issued"
    BY DEF IInv, EntryInv, DefinedInv
  <2>2. InQueues(t) = 1 /\ stage[t] = "issued"
    <3>1. InQueues(t) # 0 /\ InQueues(t) \in Nat
      BY <1>1, NoCopies, Sums DEF IInv
    <3> QED BY <2>1, <3>1 DEF IInv, EntryInv, PlaceInv
  <2>3. u # t /\ InQueues(u) > 0 /\ stage[u] = "issued"
    BY <1>5, <2>1, <2>2
  <2>4. u \notin mshr[k]
    <3> SUFFICES ASSUME u \in mshr[k] PROVE FALSE
      OBVIOUS
    <3>1. t \in mshr[k]
      <4>1. copies[t]["below"] + copies[t]["to_complete"] > 0
        BY <1>1, CountTypes DEF IInv
      <4> QED BY <2>2, <4>1 DEF IInv, EntryInv, PlaceInv, k
    <3>2. Requests(t) > 0
      BY <1>1, Sums, CountTypes DEF IInv
    <3>3. Requests(u) > 0
      BY <1>2, <1>4, <2>3, Sums DEF IInv, EntryOf, MembersOf
    <3>4. PICK v \in mshr[k] : Requests(v) = 1 /\ \A w \in mshr[k] \ {v} : Requests(w) = 0
      BY <1>2, <1>4, <3>1 DEF EntryOf, ExactOf
    <3> QED BY <2>3, <3>1, <3>2, <3>3, <3>4
  <2> QED BY <1>1, <2>3, <2>4
<1>11. WaitInv' /\ HitsReplaceNoEntry'
  <2>1. \A u \in checkMSHR : line[u] # k /\ u \in Txns /\ line[u] \in Lines
    BY <1>1 DEF IInv, TypeOK, WaitInv, k
  <2>2. \A u \in checkMSHR : line[u] \notin cached'
    BY <1>1, <2>1 DEF IInv, WaitInv
  <2>3. \A u \in checkMSHR : mshr'[line[u]] = {}
    BY <1>1, <1>2, <2>1 DEF IInv, WaitInv
  <2>4. \A u \in Txns : stage[u] = "done" => stage'[u] = "done"
    BY <1>1, <1>2, <1>4
  <2>5. \A u \in checkMSHR : \A v \in Txns :
           line[v] = line[u] /\ copies'[v]["to_complete"] > 0 => stage'[v] = "done"
    <3>1. \A v \in Txns : copies'[v]["to_complete"] > 0 => copies[v]["to_complete"] > 0
      BY <1>1, <1>2
    <3> QED BY <1>1, <2>4, <3>1 DEF IInv, WaitInv
  <2>6. HitsReplaceNoEntry'
    BY <1>1, <1>2 DEF IInv, TypeOK, HitsReplaceNoEntry
  <2> QED BY <1>1, <2>2, <2>3, <2>5, <2>6 DEF WaitInv
<1> QED BY <1>1, <1>2, <1>3, <1>8, <1>9, <1>10, <1>11, FewerEntries DEF IInv, EntryInv

\* A hit finds no entry for its line and leaves none.
LEMMA ExecuteHitInv == ASSUME IInv, NEW t \in Txns, ExecuteHit(t) PROVE IInv'
<1>1. /\ UNCHANGED <<phase, line, to_prefetch, checkMSHR, visited, cached>>
      /\ phase = "execute" /\ stage[t] # "done" /\ copies[t]["pq"] > 0 /\ line[t] \in cached
      /\ copies' = [copies EXCEPT ![t]["pq"] = @ - 1]
      /\ stage' = [u \in Txns |-> IF u # t THEN stage[u]
                                  ELSE IF u \in Prefetches THEN "done" ELSE "to_core"]
      /\ mshr' = [mshr EXCEPT ![line[t]] = {}]
  BY DEF IInv, TypeOK, ExecuteHit, Leave, Answered, Deleted
<1>2. mshr' = mshr /\ \A l \in Lines : t \notin mshr[l]
  <2>1. mshr[line[t]] = {}
    BY <1>1 DEF IInv, HitsReplaceNoEntry
  <2>2. mshr' = mshr
    BY <1>1, <2>1 DEF IInv, TypeOK
  <2> QED BY <2>1, <2>2 DEF IInv, EntryInv, MembersInv, EntryOf, MembersOf
<1>3. /\ \A u \in Txns : u # t => copies'[u] = copies[u] /\ stage'[u] = stage[u]
      /\ copies' \in [Txns -> [Queues -> Nat]] /\ stage' \in [Txns -> Stages]
      /\ copies'[t]["pq"] = copies[t]["pq"] - 1 /\ copies'[t]["to_send"] = copies[t]["to_send"]
      /\ copies'[t]["below"] = copies[t]["below"] /\ copies'[t]["to_complete"] = copies[t]["to_complete"]
      /\ stage'[t] # "issued" /\ stage'[t] # "new" /\ (t \in Prefetches => stage'[t] # "to_core")
  BY <1>1, CountTypes DEF IInv, TypeOK, Queues, Stages
<1>4. TypeOK'
  BY <1>1, <1>2, <1>3 DEF IInv, TypeOK
<1>5. /\ \A u \in Txns : Requests(u)' = Requests(u) /\ (u # t => InQueues(u)' = InQueues(u))
      /\ InQueues(t)' = InQueues(t) - 1
  <2>1. \A u \in Txns : Requests(u)' = Requests(u) /\ (u # t => InQueues(u)' = InQueues(u))
    BY <1>3 DEF Requests, InQueues
  <2>2. InQueues(t)' = InQueues(t) - 1
    BY <1>3, CountTypes DEF IInv, InQueues
  <2> QED BY <2>1, <2>2
<1>6. MembersInv'
  <2> SUFFICES ASSUME NEW l \in Lines PROVE EntryOf(l)'
    BY DEF MembersInv
  <2>1. EntryOf(l) /\ \A u \in mshr[l] : u \in Txns /\ u # t
    BY <1>2 DEF IInv, TypeOK, EntryInv, MembersInv
  <2> QED BY <1>1, <1>2, <1>3, <1>5, <2>1, EntryKept
<1>7. PlaceInv'
  <2>1. \A u \in Txns \ to_prefetch : copies'[u]["pq"] > 0 \/ u \in checkMSHR => stage'[u] = "issued"
    <3> SUFFICES ASSUME NEW u \in Txns \ to_prefetch, copies'[u]["pq"] > 0 \/ u \in checkMSHR
                 PROVE  stage'[u] = "issued"
      OBVIOUS
    <3>1. CASE u = t
      <4>1. InQueues(t) <= 1
        BY <3>1 DEF IInv, EntryInv, PlaceInv
      <4>2. copies[t]["pq"] = 1 /\ copies[t]["to_send"] = 0
        BY <1>1, <4>1, OneCopy DEF IInv
      <4> QED BY <1>3, <3>1, <4>2 DEF IInv, TypeOK
    <3>2. CASE u # t
      BY <1>3, <3>2 DEF IInv, EntryInv, PlaceInv
    <3> QED BY <3>1, <3>2
  <2>2. \A u \in Txns \ to_prefetch : InQueues(u)' <= 1
    BY <1>5, Sums DEF IInv, EntryInv, PlaceInv
  <2>3. \A u \in Prefetches : stage'[u] # "to_core"
    BY <1>3, MissPathAssumption DEF IInv, EntryInv, PlaceInv
  <2>4. /\ \A u \in Txns : copies'[u]["below"] + copies'[u]["to_complete"] > 0 /\ stage'[u] = "issued" => u \in mshr[line[u]]
        /\ \A u \in Txns : copies'[u]["to_send"] > 0 /\ stage'[u] = "issued" /\ u \notin checkMSHR => u \in mshr[line[u]]
    BY <1>3 DEF IInv, EntryInv, PlaceInv
  <2>5. \A u \in Txns \ to_prefetch : stage'[u] = "issued" /\ InQueues(u)' = 0 => u \in mshr[line[u]]
    BY <1>3, <1>5 DEF IInv, EntryInv, PlaceInv
  <2>6. \A u \in Txns : stage'[u] = "new" => InQueues(u)' = 0 /\ u \notin to_prefetch
    BY <1>3, <1>5 DEF IInv, EntryInv, PlaceInv
  <2> QED BY <1>1, <1>2, <2>1, <2>2, <2>3, <2>4, <2>5, <2>6 DEF PlaceInv
<1>8. DefinedInv'
  <2> SUFFICES ASSUME to_prefetch = {}, NEW u \in Txns, InQueues(u)' > 0
               PROVE  stage'[u] = "issued"
    BY <1>1 DEF DefinedInv, Undefined
  <2>1. InQueues(t) <= 1
    BY DEF IInv, EntryInv, PlaceInv
  <2>2. u # t
    BY <1>5, <2>1, Sums DEF IInv
  <2> QED BY <1>3, <1>5, <2>2 DEF IInv, EntryInv, DefinedInv
<1>9. WaitInv' /\ HitsReplaceNoEntry'
  BY <1>1, <1>2, SameEntries DEF IInv, WaitInv, HitsReplaceNoEntry
<1> QED BY <1>2, <1>4, <1>6, <1>7, <1>8, <1>9, SameEntries DEF IInv, EntryInv

\* A miss is flagged; a member of an entry that misses again is a listed prefetch.
LEMMA ExecuteMissInv == ASSUME IInv, NEW t \in Txns, ExecuteMiss(t) PROVE IInv'
<1>1. /\ UNCHANGED <<phase, line, stage, to_prefetch, visited, mshr, cached>>
      /\ phase = "execute" /\ stage[t] # "done" /\ copies[t]["pq"] > 0 /\ line[t] \notin cached
      /\ copies' = [copies EXCEPT ![t]["pq"] = @ - 1, ![t]["to_send"] = @ + 1]
      /\ checkMSHR' = checkMSHR \cup {t}
  BY DEF ExecuteMiss, Move, Deleted
<1>2. /\ \A u \in Txns : u # t => copies'[u] = copies[u]
      /\ copies' \in [Txns -> [Queues -> Nat]]
      /\ copies'[t]["pq"] = copies[t]["pq"] - 1 /\ copies'[t]["to_send"] = copies[t]["to_send"] + 1
      /\ copies'[t]["below"] = copies[t]["below"] /\ copies'[t]["to_complete"] = copies[t]["to_complete"]
  BY <1>1, CountTypes DEF IInv, TypeOK, Queues
<1>3. TypeOK'
  <2>1. checkMSHR' \subseteq {u \in Txns : copies'[u]["to_send"] > 0}
    BY <1>1, <1>2, CountTypes DEF IInv, TypeOK
  <2>2. \A u \in Txns : visited[u] <= copies'[u]["to_send"]
    BY <1>2, CountTypes DEF IInv, TypeOK
  <2> QED BY <1>1, <1>2, <2>1, <2>2 DEF IInv, TypeOK
<1>4. /\ \A u \in Txns : (u # t => Requests(u)' = Requests(u)) /\ InQueues(u)' = InQueues(u)
      /\ Requests(t)' = Requests(t) + 1
  <2>1. \A u \in Txns : u # t => Requests(u)' = Requests(u) /\ InQueues(u)' = InQueues(u)
    BY <1>2 DEF Requests, InQueues
  <2>2. Requests(t)' = Requests(t) + 1 /\ InQueues(t)' = InQueues(t)
    <3> DEFINE a == copies[t]["pq"]  b == copies[t]["to_send"]  c == copies[t]["below"]  d == copies[t]["to_complete"]
    <3>1. a \in Nat /\ b \in Nat /\ c \in Nat /\ d \in Nat
      BY CountTypes DEF IInv
    <3>2. /\ Requests(t) = b + c + d /\ InQueues(t) = a + b + c + d
          /\ Requests(t)' = (b + 1) + c + d /\ InQueues(t)' = (a - 1) + (b + 1) + c + d
      BY <1>2 DEF Requests, InQueues
    <3> HIDE DEF a, b, c, d
    <3> QED BY <3>1, <3>2
  <2> QED BY <2>1, <2>2
<1>5. MembersInv'
  <2> SUFFICES ASSUME NEW l \in Lines PROVE EntryOf(l)'
    BY DEF MembersInv
  <2>1. EntryOf(l) /\ \A u \in mshr[l] : u \in Txns
    BY DEF IInv, TypeOK, EntryInv, MembersInv
  <2>2. CASE t \notin mshr[l]
    BY <1>1, <1>2, <1>4, <2>1, <2>2, EntryKept
  <2>3. CASE t \in mshr[l]
    <3>1. t \in to_prefetch
      BY <1>1, <2>1, <2>3 DEF EntryOf, MembersOf
    <3>2. MembersOf(l)'
      BY <1>1, <1>2, <2>1, <3>1 DEF EntryOf, MembersOf
    <3>3. AnchorOf(l)'
      <4>1. PICK u \in mshr[l] : Requests(u) > 0 /\ (u \in checkMSHR => Requests(u) > 1)
        BY <2>1, <2>3 DEF EntryOf, AnchorOf
      <4>2. Requests(u)' > 0 /\ (u \in checkMSHR' => Requests(u)' > 1)
        BY <1>1, <1>4, <2>1, <4>1, Sums DEF IInv
      <4> QED BY <1>1, <4>2 DEF AnchorOf
    <3>4. ExactOf(l)'
      BY <1>1, <2>3, <3>1 DEF ExactOf
    <3> QED BY <3>2, <3>3, <3>4 DEF EntryOf
  <2> QED BY <2>2, <2>3
<1>6. PlaceInv'
  <2>1. stage[t] = "issued" \/ t \in to_prefetch
    BY <1>1 DEF IInv, EntryInv, PlaceInv
  <2>2. \A u \in Txns : copies'[u]["below"] = copies[u]["below"] /\ copies'[u]["to_complete"] = copies[u]["to_complete"]
    BY <1>2
  <2>3. \A u \in Txns : copies'[u]["to_send"] > 0 /\ stage[u] = "issued" /\ u \notin checkMSHR' => u \in mshr[line[u]]
    BY <1>1, <1>2 DEF IInv, EntryInv, PlaceInv
  <2>4. \A u \in Txns \ to_prefetch : copies'[u]["pq"] > 0 \/ u \in checkMSHR' => stage[u] = "issued"
    BY <1>1, <1>2, <2>1 DEF IInv, EntryInv, PlaceInv
  <2> QED BY <1>1, <1>4, <2>2, <2>3, <2>4 DEF IInv, EntryInv, PlaceInv
<1>7. DefinedInv'
  BY <1>1, <1>4 DEF IInv, EntryInv, DefinedInv, Undefined
<1>8. WaitInv' /\ HitsReplaceNoEntry'
  BY <1>1 DEF IInv, WaitInv, HitsReplaceNoEntry
<1> QED BY <1>1, <1>3, <1>5, <1>6, <1>7, <1>8, SameEntries DEF IInv, EntryInv

-----------------------------------------------------------------------------
(* The visits to to_send.                                                  *)

\* A transaction that is visited and waits for an entry is still to be answered.
LEMMA WaitingIsIssued ==
  ASSUME IInv, NEW t \in Txns, Visits(t), t \in checkMSHR
  PROVE  stage[t] = "issued" /\ copies[t]["to_send"] > visited[t] /\ copies[t]["to_send"] > 0
<1>1. stage[t] # "done" /\ copies[t]["to_send"] > visited[t]
  BY DEF Visits, Deleted
<1>2. copies[t]["to_send"] > 0
  BY <1>1, CountTypes DEF IInv
<1>3. stage[t] # "new"
  <2>1. InQueues(t) # 0
    BY <1>2, NoCopies DEF IInv
  <2> QED BY <2>1 DEF IInv, EntryInv, PlaceInv
<1>4. CASE t \in to_prefetch
  <2>1. stage[t] # "to_core"
    BY <1>4 DEF IInv, TypeOK, EntryInv, PlaceInv
  <2> QED BY <1>1, <1>2, <1>3, <2>1 DEF IInv, TypeOK, Stages
<1>5. CASE t \notin to_prefetch
  BY <1>1, <1>2, <1>5 DEF IInv, EntryInv, PlaceInv
<1> QED BY <1>4, <1>5

\* What the parent does with a visited transaction.
LEMMA ParentStep ==
  ASSUME IInv, NEW t \in Txns, copies[t]["to_send"] > visited[t], ParentAccepts(t) \/ ParentRefuses(t)
  PROVE  /\ copies' \in [Txns -> [Queues -> Nat]] /\ visited' \in [Txns -> Nat]
         /\ \A u \in Txns : u # t => copies'[u] = copies[u] /\ visited'[u] = visited[u]
         /\ \A u \in Txns : Requests(u)' = Requests(u) /\ copies'[u]["pq"] = copies[u]["pq"]
         /\ \A u \in Txns : InQueues(u)' = InQueues(u)
         /\ copies'[t]["to_send"] <= copies[t]["to_send"] /\ visited'[t] <= copies'[t]["to_send"]
         /\ copies[t]["to_send"] > 0
<1>1. copies[t]["to_send"] > 0 /\ \A u \in Txns : visited[u] \in Nat
  BY CountTypes DEF IInv
<1>2. CASE ParentAccepts(t)
  <2>1. /\ visited' = visited
        /\ copies' = [copies EXCEPT ![t]["to_send"] = @ - 1, ![t]["below"] = @ + 1]
    BY <1>2 DEF ParentAccepts, Move
  <2>2. /\ \A u \in Txns : u # t => copies'[u] = copies[u]
        /\ copies' \in [Txns -> [Queues -> Nat]]
        /\ copies'[t]["pq"] = copies[t]["pq"] /\ copies'[t]["to_send"] = copies[t]["to_send"] - 1
        /\ copies'[t]["below"] = copies[t]["below"] + 1 /\ copies'[t]["to_complete"] = copies[t]["to_complete"]
    BY <1>1, <2>1, CountTypes DEF IInv, TypeOK, Queues
  <2>3. Requests(t)' = Requests(t) /\ InQueues(t)' = InQueues(t)
    <3> DEFINE a == copies[t]["pq"]  b == copies[t]["to_send"]  c == copies[t]["below"]  d == copies[t]["to_complete"]
    <3>1. a \in Nat /\ b \in Nat /\ c \in Nat /\ d \in Nat
      BY CountTypes DEF IInv
    <3>2. /\ Requests(t) = b + c + d /\ InQueues(t) = a + b + c + d
          /\ Requests(t)' = (b - 1) + (c + 1) + d /\ InQueues(t)' = a + (b - 1) + (c + 1) + d
      BY <2>2 DEF Requests, InQueues
    <3> HIDE DEF a, b, c, d
    <3> QED BY <3>1, <3>2
  <2>4. \A u \in Txns : u # t => Requests(u)' = Requests(u) /\ InQueues(u)' = InQueues(u)
    BY <2>2 DEF Requests, InQueues
  <2>5. visited[t] <= copies[t]["to_send"] - 1 /\ copies[t]["to_send"] - 1 <= copies[t]["to_send"]
    BY CountTypes DEF IInv
  <2>6. visited' \in [Txns -> Nat]
    BY <2>1 DEF IInv, TypeOK
  <2> QED BY <1>1, <2>1, <2>2, <2>3, <2>4, <2>5, <2>6
<1>3. CASE ParentRefuses(t)
  <2>1. copies' = copies /\ visited' = [visited EXCEPT ![t] = @ + 1]
    BY <1>3 DEF ParentRefuses
  <2>2. \A u \in Txns : Requests(u)' = Requests(u) /\ InQueues(u)' = InQueues(u)
    BY <2>1 DEF Requests, InQueues
  <2>3. /\ visited' \in [Txns -> Nat] /\ visited'[t] = visited[t] + 1
        /\ \A u \in Txns : u # t => visited'[u] = visited[u]
    BY <1>1, <2>1 DEF IInv, TypeOK
  <2>4. visited[t] + 1 <= copies[t]["to_send"] /\ copies[t]["to_send"] <= copies[t]["to_send"]
    BY CountTypes DEF IInv
  <2> QED BY <1>1, <2>1, <2>2, <2>3, <2>4 DEF IInv, TypeOK
<1> QED BY <1>2, <1>3

\* A new entry has its one request, and nothing that waits has been visited
\* before it in this cycle, as an entry was free.
LEMMA SendPrimaryInv == ASSUME IInv, NEW t \in Txns, SendPrimary(t) PROVE IInv'
<1> DEFINE k == line[t]
<1>1. /\ UNCHANGED <<phase, line, stage, to_prefetch, cached>>
      /\ phase = "send" /\ t \in checkMSHR /\ mshr[k] = {} /\ ~MshrFull
      /\ mshr' = [mshr EXCEPT ![k] = {t}] /\ checkMSHR' = checkMSHR \ {t}
      /\ k \in Lines
  BY DEF SendPrimary, Visits, Allocate, IInv, TypeOK
<1>2. stage[t] = "issued" /\ copies[t]["to_send"] > visited[t]
  BY <1>1, WaitingIsIssued DEF SendPrimary
<1>3. /\ copies' \in [Txns -> [Queues -> Nat]] /\ visited' \in [Txns -> Nat]
      /\ \A u \in Txns : u # t => copies'[u] = copies[u] /\ visited'[u] = visited[u]
      /\ \A u \in Txns : Requests(u)' = Requests(u) /\ copies'[u]["pq"] = copies[u]["pq"]
      /\ \A u \in Txns : InQueues(u)' = InQueues(u)
      /\ copies'[t]["to_send"] <= copies[t]["to_send"] /\ visited'[t] <= copies'[t]["to_send"]
      /\ copies[t]["to_send"] > 0
  BY <1>2, ParentStep DEF SendPrimary
<1>4. mshr'[k] = {t} /\ mshr' \in [Lines -> SUBSET Txns] /\ \A l \in Lines : l # k => mshr'[l] = mshr[l]
  BY <1>1 DEF IInv, TypeOK
<1>5. line[t] = k
  OBVIOUS
<1> HIDE DEF k
<1>6. TypeOK'
  <2>1. checkMSHR' \subseteq {u \in Txns : copies'[u]["to_send"] > 0}
    BY <1>1, <1>3 DEF IInv, TypeOK
  <2>2. \A u \in Txns : visited'[u] <= copies'[u]["to_send"]
    BY <1>3 DEF IInv, TypeOK
  <2> QED BY <1>1, <1>3, <1>4, <2>1, <2>2 DEF IInv, TypeOK
<1>7. MembersInv'
  <2> SUFFICES ASSUME NEW l \in Lines PROVE EntryOf(l)'
    BY DEF MembersInv
  <2>1. CASE l # k
    <3>1. EntryOf(l) /\ \A u \in mshr[l] : u \in Txns
      BY DEF IInv, TypeOK, EntryInv, MembersInv
    <3> QED BY <1>1, <1>3, <1>4, <2>1, <3>1, EntryKept
  <2>2. CASE l = k
    <3>1. t \notin to_prefetch => copies[t]["pq"] = 0 /\ Requests(t) = 1
      <4> SUFFICES ASSUME t \notin to_prefetch PROVE copies[t]["pq"] = 0 /\ Requests(t) = 1
        OBVIOUS
      <4>1. InQueues(t) <= 1
        BY DEF IInv, EntryInv, PlaceInv
      <4> QED BY <1>3, <4>1, OneCopy DEF IInv
    <3>2. Requests(t) > 0
      BY <1>3, Sums, CountTypes DEF IInv
    <3>3. MembersOf(l)'
      BY <1>1, <1>2, <1>3, <1>4, <1>5, <2>2, <3>1 DEF MembersOf
    <3>4. AnchorOf(l)'
      BY <1>1, <1>3, <1>4, <2>2, <3>2 DEF AnchorOf
    <3>5. ExactOf(l)'
      BY <1>1, <1>3, <1>4, <2>2, <3>1 DEF ExactOf
    <3> QED BY <3>3, <3>4, <3>5 DEF EntryOf
  <2> QED BY <2>1, <2>2
<1>8. PlaceInv'
  <2>1. \A u \in Txns : u \in mshr[line[u]] => u \in mshr'[line[u]]
    BY <1>1, <1>4 DEF IInv, TypeOK
  <2>2. t \in mshr'[line[t]]
    BY <1>4, <1>5
  <2>3. \A u \in Txns : copies'[u]["below"] + copies'[u]["to_complete"] > 0 /\ stage[u] = "issued" => u \in mshr'[line[u]]
    BY <1>3, <2>1, <2>2 DEF IInv, EntryInv, PlaceInv
  <2>4. \A u \in Txns : copies'[u]["to_send"] > 0 /\ stage[u] = "issued" /\ u \notin checkMSHR' => u \in mshr'[line[u]]
    BY <1>1, <1>3, <2>1, <2>2 DEF IInv, EntryInv, PlaceInv
  <2>5. \A u \in Txns \ to_prefetch : stage[u] = "issued" /\ InQueues(u)' = 0 => u \in mshr'[line[u]]
    BY <1>3, <2>1 DEF IInv, EntryInv, PlaceInv
  <2>6. \A u \in Txns \ to_prefetch : copies'[u]["pq"] > 0 \/ u \in checkMSHR' => stage[u] = "issued"
    BY <1>1, <1>3 DEF IInv, EntryInv, PlaceInv
  <2> QED BY <1>1, <1>3, <2>3, <2>4, <2>5, <2>6 DEF IInv, EntryInv, PlaceInv
<1>9. DefinedInv'
  BY <1>1, <1>3 DEF IInv, EntryInv, DefinedInv, Undefined
<1>10. WaitInv' /\ HitsReplaceNoEntry'
  <2>1. \A u \in checkMSHR' : u \in Txns /\ ~(visited'[u] > 0)
    BY <1>1, <1>3 DEF IInv, TypeOK, WaitInv
  <2>2. WaitInv'
    BY <1>1, <2>1 DEF IInv, WaitInv
  <2>3. k \notin cached
    BY <1>1, <1>5 DEF IInv, WaitInv
  <2>4. HitsReplaceNoEntry'
    BY <1>1, <1>4, <2>3 DEF IInv, TypeOK, HitsReplaceNoEntry
  <2> QED BY <2>2, <2>4
<1>11. MshrBounded'
  <2>1. Entries' = Entries \cup {k}
    BY <1>1, <1>4 DEF Entries
  <2>2. Cardinality(Entries') <= Cardinality(Entries) + 1
    BY <2>1, EntriesFinite, FS_AddElement
  <2>3. Cardinality(Entries) < mshr_size
    BY <1>1, EntriesFinite, MissPathAssumption DEF MshrFull
  <2>4. Cardinality(Entries') \in Nat
    BY <2>1, EntriesFinite, FS_AddElement, FS_CardinalityType
  <2> QED BY <2>2, <2>3, <2>4, EntriesFinite, MissPathAssumption DEF MshrBounded
<1> QED BY <1>6, <1>7, <1>8, <1>9, <1>10, <1>11 DEF IInv, EntryInv

\* What joins an entry takes none of its requests away.
LEMMA SendSecondaryInv == ASSUME IInv, NEW t \in Txns, SendSecondary(t) PROVE IInv'
<1> DEFINE k == line[t]
<1>1. /\ UNCHANGED <<phase, line, stage, to_prefetch, visited, cached>>
      /\ phase = "send" /\ t \in checkMSHR /\ mshr[k] # {}
      /\ mshr' = [mshr EXCEPT ![k] = @ \cup {t}] /\ checkMSHR' = checkMSHR \ {t}
      /\ copies' = [copies EXCEPT ![t]["to_send"] = @ - 1]
      /\ k \in Lines
  BY DEF SendSecondary, Visits, Join, Leave, IInv, TypeOK
<1>2. stage[t] = "issued" /\ copies[t]["to_send"] > visited[t] /\ copies[t]["to_send"] > 0
  BY <1>1, WaitingIsIssued DEF SendSecondary
<1>3. /\ copies' \in [Txns -> [Queues -> Nat]]
      /\ \A u \in Txns : u # t => copies'[u] = copies[u]
      /\ copies'[t]["pq"] = copies[t]["pq"] /\ copies'[t]["to_send"] = copies[t]["to_send"] - 1
      /\ copies'[t]["below"] = copies[t]["below"] /\ copies'[t]["to_complete"] = copies[t]["to_complete"]
  BY <1>1, <1>2, CountTypes DEF IInv, TypeOK, Queues
<1>4. /\ mshr'[k] = mshr[k] \cup {t} /\ mshr' \in [Lines -> SUBSET Txns]
      /\ \A l \in Lines : l # k => mshr'[l] = mshr[l]
  BY <1>1 DEF IInv, TypeOK
<1>5. line[t] = k
  OBVIOUS
<1> HIDE DEF k
<1>6. TypeOK'
  <2>1. checkMSHR' \subseteq {u \in Txns : copies'[u]["to_send"] > 0}
    BY <1>1, <1>3 DEF IInv, TypeOK
  <2>2. visited[t] <= copies[t]["to_send"] - 1
    BY <1>2, CountTypes DEF IInv
  <2>3. \A u \in Txns : visited[u] <= copies'[u]["to_send"]
    BY <1>3, <2>2 DEF IInv, TypeOK
  <2> QED BY <1>1, <1>3, <1>4, <2>1, <2>3 DEF IInv, TypeOK
<1>7. /\ \A u \in Txns : u # t => Requests(u)' = Requests(u) /\ InQueues(u)' = InQueues(u)
      /\ Requests(t)' = Requests(t) - 1 /\ InQueues(t)' = InQueues(t) - 1
  <2>1. \A u \in Txns : u # t => Requests(u)' = Requests(u) /\ InQueues(u)' = InQueues(u)
    BY <1>3 DEF Requests, InQueues
  <2>2. Requests(t)' = Requests(t) - 1 /\ InQueues(t)' = InQueues(t) - 1
    <3> DEFINE a == copies[t]["pq"]  b == copies[t]["to_send"]  c == copies[t]["below"]  d == copies[t]["to_complete"]
    <3>1. a \in Nat /\ b \in Nat /\ c \in Nat /\ d \in Nat
      BY CountTypes DEF IInv
    <3>2. /\ Requests(t) = b + c + d /\ InQueues(t) = a + b + c + d
          /\ Requests(t)' = (b - 1) + c + d /\ InQueues(t)' = a + (b - 1) + c + d
      BY <1>3 DEF Requests, InQueues
    <3> HIDE DEF a, b, c, d
    <3> QED BY <3>1, <3>2
  <2> QED BY <2>1, <2>2
<1>8. /\ t \notin to_prefetch => copies[t]["pq"] = 0 /\ Requests(t) = 1
      /\ Requests(t) > 0 /\ Requests(t) \in Nat /\ InQueues(t) \in Nat
  <2>1. Requests(t) > 0 /\ Requests(t) \in Nat /\ InQueues(t) \in Nat
    BY <1>2, Sums, CountTypes DEF IInv
  <2> SUFFICES ASSUME t \notin to_prefetch PROVE copies[t]["pq"] = 0 /\ Requests(t) = 1
    BY <2>1
  <2>2. InQueues(t) <= 1
    BY DEF IInv, EntryInv, PlaceInv
  <2> QED BY <1>2, <2>2, OneCopy DEF IInv
<1>9. MembersInv'
  <2> SUFFICES ASSUME NEW l \in Lines PROVE EntryOf(l)'
    BY DEF MembersInv
  <2>1. EntryOf(l) /\ \A u \in mshr[l] : u \in Txns /\ line[u] = l
    BY DEF IInv, TypeOK, EntryInv, MembersInv, EntryOf, MembersOf
  <2>2. CASE l # k
    BY <1>1, <1>3, <1>4, <1>5, <1>7, <2>1, <2>2, EntryKept
  <2>3. CASE l = k
    <3>1. MembersOf(l)'
      BY <1>1, <1>2, <1>3, <1>4, <1>5, <1>8, <2>1, <2>3 DEF EntryOf, MembersOf
    <3>2. AnchorOf(l)'
      <4>1. PICK u \in mshr[l] : Requests(u) > 0 /\ (u \in checkMSHR => Requests(u) > 1)
        BY <1>1, <2>1, <2>3 DEF EntryOf, AnchorOf
      <4>2. Requests(u)' > 0 /\ (u \in checkMSHR' => Requests(u)' > 1)
        BY <1>1, <1>7, <1>8, <2>1, <4>1
      <4> QED BY <1>4, <2>3, <4>1, <4>2 DEF AnchorOf
    <3>3. ExactOf(l)'
      <4> SUFFICES ASSUME mshr'[l] \cap to_prefetch = {}
                   PROVE  \E v \in mshr'[l] : Requests(v)' = 1 /\ \A w \in mshr'[l] \ {v} : Requests(w)' = 0
        BY <1>1 DEF ExactOf
      <4>1. t \notin to_prefetch /\ mshr[l] \cap to_prefetch = {}
        BY <1>4, <2>3
      <4>2. t \notin mshr[l]
        BY <1>1, <2>1, <4>1 DEF EntryOf, MembersOf
      <4>3. PICK v \in mshr[l] : Requests(v) = 1 /\ \A w \in mshr[l] \ {v} : Requests(w) = 0
        BY <1>1, <2>1, <2>3, <4>1 DEF EntryOf, ExactOf
      <4>4. Requests(v)' = 1 /\ \A w \in mshr[l] \ {v} : Requests(w)' = 0
        BY <1>7, <2>1, <4>2, <4>3
      <4>5. Requests(t)' = 0
        BY <1>7, <1>8, <4>1
      <4> QED BY <1>4, <2>3, <4>4, <4>5
    <3> QED BY <3>1, <3>2, <3>3 DEF EntryOf
  <2> QED BY <2>2, <2>3
<1>10. PlaceInv'
  <2>1. \A u \in Txns : u \in mshr[line[u]] => u \in mshr'[line[u]]
    BY <1>1, <1>4 DEF IInv, TypeOK
  <2>2. t \in mshr'[line[t]]
    BY <1>4, <1>5
  <2>3. \A u \in Txns : copies'[u]["below"] + copies'[u]["to_complete"] > 0 /\ stage[u] = "issued" => u \in mshr'[line[u]]
    BY <1>3, <2>1, <2>2 DEF IInv, EntryInv, PlaceInv
  <2>4. \A u \in Txns : copies'[u]["to_send"] > 0 /\ stage[u] = "issued" /\ u \notin checkMSHR' => u \in mshr'[line[u]]
    BY <1>1, <1>3, <2>1, <2>2 DEF IInv, EntryInv, PlaceInv
  <2>5. \A u \in Txns \ to_prefetch : stage[u] = "issued" /\ InQueues(u)' = 0 => u \in mshr'[line[u]]
    BY <1>7, <2>1, <2>2 DEF IInv, EntryInv, PlaceInv
  <2>6. \A u \in Txns \ to_prefetch : copies'[u]["pq"] > 0 \/ u \in checkMSHR' => stage[u] = "issued"
    BY <1>1, <1>3 DEF IInv, EntryInv, PlaceInv
  <2>7. \A u \in Txns \ to_prefetch : InQueues(u)' <= 1
    BY <1>7, <1>8 DEF IInv, EntryInv, PlaceInv
  <2>8. \A u \in Txns : stage[u] = "new" => InQueues(u)' = 0 /\ u \notin to_prefetch
    BY <1>2, <1>7 DEF IInv, EntryInv, PlaceInv
  <2> QED BY <1>1, <2>3, <2>4, <2>5, <2>6, <2>7, <2>8 DEF IInv, EntryInv, PlaceInv
<1>11. DefinedInv'
  <2> SUFFICES ASSUME to_prefetch = {}, NEW u \in Txns, InQueues(u)' > 0
               PROVE  stage[u] = "issued"
    BY <1>1 DEF DefinedInv, Undefined
  <2> QED BY <1>2, <1>7 DEF IInv, EntryInv, DefinedInv
<1>12. Entries' = Entries
  BY <1>1, <1>4 DEF Entries
<1>13. WaitInv' /\ HitsReplaceNoEntry'
  <2>1. MshrFull' <=> MshrFull
    BY <1>12 DEF MshrFull
  <2>2. \A u \in checkMSHR' : visited[u] > 0 => mshr'[line[u]] = {} /\ MshrFull
    BY <1>1, <1>4 DEF IInv, TypeOK, WaitInv
  <2>3. WaitInv'
    BY <1>1, <2>1, <2>2 DEF IInv, WaitInv
  <2>4. k \notin cached
    BY <1>1, <1>5 DEF IInv, WaitInv
  <2>5. HitsReplaceNoEntry'
    BY <1>1, <1>4, <2>4 DEF IInv, TypeOK, HitsReplaceNoEntry
  <2> QED BY <2>3, <2>5
<1> QED BY <1>6, <1>9, <1>10, <1>11, <1>12, <1>13 DEF IInv, EntryInv, MshrBounded

\* A transaction that waits was visited while the file was full.
LEMMA SendOtherInv == ASSUME IInv, NEW t \in Txns, SendWait(t) \/ SendAgain(t) PROVE IInv'
<1>1. /\ UNCHANGED <<phase, line, stage, to_prefetch, checkMSHR, mshr, cached>>
      /\ phase = "send" /\ copies[t]["to_send"] > visited[t]
      /\ ParentAccepts(t) \/ ParentRefuses(t)
      /\ t \in checkMSHR => mshr[line[t]] = {} /\ MshrFull /\ copies' = copies
  BY DEF SendWait, SendAgain, Visits, ParentRefuses
<1>2. /\ copies' \in [Txns -> [Queues -> Nat]] /\ visited' \in [Txns -> Nat]
      /\ \A u \in Txns : u # t => copies'[u] = copies[u] /\ visited'[u] = visited[u]
      /\ \A u \in Txns : Requests(u)' = Requests(u) /\ copies'[u]["pq"] = copies[u]["pq"]
      /\ copies'[t]["to_send"] <= copies[t]["to_send"] /\ visited'[t] <= copies'[t]["to_send"]
      /\ copies[t]["to_send"] > 0
  BY <1>1, ParentStep
<1>3. TypeOK'
  <2>1. checkMSHR \subseteq {u \in Txns : copies'[u]["to_send"] > 0}
    BY <1>1, <1>2 DEF IInv, TypeOK
  <2>2. \A u \in Txns : visited'[u] <= copies'[u]["to_send"]
    BY <1>2 DEF IInv, TypeOK
  <2> QED BY <1>1, <1>2, <2>1, <2>2 DEF IInv, TypeOK
<1>4. EntryInv'
  <2>1. copies'[t]["to_send"] < copies[t]["to_send"] => t \notin checkMSHR /\ copies[t]["to_send"] > 0
    BY <1>1, <1>2, CountTypes DEF IInv
  <2> QED BY <1>1, <1>2, <2>1, MoveOn
<1>5. WaitInv' /\ HitsReplaceNoEntry'
  <2>1. \A u \in checkMSHR : u \in Txns
    BY DEF IInv, TypeOK
  <2>2. \A u \in checkMSHR : visited'[u] > 0 => mshr[line[u]] = {} /\ MshrFull
    BY <1>1, <1>2, <2>1 DEF IInv, WaitInv
  <2> QED BY <1>1, <2>2, SameEntries DEF IInv, WaitInv, HitsReplaceNoEntry
<1> QED BY <1>1, <1>3, <1>4, <1>5, SameEntries DEF IInv

LEMMA NextIInv == IInv /\ [Next]_vars => IInv'
<1> SUFFICES ASSUME IInv, [Next]_vars PROVE IInv'
  OBVIOUS
<1>1. ASSUME NEW t \in Txns, Access(t) \/ ListPrefetch(t) \/ Answer(t) \/ Complete(t) \/ UseDeleted(t) PROVE IInv'
  BY <1>1, AccessInv, ListPrefetchInv, AnswerInv, CompleteInv, UseDeletedInv
<1>2. ASSUME NEW t \in Txns, ExecuteStep(t) PROVE IInv'
  BY <1>2, ExecuteHitInv, ExecuteMissInv DEF ExecuteStep
<1>3. ASSUME NEW t \in Txns, SendStep(t) PROVE IInv'
  BY <1>3, SendPrimaryInv, SendSecondaryInv, SendOtherInv DEF SendStep
<1>4. CASE StartProcess \/ StartExecute \/ StartSend \/ EndProcess
  BY <1>4, StartProcessInv, StartExecuteInv, StartSendInv, EndProcessInv
<1>5. CASE UNCHANGED vars
  <2>1. UNCHANGED <<phase, line, stage, copies, to_prefetch, checkMSHR, visited, mshr, cached>>
    BY <1>5 DEF vars
  <2>2. to_prefetch = {} => ~Undefined'
    BY <2>1 DEF IInv, EntryInv, DefinedInv, Undefined
  <2>3. TypeOK' /\ EntryInv'
    BY <2>1, <2>2, SameCopies DEF IInv, TypeOK
  <2>4. WaitInv' /\ HitsReplaceNoEntry'
    BY <2>1, SameEntries DEF IInv, WaitInv, HitsReplaceNoEntry
  <2> QED BY <2>1, <2>3, <2>4, SameEntries DEF IInv
<1> QED BY <1>1, <1>2, <1>3, <1>4, <1>5, AccEvictionInv DEF Next

-----------------------------------------------------------------------------
(* The theorems.                                                           *)

\* IInv holds in every reachable state of the miss path.
THEOREM Invariance == Spec => []IInv
BY InitIInv, NextIInv, PTL DEF Spec

\* Every variable keeps its type; only what is in to_send waits for an entry.
THEOREM TypeCorrect == Spec => []TypeOK
<1>1. IInv => TypeOK
  BY DEF IInv
<1> QED BY <1>1, Invariance, PTL

\* A hit never throws away the transactions of an entry (L1Cache.cpp:220).
THEOREM HitsSafe == Spec => []HitsReplaceNoEntry
<1>1. IInv => HitsReplaceNoEntry
  BY DEF IInv
<1> QED BY <1>1, Invariance, PTL

\* The MSHR file keeps within its size.
THEOREM Bounded == Spec => []MshrBounded
<1>1. IInv => MshrBounded
  BY DEF IInv
<1> QED BY <1>1, Invariance, PTL

\* Whatever copies the list of prefetches puts in the queues, a transaction that
\* is not listed is in one queue at most or in the entry of its line, and an
\* entry holds only transactions that are still to be answered; as long as
\* nothing is listed, no deleted transaction is used.
THEOREM NoneDropped == Spec => []NothingDropped
<1>1. IInv => NothingDropped
  <2> SUFFICES ASSUME IInv PROVE NothingDropped
    OBVIOUS
  <2>1. \A l \in Lines : \A t \in mshr[l] : line[t] = l /\ stage[t] = "issued"
    BY DEF IInv, EntryInv, MembersInv, EntryOf, MembersOf
  <2> QED BY <2>1 DEF IInv, EntryInv, PlaceInv, DefinedInv, NothingDropped
<1> QED BY <1>1, Invariance, PTL

\* Every entry has a request on its way to memory or back, although the copies
\* of a listed prefetch miss, join entries and are sent again and again, and
\* exactly one if no listed prefetch has joined it.
THEOREM OneRequest == Spec => []OneRequestPerEntry
<1>1. IInv => OneRequestPerEntry
  <2> SUFFICES ASSUME IInv PROVE OneRequestPerEntry
    OBVIOUS
  <2>1. ASSUME NEW l \in Entries
        PROVE  \E t \in mshr[l] :
                 /\ Requests(t) > 0
                 /\ mshr[l] \cap to_prefetch = {} =>
                      Requests(t) = 1 /\ t \notin checkMSHR /\ \A u \in mshr[l] \ {t} : Requests(u) = 0
    <3>1. EntryOf(l) /\ mshr[l] # {}
      BY DEF IInv, EntryInv, MembersInv, Entries
    <3>2. CASE mshr[l] \cap to_prefetch = {}
      <4>1. PICK t \in mshr[l] : Requests(t) = 1 /\ \A u \in mshr[l] \ {t} : Requests(u) = 0
        BY <3>1, <3>2 DEF EntryOf, ExactOf
      <4>2. t \notin checkMSHR
        BY <3>1, <3>2 DEF EntryOf, MembersOf
      <4> QED BY <4>1, <4>2
    <3>3. CASE mshr[l] \cap to_prefetch # {}
      BY <3>1, <3>3 DEF EntryOf, AnchorOf
    <3> QED BY <3>2, <3>3
  <2> QED BY <2>1 DEF IInv, EntryInv, PlaceInv, OneRequestPerEntry
<1> QED BY <1>1, Invariance, PTL
=============================================================================
