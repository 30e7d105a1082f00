----------------------------- MODULE L1MissPath -----------------------------
(***************************************************************************)
(* The miss path of a private L1 cache (src/sim/memsys/L1Cache.cpp with    *)
(* Cache.cpp): the transactions a core hands to its L1, the pq in which    *)
(* they wait for the latency, the MSHRs that merge the misses on a line,   *)
(* the to_send queue to the L2 and the way back to the core.               *)
(*                                                                         *)
(* A core and its L1 and L2 run on one thread, so what interleaves is      *)
(* decided by the order of the loops of L1Cache::process, which "phase"    *)
(* follows: deliver to_core and start, complete the answers of the L2,     *)
(* evict, execute the pq, visit to_send.  The contexts of the core and the *)
(* L2 run between two calls, in phase "core".                              *)
(*                                                                         *)
(* A prefetch that finds no prefetch port goes to to_prefetch.  Nothing     *)
(* leaves that list: process puts its elements in pq again in every cycle  *)
(* in which a store port is free.  The copies of one transaction in the    *)
(* queues share its fields, and the answer of one deletes it; the program  *)
(* has no defined behaviour once another copy is used.                     *)
(*                                                                         *)
(* Abstracted: latencies (a transaction may stay any time in pq or below   *)
(* the L1), the placement of lines (an insertion evicts any other line, or *)
(* none), write-backs and statistics, and the order of the elements of a   *)
(* queue (a loop visits its elements in any order).                        *)
(***************************************************************************)
EXTENDS Integers, FiniteSets

CONSTANTS
  Txns,        \* transactions of the core (MemTransaction)
  Prefetches,  \* those that are prefetches: no node waits for them
  Lines,       \* cachelines
  Placements,  \* the lines that the transactions may be for
  mshr_size,   \* entries of the MSHR file
  MaxCopies    \* bound: copies of a listed prefetch in the queues at a time

ASSUME MissPathAssumption ==
  /\ IsFiniteSet(Lines)
  /\ Prefetches \subseteq Txns
  /\ Placements \subseteq [Txns -> Lines]
  /\ mshr_size \in Nat \ {0}
  /\ MaxCopies \in Nat \ {0}

VARIABLES
  phase,      \* the loop of L1Cache::process that runs
  line,       \* the cacheline of each transaction
  stage,      \* what has become of each transaction
  copies,     \* how many times each transaction is in each queue
  to_prefetch,
  checkMSHR,  \* the transactions whose checkMSHR flag is set
  visited,    \* how many of its copies in to_send the loop has passed
  mshr,       \* the opset of the entry of each line, {} if it has none
  cached      \* the lines in the functional cache

vars == <<phase, line, stage, copies, to_prefetch, checkMSHR, visited, mshr, cached>>

Phases == {"core", "complete", "execute", "send", "undefined"}

\* "done": the core has got it, or it was a prefetch, and it is deleted.
Stages == {"new", "issued", "to_core", "done"}

\* "below" stands for the L2 and what is behind it.
Queues == {"pq", "to_send", "below", "to_complete"}

Entries == {l \in Lines : mshr[l] # {}}

TypeOK ==
  /\ phase \in Phases
  /\ line \in [Txns -> Lines]
  /\ stage \in [Txns -> Stages]
  /\ copies \in [Txns -> [Queues -> Nat]]
  /\ to_prefetch \in SUBSET Prefetches
  /\ checkMSHR \in SUBSET {t \in Txns : copies[t]["to_send"] > 0}
  /\ visited \in [Txns -> Nat]
  /\ \A t \in Txns : visited[t] <= copies[t]["to_send"]
  /\ mshr \in [Lines -> SUBSET Txns]
  /\ cached \in SUBSET Lines

Init ==
  /\ phase = "core"
  /\ line \in Placements
  /\ stage = [t \in Txns |-> "new"]
  /\ copies = [t \in Txns |-> [q \in Queues |-> 0]]
  /\ to_prefetch = {}
  /\ checkMSHR = {}
  /\ visited = [t \in Txns |-> 0]
  /\ mshr = [l \in Lines |-> {}]
  /\ cached = {}

Enter(t, q) == copies' = [copies EXCEPT ![t][q] = @ + 1]
Leave(t, q) == copies[t][q] > 0 /\ copies' = [copies EXCEPT ![t][q] = @ - 1]
Move(t, q, r) == copies[t][q] > 0 /\ copies' = [copies EXCEPT ![t][q] = @ - 1, ![t][r] = @ + 1]

Deleted(t) == stage[t] = "done"

-----------------------------------------------------------------------------
(* Between two calls of L1Cache::process.                                  *)

\* Core::access and the prefetcher: addTransaction and addPrefetch.
Access(t) ==
  /\ phase = "core" /\ stage[t] = "new"
  /\ stage' = [stage EXCEPT ![t] = "issued"]
  /\ Enter(t, "pq")
  /\ UNCHANGED <<phase, line, to_prefetch, checkMSHR, visited, mshr, cached>>

\* The prefetcher finds no prefetch port free.
ListPrefetch(t) ==
  /\ phase = "core" /\ stage[t] = "new" /\ t \in Prefetches
  /\ stage' = [stage EXCEPT ![t] = "issued"]
  /\ to_prefetch' = to_prefetch \cup {t}
  /\ UNCHANGED <<phase, line, copies, checkMSHR, visited, mshr, cached>>

\* The L2 hits, or completes a miss: child_cache->to_complete.
Answer(t) ==
  /\ phase = "core" /\ ~Deleted(t)
  /\ Move(t, "below", "to_complete")
  /\ UNCHANGED <<phase, line, stage, to_prefetch, checkMSHR, visited, mshr, cached>>

-----------------------------------------------------------------------------
(* L1Cache::process.                                                       *)

InQueues(t) == copies[t]["pq"] + copies[t]["to_send"] + copies[t]["below"] + copies[t]["to_complete"]

\* Every element of to_prefetch enters pq, or none when no store port is free:
\* addPrefetch takes none, so what holds for the first holds for all.
AddPrefetches ==
  /\ \A t \in to_prefetch : InQueues(t) < MaxCopies
  /\ copies' = [t \in Txns |-> IF t \in to_prefetch THEN [copies[t] EXCEPT !["pq"] = @ + 1] ELSE copies[t]]

\* Put the listed prefetches in pq, send the answers of the previous cycle to
\* the core.
StartProcess ==
  /\ phase = "core"
  /\ phase' = "complete"
  /\ AddPrefetches \/ copies' = copies
  /\ stage' = [t \in Txns |-> IF stage[t] = "to_core" THEN "done" ELSE stage[t]]
  /\ UNCHANGED <<line, to_prefetch, checkMSHR, visited, mshr, cached>>

\* Where transComplete_MSHR_update leaves the transactions of an opset: a
\* prefetch is deleted, any other transaction goes to to_core.
Answered(ts) ==
  [t \in Txns |-> IF t \notin ts THEN stage[t]
                  ELSE IF t \in Prefetches THEN "done" ELSE "to_core"]

\* The line l enters the cache, another one may leave it.
Insert(l) ==
  \E evicted \in SUBSET (cached \ {l}) :
    /\ Cardinality(evicted) <= 1
    /\ cached' = (cached \cup {l}) \ evicted

\* mutant: answers the request but not what merged with it
CompleteOneMutant(t) ==
  /\ phase = "complete" /\ ~Deleted(t)
  /\ Leave(t, "to_complete")
  /\ Insert(line[t])
  /\ stage' = Answered({t})
  /\ mshr' = [mshr EXCEPT ![line[t]] = {}]
  /\ UNCHANGED <<phase, line, to_prefetch, checkMSHR, visited>>

\* mutant: the entry is not erased
CompleteKeepMutant(t) ==
  /\ phase = "complete" /\ ~Deleted(t)
  /\ Leave(t, "to_complete")
  /\ Insert(line[t])
  /\ stage' = Answered(mshr[line[t]])
  /\ UNCHANGED <<phase, line, to_prefetch, checkMSHR, visited, mshr>>

\* TransactionComplete: the line enters the cache, everything that waited for
\* it is answered and its entry is erased.
Complete(t) ==
  /\ phase = "complete" /\ ~Deleted(t)
  /\ Leave(t, "to_complete")
  /\ Insert(line[t])
  /\ stage' = Answered(mshr[line[t]])
  /\ mshr' = [mshr EXCEPT ![line[t]] = {}]
  /\ UNCHANGED <<phase, line, to_prefetch, checkMSHR, visited>>

\* Every answer has been completed: the evictions that the locks of other
\* cores ask for, then Cache::process.
StartExecute ==
  /\ phase = "complete" /\ \A t \in Txns : copies[t]["to_complete"] = 0
  /\ \E evicted \in SUBSET cached : cached' = cached \ evicted
  /\ phase' = "execute"
  /\ UNCHANGED <<line, stage, copies, to_prefetch, checkMSHR, visited, mshr>>

\* An eviction for an accelerator reaches the head of the pq.
ExecuteAccEviction(l) ==
  /\ phase = "execute" /\ l \in cached
  /\ cached' = cached \ {l}
  /\ UNCHANGED <<phase, line, stage, copies, to_prefetch, checkMSHR, visited, mshr>>

\* A hit makes an entry for its line with the one transaction, replacing what
\* the entry was, and has transComplete_MSHR_update answer and erase it.
ExecuteHit(t) ==
  /\ phase = "execute" /\ ~Deleted(t)
  /\ Leave(t, "pq")
  /\ line[t] \in cached
  /\ stage' = Answered({t})
  /\ mshr' = [mshr EXCEPT ![line[t]] = {}]
  /\ UNCHANGED <<phase, line, to_prefetch, checkMSHR, visited, cached>>

ExecuteMiss(t) ==
  /\ phase = "execute" /\ ~Deleted(t)
  /\ line[t] \notin cached
  /\ Move(t, "pq", "to_send")
  /\ checkMSHR' = checkMSHR \cup {t}
  /\ UNCHANGED <<phase, line, stage, to_prefetch, visited, mshr, cached>>

NoneVisited == [t \in Txns |-> 0]

StartSend ==
  /\ phase = "execute"
  /\ phase' = "send"
  /\ visited' = NoneVisited
  /\ UNCHANGED <<line, stage, copies, to_prefetch, checkMSHR, mshr, cached>>

Visits(t) == phase = "send" /\ copies[t]["to_send"] > visited[t] /\ ~Deleted(t)

\* What a visited transaction does next: the L2 accepts it or has no port.
ParentAccepts(t) ==
  /\ Move(t, "to_send", "below")
  /\ visited' = visited
ParentRefuses(t) ==
  /\ copies' = copies
  /\ visited' = [visited EXCEPT ![t] = @ + 1]

MshrFull == Cardinality(Entries) >= mshr_size

\* A miss on a line that has no entry allocates one.
Allocate(t) ==
  /\ t \in checkMSHR
  /\ mshr[line[t]] = {}
  /\ ~MshrFull
  /\ mshr' = [mshr EXCEPT ![line[t]] = {t}]
  /\ checkMSHR' = checkMSHR \ {t}

SendPrimary(t) ==
  /\ Visits(t)
  /\ Allocate(t)
  /\ ParentAccepts(t) \/ ParentRefuses(t)
  /\ UNCHANGED <<phase, line, stage, to_prefetch, cached>>

\* The entry of the line takes t into its opset.
Join(t) ==
  /\ t \in checkMSHR /\ mshr[line[t]] # {}
  /\ mshr' = [mshr EXCEPT ![line[t]] = @ \cup {t}]

\* mutant: joins the entry and is sent as well
SendSecondaryTwiceMutant(t) ==
  /\ Visits(t)
  /\ Join(t)
  /\ checkMSHR' = checkMSHR \ {t}
  /\ ParentAccepts(t)
  /\ UNCHANGED <<phase, line, stage, to_prefetch, cached>>

\* mutant: leaves the flag set
SendSecondaryFlagMutant(t) ==
  /\ Visits(t)
  /\ Join(t)
  /\ Leave(t, "to_send")
  /\ UNCHANGED <<phase, line, stage, to_prefetch, checkMSHR, visited, cached>>

\* A miss on a line that has an entry joins it and leaves to_send.
SendSecondary(t) ==
  /\ Visits(t)
  /\ Join(t)
  /\ checkMSHR' = checkMSHR \ {t}
  /\ Leave(t, "to_send")
  /\ UNCHANGED <<phase, line, stage, to_prefetch, visited, cached>>

\* mutant: is not checked again
SendWaitMutant(t) ==
  /\ Visits(t)
  /\ t \in checkMSHR /\ mshr[line[t]] = {} /\ MshrFull
  /\ ParentRefuses(t)
  /\ checkMSHR' = checkMSHR \ {t}
  /\ UNCHANGED <<phase, line, stage, to_prefetch, mshr, cached>>

\* No entry for the line and none free: wait for the next cycle.
SendWait(t) ==
  /\ Visits(t)
  /\ t \in checkMSHR /\ mshr[line[t]] = {} /\ MshrFull
  /\ ParentRefuses(t)
  /\ UNCHANGED <<phase, line, stage, to_prefetch, checkMSHR, mshr, cached>>

\* Its entry was allocated in an earlier cycle and only a port was missing, or
\* another copy has just cleared the flag.
SendAgain(t) ==
  /\ Visits(t)
  /\ t \notin checkMSHR
  /\ ParentAccepts(t) \/ ParentRefuses(t)
  /\ UNCHANGED <<phase, line, stage, to_prefetch, checkMSHR, mshr, cached>>

EndProcess ==
  /\ phase = "send"
  /\ \A t \in Txns : copies[t]["to_send"] = visited[t]
  /\ phase' = "core"
  /\ visited' = NoneVisited
  /\ UNCHANGED <<line, stage, copies, to_prefetch, checkMSHR, mshr, cached>>

\* A loop, or the L2, comes to a copy of a transaction that is deleted: from
\* here on nothing is claimed of the program.
UseDeleted(t) ==
  /\ Deleted(t)
  /\ \/ phase = "core" /\ copies[t]["below"] > 0
     \/ phase = "complete" /\ copies[t]["to_complete"] > 0
     \/ phase = "execute" /\ copies[t]["pq"] > 0
     \/ phase = "send" /\ copies[t]["to_send"] > visited[t]
  /\ phase' = "undefined"
  /\ UNCHANGED <<line, stage, copies, to_prefetch, checkMSHR, visited, mshr, cached>>

Undefined == phase = "undefined"

-----------------------------------------------------------------------------
SendStep(t) == SendPrimary(t) \/ SendSecondary(t) \/ SendWait(t) \/ SendAgain(t)
ExecuteStep(t) == ExecuteHit(t) \/ ExecuteMiss(t)

Next ==
  \/ StartProcess
  \/ StartExecute
  \/ StartSend
  \/ EndProcess
  \/ \E t \in Txns :
       \/ Access(t) \/ ListPrefetch(t) \/ Answer(t)
       \/ Complete(t) \/ ExecuteStep(t) \/ SendStep(t) \/ UseDeleted(t)
  \/ \E l \in Lines : ExecuteAccEviction(l)
  \/ Undefined /\ UNCHANGED vars

Spec == Init /\ [][Next]_vars

\* Core::process runs every cycle and each of its loops visits all of its
\* elements.  What the pq and the L2 do with a transaction they do within a
\* bounded number of cycles, and the ports of the L2 are free again every cycle:
\* an element that is visited again and again is accepted.
Fairness ==
  /\ WF_vars(StartProcess \/ StartExecute \/ StartSend \/ EndProcess)
  /\ WF_vars(\E t \in Txns : Complete(t) \/ SendStep(t) \/ UseDeleted(t))
  /\ \A t \in Txns :
       SF_vars(ExecuteStep(t)) /\ SF_vars(Answer(t)) /\ SF_vars(SendStep(t) /\ ParentAccepts(t))

FairSpec == Spec /\ Fairness

-----------------------------------------------------------------------------
(* Properties.                                                             *)

\* The copies of t that are on their way to memory or back.
Requests(t) == copies[t]["to_send"] + copies[t]["below"] + copies[t]["to_complete"]

\* Every entry has a request out (L1Cache.cpp:124-165), so it will be answered,
\* and exactly one unless a listed prefetch has joined it; what the L2 has of a
\* transaction that waits belongs to the entry of its line.
OneRequestPerEntry ==
  /\ \A l \in Entries : \E t \in mshr[l] :
       /\ Requests(t) > 0
       /\ mshr[l] \cap to_prefetch = {} =>
            Requests(t) = 1 /\ t \notin checkMSHR /\ \A u \in mshr[l] \ {t} : Requests(u) = 0
  /\ \A t \in Txns :
       copies[t]["below"] + copies[t]["to_complete"] > 0 /\ stage[t] = "issued" => t \in mshr[line[t]]

\* No transaction is dropped, or handled twice: one that is not listed is in one
\* queue at most, and in the opset of its line if it is in none; an opset holds
\* only transactions that are still to be answered; and as long as no prefetch
\* is listed nothing that is answered is left in a queue.
NothingDropped ==
  /\ \A t \in Txns \ to_prefetch :
       InQueues(t) <= 1 /\ (stage[t] = "issued" /\ InQueues(t) = 0 => t \in mshr[line[t]])
  /\ \A l \in Lines : \A t \in mshr[l] : line[t] = l /\ stage[t] = "issued"
  /\ to_prefetch = {} => ~Undefined /\ \A t \in Txns : InQueues(t) > 0 => stage[t] = "issued"

\* When a hit executes, no entry exists for its line, whatever is listed: the
\* assignment of L1Cache.cpp:220 never throws away transactions that merged.
HitsReplaceNoEntry ==
  \A l \in cached : mshr[l] = {}

\* The MSHR file never exceeds its size (L1Cache.cpp:129, 153: an entry more
\* and neither branch is taken, and the miss goes out without an entry).
MshrBounded == Cardinality(Entries) <= mshr_size

\* Every transaction of the core is answered, whatever is prefetched meanwhile,
\* unless a listed prefetch has been used after its answer deleted it.
EventuallyAnswered ==
  \A t \in Txns \ Prefetches : copies[t]["pq"] > 0 ~> stage[t] = "done" \/ Undefined
=============================================================================
