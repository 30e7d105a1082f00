----------------------------- MODULE CacheLock -----------------------------
(***************************************************************************)
(* The lock that an atomic instruction takes on its cacheline at the last  *)
(* level cache (LLCache::lockCacheline and releaseLock in                  *)
(* src/sim/memsys/LLCache.cpp), with the path of an access through the     *)
(* private caches that leads to it and back.                               *)
(*                                                                         *)
(* One cacheline is modelled: the lock, its queue and its acknowledgement  *)
(* counter are maps from cachelines and no step reads two lines.  Several  *)
(* accesses of one core may be under way to one line, because the          *)
(* load/store queue orders only accesses to one address.                   *)
(*                                                                         *)
(* Abstracted: latencies, ports and the order of the queues between the    *)
(* caches (an access may stay anywhere for any time); the contents of the  *)
(* LLC (an access that passes it hits or misses).  The private caches lose *)
(* the line whenever another line needs its place; an eviction sent for a  *)
(* lock that has since changed hands does no more than that, because it    *)
(* counts itself in a counter of its own.                                  *)
(***************************************************************************)
EXTENDS Integers, FiniteSets, Sequences, Functions

CONSTANTS
  Cores,
  Atomics,      \* atomic instructions on the line
  Loads,        \* plain loads of the line
  Prefetching,  \* those of them whose access makes the L1 prefetch
  coreOf,       \* the core of each instruction
  None

Nodes == Atomics \cup Loads

ASSUME LockAssumption ==
  /\ IsFiniteSet(Cores)
  /\ Atomics \cap Loads = {}
  /\ Prefetching \subseteq Nodes
  /\ coreOf \in [Nodes -> Cores]
  /\ None \notin Nodes /\ \A C \in SUBSET Cores : C # None

VARIABLES
  place,      \* where the transaction of each instruction is
  prefetch,   \* where the prefetch that carries the instruction is
  inL1,       \* the cores whose L1 holds the line
  inL2,       \* the cores whose L2 holds it
  owner,      \* lockedLineMap: the instruction that holds the lock, or None
  waiters,    \* lockedLineQ
  requested,  \* the instructions whose requestedLock is set
  acks,       \* acknowledgements: the cores that have counted, or None
  toL1,       \* the L1s the evictions of the current counter are under way to
  toL2,       \* the L2s they are under way to
  toRelease,  \* to_release
  status      \* "crashed" once the LLC has read the pointer of an erased counter

vars == <<place, prefetch, inL1, inL2, owner, waiters, requested, acks, toL1, toL2, toRelease, status>>
caches == <<inL1, inL2>>
lock == <<owner, waiters, requested, acks, toL1, toL2>>

\* In the pq of the L1, in its to_send, merged in its MSHR, in the pq of the
\* L2, at the LLC (incoming, pq or to_execute), in memory, and on the way back.
Places == {"new", "L1", "to_send", "merged", "L2", "LLC", "mem", "fillL2", "fillL1", "to_core", "done"}

TypeOK ==
  /\ place \in [Nodes -> Places]
  /\ prefetch \in [Nodes -> {"none", "L1", "LLC", "done"}]
  /\ inL1 \in SUBSET Cores /\ inL2 \in SUBSET Cores
  /\ owner \in Atomics \cup {None}
  /\ waiters \in Seq(Atomics)
  /\ requested \in SUBSET Atomics
  /\ acks \in (SUBSET Cores) \cup {None}
  /\ toL1 \in SUBSET Cores /\ toL2 \in SUBSET (Cores \ toL1)
  /\ acks # None => acks = Cores \ (toL1 \cup toL2)
  /\ toRelease \in SUBSET Atomics
  /\ status \in {"running", "crashed"}

Init ==
  /\ place = [n \in Nodes |-> "new"]
  /\ prefetch = [n \in Nodes |-> "none"]
  /\ inL1 = {} /\ inL2 = {}
  /\ owner = None /\ waiters = <<>> /\ requested = {}
  /\ acks = None /\ toL1 = {} /\ toL2 = {}
  /\ toRelease = {}
  /\ status = "running"

\* Every step but the one that reads a null pointer.
Running == status = "running" /\ status' = status

Move(n, from, to) ==
  /\ place[n] = from
  /\ place' = [place EXCEPT ![n] = to]

-----------------------------------------------------------------------------
(* The private caches.                                                     *)

\* Core::access; the L1 may detect a stride and prefetch another line with a
\* transaction that carries the same dynamic node (L1Cache.cpp:279).
Access(n) ==
  /\ Running
  /\ Move(n, "new", "L1")
  /\ prefetch' = IF n \in Prefetching THEN [prefetch EXCEPT ![n] = "L1"] ELSE prefetch
  /\ UNCHANGED <<caches, lock, toRelease>>

\* It may miss in both private caches, more than once if it is in to_prefetch,
\* which process works through in every cycle (L1Cache.cpp:63, and L1MissPath).
PrefetchMiss(n) ==
  /\ Running
  /\ prefetch[n] \in {"L1", "done"}
  /\ prefetch' = [prefetch EXCEPT ![n] = "LLC"]
  /\ UNCHANGED <<place, caches, lock, toRelease>>

L1Hit(n) ==
  /\ Running
  /\ coreOf[n] \in inL1
  /\ Move(n, "L1", "to_core")
  /\ UNCHANGED <<prefetch, caches, lock, toRelease>>

L1Miss(n) ==
  /\ Running
  /\ coreOf[n] \notin inL1
  /\ Move(n, "L1", "to_send")
  /\ UNCHANGED <<prefetch, caches, lock, toRelease>>

\* The MSHR has an entry for the line while a request of the core is out.
HasEntry(c) ==
  \E n \in Nodes : coreOf[n] = c /\ place[n] \in {"L2", "LLC", "mem", "fillL2", "fillL1"}

L1Send(n) ==
  /\ Running
  /\ ~HasEntry(coreOf[n])
  /\ Move(n, "to_send", "L2")
  /\ UNCHANGED <<prefetch, caches, lock, toRelease>>

L1Merge(n) ==
  /\ Running
  /\ HasEntry(coreOf[n])
  /\ Move(n, "to_send", "merged")
  /\ UNCHANGED <<prefetch, caches, lock, toRelease>>

L2Hit(n) ==
  /\ Running
  /\ coreOf[n] \in inL2
  /\ Move(n, "L2", "fillL1")
  /\ UNCHANGED <<prefetch, caches, lock, toRelease>>

L2Miss(n) ==
  /\ Running
  /\ coreOf[n] \notin inL2
  /\ Move(n, "L2", "LLC")
  /\ UNCHANGED <<prefetch, caches, lock, toRelease>>

\* The DRAM answers and the LLC completes: the child's to_complete.
MemoryReturn(n) ==
  /\ Running
  /\ Move(n, "mem", "fillL2")
  /\ UNCHANGED <<prefetch, caches, lock, toRelease>>

\* L2Cache::TransactionComplete.
FillL2(n) ==
  /\ Running
  /\ Move(n, "fillL2", "fillL1")
  /\ inL2' = inL2 \cup {coreOf[n]}
  /\ UNCHANGED <<prefetch, inL1, lock, toRelease>>

\* L1Cache::TransactionComplete answers all that has merged.
FillL1(n) ==
  /\ Running
  /\ place[n] = "fillL1"
  /\ inL1' = inL1 \cup {coreOf[n]}
  /\ place' = [m \in Nodes |->
       IF m = n \/ (coreOf[m] = coreOf[n] /\ place[m] = "merged") THEN "to_core" ELSE place[m]]
  /\ UNCHANGED <<prefetch, inL2, lock, toRelease>>

\* handleMemoryReturn: an atomic asks for the release of the lock.
Return(n) ==
  /\ Running
  /\ Move(n, "to_core", "done")
  /\ toRelease' = IF n \in Atomics THEN toRelease \cup {n} ELSE toRelease
  /\ UNCHANGED <<prefetch, caches, lock>>

\* Another line needs the place of this one.
Replace ==
  /\ Running
  /\ \/ \E c \in inL1 : inL1' = inL1 \ {c} /\ inL2' = inL2
     \/ \E c \in inL2 : inL2' = inL2 \ {c} /\ inL1' = inL1
  /\ UNCHANGED <<place, prefetch, lock, toRelease>>

\* L1Cache::evict drops the line and passes the eviction on.
EvictL1(c) ==
  /\ Running
  /\ c \in toL1
  /\ inL1' = inL1 \ {c}
  /\ toL1' = toL1 \ {c}
  /\ toL2' = toL2 \cup {c}
  /\ UNCHANGED <<place, prefetch, inL2, owner, waiters, requested, acks, toRelease>>

\* L2Cache::execute of an atomic eviction counts it in the counter.
EvictL2(c) ==
  /\ Running
  /\ c \in toL2
  /\ inL2' = inL2 \ {c}
  /\ toL2' = toL2 \ {c}
  /\ acks' = IF acks = None THEN None ELSE acks \cup {c}
  /\ UNCHANGED <<place, prefetch, inL1, owner, waiters, requested, toL1, toRelease>>

-----------------------------------------------------------------------------
(* The LLC.                                                                *)

\* mutant: evicts nothing
GrantMutant(n) ==
  /\ owner' = n
  /\ acks' = {}
  /\ toL1' = {} /\ toL2' = {}

\* A new counter, and evictAllCaches.
Grant(n) ==
  /\ owner' = n
  /\ acks' = {}
  /\ toL1' = Cores /\ toL2' = {}

\* The first of the queue gets the lock.
HandOver ==
  /\ Grant(Head(waiters))
  /\ waiters' = Tail(waiters)

\* mutant: does not take the new owner from the queue
ReleaseMutant(n) ==
  /\ Running
  /\ n \in toRelease
  /\ toRelease' = toRelease \ {n}
  /\ IF waiters # <<>> THEN Grant(Head(waiters)) /\ UNCHANGED waiters
     ELSE /\ owner' = None
          /\ UNCHANGED <<waiters, acks, toL1, toL2>>
  /\ UNCHANGED <<place, prefetch, caches, requested>>

\* releaseLock: whoever owns the lock, it goes to the first of the queue.
Release(n) ==
  /\ Running
  /\ n \in toRelease
  /\ toRelease' = toRelease \ {n}
  /\ IF waiters # <<>> THEN HandOver
     ELSE /\ owner' = None
          /\ UNCHANGED <<waiters, acks, toL1, toL2>>
  /\ UNCHANGED <<place, prefetch, caches, requested>>

AtLLC(n) == place[n] = "LLC"

\* mutant: asks again on every execution
RequestLockMutant(n) ==
  /\ Running
  /\ AtLLC(n) /\ n \in Atomics
  /\ owner \notin {None, n}
  /\ waiters' = Append(waiters, n)
  /\ requested' = requested \cup {n}
  /\ UNCHANGED <<place, prefetch, caches, owner, acks, toL1, toL2, toRelease>>

\* lockCacheline finds another owner: it queues the first time it asks.
RequestLock(n) ==
  /\ Running
  /\ AtLLC(n) /\ n \in Atomics \ requested
  /\ owner \notin {None, n}
  /\ waiters' = Append(waiters, n)
  /\ requested' = requested \cup {n}
  /\ UNCHANGED <<place, prefetch, caches, owner, acks, toL1, toL2, toRelease>>

\* lockCacheline finds the line unlocked.
AcquireLock(n) ==
  /\ Running
  /\ AtLLC(n) /\ n \in Atomics
  /\ owner = None
  /\ Grant(n)
  /\ requested' = requested \cup {n}
  /\ UNCHANGED <<place, prefetch, caches, waiters, toRelease>>

\* Cache::execute hits, or sends the transaction to memory.
Serve(n) == \E to \in {"mem", "fillL2"} : Move(n, "LLC", to)

\* The owner has all the acknowledgements: it erases the counter and is served.
ExecuteOwner(n) ==
  /\ Running
  /\ AtLLC(n) /\ owner = n
  /\ acks = Cores
  /\ acks' = None
  /\ Serve(n)
  /\ UNCHANGED <<prefetch, caches, owner, waiters, requested, toL1, toL2, toRelease>>

\* A plain load waits until the line is unlocked.
ExecuteLoad(n) ==
  /\ Running
  /\ AtLLC(n) /\ n \in Loads
  /\ owner = None
  /\ Serve(n)
  /\ UNCHANGED <<prefetch, caches, lock, toRelease>>

\* A prefetch goes through the same checks with the node it carries.
ExecutePrefetch(n) ==
  /\ Running
  /\ prefetch[n] = "LLC"
  /\ prefetch' = [prefetch EXCEPT ![n] = "done"]
  /\ \/ owner = n /\ acks = Cores /\ acks' = None
     \/ owner = None /\ acks' = acks
  /\ UNCHANGED <<place, caches, owner, waiters, requested, toL1, toL2, toRelease>>

\* An access of the owner, or its prefetch, comes after the one that erased
\* the counter: acknowledgements[cacheline] is a null pointer, and is read.
Crash(n) ==
  /\ AtLLC(n) \/ prefetch[n] = "LLC"
  /\ owner = n /\ acks = None
  /\ status = "running" /\ status' = "crashed"
  /\ UNCHANGED <<place, prefetch, caches, lock, toRelease>>

-----------------------------------------------------------------------------
PrivateStep(n) ==
  \/ L1Hit(n) \/ L1Miss(n) \/ L1Send(n) \/ L1Merge(n) \/ L2Hit(n) \/ L2Miss(n)
  \/ MemoryReturn(n) \/ FillL2(n) \/ FillL1(n) \/ Return(n)

LLCStep(n) ==
  \/ Release(n) \/ RequestLock(n) \/ AcquireLock(n) \/ ExecuteOwner(n) \/ ExecuteLoad(n)
  \/ Crash(n)

Crashed == status = "crashed"

Terminated == Crashed \/ \A n \in Nodes : place[n] = "done" /\ n \notin toRelease

Finished == Terminated /\ UNCHANGED vars

Next ==
  \/ \E n \in Nodes : Access(n) \/ PrivateStep(n) \/ LLCStep(n) \/ PrefetchMiss(n) \/ ExecutePrefetch(n)
  \/ \E c \in Cores : EvictL1(c) \/ EvictL2(c)
  \/ Replace
  \/ Finished

Spec == Init /\ [][Next]_vars

\* Every cache runs every cycle and executes all that is due; no prefetch has
\* to miss, and no cache has to replace the line.
Fairness ==
  /\ \A n \in Nodes : WF_vars(PrivateStep(n)) /\ WF_vars(LLCStep(n))
  /\ \A c \in Cores : WF_vars(EvictL1(c)) /\ WF_vars(EvictL2(c))

FairSpec == Spec /\ Fairness

-----------------------------------------------------------------------------
(* Properties.                                                             *)

\* An owner at the LLC finds its counter, which no other access has erased,
\* unless its own prefetch has come to the LLC; and only an atomic that spurs a
\* prefetch makes the LLC read the pointer of an erased counter
\* (LLCache.cpp:226-235).
AcksPresent ==
  /\ \A n \in Nodes : owner = n /\ AtLLC(n) /\ acks = None => prefetch[n] \in {"LLC", "done"}
  /\ Crashed => \E n \in Atomics \cap Prefetching : owner = n /\ prefetch[n] \in {"LLC", "done"}

\* Whoever waits in the queue waits at the LLC, once, and somebody owns the
\* lock that it waits for (LLCache.cpp:18-57).
QueueSound ==
  /\ waiters # <<>> => owner # None
  /\ IsInjective(waiters)
  /\ \A i \in DOMAIN waiters : AtLLC(waiters[i]) /\ waiters[i] # owner

\* The lock of the line: its map, its queue and its acknowledgements agree.
LockSound == TypeOK /\ AcksPresent /\ QueueSound

\* The owner is an instruction that is still to release: the lock is never
\* left with a node that has completed, and may have been deleted.
OwnerAlive ==
  owner # None => place[owner] # "done" \/ owner \in toRelease

\* Every access completes, however the lock changes hands meanwhile, or the
\* prefetch of an atomic stops the simulator (AcksPresent).
EventuallyDone == \A n \in Nodes : place[n] = "L1" ~> place[n] = "done" \/ Crashed

\* The lock leaves its owner only after the data has arrived at the core
\* (LLCache.cpp:116), or is about to: then whoever evicts the line for the
\* next owner takes nothing from under this one.
LockHeldUntilArrival ==
  [][owner # None /\ owner' # owner => place[owner] \in {"to_core", "done"}]_vars
=============================================================================
