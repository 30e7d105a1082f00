-------------------------- MODULE CacheLockProofs --------------------------
(***************************************************************************)
(* Proofs about CacheLock, for any cores and instructions.                 *)
(*                                                                         *)
(* The queue and the owner are sound because an atomic asks once: whoever  *)
(* is in the queue has its flag and stays at the LLC until it owns the     *)
(* lock, so an owner has the LLC in front of it or behind it, and never a  *)
(* private cache still to go through.                                      *)
(***************************************************************************)
EXTENDS CacheLock, SequenceTheorems, TLAPS

\* Where an access may be that has come to the LLC.
Beyond == {"LLC", "mem", "fillL2", "fillL1", "to_core", "done"}

\* Whoever waits has asked, and so has the owner, who has reached the LLC.
AskedInv ==
  /\ \A i \in DOMAIN waiters : waiters[i] \in requested
  /\ owner # None => owner \in requested /\ place[owner] \in Beyond

\* The counter of the owner is there while it is at the LLC, or its prefetch has
\* come to the LLC; and prefetches carry the node of an instruction that may
\* prefetch.
CounterInv ==
  /\ AcksPresent
  /\ \A n \in Nodes : prefetch[n] # "none" => n \in Prefetching

IInv == TypeOK /\ QueueSound /\ AskedInv /\ OwnerAlive /\ CounterInv

----------------------------------------------------------------------------
LEMMA InitInv == Init => IInv
BY LockAssumption
   DEF Init, IInv, CounterInv, AcksPresent, Crashed, TypeOK, QueueSound, AskedInv, OwnerAlive, AtLLC, Nodes, Places, IsInjective

\* A step that moves one access, none of them away from the LLC or into the
\* core for good, and leaves the lock alone, keeps the invariant.
LEMMA MoveKeeps ==
  ASSUME IInv, Running, place' \in [Nodes -> Places],
         \A n \in Nodes : place'[n] # place[n] =>
            place[n] # "LLC" /\ (place[n] \in Beyond => place'[n] \in Beyond \ {"LLC"})
            /\ (place'[n] = "LLC" => place[n] = "L2") /\ (place'[n] = "done" => n \in Loads \/ n \in toRelease'),
         UNCHANGED lock,
         prefetch' \in [Nodes -> {"none", "L1", "LLC", "done"}],
         \A n \in Nodes : prefetch'[n] # "none" => prefetch[n] # "none" \/ n \in Prefetching,
         \A n \in Nodes : place[n] # "new" /\ prefetch[n] \in {"LLC", "done"} => prefetch'[n] \in {"LLC", "done"},
         inL1' \subseteq Cores, inL2' \subseteq Cores,
         toRelease \subseteq toRelease', toRelease' \subseteq Atomics
  PROVE  IInv'
<1>1. TypeOK'
  BY DEF IInv, TypeOK, Running, lock
<1>2. QueueSound'
  BY LockAssumption DEF IInv, TypeOK, QueueSound, AtLLC, lock, Nodes, IsInjective
<1>3. AskedInv'
  BY LockAssumption DEF IInv, TypeOK, AskedInv, lock, Nodes, Beyond
<1>4. OwnerAlive'
  BY LockAssumption DEF IInv, TypeOK, AskedInv, OwnerAlive, lock, Nodes, Beyond
<1>5. CounterInv'
  BY LockAssumption DEF IInv, TypeOK, AskedInv, CounterInv, AcksPresent, Crashed, Running, AtLLC, lock, Nodes, Beyond
<1> QED BY <1>1, <1>2, <1>3, <1>4, <1>5 DEF IInv

\* The steps in the private caches, at the memory and at the core.
LEMMA PrivateKeeps ==
  ASSUME IInv, NEW n \in Nodes,
         Access(n) \/ PrefetchMiss(n) \/ PrivateStep(n)
  PROVE  IInv'
<1>1. CASE Access(n)
  BY <1>1, MoveKeeps DEF IInv, TypeOK, Running, Access, Move, caches, lock, Places, Beyond
<1>2. CASE PrefetchMiss(n)
  BY <1>2, MoveKeeps DEF IInv, TypeOK, PrefetchMiss, caches, lock
<1>3. CASE L1Hit(n) \/ L1Miss(n)
  BY <1>3, MoveKeeps DEF IInv, TypeOK, L1Hit, L1Miss, Move, caches, lock, Places, Beyond
<1>4. CASE L1Send(n) \/ L1Merge(n)
  BY <1>4, MoveKeeps DEF IInv, TypeOK, L1Send, L1Merge, Move, caches, lock, Places, Beyond
<1>5. CASE L2Hit(n) \/ L2Miss(n)
  BY <1>5, MoveKeeps DEF IInv, TypeOK, L2Hit, L2Miss, Move, caches, lock, Places, Beyond
<1>6. CASE MemoryReturn(n)
  BY <1>6, MoveKeeps DEF IInv, TypeOK, MemoryReturn, Move, caches, lock, Places, Beyond
<1>7. CASE FillL2(n)
  BY <1>7, LockAssumption, MoveKeeps DEF IInv, TypeOK, FillL2, Move, lock, Places, Beyond
<1>8. CASE FillL1(n)
  BY <1>8, LockAssumption, MoveKeeps DEF IInv, TypeOK, FillL1, lock, Places, Beyond
<1>9. CASE Return(n)
  <2>1. toRelease \subseteq toRelease' /\ toRelease' \subseteq Atomics /\ (n \in Loads \/ n \in toRelease')
    BY <1>9 DEF IInv, TypeOK, Return, Nodes
  <2> QED BY <1>9, <2>1, MoveKeeps DEF IInv, TypeOK, Return, Move, caches, lock, Places, Beyond
<1> QED BY <1>1, <1>2, <1>3, <1>4, <1>5, <1>6, <1>7, <1>8, <1>9 DEF PrivateStep

\* Another line takes the place of this one, or an eviction arrives.
LEMMA EvictKeeps ==
  ASSUME IInv, Replace \/ \E c \in Cores : EvictL1(c) \/ EvictL2(c)
  PROVE  IInv'
<1>1. CASE Replace
  BY <1>1, MoveKeeps DEF IInv, TypeOK, Replace, lock
<1>2. ASSUME NEW c \in Cores, EvictL1(c) \/ EvictL2(c)
      PROVE  IInv'
  <2>1. TypeOK'
    BY <1>2 DEF IInv, TypeOK, Running, EvictL1, EvictL2
  <2>2. QueueSound' /\ AskedInv' /\ OwnerAlive'
    BY <1>2 DEF IInv, QueueSound, AskedInv, OwnerAlive, EvictL1, EvictL2, AtLLC
  <2>3. acks # None => acks' # None
    BY <1>2, LockAssumption DEF IInv, TypeOK, Running, EvictL1, EvictL2
  <2>4. CounterInv'
    BY <1>2, <2>3 DEF IInv, CounterInv, AcksPresent, Crashed, Running, EvictL1, EvictL2, AtLLC
  <2> QED BY <2>1, <2>2, <2>4 DEF IInv
<1> QED BY <1>1, <1>2

\* An owner that is served leaves the LLC, and a load or a prefetch goes by.
LEMMA ExecuteKeeps ==
  ASSUME IInv, NEW n \in Nodes, ExecuteOwner(n) \/ ExecuteLoad(n) \/ ExecutePrefetch(n)
  PROVE  IInv'
<1>1. CASE ExecuteOwner(n)
  <2>1. /\ place[n] = "LLC" /\ owner = n /\ place' \in [Nodes -> Places]
        /\ place'[n] \in {"mem", "fillL2"} /\ \A m \in Nodes \ {n} : place'[m] = place[m]
    BY <1>1 DEF IInv, TypeOK, ExecuteOwner, Serve, Move, AtLLC, Places
  <2>2. TypeOK'
    BY <1>1, <2>1 DEF IInv, TypeOK, Running, ExecuteOwner, caches
  <2>3. QueueSound'
    BY <1>1, <2>1 DEF IInv, TypeOK, QueueSound, ExecuteOwner, AtLLC, Nodes
  <2>4. AskedInv' /\ OwnerAlive'
    BY <1>1, <2>1 DEF IInv, AskedInv, OwnerAlive, ExecuteOwner, Beyond
  <2>5. CounterInv'
    BY <1>1, <2>1 DEF IInv, CounterInv, AcksPresent, Crashed, Running, ExecuteOwner, AtLLC
  <2> QED BY <2>2, <2>3, <2>4, <2>5 DEF IInv
<1>2. CASE ExecuteLoad(n)
  <2>1. owner = None /\ waiters = <<>> /\ place' \in [Nodes -> Places]
    BY <1>2 DEF IInv, TypeOK, QueueSound, ExecuteLoad, Serve, Move, Places
  <2>2. TypeOK' /\ QueueSound' /\ AskedInv' /\ OwnerAlive'
    BY <1>2, <2>1 DEF IInv, TypeOK, QueueSound, AskedInv, OwnerAlive, Running, ExecuteLoad, lock, caches
  <2>3. CounterInv'
    BY <1>2, <2>1, LockAssumption DEF IInv, CounterInv, AcksPresent, Crashed, Running, ExecuteLoad, lock
  <2> QED BY <2>2, <2>3 DEF IInv
<1>3. CASE ExecutePrefetch(n)
  <2>1. TypeOK'
    BY <1>3 DEF IInv, TypeOK, Running, ExecutePrefetch, caches
  <2>2. QueueSound' /\ AskedInv' /\ OwnerAlive'
    BY <1>3 DEF IInv, QueueSound, AskedInv, OwnerAlive, ExecutePrefetch, AtLLC
  <2>3. CounterInv'
    <3>1. prefetch'[n] = "done" /\ \A m \in Nodes \ {n} : prefetch'[m] = prefetch[m]
      BY <1>3 DEF IInv, TypeOK, ExecutePrefetch
    <3>2. owner = n \/ acks' = acks
      BY <1>3 DEF ExecutePrefetch
    <3> QED BY <1>3, <3>1, <3>2 DEF IInv, CounterInv, AcksPresent, Crashed, Running, ExecutePrefetch, AtLLC
  <2> QED BY <2>1, <2>2, <2>3 DEF IInv
<1> QED BY <1>1, <1>2, <1>3

\* The head of the queue becomes the owner with a counter of its own.
LEMMA LockKeeps ==
  ASSUME IInv, NEW n \in Nodes, Release(n) \/ RequestLock(n) \/ AcquireLock(n)
  PROVE  IInv'
<1>1. CASE Release(n)
  <2>0. status = "running" /\ status' = status
    BY <1>1 DEF Release, Running
  <2>1. CASE waiters # <<>>
    <3> DEFINE h == Head(waiters)
               t == Tail(waiters)
    <3>1. h = waiters[1] /\ 1 \in DOMAIN waiters /\ waiters \in Seq(Atomics)
      BY <2>1, EmptySeq DEF IInv, TypeOK
    <3>2. /\ h \in Atomics /\ AtLLC(h) /\ h \in requested
      BY <3>1 DEF IInv, QueueSound, AskedInv
    <3>3. /\ t \in Seq(Atomics)
          /\ \A i \in DOMAIN t : i + 1 \in DOMAIN waiters /\ i # 0 /\ t[i] = waiters[i + 1]
          /\ DOMAIN t \subseteq Nat
      BY <2>1, <3>1
    <3>4. /\ owner' = h /\ waiters' = t /\ acks' = {} /\ toL1' = Cores /\ toL2' = {}
          /\ toRelease' \subseteq toRelease
          /\ UNCHANGED <<place, prefetch, inL1, inL2, requested>>
      BY <1>1, <2>1 DEF Release, HandOver, Grant, caches
    <3>5. TypeOK'
      BY <2>0, <3>2, <3>3, <3>4, LockAssumption DEF IInv, TypeOK
    <3>6. \A i \in DOMAIN t : AtLLC(t[i]) /\ t[i] \in requested /\ t[i] # h
      BY <3>1, <3>3 DEF IInv, QueueSound, AskedInv, IsInjective
    <3>7. IsInjective(t)
      BY <3>3 DEF IInv, QueueSound, IsInjective
    <3>8. QueueSound' /\ AskedInv' /\ OwnerAlive'
      <4>1. h # None
        BY <3>2, LockAssumption DEF Nodes
      <4>2. place[h] = "LLC"
        BY <3>2 DEF AtLLC
      <4>3. QueueSound'
        BY <3>4, <3>6, <3>7, <4>1 DEF QueueSound, AtLLC
      <4>4. AskedInv' /\ OwnerAlive'
        BY <3>2, <3>4, <3>6, <4>2 DEF AskedInv, OwnerAlive, Beyond
      <4> QED BY <4>3, <4>4
    <3>9. CounterInv'
      BY <2>0, <3>4, LockAssumption DEF IInv, CounterInv, AcksPresent, Crashed, Running, AtLLC
    <3> QED BY <3>5, <3>8, <3>9 DEF IInv
  <2>2. CASE waiters = <<>>
    <3>1. /\ owner' = None /\ toRelease' \subseteq toRelease
          /\ UNCHANGED <<waiters, acks, toL1, toL2, place, prefetch, inL1, inL2, requested>>
      BY <1>1, <2>2 DEF Release, caches
    <3>2. TypeOK'
      BY <2>0, <3>1 DEF IInv, TypeOK
    <3>3. QueueSound' /\ AskedInv' /\ OwnerAlive'
      BY <2>2, <3>1 DEF IInv, QueueSound, AskedInv, OwnerAlive
    <3>4. CounterInv'
      BY <2>0, <3>1, LockAssumption DEF IInv, CounterInv, AcksPresent, Crashed, Running
    <3> QED BY <3>2, <3>3, <3>4 DEF IInv
  <2> QED BY <2>1, <2>2
<1>2. CASE RequestLock(n)
  <2>1. /\ n \in Atomics /\ n \notin requested /\ AtLLC(n) /\ owner # n /\ owner # None
        /\ waiters' = Append(waiters, n) /\ requested' = requested \cup {n}
        /\ UNCHANGED <<place, prefetch, inL1, inL2, owner, acks, toL1, toL2, toRelease, status>>
        /\ status = "running"
    BY <1>2 DEF RequestLock, Running, caches
  <2>2. waiters \in Seq(Atomics) /\ waiters' \in Seq(Atomics)
    BY <2>1 DEF IInv, TypeOK
  <2>3. \A i \in DOMAIN waiters' :
           \/ i \in DOMAIN waiters /\ waiters'[i] = waiters[i]
           \/ i = Len(waiters) + 1 /\ waiters'[i] = n
    BY <2>1, <2>2
  <2>4. TypeOK'
    BY <2>1, <2>2 DEF IInv, TypeOK
  <2>5. \A i \in DOMAIN waiters : waiters[i] # n
    BY <2>1 DEF IInv, AskedInv
  <2>6. QueueSound'
    <3>1. IsInjective(waiters')
      BY <2>3, <2>5 DEF IInv, QueueSound, IsInjective
    <3>2. \A i \in DOMAIN waiters' : place'[waiters'[i]] = "LLC" /\ waiters'[i] # owner'
      BY <2>1, <2>3 DEF IInv, QueueSound, AtLLC
    <3> QED BY <2>1, <3>1, <3>2 DEF QueueSound, AtLLC
  <2>7. AskedInv' /\ OwnerAlive'
    BY <2>1, <2>3 DEF IInv, AskedInv, OwnerAlive
  <2>8. CounterInv'
    BY <2>1 DEF IInv, CounterInv, AcksPresent, Crashed, Running, AtLLC
  <2> QED BY <2>4, <2>6, <2>7, <2>8 DEF IInv
<1>3. CASE AcquireLock(n)
  <2>1. /\ n \in Atomics /\ AtLLC(n) /\ owner = None /\ owner' = n
        /\ acks' = {} /\ toL1' = Cores /\ toL2' = {} /\ requested' = requested \cup {n}
        /\ UNCHANGED <<place, prefetch, inL1, inL2, waiters, toRelease, status>>
        /\ status = "running"
    BY <1>3 DEF AcquireLock, Grant, Running, caches
  <2>2. waiters = <<>> /\ \A i \in DOMAIN waiters : FALSE
    BY <2>1 DEF IInv, QueueSound
  <2>3. TypeOK'
    BY <2>1, LockAssumption DEF IInv, TypeOK
  <2>4. QueueSound' /\ AskedInv' /\ OwnerAlive'
    BY <2>1, <2>2 DEF IInv, QueueSound, AskedInv, OwnerAlive, AtLLC, Beyond
  <2>5. CounterInv'
    BY <2>1, LockAssumption DEF IInv, CounterInv, AcksPresent, Crashed, Running, AtLLC
  <2> QED BY <2>3, <2>4, <2>5 DEF IInv
<1> QED BY <1>1, <1>2, <1>3

\* The pointer of an erased counter is read for an owner with a prefetch.
LEMMA CrashKeeps ==
  ASSUME IInv, NEW n \in Nodes, Crash(n)
  PROVE  IInv'
<1>1. /\ UNCHANGED <<place, prefetch, inL1, inL2, owner, waiters, requested, acks, toL1, toL2, toRelease>>
      /\ status' = "crashed"
  BY DEF Crash, caches, lock
<1>2. TypeOK'
  BY <1>1 DEF IInv, TypeOK
<1>3. QueueSound' /\ AskedInv' /\ OwnerAlive'
  BY <1>1 DEF IInv, QueueSound, AskedInv, OwnerAlive, AtLLC
<1>4. CounterInv'
  <2>1. owner = n /\ prefetch[n] \in {"LLC", "done"}
    BY DEF IInv, CounterInv, AcksPresent, Crashed, Crash
  <2>2. n \in Atomics \cap Prefetching
    BY <2>1, LockAssumption DEF IInv, TypeOK, CounterInv, Nodes
  <2> QED BY <1>1, <2>1, <2>2 DEF IInv, CounterInv, AcksPresent, Crashed, AtLLC
<1> QED BY <1>2, <1>3, <1>4 DEF IInv

\* Every step.
LEMMA StepKeeps ==
  ASSUME IInv, [Next]_vars
  PROVE  IInv'
<1>1. ASSUME NEW n \in Nodes, Access(n) \/ PrivateStep(n) \/ LLCStep(n) \/ PrefetchMiss(n) \/ ExecutePrefetch(n)
      PROVE  IInv'
  <2>1. CASE Access(n) \/ PrefetchMiss(n) \/ PrivateStep(n)
    BY <2>1, PrivateKeeps
  <2>2. CASE ExecuteOwner(n) \/ ExecuteLoad(n) \/ ExecutePrefetch(n)
    BY <2>2, ExecuteKeeps
  <2>3. CASE Release(n) \/ RequestLock(n) \/ AcquireLock(n)
    BY <2>3, LockKeeps
  <2>4. CASE Crash(n)
    BY <2>4, CrashKeeps
  <2> QED BY <1>1, <2>1, <2>2, <2>3, <2>4 DEF LLCStep
<1>2. CASE Replace \/ \E c \in Cores : EvictL1(c) \/ EvictL2(c)
  BY <1>2, EvictKeeps
<1>3. CASE UNCHANGED vars
  <2>1. UNCHANGED <<place, prefetch, inL1, inL2, owner, waiters, requested, acks, toL1, toL2, toRelease, status>>
    BY <1>3 DEF vars
  <2>2. TypeOK'
    BY <2>1 DEF IInv, TypeOK
  <2>3. QueueSound' /\ AskedInv' /\ OwnerAlive'
    BY <2>1 DEF IInv, QueueSound, AskedInv, OwnerAlive, AtLLC
  <2>4. CounterInv'
    BY <2>1 DEF IInv, CounterInv, AcksPresent, Crashed, AtLLC
  <2> QED BY <2>2, <2>3, <2>4 DEF IInv
<1> QED BY <1>1, <1>2, <1>3 DEF Next, Finished

\* The strengthening of the lock's invariants that every step of every cache keeps.
THEOREM Invariance == Spec => []IInv
<1>1. Init => IInv
  BY InitInv
<1>2. IInv /\ [Next]_vars => IInv'
  BY StepKeeps
<1> QED BY <1>1, <1>2, PTL DEF Spec

\* The queue of a locked line is sound: whoever waits is at the LLC, once, and
\* somebody owns the lock, whichever caches the atomics hit (releaseLock and
\* lockCacheline, LLCache.cpp:18-57).
THEOREM QueueStaysSound == Spec => []QueueSound
<1>1. IInv => QueueSound
  BY DEF IInv
<1> QED BY <1>1, Invariance, PTL

\* The lock never belongs to an instruction that has completed and released,
\* though releaseLock takes it from owners that are not the caller.
THEOREM OwnerStaysAlive == Spec => []OwnerAlive
<1>1. IInv => OwnerAlive
  BY DEF IInv
<1> QED BY <1>1, Invariance, PTL

\* Map, queue and counter agree whoever prefetches: an owner at the LLC finds
\* its counter (LLCache.cpp:227) unless its own prefetch took it, and the
\* pointer of an erased counter is read for no other.
THEOREM LockIsSound == Spec => []LockSound
<1>1. IInv => LockSound
  BY DEF IInv, CounterInv, LockSound
<1> QED BY <1>1, Invariance, PTL

\* Where no atomic spurs a prefetch, the LLC never reads an erased counter.
COROLLARY NeverCrashes == (Atomics \cap Prefetching = {}) => (Spec => []~Crashed)
<1> SUFFICES ASSUME Atomics \cap Prefetching = {} PROVE Spec => []~Crashed
  OBVIOUS
<1>1. LockSound => ~Crashed
  BY DEF LockSound, AcksPresent, Crashed
<1> QED BY <1>1, LockIsSound, PTL
=============================================================================
