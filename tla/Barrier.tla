------------------------------ MODULE Barrier ------------------------------
(***************************************************************************)
(* Barrier instructions: how a core's issue window holds instructions back *)
(* at a barrier (IssueWindow in src/sim/tile/Core.cpp) and how the last    *)
(* core to arrive releases the others (Barrier::register_barrier in        *)
(* src/sim/sim.cpp).                                                       *)
(*                                                                         *)
(* All cores run one cycle, in any order and concurrently, before any runs *)
(* the next; a core goes through the loops of Core::process ("phase").     *)
(*                                                                         *)
(* Abstracted: dependences and latencies (an instruction that may issue    *)
(* issues at any time, and completes in any later cycle), the issue width, *)
(* and contexts (the instructions of a core are in its window from the     *)
(* start).  A partial barrier is the same code with a map of its own.      *)
(***************************************************************************)
EXTENDS Integers, FiniteSets

CONSTANTS
  Cores,
  Length,      \* instructions of each core, numbered from 1
  barriers,    \* the positions that are barriers, for each core
  early,       \* those that leave the window at issue, for each core
  window_size  \* -1 for an infinite window

Positions == 1 .. Length

ASSUME BarrierAssumption ==
  /\ IsFiniteSet(Cores)
  /\ Length \in Nat \ {0}
  /\ barriers \in [Cores -> SUBSET Positions]
  /\ early \in [Cores -> SUBSET Positions]
  /\ \A c \in Cores : barriers[c] \cap early[c] = {}
  /\ window_size \in (Nat \ {0}) \cup {-1}

VARIABLES
  phase,         \* the loop of Core::process each core is in
  window_start,  \* the oldest instruction in each window
  window_end,    \* the youngest that the window admits
  issued,
  completed,
  barrier_map,   \* the barrier each core has registered, 0 if none
  to_insert,     \* the barrier released for each core, 0 if none
  due            \* barriers in the pq of each core, with the cycles to go

vars == <<phase, window_start, window_end, issued, completed, barrier_map, to_insert, due>>

TypeOK ==
  /\ phase \in [Cores -> {"waiting", "issue", "complete", "done"}]
  /\ window_start \in [Cores -> 1 .. Length + 1]
  /\ window_end \in [Cores -> Nat]
  /\ issued \in [Cores -> SUBSET Positions]
  /\ completed \in [Cores -> SUBSET Positions]
  /\ \A c \in Cores : completed[c] \subseteq issued[c]
  /\ barrier_map \in [Cores -> 0 .. Length]
  /\ to_insert \in [Cores -> 0 .. Length]
  /\ due \in [Cores -> SUBSET (Positions \X {0, 1})]

Init ==
  /\ phase = [c \in Cores |-> "waiting"]
  /\ window_start = [c \in Cores |-> 1]
  /\ window_end = [c \in Cores |-> 1]
  /\ issued = [c \in Cores |-> {}]
  /\ completed = [c \in Cores |-> {}]
  /\ barrier_map = [c \in Cores |-> 0]
  /\ to_insert = [c \in Cores |-> 0]
  /\ due = [c \in Cores |-> {}]

Registered == {c \in Cores : barrier_map[c] # 0}

-----------------------------------------------------------------------------
(* The window.                                                             *)

Retirable(c, i) == i \in completed[c] \/ (i \in early[c] /\ i \in issued[c])

\* s is the oldest instruction that does not retire: the new window_start.
IsOldest(c, s) ==
  /\ \A i \in window_start[c] .. s - 1 : Retirable(c, i)
  /\ s = Length + 1 \/ ~Retirable(c, s)

\* (window_size + window_start) - 1, which the source computes in 64 bits from
\* positions that start at 0: an infinite window wraps when one instruction
\* has retired, and admits nothing afterwards.
EndOf(s) ==
  IF window_size # -1 THEN s + window_size - 1
  ELSE IF s = 2 THEN Length ELSE s - 2

InWindow(c, i) == window_size = -1 \/ (window_start[c] <= i /\ i <= window_end[c])

\* mutant: a barrier does not wait for the instructions before it
CanIssueMutant(c, i) ==
  /\ InWindow(c, i)
  /\ \A b \in barriers[c] : b < i => b \in completed[c]

\* No older barrier is left; and a barrier looks for older instructions that
\* are uncompleted in issueMap, up to window_end.
CanIssue(c, i) ==
  /\ InWindow(c, i)
  /\ \A b \in barriers[c] : b < i => b \in completed[c]
  /\ i \in barriers[c] =>
       \A j \in window_start[c] .. window_end[c] : j < i => j \in completed[c]

-----------------------------------------------------------------------------
(* Core::process.                                                          *)

\* IssueWindow::process, and the barrier that was released joins the pq: it
\* completes at once, because its extra latency takes back its latency.
Start(c) ==
  /\ phase[c] = "waiting"
  /\ phase' = [phase EXCEPT ![c] = "issue"]
  /\ \E s \in window_start[c] .. Length + 1 :
       /\ IsOldest(c, s)
       /\ window_start' = [window_start EXCEPT ![c] = s]
       /\ window_end' = [window_end EXCEPT ![c] = IF s = window_start[c] THEN @ ELSE EndOf(s)]
  /\ due' = [due EXCEPT ![c] =
       {<<d[1], 0>> : d \in @} \cup (IF to_insert[c] = 0 THEN {} ELSE {<<to_insert[c], 0>>})]
  /\ to_insert' = [to_insert EXCEPT ![c] = 0]
  /\ UNCHANGED <<issued, completed, barrier_map>>

Issues(c, i) ==
  /\ phase[c] = "issue"
  /\ i \in Positions \ issued[c]
  /\ CanIssue(c, i)
  /\ issued' = [issued EXCEPT ![c] = @ \cup {i}]

Issue(c, i) ==
  /\ i \notin barriers[c]
  /\ Issues(c, i)
  /\ UNCHANGED <<phase, window_start, window_end, completed, barrier_map, to_insert, due>>

\* mutant: counts itself among the others
IsLastMutant == Cardinality(Registered) = Cardinality(Cores)
IsLast == Cardinality(Registered) = Cardinality(Cores) - 1

\* register_barrier: wait for the others.
Register(c, i) ==
  /\ i \in barriers[c] /\ Issues(c, i)
  /\ c \notin Registered /\ ~IsLast
  /\ barrier_map' = [barrier_map EXCEPT ![c] = i]
  /\ UNCHANGED <<phase, window_start, window_end, completed, to_insert, due>>

\* mutant: releases the others with its own instruction
ReleaseOwnMutant(c, i) ==
  /\ i \in barriers[c] /\ Issues(c, i)
  /\ c \notin Registered /\ IsLast
  /\ to_insert' = [o \in Cores |-> IF o \in Registered THEN i ELSE to_insert[o]]
  /\ barrier_map' = [o \in Cores |-> 0]
  /\ due' = [due EXCEPT ![c] = @ \cup {<<i, 1>>}]
  /\ UNCHANGED <<phase, window_start, window_end, completed>>

\* mutant: leaves the others in the map
ReleaseKeepMutant(c, i) ==
  /\ i \in barriers[c] /\ Issues(c, i)
  /\ c \notin Registered /\ IsLast
  /\ to_insert' = [o \in Cores |-> IF o \in Registered THEN barrier_map[o] ELSE to_insert[o]]
  /\ due' = [due EXCEPT ![c] = @ \cup {<<i, 1>>}]
  /\ UNCHANGED <<phase, window_start, window_end, completed, barrier_map>>

\* register_barrier of the last core: release all others, and complete with
\* the latency of the instruction.
Release(c, i) ==
  /\ i \in barriers[c] /\ Issues(c, i)
  /\ c \notin Registered /\ IsLast
  /\ to_insert' = [o \in Cores |-> IF o \in Registered THEN barrier_map[o] ELSE to_insert[o]]
  /\ barrier_map' = [o \in Cores |-> 0]
  /\ due' = [due EXCEPT ![c] = @ \cup {<<i, 1>>}]
  /\ UNCHANGED <<phase, window_start, window_end, completed>>

\* The pq hands over what is due; Context::complete.
Complete(c) ==
  /\ phase[c] = "issue"
  /\ phase' = [phase EXCEPT ![c] = "complete"]
  /\ completed' = [completed EXCEPT ![c] = @ \cup {i \in Positions : <<i, 0>> \in due[c]}]
  /\ due' = [due EXCEPT ![c] = {d \in @ : d[2] = 1}]
  /\ UNCHANGED <<window_start, window_end, issued, barrier_map, to_insert>>

\* An instruction other than a barrier ends its latency.
CompleteOther(c, i) ==
  /\ phase[c] = "complete"
  /\ i \in issued[c] \ (completed[c] \cup barriers[c])
  /\ completed' = [completed EXCEPT ![c] = @ \cup {i}]
  /\ UNCHANGED <<phase, window_start, window_end, issued, barrier_map, to_insert, due>>

Stop(c) ==
  /\ phase[c] = "complete"
  /\ phase' = [phase EXCEPT ![c] = "done"]
  /\ UNCHANGED <<window_start, window_end, issued, completed, barrier_map, to_insert, due>>

\* The end of the cycle, when all threads have come to the OpenMP barrier.
NextCycle ==
  /\ \A c \in Cores : phase[c] = "done"
  /\ phase' = [c \in Cores |-> "waiting"]
  /\ UNCHANGED <<window_start, window_end, issued, completed, barrier_map, to_insert, due>>

-----------------------------------------------------------------------------
CoreStep(c) ==
  \/ Start(c) \/ Complete(c) \/ Stop(c)
  \/ \E i \in Positions : Issue(c, i) \/ Register(c, i) \/ Release(c, i) \/ CompleteOther(c, i)

Next == NextCycle \/ \E c \in Cores : CoreStep(c)

Spec == Init /\ [][Next]_vars

\* The cycles go on, and each loop of a core ends.  An instruction that may
\* issue in every cycle issues in the end, and one that has issued completes;
\* each does so once, so fairness of all of a core's instructions together is
\* fairness of each.
Fairness ==
  /\ WF_vars(NextCycle)
  /\ \A c \in Cores :
       /\ WF_vars(Start(c) \/ Complete(c) \/ Stop(c))
       /\ SF_vars(\E i \in Positions : Issue(c, i) \/ Register(c, i) \/ Release(c, i))
       /\ SF_vars(\E i \in Positions : CompleteOther(c, i))

FairSpec == Spec /\ Fairness

-----------------------------------------------------------------------------
(* Properties.                                                             *)

\* The number of the barrier at position b of core c.
NumberOf(c, b) == Cardinality({a \in barriers[c] : a <= b})

\* When a core has passed its k-th barrier, every core has completed all that
\* precedes its own k-th barrier (Core.cpp:54, sim.cpp:26).
BarrierSync ==
  \A c, o \in Cores : \A b \in barriers[c] \cap completed[c] :
    \A a \in barriers[o] : NumberOf(o, a) = NumberOf(c, b) => 1 .. a - 1 \subseteq completed[o]

\* A barrier that has issued and not completed is the only one of its core,
\* and is in exactly one place: in the map, in the one slot its context has for
\* it (sim.cpp:36), or in the pq.
NoBarrierLost ==
  \A c \in Cores :
    LET pending == (barriers[c] \cap issued[c]) \ completed[c]
    IN  /\ pending = {d[1] : d \in due[c]} \cup ({barrier_map[c], to_insert[c]} \ {0})
        /\ \A a, b \in pending : a = b
        /\ \A d, e \in due[c] : d = e
        /\ barrier_map[c] # 0 => to_insert[c] = 0 /\ due[c] = {}
        /\ to_insert[c] # 0 => due[c] = {}

\* Every instruction of every core completes.
EventuallyDone == <>(\A c \in Cores : completed[c] = Positions)
=============================================================================
