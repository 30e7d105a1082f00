--------------------------- MODULE BarrierProofs ---------------------------
(***************************************************************************)
(* Proofs about Barrier, for any cores, programs and window sizes.         *)
(*                                                                         *)
(* The cores pass their barriers in rounds: those that wait in the map are *)
(* one barrier ahead of those that do not, because the map is only emptied *)
(* when all others are in it.  Since a barrier issues only when all before *)
(* it has completed, the barriers that a core has issued tell what it has  *)
(* completed.                                                              *)
(***************************************************************************)
EXTENDS Barrier, FiniteSetTheorems, TLAPS

Passed(c) == barriers[c] \cap issued[c]

\* An instruction issues only when all older barriers have completed.
OrderInv ==
  \A c \in Cores : \A b \in barriers[c] : \A i \in issued[c] : b < i => b \in completed[c]

\* The cores in the map have issued one barrier more than the others.
RoundInv ==
  \E k \in Nat : \A c \in Cores :
    Cardinality(Passed(c)) = IF barrier_map[c] # 0 THEN k + 1 ELSE k

\* What is before the window has retired.
RetiredInv ==
  \A c \in Cores : \A i \in Positions : i < window_start[c] => Retirable(c, i)

IInv == TypeOK /\ NoBarrierLost /\ OrderInv /\ RoundInv /\ RetiredInv

\* All before a barrier that has issued has completed.
DrainedInv ==
  \A c \in Cores : \A b \in Passed(c) : \A i \in Positions : i < b => i \in completed[c]

\* The window has a size, and an instruction that leaves it at issue stands
\* before no barrier.
WaitsForAll ==
  /\ window_size # -1
  /\ \A c \in Cores : \A i \in early[c] : \A b \in barriers[c] : b < i

-----------------------------------------------------------------------------
LEMMA PositionsFinite == IsFiniteSet(Positions)
BY BarrierAssumption, FS_Interval DEF Positions

LEMMA PassedFinite ==
  ASSUME NEW c \in Cores
  PROVE  IsFiniteSet(Passed(c)) /\ Cardinality(Passed(c)) \in Nat
<1>1. Passed(c) \in SUBSET Positions
  BY BarrierAssumption DEF Passed
<1> QED BY <1>1, PositionsFinite, FS_Subset, FS_CardinalityType

\* When one core is not registered and IsLast holds, all others are.
LEMMA LastMeansAll ==
  ASSUME IsLast, NEW c \in Cores, c \notin Registered, NEW o \in Cores, o # c
  PROVE  o \in Registered
<1>1. IsFiniteSet(Cores) /\ Registered \subseteq Cores
  BY BarrierAssumption DEF Registered
<1>2. /\ IsFiniteSet(Cores \ {c})
      /\ Cardinality(Cores \ {c}) = Cardinality(Cores) - 1
  BY <1>1, FS_RemoveElement
<1>3. Registered \in SUBSET (Cores \ {c})
  BY <1>1
<1>4. Cardinality(Registered) = Cardinality(Cores \ {c})
  BY <1>2 DEF IsLast
<1> QED BY <1>2, <1>3, <1>4, FS_Subset

-----------------------------------------------------------------------------
LEMMA InitIInv == Init => IInv
<1> SUFFICES ASSUME Init PROVE IInv
  OBVIOUS
<1>1. TypeOK
  BY BarrierAssumption DEF Init, TypeOK, Positions
<1>2. NoBarrierLost
  BY DEF Init, NoBarrierLost
<1>3. OrderInv /\ RetiredInv
  BY BarrierAssumption DEF Init, OrderInv, RetiredInv, Positions
<1>4. RoundInv
  <2>1. \A c \in Cores : Passed(c) = {} /\ barrier_map[c] = 0
    BY DEF Init, Passed
  <2>2. \A c \in Cores : Cardinality(Passed(c)) = 0
    BY <2>1, FS_EmptySet
  <2> QED BY <2>1, <2>2 DEF RoundInv
<1> QED BY <1>1, <1>2, <1>3, <1>4 DEF IInv

\* A step that issues nothing and leaves the map alone keeps the round.
LEMMA SameRound ==
  ASSUME RoundInv, UNCHANGED <<issued, barrier_map>>
  PROVE  RoundInv'
BY DEF RoundInv, Passed

\* What the issue of an instruction means for the order and the window.
LEMMA IssuesOrder ==
  ASSUME IInv, NEW c \in Cores, NEW i \in Positions, Issues(c, i),
         UNCHANGED <<phase, window_start, window_end, completed>>
  PROVE  OrderInv' /\ RetiredInv'
<1>1. issued' = [issued EXCEPT ![c] = @ \cup {i}] /\ issued \in [Cores -> SUBSET Positions]
  BY DEF Issues, IInv, TypeOK
<1>2. OrderInv'
  BY <1>1 DEF OrderInv, IInv, Issues, CanIssue
<1>3. RetiredInv'
  BY <1>1 DEF RetiredInv, IInv, Retirable
<1> QED BY <1>2, <1>3

LEMMA StartInv ==
  ASSUME IInv, NEW c \in Cores, Start(c)
  PROVE  IInv'
<1> USE DEF IInv
<1>0. PICK s \in window_start[c] .. Length + 1 :
        /\ IsOldest(c, s)
        /\ window_start' = [window_start EXCEPT ![c] = s]
        /\ window_end' = [window_end EXCEPT ![c] = IF s = window_start[c] THEN @ ELSE EndOf(s)]
  BY DEF Start
<1>1. TypeOK'
  <2>1. s \in 1 .. Length + 1 /\ window_start[c] \in 1 .. Length + 1
    BY BarrierAssumption DEF TypeOK
  <2>2. s # window_start[c] => EndOf(s) \in Nat
    BY <2>1, BarrierAssumption DEF EndOf
  <2>3. window_start' \in [Cores -> 1 .. Length + 1] /\ window_end' \in [Cores -> Nat]
    BY <1>0, <2>1, <2>2 DEF TypeOK
  <2>4. due' \in [Cores -> SUBSET (Positions \X {0, 1})]
    BY DEF Start, TypeOK, Positions
  <2>5. phase' \in [Cores -> {"waiting", "issue", "complete", "done"}]
        /\ to_insert' \in [Cores -> 0 .. Length]
    BY BarrierAssumption DEF Start, TypeOK
  <2>6. UNCHANGED <<issued, completed, barrier_map>>
    BY DEF Start
  <2> QED BY <2>3, <2>4, <2>5, <2>6 DEF TypeOK
<1>2. NoBarrierLost'
  <2>1. /\ due' = [due EXCEPT ![c] = {<<d[1], 0>> : d \in due[c]}
                     \cup (IF to_insert[c] = 0 THEN {} ELSE {<<to_insert[c], 0>>})]
        /\ to_insert' = [to_insert EXCEPT ![c] = 0]
        /\ UNCHANGED <<issued, completed, barrier_map>>
    BY DEF Start
  <2>2. ASSUME NEW o \in Cores, o # c
        PROVE  due'[o] = due[o] /\ to_insert'[o] = to_insert[o]
    BY <2>1, <2>2 DEF TypeOK
  <2>3. to_insert'[c] = 0
    BY <2>1 DEF TypeOK
  <2>4. CASE to_insert[c] = 0
    <3>1. due'[c] = {<<d[1], 0>> : d \in due[c]}
      BY <2>1, <2>4 DEF TypeOK
    <3>2. {d[1] : d \in due'[c]} = {d[1] : d \in due[c]}
      <4>1. \A d \in due[c] : <<d[1], 0>> \in due'[c] /\ <<d[1], 0>>[1] = d[1]
        BY <3>1
      <4>2. \A e \in due'[c] : \E d \in due[c] : e[1] = d[1]
        BY <3>1
      <4>3. \A d \in due[c] : \E e \in due'[c] : e[1] = d[1]
        BY <4>1
      <4> QED BY <4>2, <4>3
    <3>3. due[c] = {} => due'[c] = {}
      BY <3>1
    <3>4. \A d, e \in due[c] : d = e
      BY DEF NoBarrierLost
    <3>5. \A d, e \in due'[c] : d = e
      BY <3>1, <3>4
    <3> QED BY <2>1, <2>2, <2>3, <2>4, <3>2, <3>3, <3>5 DEF NoBarrierLost
  <2>5. CASE to_insert[c] # 0
    <3>1. due[c] = {} /\ barrier_map[c] = 0
      BY <2>5 DEF NoBarrierLost
    <3>2. due'[c] = {<<to_insert[c], 0>>}
      BY <2>1, <2>5, <3>1 DEF TypeOK
    <3>3. {d[1] : d \in due'[c]} = {to_insert[c]} /\ {d[1] : d \in due[c]} = {}
      BY <3>1, <3>2
    <3> QED BY <2>1, <2>2, <2>3, <2>5, <3>1, <3>2, <3>3 DEF NoBarrierLost
  <2> QED BY <2>4, <2>5
<1>3. OrderInv' /\ RoundInv'
  BY SameRound DEF Start, OrderInv
<1>4. RetiredInv'
  BY <1>0 DEF Start, RetiredInv, IsOldest, Retirable, TypeOK, Positions
<1> QED BY <1>1, <1>2, <1>3, <1>4

LEMMA IssueInv ==
  ASSUME IInv, NEW c \in Cores, NEW i \in Positions, Issue(c, i)
  PROVE  IInv'
<1> USE DEF IInv
<1>1. issued' = [issued EXCEPT ![c] = @ \cup {i}] /\ i \notin barriers[c]
  BY DEF Issue, Issues
<1>2. TypeOK'
  BY <1>1 DEF Issue, TypeOK
<1>3. \A o \in Cores : Passed(o)' = Passed(o)
  BY <1>1 DEF Passed, TypeOK
<1>4. NoBarrierLost'
  BY <1>1 DEF Issue, NoBarrierLost, TypeOK
<1>5. RoundInv'
  BY <1>3 DEF Issue, RoundInv
<1> QED BY <1>2, <1>4, <1>5, IssuesOrder DEF Issue

\* The barrier that issues is the only one of its core that is under way.
LEMMA NonePending ==
  ASSUME IInv, NEW c \in Cores, NEW i \in Positions, i \in barriers[c], Issues(c, i),
         c \notin Registered
  PROVE  /\ (barriers[c] \cap issued[c]) \ completed[c] = {}
         /\ due[c] = {} /\ to_insert[c] = 0 /\ barrier_map[c] = 0
<1>1. ASSUME NEW b \in (barriers[c] \cap issued[c]) \ completed[c] PROVE FALSE
  <2>1. b \in Int /\ i \in Int /\ b # i
    BY BarrierAssumption DEF Positions, Issues
  <2>2. ~(b < i)
    BY <1>1 DEF Issues, CanIssue
  <2>3. i \in completed[c]
    BY <1>1, <2>1, <2>2 DEF IInv, OrderInv
  <2> QED BY <2>3 DEF Issues, IInv, TypeOK
<1>2. (barriers[c] \cap issued[c]) \ completed[c] = {}
  BY <1>1
<1>3. due[c] = {} /\ to_insert[c] = 0
  BY <1>2 DEF IInv, NoBarrierLost
<1> QED BY <1>2, <1>3 DEF Registered

\* The barriers that core c has issued grow by one.
LEMMA OneMore ==
  ASSUME IInv, NEW c \in Cores, NEW i \in Positions, i \in barriers[c], Issues(c, i)
  PROVE  /\ Cardinality(Passed(c)') = Cardinality(Passed(c)) + 1
         /\ \A o \in Cores \ {c} : Passed(o)' = Passed(o)
<1>1. issued' = [issued EXCEPT ![c] = @ \cup {i}] /\ issued \in [Cores -> SUBSET Positions]
      /\ i \notin issued[c]
  BY DEF IInv, TypeOK, Issues
<1>2. Passed(c)' = Passed(c) \cup {i} /\ i \notin Passed(c)
  BY <1>1 DEF Passed
<1> QED BY <1>1, <1>2, PassedFinite, FS_AddElement DEF Passed

LEMMA RegisterInv ==
  ASSUME IInv, NEW c \in Cores, NEW i \in Positions, Register(c, i)
  PROVE  IInv'
<1> USE DEF IInv
<1>1. /\ issued' = [issued EXCEPT ![c] = @ \cup {i}] /\ i \in barriers[c]
      /\ barrier_map' = [barrier_map EXCEPT ![c] = i]
      /\ i # 0 /\ c \notin Registered /\ Issues(c, i)
      /\ i \notin issued[c]
  BY DEF Register, Issues, Positions
<1>2. TypeOK'
  BY <1>1 DEF Register, TypeOK, Positions
<1>3. NoBarrierLost'
  <2>1. i \notin completed[c]
    BY <1>1 DEF TypeOK
  <2> QED BY <1>1, <2>1, NonePending DEF Register, NoBarrierLost, TypeOK
<1>4. RoundInv'
  <2>1. PICK k \in Nat : \A o \in Cores :
          Cardinality(Passed(o)) = IF barrier_map[o] # 0 THEN k + 1 ELSE k
    BY DEF RoundInv
  <2>2. Cardinality(Passed(c)) = k
    BY <1>1, <2>1 DEF Registered
  <2>3. \A o \in Cores : Cardinality(Passed(o)') = IF barrier_map'[o] # 0 THEN k + 1 ELSE k
    BY <1>1, <2>1, <2>2, OneMore DEF TypeOK
  <2> QED BY <2>3 DEF RoundInv
<1> QED BY <1>2, <1>3, <1>4, IssuesOrder DEF Register

LEMMA ReleaseInv ==
  ASSUME IInv, NEW c \in Cores, NEW i \in Positions, Release(c, i)
  PROVE  IInv'
<1> USE DEF IInv
<1>1. /\ issued' = [issued EXCEPT ![c] = @ \cup {i}] /\ i \in barriers[c]
      /\ to_insert' = [o \in Cores |-> IF o \in Registered THEN barrier_map[o] ELSE to_insert[o]]
      /\ barrier_map' = [o \in Cores |-> 0]
      /\ due' = [due EXCEPT ![c] = @ \cup {<<i, 1>>}]
      /\ i # 0 /\ c \notin Registered /\ Issues(c, i) /\ IsLast
      /\ i \notin issued[c]
  BY DEF Release, Issues, Positions
<1>2. TypeOK'
  <2>1. to_insert' \in [Cores -> 0 .. Length] /\ barrier_map' \in [Cores -> 0 .. Length]
    BY <1>1, BarrierAssumption DEF TypeOK
  <2>2. due' \in [Cores -> SUBSET (Positions \X {0, 1})]
    BY <1>1 DEF TypeOK
  <2>3. issued' \in [Cores -> SUBSET Positions] /\ \A o \in Cores : issued[o] \subseteq issued'[o]
    BY <1>1 DEF TypeOK
  <2>4. UNCHANGED <<phase, window_start, window_end, completed>>
    BY DEF Release
  <2> QED BY <2>1, <2>2, <2>3, <2>4 DEF TypeOK
<1>3. NoBarrierLost'
  <2>1. i \notin completed[c]
    BY <1>1 DEF TypeOK
  <2>2. (barriers[c] \cap issued[c]) \ completed[c] = {}
        /\ due[c] = {} /\ to_insert[c] = 0 /\ barrier_map[c] = 0
    BY <1>1, NonePending
  <2>3. /\ ((barriers[c] \cap issued[c]) \ completed[c])' = {i}
        /\ due'[c] = {<<i, 1>>} /\ to_insert'[c] = 0 /\ barrier_map'[c] = 0
    BY <1>1, <2>1, <2>2 DEF TypeOK, Release
  <2>4. ASSUME NEW o \in Cores, o # c
        PROVE  /\ barrier_map[o] # 0 /\ to_insert'[o] = barrier_map[o] /\ barrier_map'[o] = 0
               /\ due'[o] = {} /\ due[o] = {} /\ to_insert[o] = 0
               /\ ((barriers[o] \cap issued[o]) \ completed[o])'
                    = (barriers[o] \cap issued[o]) \ completed[o]
    <3>1. barrier_map[o] # 0 /\ o \in Registered
      BY <1>1, <2>4, LastMeansAll DEF Registered
    <3>2. due[o] = {} /\ to_insert[o] = 0
      BY <3>1 DEF NoBarrierLost
    <3> QED BY <1>1, <2>4, <3>1, <3>2 DEF TypeOK, Release
  <2>5. {d[1] : d \in {<<i, 1>>}} = {i}
    OBVIOUS
  <2> QED BY <2>3, <2>4, <2>5, <1>1 DEF NoBarrierLost
<1>4. RoundInv'
  <2>1. PICK k \in Nat : \A o \in Cores :
          Cardinality(Passed(o)) = IF barrier_map[o] # 0 THEN k + 1 ELSE k
    BY DEF RoundInv
  <2>2. Cardinality(Passed(c)) = k
    BY <1>1, <2>1 DEF Registered
  <2>3. \A o \in Cores : o # c => Cardinality(Passed(o)) = k + 1
    BY <1>1, <2>1, LastMeansAll DEF Registered
  <2>4. \A o \in Cores : Cardinality(Passed(o)') = k + 1 /\ barrier_map'[o] = 0
    BY <1>1, <2>2, <2>3, OneMore
  <2> QED BY <2>4 DEF RoundInv
<1> QED BY <1>2, <1>3, <1>4, IssuesOrder DEF Release

LEMMA CompleteInv ==
  ASSUME IInv, NEW c \in Cores, Complete(c)
  PROVE  IInv'
<1> USE DEF IInv
<1>1. /\ completed' = [completed EXCEPT ![c] = @ \cup {i \in Positions : <<i, 0>> \in due[c]}]
      /\ due' = [due EXCEPT ![c] = {d \in @ : d[2] = 1}]
      /\ UNCHANGED <<window_start, window_end, issued, barrier_map, to_insert>>
  BY DEF Complete
<1>2. \A i \in Positions : <<i, 0>> \in due[c] => i \in issued[c] /\ i \in barriers[c]
  BY DEF NoBarrierLost
<1>3. TypeOK'
  BY <1>1, <1>2 DEF Complete, TypeOK
<1>4. NoBarrierLost'
  <2>1. ASSUME NEW o \in Cores, o # c
        PROVE  due'[o] = due[o] /\ completed'[o] = completed[o]
    BY <1>1, <2>1 DEF TypeOK
  <2>2. /\ completed'[c] = completed[c] \cup {i \in Positions : <<i, 0>> \in due[c]}
        /\ due'[c] = {d \in due[c] : d[2] = 1}
    BY <1>1 DEF TypeOK
  <2>3. CASE \A d \in due[c] : d[2] = 1
    <3>1. due'[c] = due[c] /\ completed'[c] = completed[c]
      BY <2>2, <2>3
    <3> QED BY <1>1, <2>1, <3>1 DEF NoBarrierLost
  <2>4. ASSUME NEW d \in due[c], d[2] # 1 PROVE NoBarrierLost'
    <3>1. d[1] \in Positions /\ d[2] = 0 /\ d = <<d[1], 0>>
      BY <2>4 DEF TypeOK
    <3>2. due[c] = {d} /\ due'[c] = {}
      BY <2>2, <3>1 DEF NoBarrierLost
    <3>3. barrier_map[c] = 0 /\ to_insert[c] = 0
      BY <3>2 DEF NoBarrierLost
    <3>4. {e[1] : e \in due[c]} = {d[1]} /\ {e[1] : e \in due'[c]} = {}
      BY <3>2
    <3>5. d[1] \in completed'[c] /\ completed[c] \subseteq completed'[c]
      BY <2>2, <3>1
    <3>6. ((barriers[c] \cap issued[c]) \ completed[c])' = {}
      BY <1>1, <3>3, <3>4, <3>5 DEF NoBarrierLost
    <3> QED BY <1>1, <2>1, <3>2, <3>3, <3>4, <3>6 DEF NoBarrierLost
  <2> QED BY <2>3, <2>4
<1>5. OrderInv' /\ RetiredInv'
  BY <1>1 DEF OrderInv, RetiredInv, Retirable, TypeOK
<1> QED BY <1>1, <1>3, <1>4, <1>5, SameRound

LEMMA CompleteOtherInv ==
  ASSUME IInv, NEW c \in Cores, NEW i \in Positions, CompleteOther(c, i)
  PROVE  IInv'
<1> USE DEF IInv
<1>1. /\ completed' = [completed EXCEPT ![c] = @ \cup {i}]
      /\ i \in issued[c] /\ i \notin barriers[c]
      /\ UNCHANGED <<phase, window_start, window_end, issued, barrier_map, to_insert, due>>
  BY DEF CompleteOther
<1>2. TypeOK'
  BY <1>1 DEF TypeOK
<1>3. NoBarrierLost'
  BY <1>1 DEF NoBarrierLost, TypeOK
<1>4. OrderInv' /\ RetiredInv'
  BY <1>1 DEF OrderInv, RetiredInv, Retirable, TypeOK
<1> QED BY <1>1, <1>2, <1>3, <1>4, SameRound

\* Steps that only change the phase, or nothing.
LEMMA PhaseInv ==
  ASSUME IInv, phase' \in [Cores -> {"waiting", "issue", "complete", "done"}],
         UNCHANGED <<window_start, window_end, issued, completed, barrier_map, to_insert, due>>
  PROVE  IInv'
BY SameRound DEF IInv, TypeOK, NoBarrierLost, OrderInv, RetiredInv, Retirable

LEMMA NextIInv == IInv /\ [Next]_vars => IInv'
<1> SUFFICES ASSUME IInv, [Next]_vars PROVE IInv'
  OBVIOUS
<1>1. CASE NextCycle
  BY <1>1, PhaseInv DEF NextCycle
<1>2. ASSUME NEW c \in Cores, CoreStep(c) PROVE IInv'
  <2>1. CASE Start(c)
    BY <2>1, StartInv
  <2>2. CASE Complete(c)
    BY <2>2, CompleteInv
  <2>3. CASE Stop(c)
    BY <2>3, PhaseInv DEF Stop, IInv, TypeOK
  <2>4. CASE \E i \in Positions : Issue(c, i) \/ Register(c, i) \/ Release(c, i) \/ CompleteOther(c, i)
    BY <2>4, IssueInv, RegisterInv, ReleaseInv, CompleteOtherInv
  <2> QED BY <1>2, <2>1, <2>2, <2>3, <2>4 DEF CoreStep
<1>3. CASE UNCHANGED vars
  BY <1>3, PhaseInv DEF vars, IInv, TypeOK
<1> QED BY <1>1, <1>2, <1>3 DEF Next

\* The inductive invariant of the barriers.
THEOREM Invariance == Spec => []IInv
<1> QED BY InitIInv, NextIInv, PTL DEF Spec

\* The map, the slots and the pq of each core hold positions of its program,
\* and only what has issued completes (register_barrier, finishNode).
THEOREM TypeCorrect == Spec => []TypeOK
<1>1. IInv => TypeOK
  BY DEF IInv
<1> QED BY <1>1, Invariance, PTL

\* A barrier that has issued is never lost, and never released twice
\* (sim.cpp:18-44, DynamicNode.cpp:254-257).
THEOREM NoneLost == Spec => []NoBarrierLost
<1>1. IInv => NoBarrierLost
  BY DEF IInv
<1> QED BY <1>1, Invariance, PTL

-----------------------------------------------------------------------------
(* With WaitsForAll, a barrier is what Core.cpp:54 says.                   *)

\* A barrier that may issue sees all before it.
LEMMA SeesAll ==
  ASSUME WaitsForAll, IInv, NEW c \in Cores, NEW b \in barriers[c], CanIssue(c, b),
         NEW i \in Positions, i < b
  PROVE  i \in completed[c]
<1>1. b \in Positions /\ window_start[c] \in Int /\ window_end[c] \in Int
  BY BarrierAssumption DEF IInv, TypeOK, Positions
<1>2. CASE i < window_start[c]
  <2>1. Retirable(c, i)
    BY <1>2 DEF IInv, RetiredInv
  <2>2. i \notin early[c]
    BY <1>1 DEF WaitsForAll, Positions
  <2> QED BY <2>1, <2>2 DEF Retirable
<1>3. CASE ~(i < window_start[c])
  <2>1. i \in window_start[c] .. window_end[c]
    BY <1>1, <1>3 DEF WaitsForAll, CanIssue, InWindow, Positions
  <2> QED BY <2>1 DEF CanIssue
<1> QED BY <1>2, <1>3

LEMMA InitDrained == Init => DrainedInv
BY DEF Init, DrainedInv, Passed

LEMMA NextDrained ==
  ASSUME WaitsForAll, IInv, DrainedInv, [Next]_vars
  PROVE  DrainedInv'
<1> USE DEF DrainedInv, Passed
<1>1. ASSUME completed \in [Cores -> SUBSET Positions], UNCHANGED issued,
             \A c \in Cores : completed[c] \subseteq completed'[c]
      PROVE  DrainedInv'
  BY <1>1
<1>2. ASSUME NEW c \in Cores, NEW i \in Positions, Issues(c, i), UNCHANGED completed
      PROVE  DrainedInv'
  <2>1. issued' = [issued EXCEPT ![c] = @ \cup {i}] /\ issued \in [Cores -> SUBSET Positions]
    BY <1>2 DEF Issues, IInv, TypeOK
  <2>2. i \in barriers[c] => \A j \in Positions : j < i => j \in completed[c]
    BY <1>2, SeesAll DEF Issues
  <2> QED BY <1>2, <2>1, <2>2
<1>3. ASSUME NEW c \in Cores, CoreStep(c) PROVE DrainedInv'
  <2>1. CASE Start(c) \/ Stop(c)
    BY <1>1, <2>1 DEF Start, Stop, IInv, TypeOK
  <2>2. CASE Complete(c)
    BY <1>1, <2>2 DEF Complete, IInv, TypeOK
  <2>3. ASSUME NEW i \in Positions, CompleteOther(c, i) PROVE DrainedInv'
    BY <1>1, <2>3 DEF CompleteOther, IInv, TypeOK
  <2>4. ASSUME NEW i \in Positions, Issue(c, i) \/ Register(c, i) \/ Release(c, i)
        PROVE  DrainedInv'
    BY <1>2, <2>4 DEF Issue, Register, Release
  <2> QED BY <1>3, <2>1, <2>2, <2>3, <2>4 DEF CoreStep
<1>4. CASE NextCycle \/ UNCHANGED vars
  BY <1>1, <1>4 DEF NextCycle, vars, IInv, TypeOK
<1> QED BY <1>3, <1>4 DEF Next

\* The number of a barrier is bounded by the barriers that have issued.
LEMMA NumberOfIssued ==
  ASSUME IInv, NEW c \in Cores, NEW b \in barriers[c]
  PROVE  /\ NumberOf(c, b) \in Nat
         /\ b \in issued[c] => NumberOf(c, b) <= Cardinality(Passed(c))
         /\ b \in completed[c] /\ barrier_map[c] # 0 => NumberOf(c, b) < Cardinality(Passed(c))
         /\ b \notin issued[c] => Cardinality(Passed(c)) < NumberOf(c, b)
<1> DEFINE upTo == {a \in barriers[c] : a <= b}
<1>1. IsFiniteSet(barriers[c]) /\ barriers[c] \subseteq Positions /\ b \in Int
  BY BarrierAssumption, PositionsFinite, FS_Subset DEF Positions
<1>2. IsFiniteSet(upTo) /\ Cardinality(upTo) \in Nat /\ NumberOf(c, b) = Cardinality(upTo)
  <2>1. upTo \in SUBSET barriers[c]
    OBVIOUS
  <2> QED BY <1>1, <2>1, FS_Subset, FS_CardinalityType DEF NumberOf
<1>3. IsFiniteSet(Passed(c)) /\ Cardinality(Passed(c)) \in Nat
  BY PassedFinite
<1>4. completed[c] \subseteq issued[c]
  BY DEF IInv, TypeOK
<1>5. ASSUME b \in issued[c] PROVE upTo \in SUBSET Passed(c)
  <2>1. ASSUME NEW a \in upTo, a # b PROVE a \in completed[c]
    BY <1>1, <1>5, <2>1 DEF IInv, OrderInv, Positions
  <2> QED BY <1>4, <1>5, <2>1 DEF Passed
<1>6. ASSUME b \in completed[c], barrier_map[c] # 0
      PROVE  Cardinality(upTo) < Cardinality(Passed(c))
  <2>1. PICK p \in (barriers[c] \cap issued[c]) \ completed[c] : p = barrier_map[c]
    BY <1>6 DEF IInv, NoBarrierLost
  <2>2. p \in Passed(c) /\ p \in Int
    BY <1>1, <2>1 DEF Passed, Positions
  <2>3. p \notin upTo
    BY <1>1, <1>4, <1>6, <2>1, <2>2 DEF IInv, OrderInv
  <2>4. upTo \in SUBSET Passed(c) /\ upTo # Passed(c)
    BY <1>4, <1>5, <1>6, <2>2, <2>3
  <2> QED BY <1>2, <1>3, <2>4, FS_Subset
<1>7. ASSUME b \notin issued[c] PROVE Cardinality(Passed(c)) < Cardinality(upTo)
  <2>1. ASSUME NEW a \in Passed(c) PROVE a \in upTo
    <3>1. a \in barriers[c] /\ a \in issued[c] /\ a \in Int
      BY <1>1, <2>1 DEF Passed, Positions
    <3>2. ~(b < a)
      BY <1>4, <1>7, <3>1 DEF IInv, OrderInv
    <3> QED BY <1>1, <3>1, <3>2
  <2>2. b \in upTo /\ b \notin Passed(c)
    BY <1>1, <1>7 DEF Passed
  <2>3. Passed(c) \in SUBSET upTo /\ upTo # Passed(c)
    BY <2>1, <2>2
  <2> QED BY <1>2, <1>3, <2>3, FS_Subset
<1>8. ASSUME b \in issued[c] PROVE Cardinality(upTo) <= Cardinality(Passed(c))
  BY <1>3, <1>5, <1>8, FS_Subset
<1> QED BY <1>2, <1>6, <1>7, <1>8

LEMMA DrainedSync == IInv /\ DrainedInv => BarrierSync
<1> SUFFICES ASSUME IInv, DrainedInv, NEW c \in Cores, NEW o \in Cores,
                    NEW b \in barriers[c] \cap completed[c], NEW a \in barriers[o],
                    NumberOf(o, a) = NumberOf(c, b), NEW i \in 1 .. a - 1
             PROVE  i \in completed[o]
  BY DEF BarrierSync
<1>1. PICK k \in Nat : \A q \in Cores :
        Cardinality(Passed(q)) = IF barrier_map[q] # 0 THEN k + 1 ELSE k
  BY DEF IInv, RoundInv
<1>2. NumberOf(c, b) <= k
  <2>1. b \in issued[c]
    BY DEF IInv, TypeOK
  <2> QED BY <1>1, <2>1, NumberOfIssued
<1>3. a \in issued[o]
  BY <1>1, <1>2, NumberOfIssued
<1>4. a \in Positions /\ i \in Positions /\ i < a
  BY BarrierAssumption DEF Positions
<1> QED BY <1>3, <1>4 DEF DrainedInv, Passed

\* No core gets past a barrier before every core has completed what precedes
\* its own (Core.cpp:54, sim.cpp:26), under WaitsForAll: each half of which is
\* needed, as the runs barrier_early and barrier_infinite show.
THEOREM Synchronised ==
  ASSUME WaitsForAll
  PROVE  Spec => []BarrierSync
<1>1. Init => IInv /\ DrainedInv
  BY InitIInv, InitDrained
<1>2. IInv /\ DrainedInv /\ [Next]_vars => (IInv /\ DrainedInv)'
  BY NextIInv, NextDrained
<1>3. IInv /\ DrainedInv => BarrierSync
  BY DrainedSync
<1> QED BY <1>1, <1>2, <1>3, PTL DEF Spec
=============================================================================
