------------------------ MODULE DecoupledQueueProofs ------------------------
(***************************************************************************)
(* Proofs about DecoupledQueue, for all sizes and programs.                *)
(*                                                                         *)
(* The invariants of the queue hold together: the counter that admits an   *)
(* STADDR is right because stores execute in order, they do because a      *)
(* value leaves only under the front of the SAB, and a forward is safe     *)
(* because that same front never accepts one.  IInv is their conjunction   *)
(* with the facts about stages that carry it through every action.         *)
(***************************************************************************)
EXTENDS DecoupledQueue, FiniteSetTheorems, TLAPS

\* Stores written and values taken so far, as the back pointers record them.
Written  == SAB_back + 1 - SAB_size
Supplied == SVB_back + 1 - SVB_size

Executed == {"finishing", "completed"}

\* Both store buffers hold the interval between execution and issue, and the
\* compute core is at most one value ahead of the writes.
StoreInv ==
  /\ 0 <= Written /\ Written <= SAB_issue_pointer
  /\ Written <= Supplied /\ Supplied <= Written + 1 /\ Supplied <= SVB_issue_pointer
  /\ SAB_count = SAB_issue_pointer - Written
  /\ SVB_count = SVB_issue_pointer - Supplied
  /\ \A s \in Stores :
       /\ staddrStage[s] = "waiting" <=> s >= SAB_issue_pointer
       /\ staddrStage[s] \in Executed <=> s < Written
       /\ s \in SAB <=> staddrStage[s] = "queued"
       /\ stvalStage[s] = "waiting" <=> s >= SVB_issue_pointer
       /\ stvalStage[s] \in Executed <=> s < Supplied
       /\ s < Written => stvalStage[s] = "completed"
  /\ Supplied = Written + 1 => Written < SAB_issue_pointer

\* Where a producer may be, given its status, its entry and its RECV.
StageInv ==
  \A p \in Prods :
    /\ prodStage[p] = "waiting" => mem_status[p] = "NONE" /\ p \notin commQ
    /\ prodStage[p] = "terminal" => mem_status[p] \in {"PENDING", "RETURNED"}
    /\ mem_status[p] \in {"PENDING", "RETURNED"} =>
         prodStage[p] \in {"queued", "terminal"} /\ p \notin commQ
    /\ prodStage[p] = "queued" /\ prog.kind[p] = "TRM_ATOMIC" =>
         mem_status[p] = "NONE" /\ p \notin commQ
    /\ recvStage[p] \in Executed => p \notin commQ /\ prodStage[p] = "completed"
    /\ prodStage[p] # "waiting" /\ p \notin commQ =>
         p \in PendingTerminals \/ recvStage[p] \in Executed

\* A forward connects a load in the commQ with a value that has not left.
ForwardInv ==
  /\ \A p \in Prods : p \in commQ /\ mem_status[p] \in {"DESC_FWD", "FWD_COMPLETE"} =>
       STLMap[p] \in Stores /\ p \in SVB[STLMap[p]]
  /\ \A p \in Prods, s \in Stores : p \in SVB[s] =>
       /\ p \in commQ /\ STLMap[p] = s
       /\ mem_status[p] \in {"DESC_FWD", "FWD_COMPLETE"}
       /\ Supplied <= s

Held == commQ \cup PendingTerminals

CountInv ==
  /\ commQ_count = Cardinality(Held)
  /\ term_ld_count = Cardinality(PendingTerminals)

IInv == TypeOK /\ StoreInv /\ StageInv /\ ForwardInv /\ CountInv

-----------------------------------------------------------------------------
LEMMA ProdsFinite == IsFiniteSet(Prods)
<1>1. NumProds - 1 \in Int
  BY SizesAssumption
<1> QED BY <1>1, FS_Interval DEF Prods

\* The sets that are counted are finite.
LEMMA CountedFinite ==
  ASSUME TypeOK
  PROVE  IsFiniteSet(PendingTerminals) /\ IsFiniteSet(Held)
<1>1. PendingTerminals \subseteq Prods /\ Held \subseteq Prods
  BY DEF TypeOK, PendingTerminals, Held
<1> QED BY <1>1, ProdsFinite, FS_Subset

LEMMA InitIInv == Init => IInv
<1> SUFFICES ASSUME Init PROVE IInv
  OBVIOUS
<1>1. TypeOK
  BY SizesAssumption DEF Init, TypeOK, Prods, Stores, Stages, MemStatus, NoStore
<1>2. StoreInv
  BY SizesAssumption DEF Init, StoreInv, Written, Supplied, Executed, Stores
<1>3. StageInv
  BY DEF Init, StageInv, Executed
<1>4. ForwardInv
  BY DEF Init, ForwardInv
<1>5. CountInv
  <2>1. PendingTerminals = {} /\ Held = {}
    BY DEF Init, PendingTerminals, Held
  <2> QED BY <2>1, FS_EmptySet DEF Init, CountInv
<1> QED BY <1>1, <1>2, <1>3, <1>4, <1>5 DEF IInv

-----------------------------------------------------------------------------
(* Cardinality of the counted sets, for the three ways a step changes them. *)

LEMMA CountSame ==
  ASSUME IInv, Held' = Held, PendingTerminals' = PendingTerminals,
         UNCHANGED <<commQ_count, term_ld_count>>
  PROVE  CountInv'
BY DEF IInv, CountInv

LEMMA HeldGrows ==
  ASSUME IInv, NEW p \in Prods, p \notin Held, Held' = Held \cup {p},
         commQ_count' = commQ_count + 1
  PROVE  commQ_count' = Cardinality(Held')
<1>1. IsFiniteSet(Held)
  BY CountedFinite DEF IInv
<1>2. Cardinality(Held \cup {p}) = Cardinality(Held) + 1
  BY <1>1, FS_AddElement
<1> QED BY <1>2 DEF IInv, CountInv

LEMMA PendingGrows ==
  ASSUME IInv, NEW p \in Prods, p \notin PendingTerminals,
         PendingTerminals' = PendingTerminals \cup {p},
         term_ld_count' = term_ld_count + 1
  PROVE  term_ld_count' = Cardinality(PendingTerminals')
<1>1. IsFiniteSet(PendingTerminals)
  BY CountedFinite DEF IInv
<1>2. Cardinality(PendingTerminals \cup {p}) = Cardinality(PendingTerminals) + 1
  BY <1>1, FS_AddElement
<1> QED BY <1>2 DEF IInv, CountInv

\* Removing a member leaves one less, and there was at least one.
LEMMA HeldShrinks ==
  ASSUME IInv, NEW p \in Prods, p \in Held, Held' = Held \ {p},
         commQ_count' = commQ_count - 1
  PROVE  commQ_count' = Cardinality(Held') /\ commQ_count' \in Nat
<1>1. IsFiniteSet(Held)
  BY CountedFinite DEF IInv
<1>2. Cardinality(Held \ {p}) = Cardinality(Held) - 1
  BY <1>1, FS_RemoveElement
<1>3. IsFiniteSet(Held \ {p})
  BY <1>1, FS_Subset
<1>4. Cardinality(Held \ {p}) \in Nat
  BY <1>3, FS_CardinalityType
<1> QED BY <1>2, <1>4 DEF IInv, CountInv

LEMMA PendingShrinks ==
  ASSUME IInv, NEW p \in Prods, p \in PendingTerminals,
         PendingTerminals' = PendingTerminals \ {p},
         term_ld_count' = term_ld_count - 1
  PROVE  term_ld_count' = Cardinality(PendingTerminals') /\ term_ld_count' \in Nat
<1>1. IsFiniteSet(PendingTerminals)
  BY CountedFinite DEF IInv
<1>2. Cardinality(PendingTerminals \ {p}) = Cardinality(PendingTerminals) - 1
  BY <1>1, FS_RemoveElement
<1>3. IsFiniteSet(PendingTerminals \ {p})
  BY <1>1, FS_Subset
<1>4. Cardinality(PendingTerminals \ {p}) \in Nat
  BY <1>3, FS_CardinalityType
<1> QED BY <1>2, <1>4 DEF IInv, CountInv
-----------------------------------------------------------------------------
(* Every action preserves IInv, conjunct by conjunct.                      *)

\* A step that leaves the store buffers and the stages of stores alone.
LEMMA StoreSame ==
  ASSUME IInv, UNCHANGED <<staddrStage, stvalStage, SAB, SAB_count,
           SAB_issue_pointer, SAB_back, SVB_count, SVB_issue_pointer, SVB_back>>
  PROVE  StoreInv'
BY DEF IInv, StoreInv, Written, Supplied

\* A SEND takes a commQ entry at once.
LEMMA IssueSendInv ==
  ASSUME IInv, NEW p \in Prods, IssueSend(p)
  PROVE  IInv'
<1>1. PendingTerminals' = PendingTerminals
  BY DEF IInv, TypeOK, StageInv, PendingTerminals, Stages, MemStatus, Executed,
     commVars, computeVars, supplyVars, IssueSend, CommQFull
<1>2. p \notin Held /\ Held' = Held \cup {p}
  BY <1>1 DEF IInv, TypeOK, StageInv, Held, PendingTerminals, Stages, MemStatus,
     Executed, commVars, computeVars, supplyVars, IssueSend, CommQFull
<1>3. CountInv'
  BY <1>1, <1>2, HeldGrows DEF IInv, CountInv, IssueSend
<1>4. TypeOK'
  BY SizesAssumption DEF IInv, TypeOK, Stages, MemStatus, NoStore, CommQFull, TermFull,
     supplyVars, computeVars, commVars, sabVars, svbVars, fwdVars, windowVars, IssueSend, CommQFull
<1>5. StoreInv'
  BY StoreSame DEF supplyVars, computeVars, sabVars, svbVars, IssueSend, CommQFull
<1>6. StageInv'
  BY DEF IInv, TypeOK, StageInv, PendingTerminals, Stages, MemStatus, Executed,
     supplyVars, computeVars, commVars, IssueSend, CommQFull
<1>7. ForwardInv'
  BY DEF IInv, TypeOK, StageInv, ForwardInv, Supplied, Stages, MemStatus,
     svbVars, fwdVars, commVars, IssueSend, CommQFull
<1> QED BY <1>3, <1>4, <1>5, <1>6, <1>7 DEF IInv

\* A LD_PROD that goes to memory reserves a commQ and a terminal entry.
LEMMA IssueLdProdMemoryInv ==
  ASSUME IInv, NEW p \in Prods, IssueLdProdMemory(p)
  PROVE  IInv'
<1>1. p \notin PendingTerminals /\ PendingTerminals' = PendingTerminals \cup {p}
  BY DEF IInv, TypeOK, StageInv, PendingTerminals, Stages, MemStatus, Executed,
     commVars, computeVars, supplyVars, IssueLdProdMemory, CanIssueLdProd
<1>2. p \notin Held /\ Held' = Held \cup {p}
  BY <1>1 DEF IInv, TypeOK, StageInv, Held, PendingTerminals, Stages, MemStatus,
     Executed, commVars, computeVars, supplyVars, IssueLdProdMemory, CanIssueLdProd
<1>3. CountInv'
  BY <1>1, <1>2, HeldGrows, PendingGrows DEF IInv, CountInv, IssueLdProdMemory
<1>4. TypeOK'
  BY SizesAssumption DEF IInv, TypeOK, Stages, MemStatus, NoStore, CommQFull, TermFull,
     supplyVars, computeVars, commVars, sabVars, svbVars, fwdVars, windowVars, IssueLdProdMemory, CanIssueLdProd
<1>5. StoreInv'
  BY StoreSame DEF supplyVars, computeVars, sabVars, svbVars, IssueLdProdMemory, CanIssueLdProd
<1>6. StageInv'
  BY DEF IInv, TypeOK, StageInv, PendingTerminals, Stages, MemStatus, Executed,
     supplyVars, computeVars, commVars, IssueLdProdMemory, CanIssueLdProd
<1>7. ForwardInv'
  BY DEF IInv, TypeOK, StageInv, ForwardInv, Supplied, Stages, MemStatus,
     svbVars, fwdVars, commVars, IssueLdProdMemory, CanIssueLdProd
<1> QED BY <1>3, <1>4, <1>5, <1>6, <1>7 DEF IInv

\* A LD_PROD forwarded in the LSQ takes a commQ entry at once.
LEMMA IssueLdProdLsqInv ==
  ASSUME IInv, NEW p \in Prods, IssueLdProdLsq(p)
  PROVE  IInv'
<1>1. PendingTerminals' = PendingTerminals
  BY DEF IInv, TypeOK, StageInv, PendingTerminals, Stages, MemStatus, Executed,
     commVars, computeVars, supplyVars, IssueLdProdLsq, CanIssueLdProd
<1>2. p \notin Held /\ Held' = Held \cup {p}
  BY <1>1 DEF IInv, TypeOK, StageInv, Held, PendingTerminals, Stages, MemStatus,
     Executed, commVars, computeVars, supplyVars, IssueLdProdLsq, CanIssueLdProd
<1>3. CountInv'
  BY <1>1, <1>2, HeldGrows DEF IInv, CountInv, IssueLdProdLsq
<1>4. TypeOK'
  BY SizesAssumption DEF IInv, TypeOK, Stages, MemStatus, NoStore, CommQFull, TermFull,
     supplyVars, computeVars, commVars, sabVars, svbVars, fwdVars, windowVars, IssueLdProdLsq, CanIssueLdProd
<1>5. StoreInv'
  BY StoreSame DEF supplyVars, computeVars, sabVars, svbVars, IssueLdProdLsq, CanIssueLdProd
<1>6. StageInv'
  BY DEF IInv, TypeOK, StageInv, PendingTerminals, Stages, MemStatus, Executed,
     supplyVars, computeVars, commVars, IssueLdProdLsq, CanIssueLdProd
<1>7. ForwardInv'
  BY DEF IInv, TypeOK, StageInv, ForwardInv, Supplied, Stages, MemStatus,
     svbVars, fwdVars, commVars, IssueLdProdLsq, CanIssueLdProd
<1> QED BY <1>3, <1>4, <1>5, <1>6, <1>7 DEF IInv

\* A terminal atomic reserves both entries before its access.
LEMMA IssueTrmAtomicInv ==
  ASSUME IInv, NEW p \in Prods, IssueTrmAtomic(p)
  PROVE  IInv'
<1>1. p \notin PendingTerminals /\ PendingTerminals' = PendingTerminals \cup {p}
  BY DEF IInv, TypeOK, StageInv, PendingTerminals, Stages, MemStatus, Executed,
     commVars, computeVars, supplyVars, IssueTrmAtomic
<1>2. p \notin Held /\ Held' = Held \cup {p}
  BY <1>1 DEF IInv, TypeOK, StageInv, Held, PendingTerminals, Stages, MemStatus,
     Executed, commVars, computeVars, supplyVars, IssueTrmAtomic
<1>3. CountInv'
  BY <1>1, <1>2, HeldGrows, PendingGrows DEF IInv, CountInv, IssueTrmAtomic
<1>4. TypeOK'
  BY SizesAssumption DEF IInv, TypeOK, Stages, MemStatus, NoStore, CommQFull, TermFull,
     supplyVars, computeVars, commVars, sabVars, svbVars, fwdVars, windowVars, IssueTrmAtomic
<1>5. StoreInv'
  BY StoreSame DEF supplyVars, computeVars, sabVars, svbVars, IssueTrmAtomic
<1>6. StageInv'
  BY DEF IInv, TypeOK, StageInv, PendingTerminals, Stages, MemStatus, Executed,
     supplyVars, computeVars, commVars, IssueTrmAtomic
<1>7. ForwardInv'
  BY DEF IInv, TypeOK, StageInv, ForwardInv, Supplied, Stages, MemStatus,
     svbVars, fwdVars, commVars, IssueTrmAtomic
<1> QED BY <1>3, <1>4, <1>5, <1>6, <1>7 DEF IInv

\* A produce without memory access moves to its context.
LEMMA ExecuteProduceInv ==
  ASSUME IInv, NEW p \in Prods, ExecuteProduce(p)
  PROVE  IInv'
<1>1. PendingTerminals' = PendingTerminals
  BY DEF IInv, TypeOK, StageInv, PendingTerminals, Stages, MemStatus, Executed,
     commVars, computeVars, supplyVars, ExecuteProduce
<1>2. Held' = Held
  BY <1>1 DEF IInv, TypeOK, StageInv, Held, PendingTerminals, Stages, MemStatus,
     Executed, commVars, computeVars, supplyVars, ExecuteProduce
<1>3. CountInv'
  BY <1>1, <1>2, CountSame DEF commVars, ExecuteProduce
<1>4. TypeOK'
  BY SizesAssumption DEF IInv, TypeOK, Stages, MemStatus, NoStore, CommQFull, TermFull,
     supplyVars, computeVars, commVars, sabVars, svbVars, fwdVars, windowVars, ExecuteProduce
<1>5. StoreInv'
  BY StoreSame DEF supplyVars, computeVars, sabVars, svbVars, ExecuteProduce
<1>6. StageInv'
  BY DEF IInv, TypeOK, StageInv, PendingTerminals, Stages, MemStatus, Executed,
     supplyVars, computeVars, commVars, ExecuteProduce
<1>7. ForwardInv'
  BY DEF IInv, TypeOK, StageInv, ForwardInv, Supplied, Stages, MemStatus,
     svbVars, fwdVars, commVars, ExecuteProduce
<1> QED BY <1>3, <1>4, <1>5, <1>6, <1>7 DEF IInv

\* A load that waits for memory moves to TLBuffer.
LEMMA ExecuteTerminalLoadInv ==
  ASSUME IInv, NEW p \in Prods, ExecuteTerminalLoad(p)
  PROVE  IInv'
<1>1. PendingTerminals' = PendingTerminals
  BY DEF IInv, TypeOK, StageInv, PendingTerminals, Stages, MemStatus, Executed,
     commVars, computeVars, supplyVars, ExecuteTerminalLoad
<1>2. Held' = Held
  BY <1>1 DEF IInv, TypeOK, StageInv, Held, PendingTerminals, Stages, MemStatus,
     Executed, commVars, computeVars, supplyVars, ExecuteTerminalLoad
<1>3. CountInv'
  BY <1>1, <1>2, CountSame DEF commVars, ExecuteTerminalLoad
<1>4. TypeOK'
  BY SizesAssumption DEF IInv, TypeOK, Stages, MemStatus, NoStore, CommQFull, TermFull,
     supplyVars, computeVars, commVars, sabVars, svbVars, fwdVars, windowVars, ExecuteTerminalLoad
<1>5. StoreInv'
  BY StoreSame DEF supplyVars, computeVars, sabVars, svbVars, ExecuteTerminalLoad
<1>6. StageInv'
  BY DEF IInv, TypeOK, StageInv, PendingTerminals, Stages, MemStatus, Executed,
     supplyVars, computeVars, commVars, ExecuteTerminalLoad
<1>7. ForwardInv'
  BY DEF IInv, TypeOK, StageInv, ForwardInv, Supplied, Stages, MemStatus,
     svbVars, fwdVars, commVars, ExecuteTerminalLoad
<1> QED BY <1>3, <1>4, <1>5, <1>6, <1>7 DEF IInv

\* A terminal atomic sends its access.
LEMMA ExecuteTrmAtomicInv ==
  ASSUME IInv, NEW p \in Prods, ExecuteTrmAtomic(p)
  PROVE  IInv'
<1>1. PendingTerminals' = PendingTerminals
  BY DEF IInv, TypeOK, StageInv, PendingTerminals, Stages, MemStatus, Executed,
     commVars, computeVars, supplyVars, ExecuteTrmAtomic
<1>2. Held' = Held
  BY <1>1 DEF IInv, TypeOK, StageInv, Held, PendingTerminals, Stages, MemStatus,
     Executed, commVars, computeVars, supplyVars, ExecuteTrmAtomic
<1>3. CountInv'
  BY <1>1, <1>2, CountSame DEF commVars, ExecuteTrmAtomic
<1>4. TypeOK'
  BY SizesAssumption DEF IInv, TypeOK, Stages, MemStatus, NoStore, CommQFull, TermFull,
     supplyVars, computeVars, commVars, sabVars, svbVars, fwdVars, windowVars, ExecuteTrmAtomic
<1>5. StoreInv'
  BY StoreSame DEF supplyVars, computeVars, sabVars, svbVars, ExecuteTrmAtomic
<1>6. StageInv'
  BY DEF IInv, TypeOK, StageInv, PendingTerminals, Stages, MemStatus, Executed,
     supplyVars, computeVars, commVars, ExecuteTrmAtomic
<1>7. ForwardInv'
  BY DEF IInv, TypeOK, StageInv, ForwardInv, Supplied, Stages, MemStatus,
     svbVars, fwdVars, commVars, ExecuteTrmAtomic
<1> QED BY <1>3, <1>4, <1>5, <1>6, <1>7 DEF IInv

\* Memory answers.
LEMMA MemoryReturnInv ==
  ASSUME IInv, NEW p \in Prods, MemoryReturn(p)
  PROVE  IInv'
<1>1. PendingTerminals' = PendingTerminals
  BY DEF IInv, TypeOK, StageInv, PendingTerminals, Stages, MemStatus, Executed,
     commVars, computeVars, supplyVars, MemoryReturn
<1>2. Held' = Held
  BY <1>1 DEF IInv, TypeOK, StageInv, Held, PendingTerminals, Stages, MemStatus,
     Executed, commVars, computeVars, supplyVars, MemoryReturn
<1>3. CountInv'
  BY <1>1, <1>2, CountSame DEF commVars, MemoryReturn
<1>4. TypeOK'
  BY SizesAssumption DEF IInv, TypeOK, Stages, MemStatus, NoStore, CommQFull, TermFull,
     supplyVars, computeVars, commVars, sabVars, svbVars, fwdVars, windowVars, MemoryReturn
<1>5. StoreInv'
  BY StoreSame DEF supplyVars, computeVars, sabVars, svbVars, MemoryReturn
<1>6. StageInv'
  BY DEF IInv, TypeOK, StageInv, PendingTerminals, Stages, MemStatus, Executed,
     supplyVars, computeVars, commVars, MemoryReturn
<1>7. ForwardInv'
  BY DEF IInv, TypeOK, StageInv, ForwardInv, Supplied, Stages, MemStatus,
     svbVars, fwdVars, commVars, MemoryReturn
<1> QED BY <1>3, <1>4, <1>5, <1>6, <1>7 DEF IInv

\* An answered load gives its terminal entry back and keeps its commQ entry.
LEMMA DrainTerminalInv ==
  ASSUME IInv, NEW p \in Prods, DrainTerminal(p)
  PROVE  IInv'
<1>1. p \in PendingTerminals /\ PendingTerminals' = PendingTerminals \ {p}
  BY DEF IInv, TypeOK, StageInv, PendingTerminals, Stages, MemStatus, Executed,
     commVars, computeVars, supplyVars, DrainTerminal
<1>2. Held' = Held
  BY <1>1 DEF IInv, TypeOK, StageInv, Held, PendingTerminals, Stages, MemStatus,
     Executed, commVars, computeVars, supplyVars, DrainTerminal
<1>3. CountInv' /\ term_ld_count' \in Nat
  BY <1>1, <1>2, PendingShrinks DEF IInv, CountInv, DrainTerminal
<1>4. TypeOK'
  BY SizesAssumption, <1>3 DEF IInv, TypeOK, Stages, MemStatus, NoStore, CommQFull, TermFull,
     supplyVars, computeVars, commVars, sabVars, svbVars, fwdVars, windowVars, DrainTerminal
<1>5. StoreInv'
  BY StoreSame DEF supplyVars, computeVars, sabVars, svbVars, DrainTerminal
<1>6. StageInv'
  BY DEF IInv, TypeOK, StageInv, PendingTerminals, Stages, MemStatus, Executed,
     supplyVars, computeVars, commVars, DrainTerminal
<1>7. ForwardInv'
  BY DEF IInv, TypeOK, StageInv, ForwardInv, Supplied, Stages, MemStatus,
     svbVars, fwdVars, commVars, DrainTerminal
<1> QED BY <1>3, <1>4, <1>5, <1>6, <1>7 DEF IInv

\* A producer completes.
LEMMA FinishProduceInv ==
  ASSUME IInv, NEW p \in Prods, FinishProduce(p)
  PROVE  IInv'
<1>1. PendingTerminals' = PendingTerminals
  BY DEF IInv, TypeOK, StageInv, PendingTerminals, Stages, MemStatus, Executed,
     commVars, computeVars, supplyVars, FinishProduce
<1>2. Held' = Held
  BY <1>1 DEF IInv, TypeOK, StageInv, Held, PendingTerminals, Stages, MemStatus,
     Executed, commVars, computeVars, supplyVars, FinishProduce
<1>3. CountInv'
  BY <1>1, <1>2, CountSame DEF commVars, FinishProduce
<1>4. TypeOK'
  BY SizesAssumption DEF IInv, TypeOK, Stages, MemStatus, NoStore, CommQFull, TermFull,
     supplyVars, computeVars, commVars, sabVars, svbVars, fwdVars, windowVars, FinishProduce
<1>5. StoreInv'
  BY StoreSame DEF supplyVars, computeVars, sabVars, svbVars, FinishProduce
<1>6. StageInv'
  BY DEF IInv, TypeOK, StageInv, PendingTerminals, Stages, MemStatus, Executed,
     supplyVars, computeVars, commVars, FinishProduce
<1>7. ForwardInv'
  BY DEF IInv, TypeOK, StageInv, ForwardInv, Supplied, Stages, MemStatus,
     svbVars, fwdVars, commVars, FinishProduce
<1> QED BY <1>3, <1>4, <1>5, <1>6, <1>7 DEF IInv

\* A RECV enters the queue without taking anything.
LEMMA IssueRecvInv ==
  ASSUME IInv, NEW p \in Prods, IssueRecv(p)
  PROVE  IInv'
<1>1. PendingTerminals' = PendingTerminals
  BY DEF IInv, TypeOK, StageInv, PendingTerminals, Stages, MemStatus, Executed,
     commVars, computeVars, supplyVars, IssueRecv
<1>2. Held' = Held
  BY <1>1 DEF IInv, TypeOK, StageInv, Held, PendingTerminals, Stages, MemStatus,
     Executed, commVars, computeVars, supplyVars, IssueRecv
<1>3. CountInv'
  BY <1>1, <1>2, CountSame DEF commVars, IssueRecv
<1>4. TypeOK'
  BY SizesAssumption DEF IInv, TypeOK, Stages, MemStatus, NoStore, CommQFull, TermFull,
     supplyVars, computeVars, commVars, sabVars, svbVars, fwdVars, windowVars, IssueRecv
<1>5. StoreInv'
  BY StoreSame DEF supplyVars, computeVars, sabVars, svbVars, IssueRecv
<1>6. StageInv'
  BY DEF IInv, TypeOK, StageInv, PendingTerminals, Stages, MemStatus, Executed,
     supplyVars, computeVars, commVars, IssueRecv
<1>7. ForwardInv'
  BY DEF IInv, TypeOK, StageInv, ForwardInv, Supplied, Stages, MemStatus,
     svbVars, fwdVars, commVars, IssueRecv
<1> QED BY <1>3, <1>4, <1>5, <1>6, <1>7 DEF IInv

\* A RECV frees its entry and, after a forward, disconnects it.
LEMMA ExecuteRecvInv ==
  ASSUME IInv, NEW p \in Prods, ExecuteRecv(p)
  PROVE  IInv'
<1>1. PendingTerminals' = PendingTerminals
  BY DEF IInv, TypeOK, StageInv, PendingTerminals, Stages, MemStatus, Executed,
     commVars, computeVars, supplyVars, ExecuteRecv
<1>2. p \in Held /\ Held' = Held \ {p}
  BY <1>1 DEF IInv, TypeOK, StageInv, Held, PendingTerminals, Stages, MemStatus,
     Executed, commVars, computeVars, supplyVars, ExecuteRecv
<1>3. CountInv' /\ commQ_count' \in Nat
  BY <1>1, <1>2, HeldShrinks DEF IInv, CountInv, ExecuteRecv
<1>4. TypeOK'
  BY SizesAssumption, <1>3 DEF IInv, TypeOK, Stages, MemStatus, NoStore, CommQFull, TermFull,
     supplyVars, computeVars, commVars, sabVars, svbVars, fwdVars, windowVars, ExecuteRecv
<1>5. StoreInv'
  BY StoreSame DEF supplyVars, computeVars, sabVars, svbVars, ExecuteRecv
<1>6. StageInv'
  BY DEF IInv, TypeOK, StageInv, PendingTerminals, Stages, MemStatus, Executed,
     supplyVars, computeVars, commVars, ExecuteRecv
<1>7. ForwardInv'
  BY DEF IInv, TypeOK, StageInv, ForwardInv, Supplied, Stages, MemStatus,
     svbVars, fwdVars, commVars, ExecuteRecv
<1> QED BY <1>3, <1>4, <1>5, <1>6, <1>7 DEF IInv

\* A RECV completes.
LEMMA FinishRecvInv ==
  ASSUME IInv, NEW p \in Prods, FinishRecv(p)
  PROVE  IInv'
<1>1. PendingTerminals' = PendingTerminals
  BY DEF IInv, TypeOK, StageInv, PendingTerminals, Stages, MemStatus, Executed,
     commVars, computeVars, supplyVars, FinishRecv
<1>2. Held' = Held
  BY <1>1 DEF IInv, TypeOK, StageInv, Held, PendingTerminals, Stages, MemStatus,
     Executed, commVars, computeVars, supplyVars, FinishRecv
<1>3. CountInv'
  BY <1>1, <1>2, CountSame DEF commVars, FinishRecv
<1>4. TypeOK'
  BY SizesAssumption DEF IInv, TypeOK, Stages, MemStatus, NoStore, CommQFull, TermFull,
     supplyVars, computeVars, commVars, sabVars, svbVars, fwdVars, windowVars, FinishRecv
<1>5. StoreInv'
  BY StoreSame DEF supplyVars, computeVars, sabVars, svbVars, FinishRecv
<1>6. StageInv'
  BY DEF IInv, TypeOK, StageInv, PendingTerminals, Stages, MemStatus, Executed,
     supplyVars, computeVars, commVars, FinishRecv
<1>7. ForwardInv'
  BY DEF IInv, TypeOK, StageInv, ForwardInv, Supplied, Stages, MemStatus,
     svbVars, fwdVars, commVars, FinishRecv
<1> QED BY <1>3, <1>4, <1>5, <1>6, <1>7 DEF IInv

\* A forwarded load takes a commQ entry; its STVAL has not left, because the
\* store is behind the front of the SAB.
LEMMA IssueLdProdSvbInv ==
  ASSUME IInv, NEW p \in Prods, NEW s \in Stores, IssueLdProdSvb(p, s)
  PROVE  IInv'
<1>1. PendingTerminals' = PendingTerminals
  BY DEF IInv, TypeOK, StageInv, PendingTerminals, Stages, MemStatus, Executed,
     computeVars, supplyVars, IssueLdProdSvb, CanIssueLdProd
<1>2. p \notin Held /\ Held' = Held \cup {p}
  BY <1>1 DEF IInv, TypeOK, StageInv, Held, PendingTerminals, Stages, MemStatus,
     Executed, computeVars, supplyVars, IssueLdProdSvb, CanIssueLdProd
<1>3. CountInv'
  BY <1>1, <1>2, HeldGrows DEF IInv, CountInv, IssueLdProdSvb
<1>4. TypeOK'
  BY SizesAssumption DEF IInv, TypeOK, Stages, MemStatus, NoStore, CommQFull,
     supplyVars, computeVars, sabVars, svbVars, windowVars, IssueLdProdSvb, CanIssueLdProd
<1>5. StoreInv'
  BY StoreSame DEF supplyVars, computeVars, sabVars, svbVars, IssueLdProdSvb
<1>6. StageInv'
  BY DEF IInv, TypeOK, StageInv, PendingTerminals, Stages, MemStatus, Executed,
     supplyVars, computeVars, IssueLdProdSvb, CanIssueLdProd
<1>7. Supplied <= s
  <2>1. PICK t \in SAB : t < s
    BY SizesAssumption DEF IssueLdProdSvb, SvbForwards, SabDependency, IsSabFront, IInv, TypeOK, Stores
  <2>2. t \in Stores /\ staddrStage[t] = "queued"
    BY <2>1 DEF IInv, TypeOK, StoreInv
  <2>3. Written <= t
    BY <2>2, SizesAssumption DEF IInv, TypeOK, StoreInv, Executed, Stores, Written
  <2> QED BY <2>1, <2>2, <2>3, SizesAssumption DEF IInv, TypeOK, StoreInv, Stores, Written, Supplied
<1>8. \A t \in Stores : p \notin SVB[t]
  BY DEF IInv, StageInv, ForwardInv, IssueLdProdSvb, CanIssueLdProd
<1>9. ForwardInv'
  BY <1>7, <1>8 DEF IInv, TypeOK, StageInv, ForwardInv, Supplied, Stages, MemStatus,
     svbVars, IssueLdProdSvb, CanIssueLdProd
<1> QED BY <1>3, <1>4, <1>5, <1>6, <1>9 DEF IInv

\* A step that leaves the producers, the RECVs and the commQ alone.
LEMMA StageSame ==
  ASSUME IInv, UNCHANGED <<prog, prodStage, recvStage, commVars>>
  PROVE  StageInv' /\ CountInv'
<1>1. PendingTerminals' = PendingTerminals /\ Held' = Held
  BY DEF PendingTerminals, Held, commVars
<1>2. CountInv'
  BY <1>1, CountSame DEF commVars
<1>3. StageInv'
  BY <1>1 DEF IInv, StageInv, commVars
<1> QED BY <1>2, <1>3

\* A step that leaves the forwards and the values taken alone.
LEMMA ForwardSame ==
  ASSUME IInv, UNCHANGED <<commVars, fwdVars, SVB_back>>
  PROVE  ForwardInv'
BY DEF IInv, ForwardInv, Supplied, commVars, fwdVars

\* An STADDR enters the SAB at its back.
LEMMA IssueStaddrInv ==
  ASSUME IInv, NEW s \in Stores, IssueStaddr(s)
  PROVE  IInv'
<1>1. TypeOK'
  BY SizesAssumption DEF IInv, TypeOK, Stages, Stores, computeVars, commVars, svbVars,
     fwdVars, windowVars, IssueStaddr
<1>2. StoreInv'
  BY SizesAssumption DEF IInv, TypeOK, StoreInv, Written, Supplied, Executed, Stages, Stores,
     computeVars, svbVars, IssueStaddr
<1>3. StageInv' /\ CountInv' /\ ForwardInv'
  BY StageSame, ForwardSame DEF computeVars, svbVars, IssueStaddr
<1> QED BY <1>1, <1>2, <1>3 DEF IInv

\* An STVAL enters the store value buffer at its back.
LEMMA IssueStvalInv ==
  ASSUME IInv, NEW s \in Stores, IssueStval(s)
  PROVE  IInv'
<1>1. TypeOK'
  BY SizesAssumption DEF IInv, TypeOK, Stages, Stores, supplyVars, commVars, sabVars,
     fwdVars, windowVars, IssueStval
<1>2. StoreInv'
  BY SizesAssumption DEF IInv, TypeOK, StoreInv, Written, Supplied, Executed, Stages, Stores,
     supplyVars, sabVars, IssueStval
<1>3. StageInv' /\ CountInv' /\ ForwardInv'
  BY StageSame, ForwardSame DEF supplyVars, IssueStval
<1> QED BY <1>1, <1>2, <1>3 DEF IInv

\* An STVAL serves its forwards, all of which hold a commQ entry already.
LEMMA ExecuteStvalStayInv ==
  ASSUME IInv, NEW s \in Stores, ExecuteStvalStay(s)
  PROVE  IInv'
<1>1. \A p \in SVB[s] : p \in Prods /\ p \in commQ /\ mem_status[p] \in {"DESC_FWD", "FWD_COMPLETE"}
  BY DEF IInv, TypeOK, ForwardInv
<1>2. PendingTerminals' = PendingTerminals
  BY <1>1 DEF IInv, TypeOK, StageInv, PendingTerminals, MemStatus, supplyVars,
     ExecuteStvalStay, ForwardStval
<1>3. Held' = Held
  BY <1>2 DEF Held, ExecuteStvalStay
<1>4. CountInv'
  BY <1>2, <1>3, CountSame DEF ExecuteStvalStay
<1>5. TypeOK'
  BY <1>1 DEF IInv, TypeOK, MemStatus, supplyVars, computeVars, sabVars, svbVars, fwdVars,
     windowVars, ExecuteStvalStay, ForwardStval
<1>6. StoreInv'
  BY StoreSame DEF supplyVars, computeVars, sabVars, svbVars, ExecuteStvalStay
<1>7. StageInv'
  BY <1>1, <1>2 DEF IInv, TypeOK, StageInv, MemStatus, Executed, supplyVars, computeVars,
     ExecuteStvalStay, ForwardStval
<1>8. ForwardInv'
  BY <1>1 DEF IInv, TypeOK, ForwardInv, Supplied, MemStatus, svbVars, fwdVars,
     ExecuteStvalStay, ForwardStval
<1> QED BY <1>4, <1>5, <1>6, <1>7, <1>8 DEF IInv

\* The STVAL that leaves is the one of the front of the SAB: the next value
\* to supply and the next store to write, with no forward attached.
LEMMA ExecuteStvalLeaveInv ==
  ASSUME IInv, NEW s \in Stores, ExecuteStvalLeave(s)
  PROVE  IInv'
<1>1. s = Written
  BY SizesAssumption DEF IInv, TypeOK, StoreInv, Executed, Stores, Written, Stages,
     ExecuteStvalLeave, StvalMayLeave, IsSabFront
<1>2. s = Supplied
  BY <1>1, SizesAssumption DEF IInv, TypeOK, StoreInv, Executed, Stores, Written, Supplied,
     ExecuteStvalLeave
<1>3. TypeOK'
  BY <1>1, <1>2, SizesAssumption DEF IInv, TypeOK, StoreInv, Stages, Stores, Written, Supplied,
     supplyVars, commVars, sabVars, fwdVars, windowVars, ExecuteStvalLeave
<1>4. StoreInv'
  <2>1. s < SAB_issue_pointer /\ s < SVB_issue_pointer
    BY SizesAssumption DEF IInv, TypeOK, StoreInv, Stores, ExecuteStvalLeave, StvalMayLeave, IsSabFront
  <2>2. Written' = Written /\ Supplied' = Written + 1 /\ Written < SAB_issue_pointer
    BY <1>1, <1>2, <2>1, SizesAssumption DEF IInv, TypeOK, Written, Supplied, sabVars, ExecuteStvalLeave
  <2>3. \A t \in Stores :
          /\ stvalStage'[t] = "waiting" <=> t >= SVB_issue_pointer
          /\ stvalStage'[t] \in Executed <=> t < Written + 1
          /\ t < Written => stvalStage'[t] = "completed"
    BY <1>1, <1>2, <2>1, SizesAssumption DEF IInv, TypeOK, StoreInv, Written, Executed, Stages,
       Stores, ExecuteStvalLeave
  <2>4. Written + 1 <= SVB_issue_pointer /\ SVB_count' = SVB_issue_pointer - (Written + 1)
    BY <1>1, <1>2, <2>1, SizesAssumption DEF IInv, TypeOK, StoreInv, Stores, ExecuteStvalLeave
  <2>5. UNCHANGED <<staddrStage, SAB, SAB_count, SAB_issue_pointer, SVB_issue_pointer>>
    BY DEF supplyVars, sabVars, ExecuteStvalLeave
  <2>6. Written \in Int
    BY SizesAssumption DEF IInv, TypeOK, Written
  <2> QED BY <2>2, <2>3, <2>4, <2>5, <2>6 DEF IInv, StoreInv
<1>5. StageInv' /\ CountInv'
  BY StageSame DEF supplyVars, ExecuteStvalLeave
<1>6. ForwardInv'
  <2>1. SVB[s] = {} /\ Supplied' = Supplied + 1
    BY SizesAssumption DEF IInv, TypeOK, Supplied, ExecuteStvalLeave, StvalMayLeave
  <2>2. Supplied \in Int /\ Stores \subseteq Int
    BY SizesAssumption DEF IInv, TypeOK, Supplied, Stores
  <2>3. \A t \in Stores : t # s /\ Supplied <= t => Supplied + 1 <= t
    BY <1>2, <2>2
  <2> QED BY <2>1, <2>3 DEF IInv, ForwardInv, commVars, fwdVars, ExecuteStvalLeave
<1> QED BY <1>3, <1>4, <1>5, <1>6 DEF IInv

\* The STADDR that executes is the next store to write.
LEMMA ExecuteStaddrInv ==
  ASSUME IInv, NEW s \in Stores, ExecuteStaddr(s)
  PROVE  IInv'
<1>1. s = Written /\ Supplied = Written + 1
  BY SizesAssumption DEF IInv, TypeOK, StoreInv, Executed, Stores, Written, Supplied, Stages,
     ExecuteStaddr
<1>2. TypeOK'
  BY <1>1, SizesAssumption DEF IInv, TypeOK, StoreInv, Stages, Stores, Written,
     computeVars, commVars, svbVars, fwdVars, windowVars, ExecuteStaddr
<1>3. StoreInv'
  BY <1>1, SizesAssumption DEF IInv, TypeOK, StoreInv, Written, Supplied, Executed, Stages,
     Stores, computeVars, svbVars, ExecuteStaddr
<1>4. StageInv' /\ CountInv' /\ ForwardInv'
  BY StageSame, ForwardSame DEF computeVars, svbVars, ExecuteStaddr
<1> QED BY <1>2, <1>3, <1>4 DEF IInv

LEMMA FinishStaddrInv ==
  ASSUME IInv, NEW s \in Stores, FinishStaddr(s)
  PROVE  IInv'
<1>1. TypeOK'
  BY DEF IInv, TypeOK, Stages, computeVars, commVars, sabVars, svbVars, fwdVars,
     windowVars, FinishStaddr
<1>2. StoreInv'
  BY DEF IInv, TypeOK, StoreInv, Written, Supplied, Executed, Stages, computeVars,
     sabVars, svbVars, FinishStaddr
<1>3. StageInv' /\ CountInv' /\ ForwardInv'
  BY StageSame, ForwardSame DEF computeVars, svbVars, FinishStaddr
<1> QED BY <1>1, <1>2, <1>3 DEF IInv

LEMMA FinishStvalInv ==
  ASSUME IInv, NEW s \in Stores, FinishStval(s)
  PROVE  IInv'
<1>1. TypeOK'
  BY DEF IInv, TypeOK, Stages, supplyVars, commVars, sabVars, svbVars, fwdVars,
     windowVars, FinishStval
<1>2. StoreInv'
  BY DEF IInv, TypeOK, StoreInv, Written, Supplied, Executed, Stages, supplyVars,
     sabVars, svbVars, FinishStval
<1>3. StageInv' /\ CountInv' /\ ForwardInv'
  BY StageSame, ForwardSame DEF supplyVars, svbVars, FinishStval
<1> QED BY <1>1, <1>2, <1>3 DEF IInv

\* Steps outside the queue: retirement, the address of an STADDR, stuttering.
LEMMA OutsideInv ==
  ASSUME IInv,
         \/ RetireSupply \/ RetireCompute \/ \E s \in Stores : ResolveAddress(s)
         \/ UNCHANGED vars
  PROVE  IInv'
<1>1. UNCHANGED <<prog, supplyVars, computeVars, commVars, sabVars, svbVars, fwdVars>>
  BY DEF RetireSupply, RetireCompute, ResolveAddress, vars
<1>2. TypeOK'
  BY <1>1, SizesAssumption DEF IInv, TypeOK, RetireSupply, RetireCompute, ResolveAddress, vars,
     supplyVars, computeVars, commVars, sabVars, svbVars, fwdVars, windowVars
<1>3. StoreInv' /\ StageInv' /\ CountInv' /\ ForwardInv'
  BY <1>1, StoreSame, StageSame, ForwardSame DEF supplyVars, computeVars, sabVars, svbVars
<1> QED BY <1>2, <1>3 DEF IInv

LEMMA NextIInv == IInv /\ [Next]_vars => IInv'
<1> SUFFICES ASSUME IInv, [Next]_vars PROVE IInv'
  OBVIOUS
<1>1. ASSUME NEW p \in Prods, ProduceStep(p) PROVE IInv'
  BY <1>1, IssueSendInv, IssueLdProdMemoryInv, IssueLdProdLsqInv, IssueLdProdSvbInv,
     IssueTrmAtomicInv, ExecuteProduceInv, ExecuteTerminalLoadInv, ExecuteTrmAtomicInv,
     MemoryReturnInv, DrainTerminalInv, FinishProduceInv DEF ProduceStep
<1>2. ASSUME NEW p \in Prods, RecvStep(p) PROVE IInv'
  BY <1>2, IssueRecvInv, ExecuteRecvInv, FinishRecvInv DEF RecvStep
<1>3. ASSUME NEW s \in Stores, StaddrStep(s) PROVE IInv'
  BY <1>3, OutsideInv, IssueStaddrInv, ExecuteStaddrInv, FinishStaddrInv DEF StaddrStep
<1>4. ASSUME NEW s \in Stores, StvalStep(s) PROVE IInv'
  BY <1>4, IssueStvalInv, ExecuteStvalStayInv, ExecuteStvalLeaveInv, FinishStvalInv DEF StvalStep
<1>5. CASE RetireSupply \/ RetireCompute \/ Finished \/ UNCHANGED vars
  BY <1>5, OutsideInv DEF Finished
<1> QED BY <1>1, <1>2, <1>3, <1>4, <1>5 DEF Next

-----------------------------------------------------------------------------
(* The theorems.                                                           *)

\* IInv holds in every reachable state of the queue.
THEOREM Invariance == Spec => []IInv
BY InitIInv, NextIInv, PTL DEF Spec

\* Every variable keeps its type: the counters stay between 0 and their
\* sizes and the issue and back pointers of both store buffers within range.
THEOREM TypeCorrect == Spec => []TypeOK
<1>1. IInv => TypeOK
  BY DEF IInv
<1> QED BY <1>1, Invariance, PTL

\* The assertion of DESCQ.cpp:111: an STADDR whose STVAL has completed is at
\* the front of the SAB.
THEOREM AtFront == Spec => []WritesAtFront
<1>1. IInv => WritesAtFront
  BY SizesAssumption DEF IInv, TypeOK, StoreInv, WritesAtFront, IsSabFront, Executed, Stages,
     Stores, Written, Supplied
<1> QED BY <1>1, Invariance, PTL

\* Decoupled stores execute in program order, each after its value.
THEOREM InOrder == Spec => []StoresInOrder
<1>1. IInv => StoresInOrder
  BY SizesAssumption DEF IInv, TypeOK, StoreInv, StoresInOrder, Executed, Stores, Written
<1> QED BY <1>1, Invariance, PTL

\* A forward stays connected until its RECV takes the value (the assertions
\* of DESCQ.cpp:66, 69 and 85).
THEOREM Connected == Spec => []ForwardsConnected
<1>1. IInv => ForwardsConnected
  <2> SUFFICES ASSUME IInv PROVE ForwardsConnected
    OBVIOUS
  <2>1. \A s \in Stores : Supplied <= s => stvalStage[s] \in {"waiting", "queued"}
    BY SizesAssumption DEF IInv, TypeOK, StoreInv, Executed, Stages, Stores, Supplied
  <2> QED BY <2>1 DEF IInv, ForwardInv, ForwardsConnected
<1> QED BY <1>1, Invariance, PTL

\* The counters of the queue are exactly the sizes of what they count, so the
\* entries that issue reserves are neither leaked nor freed twice.
THEOREM Counted == Spec => []CountersExact
<1>1. IInv => CountersExact
  <2> SUFFICES ASSUME IInv PROVE CountersExact
    OBVIOUS
  <2>1. commQ \cap PendingTerminals = {}
    BY DEF IInv, TypeOK, StageInv, PendingTerminals
  <2>2. SAB_count = Cardinality(SAB)
    <3>1. SAB = Written .. SAB_issue_pointer - 1
      <4>1. SAB \subseteq Stores /\ Written .. SAB_issue_pointer - 1 \subseteq Stores
        BY SizesAssumption DEF IInv, TypeOK, StoreInv, Stores, Written
      <4>2. \A s \in Stores : s \in SAB <=> s >= Written /\ s < SAB_issue_pointer
        BY SizesAssumption DEF IInv, TypeOK, StoreInv, Executed, Stages, Stores, Written
      <4>3. \A s \in Stores : s \in Written .. SAB_issue_pointer - 1
                                <=> s >= Written /\ s < SAB_issue_pointer
        BY SizesAssumption DEF IInv, TypeOK, Stores, Written
      <4> QED BY <4>1, <4>2, <4>3
    <3>2. Written \in Int /\ SAB_issue_pointer - 1 \in Int
      BY SizesAssumption DEF IInv, TypeOK, Written
    <3>3. Cardinality(Written .. SAB_issue_pointer - 1)
            = IF Written > SAB_issue_pointer - 1 THEN 0 ELSE SAB_issue_pointer - 1 - Written + 1
      BY <3>2, FS_Interval
    <3>4. Written \in Int /\ SAB_issue_pointer \in Int /\ Written <= SAB_issue_pointer /\ SAB_count = SAB_issue_pointer - Written
      BY <3>2 DEF IInv, TypeOK, StoreInv
    <3>5. Cardinality(Written .. SAB_issue_pointer - 1) = SAB_issue_pointer - Written
      BY <3>3, <3>4
    <3> QED BY <3>1, <3>4, <3>5
  <2>3. SVB_count = Cardinality({s \in Stores : stvalStage[s] = "queued"})
    <3>1. {s \in Stores : stvalStage[s] = "queued"} = Supplied .. SVB_issue_pointer - 1
      BY SizesAssumption DEF IInv, TypeOK, StoreInv, Executed, Stages, Stores, Supplied, Written
    <3>2. Supplied \in Int /\ SVB_issue_pointer - 1 \in Int
      BY SizesAssumption DEF IInv, TypeOK, Supplied
    <3>3. Cardinality(Supplied .. SVB_issue_pointer - 1)
            = IF Supplied > SVB_issue_pointer - 1 THEN 0 ELSE SVB_issue_pointer - 1 - Supplied + 1
      BY <3>2, FS_Interval
    <3>4. Supplied \in Int /\ SVB_issue_pointer \in Int /\ Supplied <= SVB_issue_pointer /\ SVB_count = SVB_issue_pointer - Supplied
      BY <3>2 DEF IInv, TypeOK, StoreInv
    <3>5. Cardinality(Supplied .. SVB_issue_pointer - 1) = SVB_issue_pointer - Supplied
      BY <3>3, <3>4
    <3> QED BY <3>1, <3>4, <3>5
  <2> QED BY <2>1, <2>2, <2>3 DEF IInv, CountInv, Held, CountersExact
<1> QED BY <1>1, Invariance, PTL

-----------------------------------------------------------------------------
(* The decoupled queue implements DecoupledChannel, for all sizes and      *)
(* programs: every step of the queue is a step of the channel or leaves it *)
(* alone.  An issue of a producer reserves an entry, its completion or the *)
(* STVAL it waits for fills it, the RECV takes it; a STVAL that completes  *)
(* supplies a value and a STADDR that executes writes it.                  *)

entryMap   == [p \in Prods |-> EntryOf(p)]
valuesMap  == Cardinality({s \in Stores : stvalStage[s] = "completed"})
writtenMap == SAB_back + 1 - SAB_size

\* What the state of an entry means in the queue.
Mapped ==
  /\ DOMAIN entryMap = Prods
  /\ entryMap \in [Prods -> {"free", "reserved", "full", "taken"}]
  /\ \A p \in Prods :
       /\ entryMap[p] = "free" <=> prodStage[p] = "waiting"
       /\ entryMap[p] = "taken" <=> recvStage[p] \in Executed
       /\ entryMap[p] = "full" <=>
            /\ recvStage[p] \notin Executed /\ prodStage[p] = "completed"
            /\ mem_status[p] \in {"NONE", "FWD_COMPLETE"}

LEMMA IsMapped == IInv => Mapped
<1> SUFFICES ASSUME IInv PROVE Mapped
  OBVIOUS
<1>1. ASSUME NEW p \in Prods
      PROVE  /\ EntryOf(p) \in {"free", "reserved", "full", "taken"}
             /\ EntryOf(p) = "free" <=> prodStage[p] = "waiting"
             /\ EntryOf(p) = "taken" <=> recvStage[p] \in Executed
             /\ EntryOf(p) = "full" <=>
                  /\ recvStage[p] \notin Executed /\ prodStage[p] = "completed"
                  /\ mem_status[p] \in {"NONE", "FWD_COMPLETE"}
  BY DEF IInv, TypeOK, StageInv, EntryOf, Executed, Stages
<1> QED BY <1>1 DEF Mapped, entryMap

LEMMA IsMappedNext == IInv' => Mapped'
BY IsMapped, PTL

\* The cardinality of the channel is that of the queue.
LEMMA ChannelCounts == \A S : Channel!Cardinality(S) = Cardinality(S)
BY DEF Channel!Cardinality, Cardinality

\* Each action of the channel, in terms of the three maps.
LEMMA ReserveMaps ==
  ASSUME NEW p \in Prods, entryMap[p] = "free",
         Cardinality({q \in Prods : entryMap[q] \in {"reserved", "full"}}) < commQ_size,
         entryMap' = [entryMap EXCEPT ![p] = "reserved"],
         UNCHANGED <<valuesMap, writtenMap>>
  PROVE  Channel!Reserve(p)
BY ChannelCounts DEF Channel!Reserve, Channel!Held, entryMap, valuesMap, writtenMap

LEMMA FillMaps ==
  ASSUME NEW P \in SUBSET Prods, \A p \in P : entryMap[p] = "reserved",
         entryMap' = [p \in Prods |-> IF p \in P THEN "full" ELSE entryMap[p]],
         UNCHANGED <<valuesMap, writtenMap>>
  PROVE  Channel!Fill(P)
BY DEF Channel!Fill, entryMap, valuesMap, writtenMap

LEMMA TakeMaps ==
  ASSUME NEW p \in Prods, entryMap[p] = "full",
         entryMap' = [entryMap EXCEPT ![p] = "taken"],
         UNCHANGED <<valuesMap, writtenMap>>
  PROVE  Channel!Take(p)
BY DEF Channel!Take, entryMap, valuesMap, writtenMap

LEMMA SupplyMaps ==
  ASSUME valuesMap = writtenMap, valuesMap < NumStores, valuesMap' = valuesMap + 1,
         UNCHANGED <<entryMap, writtenMap>>
  PROVE  Channel!SupplyValue
BY DEF Channel!SupplyValue, entryMap, valuesMap, writtenMap

LEMMA WriteMaps ==
  ASSUME writtenMap < valuesMap, writtenMap' = writtenMap + 1,
         UNCHANGED <<entryMap, valuesMap>>
  PROVE  Channel!Write
BY DEF Channel!Write, entryMap, valuesMap, writtenMap

-----------------------------------------------------------------------------
(* The steps of the loads.                                                 *)

Refines == Channel!Next \/ UNCHANGED <<entryMap, valuesMap, writtenMap>>

\* A step that moves one load changes no other entry.
LEMMA OneEntry ==
  ASSUME Mapped, Mapped', NEW p \in Prods,
         \A q \in Prods \ {p} : /\ prodStage'[q] = prodStage[q] /\ recvStage'[q] = recvStage[q]
                                /\ mem_status'[q] = mem_status[q]
  PROVE  entryMap' = [entryMap EXCEPT ![p] = entryMap'[p]]
<1>1. \A q \in Prods \ {p} : entryMap'[q] = entryMap[q]
  BY DEF Mapped
<1> QED BY <1>1 DEF Mapped

LEMMA StoresStay ==
  ASSUME UNCHANGED <<stvalStage, SAB_back>>
  PROVE  UNCHANGED <<valuesMap, writtenMap>>
BY DEF valuesMap, writtenMap

\* The entries of the channel that are held are counted by commQ_count.
LEMMA HeldCounted ==
  ASSUME IInv, Mapped, ~CommQFull
  PROVE  Cardinality({q \in Prods : entryMap[q] \in {"reserved", "full"}}) < commQ_size
<1> DEFINE H == {q \in Prods : entryMap[q] \in {"reserved", "full"}}
<1>1. H \subseteq Held
  BY DEF IInv, StageInv, Mapped, Held
<1>2. Cardinality(H) <= Cardinality(Held) /\ Cardinality(H) \in Nat
  BY <1>1, CountedFinite, FS_Subset, FS_CardinalityType DEF IInv
<1> QED BY <1>2, SizesAssumption DEF IInv, TypeOK, CountInv, CommQFull

\* Every issue of a producer reserves its entry.
LEMMA IssueRefines ==
  ASSUME IInv, Mapped, Mapped', NEW p \in Prods,
         \/ IssueSend(p) \/ IssueLdProdMemory(p) \/ IssueLdProdLsq(p)
         \/ \E s \in Stores : IssueLdProdSvb(p, s)
         \/ IssueTrmAtomic(p)
  PROVE  Refines
<1>1. /\ ~CommQFull /\ prodStage[p] = "waiting"
      /\ prodStage' = [prodStage EXCEPT ![p] = "queued"]
      /\ UNCHANGED <<recvStage, stvalStage, SAB_back>>
      /\ \A q \in Prods \ {p} : mem_status'[q] = mem_status[q]
  BY DEF IInv, TypeOK, IssueSend, IssueLdProdMemory, IssueLdProdLsq, IssueLdProdSvb, CanIssueLdProd,
     IssueTrmAtomic, computeVars, sabVars
<1>2. recvStage[p] \notin Executed
  BY <1>1 DEF IInv, StageInv
<1>3. prodStage'[p] = "queued" /\ \A q \in Prods \ {p} : prodStage'[q] = prodStage[q]
  BY <1>1 DEF IInv, TypeOK
<1>4. entryMap[p] = "free" /\ entryMap'[p] = "reserved"
  BY <1>1, <1>2, <1>3 DEF Mapped
<1>5. entryMap' = [entryMap EXCEPT ![p] = "reserved"]
  BY <1>1, <1>3, <1>4, OneEntry
<1>6. Channel!Reserve(p)
  BY <1>1, <1>4, <1>5, StoresStay, HeldCounted, ReserveMaps
<1> QED BY <1>6 DEF Refines, Channel!Next

\* Until a producer completes its entry stays reserved.
LEMMA ProduceRefines ==
  ASSUME IInv, Mapped, Mapped', NEW p \in Prods,
         \/ ExecuteProduce(p) \/ ExecuteTerminalLoad(p) \/ ExecuteTrmAtomic(p)
         \/ MemoryReturn(p) \/ DrainTerminal(p)
  PROVE  Refines
<1>1. /\ prodStage[p] \in {"queued", "terminal"} /\ prodStage'[p] \notin {"waiting", "completed"}
      /\ UNCHANGED <<recvStage, stvalStage, SAB_back>>
      /\ \A q \in Prods \ {p} : mem_status'[q] = mem_status[q] /\ prodStage'[q] = prodStage[q]
  BY DEF IInv, TypeOK, StageInv, ExecuteProduce, ExecuteTerminalLoad, ExecuteTrmAtomic, MemoryReturn,
     DrainTerminal, computeVars, supplyVars, commVars, sabVars
<1>2. recvStage[p] \notin Executed
  BY <1>1 DEF IInv, StageInv
<1>3. entryMap'[p] = entryMap[p]
  BY <1>1, <1>2 DEF Mapped
<1>4. UNCHANGED entryMap
  BY <1>1, <1>3, OneEntry DEF Mapped
<1> QED BY <1>1, <1>4, StoresStay DEF Refines

\* A producer that completes fills its entry, unless it waits for a forward.
LEMMA FinishProduceRefines ==
  ASSUME IInv, Mapped, Mapped', NEW p \in Prods, FinishProduce(p)
  PROVE  Refines
<1>1. /\ prodStage[p] = "finishing" /\ prodStage'[p] = "completed"
      /\ UNCHANGED <<recvStage, stvalStage, mem_status, SAB_back>>
      /\ \A q \in Prods \ {p} : prodStage'[q] = prodStage[q]
  BY DEF IInv, TypeOK, FinishProduce, computeVars, commVars, sabVars
<1>2. entryMap[p] = "reserved" /\ entryMap'[p] \in {"reserved", "full"}
  BY <1>1 DEF IInv, StageInv, Mapped
<1>3. entryMap' = [entryMap EXCEPT ![p] = entryMap'[p]]
  BY <1>1, OneEntry
<1>4. CASE entryMap'[p] = "full"
  <2>1. entryMap' = [q \in Prods |-> IF q \in {p} THEN "full" ELSE entryMap[q]]
    BY <1>3, <1>4 DEF Mapped
  <2>2. Channel!Fill({p})
    BY <1>1, <1>2, <2>1, StoresStay, FillMaps
  <2> QED BY <2>2 DEF Refines, Channel!Next
<1>5. CASE entryMap'[p] = "reserved"
  <2>1. UNCHANGED entryMap
    BY <1>2, <1>3, <1>5 DEF Mapped
  <2> QED BY <1>1, <2>1, StoresStay DEF Refines
<1> QED BY <1>2, <1>4, <1>5

\* A RECV that executes takes a full entry.
LEMMA RecvRefines ==
  ASSUME IInv, Mapped, Mapped', NEW p \in Prods, RecvStep(p)
  PROVE  Refines
<1>1. UNCHANGED <<prodStage, stvalStage, mem_status, SAB_back>>
  BY DEF RecvStep, IssueRecv, ExecuteRecv, FinishRecv, supplyVars, commVars, sabVars
<1>2. \A q \in Prods \ {p} : recvStage'[q] = recvStage[q]
  BY DEF IInv, TypeOK, RecvStep, IssueRecv, ExecuteRecv, FinishRecv
<1>3. entryMap' = [entryMap EXCEPT ![p] = entryMap'[p]]
  BY <1>1, <1>2, OneEntry
<1>4. CASE ExecuteRecv(p)
  <2>1. /\ recvStage[p] = "queued" /\ recvStage'[p] = "finishing"
        /\ prodStage[p] = "completed" /\ mem_status[p] \in {"NONE", "FWD_COMPLETE"}
    BY <1>4 DEF IInv, TypeOK, ExecuteRecv
  <2>2. entryMap[p] = "full" /\ entryMap'[p] = "taken"
    BY <2>1 DEF Mapped, Executed
  <2>3. Channel!Take(p)
    BY <1>1, <1>3, <2>2, StoresStay, TakeMaps
  <2> QED BY <2>3 DEF Refines, Channel!Next
<1>5. CASE IssueRecv(p) \/ FinishRecv(p)
  <2>1. recvStage[p] \in Executed <=> recvStage'[p] \in Executed
    BY <1>5 DEF IInv, TypeOK, IssueRecv, FinishRecv, Executed
  <2>2. entryMap'[p] = entryMap[p]
    BY <1>1, <2>1 DEF Mapped
  <2>3. UNCHANGED entryMap
    BY <1>3, <2>2 DEF Mapped
  <2> QED BY <1>1, <2>3, StoresStay DEF Refines
<1> QED BY <1>4, <1>5 DEF RecvStep

-----------------------------------------------------------------------------
(* The steps of the stores.                                                *)

LEMMA LoadsStay ==
  ASSUME UNCHANGED <<prodStage, recvStage, mem_status>>, Mapped, Mapped'
  PROVE  UNCHANGED entryMap
<1>1. \A p \in Prods : entryMap'[p] = entryMap[p]
  BY DEF Mapped
<1> QED BY <1>1 DEF Mapped

\* The values that have been supplied are those of the stores below a bound:
\* of all that are written, and of the next one when it has completed.
LEMMA ValuesCounted ==
  ASSUME IInv, NEW n \in {Written, Written + 1},
         n <= NumStores, \A s \in Stores : stvalStage[s] = "completed" <=> s < n
  PROVE  valuesMap = n
<1>1. n \in Int /\ 0 <= n
  BY SizesAssumption DEF IInv, TypeOK, StoreInv, Written
<1>2. {s \in Stores : stvalStage[s] = "completed"} = 0 .. n - 1
  BY <1>1, SizesAssumption DEF Stores
<1>3. Cardinality(0 .. n - 1) = IF 0 > n - 1 THEN 0 ELSE n - 1 - 0 + 1
  BY <1>1, FS_Interval
<1>4. Cardinality(0 .. n - 1) = n
  BY <1>1, <1>3
<1> QED BY <1>2, <1>4 DEF valuesMap

\* The STVAL that completes has left the buffer for the store that is next.
LEMMA FinishStvalRefines ==
  ASSUME IInv, IInv', Mapped, Mapped', NEW s \in Stores, FinishStval(s)
  PROVE  Refines
<1>1. /\ stvalStage[s] = "finishing" /\ stvalStage' = [stvalStage EXCEPT ![s] = "completed"]
      /\ UNCHANGED <<prodStage, recvStage, mem_status, SAB_back, SVB_back>>
  BY DEF FinishStval, supplyVars, commVars, sabVars, svbVars
<1>2. s = Written /\ Supplied = Written + 1 /\ Written \in Nat
  <2>1. s \in Int /\ Written \in Int /\ Supplied \in Int
    BY SizesAssumption DEF IInv, TypeOK, Stores, Written, Supplied
  <2>2. 0 <= Written /\ Supplied <= Written + 1
    BY DEF IInv, StoreInv
  <2>3. ~(s < Written) /\ s < Supplied
    BY <1>1 DEF IInv, StoreInv, Executed
  <2> QED BY <2>1, <2>2, <2>3
<1>3. \A t \in Stores : (stvalStage[t] = "completed" <=> t < Written)
                        /\ (stvalStage'[t] = "completed" <=> t < Written + 1)
  <2>1. \A t \in Stores : stvalStage[t] = "completed" <=> t < Written
    <3>1. \A t \in Stores : (stvalStage[t] = "completed" => t < Written + 1)
                            /\ (t < Written => stvalStage[t] = "completed")
      BY <1>2 DEF IInv, StoreInv, Executed
    <3>2. \A t \in Stores : t < Written + 1 /\ t # Written => t < Written
      BY <1>2, SizesAssumption DEF Stores
    <3> QED BY <1>1, <1>2, <3>1, <3>2
  <2>2. \A t \in Stores : t < Written + 1 <=> t < Written \/ t = s
    BY <1>2, SizesAssumption DEF Stores
  <2>3. \A t \in Stores : stvalStage'[t] = IF t = s THEN "completed" ELSE stvalStage[t]
    BY <1>1 DEF IInv, TypeOK
  <2> QED BY <2>1, <2>2, <2>3
<1>4. Written < NumStores /\ Written <= NumStores
  BY <1>2, SizesAssumption DEF Stores
<1>5. valuesMap = Written
  BY <1>3, <1>4, ValuesCounted
<1>6. valuesMap' = Written + 1
  <2>1. {t \in Stores : stvalStage'[t] = "completed"} = 0 .. Written
    BY <1>2, <1>3, <1>4, SizesAssumption DEF Stores
  <2>2. Cardinality(0 .. Written) = IF 0 > Written THEN 0 ELSE Written - 0 + 1
    BY <1>2, FS_Interval
  <2>3. Cardinality(0 .. Written) = Written + 1
    BY <1>2, <2>2
  <2> QED BY <2>1, <2>3 DEF valuesMap
<1>7. writtenMap = Written /\ UNCHANGED writtenMap
  BY <1>1 DEF writtenMap, Written
<1>8. Channel!SupplyValue
  BY <1>1, <1>4, <1>5, <1>6, <1>7, LoadsStay, SupplyMaps
<1> QED BY <1>8 DEF Refines, Channel!Next

\* A STADDR that executes writes the value that is ahead.
LEMMA ExecuteStaddrRefines ==
  ASSUME IInv, Mapped, Mapped', NEW s \in Stores, ExecuteStaddr(s)
  PROVE  Refines
<1>1. /\ staddrStage[s] = "queued" /\ stvalStage[s] = "completed" /\ SAB_back' = SAB_back + 1
      /\ UNCHANGED <<prodStage, recvStage, mem_status, stvalStage>>
  BY DEF ExecuteStaddr, computeVars, commVars
<1>2. s = Written /\ Supplied = Written + 1 /\ Written \in Nat
  BY <1>1, SizesAssumption DEF IInv, TypeOK, StoreInv, Executed, Stores, Written, Supplied
<1>3. \A t \in Stores : stvalStage[t] = "completed" <=> t < Written + 1
  BY <1>1, <1>2, SizesAssumption DEF IInv, TypeOK, StoreInv, Executed, Stores
<1>4. Written + 1 <= NumStores
  BY <1>2, SizesAssumption DEF Stores
<1>5. valuesMap = Written + 1
  BY <1>2, <1>3, <1>4, ValuesCounted
<1>6. writtenMap = Written /\ writtenMap' = writtenMap + 1
  BY <1>1, SizesAssumption DEF IInv, TypeOK, writtenMap, Written
<1>7. UNCHANGED valuesMap
  BY <1>1 DEF valuesMap
<1>8. Channel!Write
  BY <1>1, <1>2, <1>5, <1>6, <1>7, LoadsStay, WriteMaps
<1> QED BY <1>8 DEF Refines, Channel!Next

\* A STVAL that stays hands its value to the loads that wait for it, and those
\* among them that have completed are filled at once.
LEMMA ForwardRefines ==
  ASSUME IInv, Mapped, Mapped', NEW s \in Stores, ExecuteStvalStay(s)
  PROVE  Refines
<1> DEFINE P == {p \in SVB[s] : prodStage[p] = "completed" /\ mem_status[p] = "DESC_FWD"}
<1>1. /\ UNCHANGED <<prodStage, recvStage, stvalStage, SAB_back>>
      /\ mem_status' = [p \in Prods |-> IF p \in SVB[s] THEN "FWD_COMPLETE" ELSE mem_status[p]]
  BY DEF ExecuteStvalStay, ForwardStval, supplyVars, computeVars, sabVars
<1>2. \A p \in SVB[s] : p \in Prods /\ p \in commQ /\ mem_status[p] \in {"DESC_FWD", "FWD_COMPLETE"}
  BY DEF IInv, TypeOK, ForwardInv
<1>3. \A p \in SVB[s] : recvStage[p] \notin Executed /\ prodStage[p] # "waiting"
  BY <1>2 DEF IInv, StageInv
<1>4. P \in SUBSET Prods /\ \A p \in P : entryMap[p] = "reserved" /\ entryMap'[p] = "full"
  BY <1>1, <1>2, <1>3 DEF Mapped
<1>5. \A p \in Prods \ P : entryMap'[p] = entryMap[p]
  BY <1>1, <1>2, <1>3 DEF Mapped
<1>6. entryMap' = [p \in Prods |-> IF p \in P THEN "full" ELSE entryMap[p]]
  BY <1>4, <1>5 DEF Mapped
<1>7. Channel!Fill(P)
  BY <1>1, <1>4, <1>6, StoresStay, FillMaps
<1> QED BY <1>4, <1>7 DEF Refines, Channel!Next

\* The other steps of stores, of windows and of addresses leave the channel.
LEMMA OtherRefines ==
  ASSUME IInv, Mapped, Mapped',
         \/ RetireSupply \/ RetireCompute \/ UNCHANGED vars
         \/ \E s \in Stores : \/ ResolveAddress(s) \/ IssueStaddr(s) \/ FinishStaddr(s)
                              \/ IssueStval(s) \/ ExecuteStvalLeave(s)
  PROVE  Refines
<1>1. UNCHANGED <<prodStage, recvStage, mem_status, SAB_back>>
  BY DEF vars, RetireSupply, RetireCompute, ResolveAddress, IssueStaddr, FinishStaddr, IssueStval,
     ExecuteStvalLeave, supplyVars, computeVars, commVars, sabVars
<1>2. \A s \in Stores : stvalStage'[s] = "completed" <=> stvalStage[s] = "completed"
  BY DEF IInv, TypeOK, vars, RetireSupply, RetireCompute, ResolveAddress, IssueStaddr, FinishStaddr,
     IssueStval, ExecuteStvalLeave, computeVars
<1>3. UNCHANGED <<valuesMap, writtenMap>>
  BY <1>1, <1>2 DEF valuesMap, writtenMap
<1> QED BY <1>1, <1>3, LoadsStay DEF Refines

-----------------------------------------------------------------------------
LEMMA NextRefines == IInv /\ [Next]_vars => Refines
<1> SUFFICES ASSUME IInv, [Next]_vars PROVE Refines
  OBVIOUS
<1>1. IInv' /\ Mapped /\ Mapped'
  BY NextIInv, IsMapped, IsMappedNext
<1>2. ASSUME NEW p \in Prods, ProduceStep(p) \/ RecvStep(p) PROVE Refines
  BY <1>1, <1>2, IssueRefines, ProduceRefines, FinishProduceRefines, RecvRefines DEF ProduceStep
<1>3. ASSUME NEW s \in Stores, StaddrStep(s) \/ StvalStep(s) PROVE Refines
  BY <1>1, <1>3, ExecuteStaddrRefines, FinishStvalRefines, ForwardRefines, OtherRefines
     DEF StaddrStep, StvalStep
<1>4. CASE RetireSupply \/ RetireCompute \/ Finished \/ UNCHANGED vars
  BY <1>1, <1>4, OtherRefines DEF Finished
<1> QED BY <1>2, <1>3, <1>4 DEF Next

LEMMA InitRefines == Init => Channel!Init
<1> SUFFICES ASSUME Init PROVE Channel!Init
  OBVIOUS
<1>1. Mapped
  BY InitIInv, IsMapped
<1>2. entryMap = [p \in Prods |-> "free"]
  BY <1>1 DEF Init, Mapped
<1>3. {s \in Stores : stvalStage[s] = "completed"} = {}
  BY DEF Init
<1>4. valuesMap = 0
  BY <1>3, FS_EmptySet DEF valuesMap
<1>5. writtenMap = 0
  BY SizesAssumption DEF Init, writtenMap
<1> QED BY <1>2, <1>4, <1>5 DEF Channel!Init, entryMap, valuesMap, writtenMap

\* The queue, its forwarding and its store buffers implement the channel:
\* entries are reserved within capacity, filled before they are taken and
\* taken once, and stores are written one by one after their values, whatever
\* the interleaving of the two cores and of DESCQ::process.
THEOREM Implementation == Spec => ImplementsChannel
<1>1. IInv /\ [Next]_vars => [Channel!Next]_<<entryMap, valuesMap, writtenMap>>
  BY NextRefines DEF Refines
<1> QED BY <1>1, InitRefines, Invariance, PTL
        DEF Spec, ImplementsChannel, Channel!Spec, entryMap, valuesMap, writtenMap
=============================================================================
