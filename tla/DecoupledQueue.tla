--------------------------- MODULE DecoupledQueue ---------------------------
(***************************************************************************)
(* The DESCQ that a supply core and a compute core share                   *)
(* (src/sim/tile/DESCQ.cpp), together with the code that feeds it:         *)
(* DynamicNode::issueDESCNode, the in-order retirement of both instruction *)
(* windows, the memory answer and the completion of a node.                *)
(*                                                                         *)
(* The supply core runs producers (SEND, LD_PROD, terminal atomics) and    *)
(* STADDRs, the compute core the RECVs and STVALs that match them.  DESCQ:: *)
(* order numbers each of the four classes in program order, so here the    *)
(* producers and the RECVs are both numbered by Prods, the STADDRs and the *)
(* STVALs by Stores: the number is the desc_id.                            *)
(*                                                                         *)
(* The two cores and the pilot that runs DESCQ::process may be on three    *)
(* threads that take no lock, so a step is one call of issueDESCNode,      *)
(* execute or finishNode, in any order.  A pass of DESCQ::process is a     *)
(* sequence of such steps (its pq and execution_set are visited in an      *)
(* order the addresses of the nodes decide).  Latencies are abstracted: a  *)
(* node may stay any time in a priority queue.                             *)
(***************************************************************************)
EXTENDS Integers, FiniteSets

CONSTANTS
  NumProds,         \* producers of the supply core = RECVs of the compute core
  NumStores,        \* STADDRs of the supply core = STVALs of the compute core
  Addrs,            \* addresses
  Programs,         \* the pairs of slices the two cores may be given
  commQ_size,       \* entries of the communication queue
  term_buffer_size, \* entries of the terminal load buffer
  SAB_size,         \* entries of the store address buffer
  SVB_size,         \* entries of the store value buffer
  SupplyWindow,     \* window_size of the supply core
  ComputeWindow,    \* window_size of the compute core
  MemForward        \* mem_forward: LD_PROD may take its value from the LSQ

Prods  == 0 .. NumProds - 1
Stores == 0 .. NumStores - 1
Kinds  == {"SEND", "LD_PROD", "TRM_ATOMIC"}

\* A program: the kind and address of every producer, the address of every
\* store, and how many stores precede each load in program order (the two
\* slices of one program keep the order of its loads and stores).
ProgramType ==
  [kind : [Prods -> Kinds], ldAddr : [Prods -> Addrs],
   stAddr : [Stores -> Addrs], olderStores : [Prods -> 0 .. NumStores]]

ASSUME SizesAssumption ==
  /\ NumProds \in Nat
  /\ NumStores \in Nat
  /\ commQ_size \in Nat \ {0}
  /\ term_buffer_size \in Nat \ {0}
  /\ SAB_size \in Nat \ {0}
  /\ SVB_size \in Nat \ {0}
  /\ SupplyWindow \in Nat \ {0}
  /\ ComputeWindow \in Nat \ {0}
  /\ MemForward \in BOOLEAN

ASSUME ProgramsAssumption == Programs \subseteq ProgramType

VARIABLES
  prog,              \* the program, fixed by the initial state
  prodStage,         \* where each producer is
  recvStage,         \* where each RECV is
  staddrStage,       \* where each STADDR is
  stvalStage,        \* where each STVAL is
  resolved,          \* STADDRs whose address is resolved (addr_resolved)
  mem_status,        \* MemStatus of each producer
  commQ,             \* desc_ids in the communication queue
  commQ_count,
  term_ld_count,
  SAB,               \* desc_ids in the store address buffer
  SAB_count,
  SAB_issue_pointer,
  SAB_back,
  SVB,               \* desc_ids of the loads waiting for each STVAL
  STLMap,            \* the STVAL each forwarded load waits for
  SVB_count,
  SVB_issue_pointer,
  SVB_back,
  supplyStart,       \* window_start of the supply core
  computeStart       \* window_start of the compute core

supplyVars  == <<prodStage, staddrStage>>
computeVars == <<recvStage, stvalStage>>
commVars    == <<mem_status, commQ, commQ_count, term_ld_count>>
sabVars     == <<SAB, SAB_count, SAB_issue_pointer, SAB_back>>
svbVars     == <<SVB_count, SVB_issue_pointer, SVB_back>>
fwdVars     == <<SVB, STLMap>>
windowVars  == <<supplyStart, computeStart>>
vars == <<prog, supplyVars, computeVars, resolved, commVars, sabVars,
          svbVars, fwdVars, windowVars>>

\* DISPATCHed, in DESCQ::pq or execution_set, in TLBuffer, in the pq of its
\* context, finished.
Stages    == {"waiting", "queued", "terminal", "finishing", "completed"}
MemStatus == {"NONE", "DESC_FWD", "PENDING", "RETURNED", "FWD_COMPLETE"}
NoStore   == NumStores    \* STLMap.find(d) == STLMap.end()

TypeOK ==
  /\ prog \in Programs
  /\ prodStage \in [Prods -> Stages]
  /\ recvStage \in [Prods -> Stages \ {"terminal"}]
  /\ staddrStage \in [Stores -> Stages \ {"terminal"}]
  /\ stvalStage \in [Stores -> Stages \ {"terminal"}]
  /\ resolved \in SUBSET Stores
  /\ mem_status \in [Prods -> MemStatus]
  /\ commQ \in SUBSET Prods
  /\ commQ_count \in 0 .. commQ_size
  /\ term_ld_count \in 0 .. term_buffer_size
  /\ SAB \in SUBSET Stores
  /\ SAB_count \in 0 .. SAB_size
  /\ SAB_issue_pointer \in 0 .. NumStores
  /\ SAB_back \in SAB_size - 1 .. SAB_size - 1 + NumStores
  /\ SVB \in [Stores -> SUBSET Prods]
  /\ STLMap \in [Prods -> Stores \cup {NoStore}]
  /\ SVB_count \in 0 .. SVB_size
  /\ SVB_issue_pointer \in 0 .. NumStores
  /\ SVB_back \in SVB_size - 1 .. SVB_size - 1 + NumStores
  /\ supplyStart \in 0 .. NumProds + NumStores
  /\ computeStart \in 0 .. NumProds + NumStores

Init ==
  /\ prog \in Programs
  /\ prodStage = [p \in Prods |-> "waiting"]
  /\ recvStage = [p \in Prods |-> "waiting"]
  /\ staddrStage = [s \in Stores |-> "waiting"]
  /\ stvalStage = [s \in Stores |-> "waiting"]
  /\ resolved = {}
  /\ mem_status = [p \in Prods |-> "NONE"]
  /\ commQ = {}
  /\ commQ_count = 0
  /\ term_ld_count = 0
  /\ SAB = {}
  /\ SAB_count = 0
  /\ SAB_issue_pointer = 0
  /\ SAB_back = SAB_size - 1
  /\ SVB = [s \in Stores |-> {}]
  /\ STLMap = [p \in Prods |-> NoStore]
  /\ SVB_count = 0
  /\ SVB_issue_pointer = 0
  /\ SVB_back = SVB_size - 1
  /\ supplyStart = 0
  /\ computeStart = 0

-----------------------------------------------------------------------------
(* Program order and the two instruction windows.                          *)

\* Positions in a core's program order (DynamicNode::windowNumber).  A RECV
\* and an STVAL stand in the compute slice where their partners do.
LoadPos(p)  == p + prog.olderStores[p]
StorePos(s) == s + Cardinality({p \in Prods : prog.olderStores[p] <= s})

OlderStores(p) == {s \in Stores : s < prog.olderStores[p]}
OlderMatches(p) == {s \in OlderStores(p) : prog.stAddr[s] = prog.ldAddr[p]}

\* IssueWindow::canIssue.  window_end is 0 until the first retirement, when
\* it first takes window_size into account.
InWindow(start, size, pos) ==
  /\ pos >= start
  /\ pos <= IF start = 0 THEN 0 ELSE start + size - 1

InSupplyWindow(pos)  == InWindow(supplyStart, SupplyWindow, pos)
InComputeWindow(pos) == InWindow(computeStart, ComputeWindow, pos)

LeftRob(s) == StorePos(s) < supplyStart

\* What IssueWindow::process lets go: completed nodes, and the classes whose
\* can_exit_rob is set by their issue (all of DESC but SEND and RECV).
SupplyRetirable ==
  {LoadPos(p) : p \in {q \in Prods :
      prodStage[q] = "completed" \/ (prog.kind[q] # "SEND" /\ prodStage[q] # "waiting")}}
  \cup {StorePos(s) : s \in {t \in Stores : staddrStage[t] # "waiting"}}

ComputeRetirable ==
  {LoadPos(p) : p \in {q \in Prods : recvStage[q] = "completed"}}
  \cup {StorePos(s) : s \in {t \in Stores : stvalStage[t] # "waiting"}}

\* IssueWindow::process: retire from the head while the head may leave.
RetireSupply ==
  /\ \E n \in supplyStart + 1 .. NumProds + NumStores :
       /\ supplyStart .. n - 1 \subseteq SupplyRetirable
       /\ n \notin SupplyRetirable
       /\ supplyStart' = n
  /\ UNCHANGED <<prog, supplyVars, computeVars, resolved, commVars, sabVars,
                 svbVars, fwdVars, computeStart>>

RetireCompute ==
  /\ \E n \in computeStart + 1 .. NumProds + NumStores :
       /\ computeStart .. n - 1 \subseteq ComputeRetirable
       /\ n \notin ComputeRetirable
       /\ computeStart' = n
  /\ UNCHANGED <<prog, supplyVars, computeVars, resolved, commVars, sabVars,
                 svbVars, fwdVars, supplyStart>>

\* The operands of an STADDR arrive: DynamicNode::tryActivate resolves its
\* address in the LSQ and makes it a candidate for issue.
ResolveAddress(s) ==
  /\ s \notin resolved
  /\ resolved' = resolved \cup {s}
  /\ UNCHANGED <<prog, supplyVars, computeVars, commVars, sabVars, svbVars,
                 fwdVars, windowVars>>

-----------------------------------------------------------------------------
(* DynamicNode::issueDESCNode with DESCQ::insert, one action per class.    *)

CommQFull == commQ_count = commQ_size
\* Definitions marked "mutant" are plausible mistakes in the one that follows;
\* substituting them shows that a property notices.
TermFullMutant == term_ld_count > term_buffer_size
TermFull  == term_ld_count = term_buffer_size

\* LoadStoreQ::check_load_issue without speculation: every older address is
\* resolved, and the oldest matching STADDR still in the ROB has issued.
\* A 1-wide core with a window of 1 skips the test.
LsqAllowsLoad(p) ==
  \/ SupplyWindow = 1
  \/ /\ OlderStores(p) \subseteq resolved
     /\ \A s \in OlderMatches(p) :
          (~LeftRob(s) /\ \A t \in OlderMatches(p) : t < s => LeftRob(t))
             => staddrStage[s] # "waiting"

\* LoadStoreQ::check_forwarding(d) == 1 when every older address is resolved:
\* the youngest older matching STADDR is still in the ROB.
LsqForwards(p) ==
  /\ MemForward
  /\ SupplyWindow # 1
  /\ \E s \in OlderMatches(p) :
       /\ \A t \in OlderMatches(p) : t <= s
       /\ ~LeftRob(s)

IsSabFront(s) == s \in SAB /\ \A t \in SAB : s <= t

\* DESCQ::sab_has_dependency: the first match of a walk from the oldest store.
SabDependency(p, s) ==
  /\ s \in SAB \cap OlderMatches(p)
  /\ \A t \in SAB \cap OlderMatches(p) : s <= t

\* mutant: also forwards at the head of the SAB
SvbForwardsMutant(p, s) == SabDependency(p, s)

\* The match can forward its STVAL unless it is at the head of the SAB.
SvbForwards(p, s) == SabDependency(p, s) /\ ~IsSabFront(s)

IssueSend(p) ==
  /\ prog.kind[p] = "SEND" /\ prodStage[p] = "waiting"
  /\ InSupplyWindow(LoadPos(p))
  /\ ~CommQFull
  /\ commQ_count' = commQ_count + 1
  /\ commQ' = commQ \cup {p}
  /\ prodStage' = [prodStage EXCEPT ![p] = "queued"]
  /\ UNCHANGED <<prog, staddrStage, computeVars, resolved, mem_status,
                 term_ld_count, sabVars, svbVars, fwdVars, windowVars>>

CanIssueLdProd(p) ==
  /\ prog.kind[p] = "LD_PROD" /\ prodStage[p] = "waiting"
  /\ InSupplyWindow(LoadPos(p))
  /\ LsqAllowsLoad(p)

\* No forward: the request goes to memory and a terminal entry is reserved.
IssueLdProdMemory(p) ==
  /\ CanIssueLdProd(p)
  /\ ~LsqForwards(p)
  /\ ~ \E s \in Stores : SvbForwards(p, s)
  /\ ~TermFull /\ ~CommQFull
  /\ mem_status' = [mem_status EXCEPT ![p] = "PENDING"]
  /\ commQ_count' = commQ_count + 1
  /\ term_ld_count' = term_ld_count + 1
  /\ prodStage' = [prodStage EXCEPT ![p] = "queued"]
  /\ UNCHANGED <<prog, staddrStage, computeVars, resolved, commQ, sabVars,
                 svbVars, fwdVars, windowVars>>

\* A forward inside the LSQ: LSQ_FWD, which insert turns into NONE.
IssueLdProdLsq(p) ==
  /\ CanIssueLdProd(p)
  /\ LsqForwards(p)
  /\ ~CommQFull
  /\ commQ_count' = commQ_count + 1
  /\ commQ' = commQ \cup {p}
  /\ prodStage' = [prodStage EXCEPT ![p] = "queued"]
  /\ UNCHANGED <<prog, staddrStage, computeVars, resolved, mem_status,
                 term_ld_count, sabVars, svbVars, fwdVars, windowVars>>

\* A decoupled store-to-load forward from the STVAL of s.
IssueLdProdSvb(p, s) ==
  /\ CanIssueLdProd(p)
  /\ ~LsqForwards(p)
  /\ SvbForwards(p, s)
  /\ ~CommQFull
  /\ mem_status' = [mem_status EXCEPT ![p] = "DESC_FWD"]
  /\ STLMap' = [STLMap EXCEPT ![p] = s]
  /\ SVB' = [SVB EXCEPT ![s] = @ \cup {p}]
  /\ commQ_count' = commQ_count + 1
  /\ commQ' = commQ \cup {p}
  /\ prodStage' = [prodStage EXCEPT ![p] = "queued"]
  /\ UNCHANGED <<prog, staddrStage, computeVars, resolved, term_ld_count,
                 sabVars, svbVars, windowVars>>

\* A terminal atomic accesses memory only when it executes.
IssueTrmAtomic(p) ==
  /\ prog.kind[p] = "TRM_ATOMIC" /\ prodStage[p] = "waiting"
  /\ InSupplyWindow(LoadPos(p))
  /\ ~TermFull /\ ~CommQFull
  /\ commQ_count' = commQ_count + 1
  /\ term_ld_count' = term_ld_count + 1
  /\ prodStage' = [prodStage EXCEPT ![p] = "queued"]
  /\ UNCHANGED <<prog, staddrStage, computeVars, resolved, mem_status, commQ,
                 sabVars, svbVars, fwdVars, windowVars>>

IssueRecv(p) ==
  /\ recvStage[p] = "waiting"
  /\ InComputeWindow(LoadPos(p))
  /\ recvStage' = [recvStage EXCEPT ![p] = "queued"]
  /\ UNCHANGED <<prog, supplyVars, stvalStage, resolved, commVars, sabVars,
                 svbVars, fwdVars, windowVars>>

\* STADDRs enter the SAB in order and within SAB_size of the oldest.
IssueStaddr(s) ==
  /\ staddrStage[s] = "waiting" /\ s \in resolved
  /\ InSupplyWindow(StorePos(s))
  /\ s = SAB_issue_pointer /\ s <= SAB_back /\ SAB_count # SAB_size
  /\ SAB' = SAB \cup {s}
  /\ SAB_count' = SAB_count + 1
  /\ SAB_issue_pointer' = SAB_issue_pointer + 1
  /\ staddrStage' = [staddrStage EXCEPT ![s] = "queued"]
  /\ UNCHANGED <<prog, prodStage, computeVars, resolved, commVars, SAB_back,
                 svbVars, fwdVars, windowVars>>

IssueStval(s) ==
  /\ stvalStage[s] = "waiting"
  /\ InComputeWindow(StorePos(s))
  /\ s = SVB_issue_pointer /\ s <= SVB_back /\ SVB_count # SVB_size
  /\ SVB_count' = SVB_count + 1
  /\ SVB_issue_pointer' = SVB_issue_pointer + 1
  /\ stvalStage' = [stvalStage EXCEPT ![s] = "queued"]
  /\ UNCHANGED <<prog, supplyVars, recvStage, resolved, commVars, sabVars,
                 SVB_back, fwdVars, windowVars>>

-----------------------------------------------------------------------------
(* DESCQ::execute, one action per class and outcome.                       *)

\* SEND, and a LD_PROD that does not go to memory: straight to insertQ.
ExecuteProduce(p) ==
  /\ prodStage[p] = "queued"
  /\ prog.kind[p] # "TRM_ATOMIC"
  /\ mem_status[p] \in {"NONE", "DESC_FWD", "FWD_COMPLETE"}
  /\ prodStage' = [prodStage EXCEPT ![p] = "finishing"]
  /\ UNCHANGED <<prog, staddrStage, computeVars, resolved, commVars, sabVars,
                 svbVars, fwdVars, windowVars>>

\* A LD_PROD whose request went out, or has already been answered.
ExecuteTerminalLoad(p) ==
  /\ prodStage[p] = "queued"
  /\ prog.kind[p] = "LD_PROD"
  /\ mem_status[p] \in {"PENDING", "RETURNED"}
  /\ prodStage' = [prodStage EXCEPT ![p] = "terminal"]
  /\ UNCHANGED <<prog, staddrStage, computeVars, resolved, commVars, sabVars,
                 svbVars, fwdVars, windowVars>>

ExecuteTrmAtomic(p) ==
  /\ prodStage[p] = "queued"
  /\ prog.kind[p] = "TRM_ATOMIC"
  /\ mem_status' = [mem_status EXCEPT ![p] = "PENDING"]
  /\ prodStage' = [prodStage EXCEPT ![p] = "terminal"]
  /\ UNCHANGED <<prog, staddrStage, computeVars, resolved, commQ, commQ_count,
                 term_ld_count, sabVars, svbVars, fwdVars, windowVars>>

\* mutant: takes the entry before the producer has completed
ExecuteRecvEarlyMutant(p) ==
  /\ recvStage[p] = "queued"
  /\ p \in commQ
  /\ mem_status[p] \in {"NONE", "FWD_COMPLETE"}
  /\ IF mem_status[p] = "FWD_COMPLETE"
       THEN /\ SVB' = [s \in Stores |-> IF s = STLMap[p] THEN SVB[s] \ {p} ELSE SVB[s]]
            /\ STLMap' = [STLMap EXCEPT ![p] = NoStore]
       ELSE UNCHANGED fwdVars
  /\ commQ_count' = commQ_count - 1
  /\ commQ' = commQ \ {p}
  /\ recvStage' = [recvStage EXCEPT ![p] = "finishing"]
  /\ UNCHANGED <<prog, supplyVars, stvalStage, resolved, mem_status,
                 term_ld_count, sabVars, svbVars, windowVars>>

\* mutant: leaves its desc_id in the SVB
ExecuteRecvKeepMutant(p) ==
  /\ recvStage[p] = "queued"
  /\ p \in commQ /\ prodStage[p] = "completed"
  /\ mem_status[p] \in {"NONE", "FWD_COMPLETE"}
  /\ commQ_count' = commQ_count - 1
  /\ commQ' = commQ \ {p}
  /\ recvStage' = [recvStage EXCEPT ![p] = "finishing"]
  /\ UNCHANGED <<prog, supplyVars, stvalStage, resolved, mem_status,
                 term_ld_count, sabVars, svbVars, fwdVars, windowVars>>

\* A RECV waits for its entry to be completed and to hold its value, then
\* frees the entry and, after a forward, stops holding back the STVAL.
ExecuteRecv(p) ==
  /\ recvStage[p] = "queued"
  /\ p \in commQ /\ prodStage[p] = "completed"
  /\ mem_status[p] \in {"NONE", "FWD_COMPLETE"}
  /\ IF mem_status[p] = "FWD_COMPLETE"
       THEN /\ SVB' = [s \in Stores |-> IF s = STLMap[p] THEN SVB[s] \ {p} ELSE SVB[s]]
            /\ STLMap' = [STLMap EXCEPT ![p] = NoStore]
       ELSE UNCHANGED fwdVars
  /\ commQ_count' = commQ_count - 1
  /\ commQ' = commQ \ {p}
  /\ recvStage' = [recvStage EXCEPT ![p] = "finishing"]
  /\ UNCHANGED <<prog, supplyVars, stvalStage, resolved, mem_status,
                 term_ld_count, sabVars, svbVars, windowVars>>

\* An STVAL that executes hands its value to every load that waits for it...
ForwardStval(s) ==
  mem_status' = [p \in Prods |-> IF p \in SVB[s] THEN "FWD_COMPLETE" ELSE mem_status[p]]

\* mutant: leaves as soon as nothing waits for a forward
StvalMayLeaveMutant(s) == SVB[s] = {}
StvalMayLeave(s) == IsSabFront(s) /\ SVB[s] = {}

\* ... and stays in the execution set while its STADDR is not at the head of
\* the SAB or a forwarded load has not been received.
ExecuteStvalStay(s) ==
  /\ stvalStage[s] = "queued"
  /\ ~StvalMayLeave(s)
  /\ \E p \in SVB[s] : mem_status[p] # "FWD_COMPLETE"
  /\ ForwardStval(s)
  /\ UNCHANGED <<prog, supplyVars, computeVars, resolved, commQ, commQ_count,
                 term_ld_count, sabVars, svbVars, fwdVars, windowVars>>

ExecuteStvalLeave(s) ==
  /\ stvalStage[s] = "queued"
  /\ StvalMayLeave(s)
  /\ SVB_count' = SVB_count - 1
  /\ SVB_back' = SVB_back + 1
  /\ stvalStage' = [stvalStage EXCEPT ![s] = "finishing"]
  /\ UNCHANGED <<prog, supplyVars, recvStage, resolved, commVars, sabVars,
                 SVB_issue_pointer, fwdVars, windowVars>>

\* mutant: writes without waiting for the value
ExecuteStaddrMutant(s) ==
  /\ staddrStage[s] = "queued"
  /\ SAB' = SAB \ {s}
  /\ SAB_count' = SAB_count - 1
  /\ SAB_back' = SAB_back + 1
  /\ staddrStage' = [staddrStage EXCEPT ![s] = "finishing"]
  /\ UNCHANGED <<prog, prodStage, computeVars, resolved, commVars,
                 SAB_issue_pointer, svbVars, fwdVars, windowVars>>

\* An STADDR waits for its STVAL to complete, frees its SAB entry and writes.
ExecuteStaddr(s) ==
  /\ staddrStage[s] = "queued"
  /\ stvalStage[s] = "completed"
  /\ SAB' = SAB \ {s}
  /\ SAB_count' = SAB_count - 1
  /\ SAB_back' = SAB_back + 1
  /\ staddrStage' = [staddrStage EXCEPT ![s] = "finishing"]
  /\ UNCHANGED <<prog, prodStage, computeVars, resolved, commVars,
                 SAB_issue_pointer, svbVars, fwdVars, windowVars>>

-----------------------------------------------------------------------------
(* Memory answers, the terminal load buffer and completion.                *)

\* DynamicNode::handleMemoryReturn for a LD_PROD or a terminal atomic.
MemoryReturn(p) ==
  /\ mem_status[p] = "PENDING"
  /\ mem_status' = [mem_status EXCEPT ![p] = "RETURNED"]
  /\ UNCHANGED <<prog, supplyVars, computeVars, resolved, commQ, commQ_count,
                 term_ld_count, sabVars, svbVars, fwdVars, windowVars>>

\* mutant: the terminal entry is not given back
DrainTerminalMutant(p) ==
  /\ prodStage[p] = "terminal"
  /\ mem_status[p] # "PENDING"
  /\ mem_status' = [mem_status EXCEPT ![p] = "NONE"]
  /\ commQ' = commQ \cup {p}
  /\ prodStage' = [prodStage EXCEPT ![p] = "finishing"]
  /\ UNCHANGED <<prog, staddrStage, computeVars, resolved, commQ_count,
                 term_ld_count, sabVars, svbVars, fwdVars, windowVars>>

\* The last loop of DESCQ::process: an answered load moves to the commQ.
DrainTerminal(p) ==
  /\ prodStage[p] = "terminal"
  /\ mem_status[p] # "PENDING"
  /\ mem_status' = [mem_status EXCEPT ![p] = "NONE"]
  /\ commQ' = commQ \cup {p}
  /\ prodStage' = [prodStage EXCEPT ![p] = "finishing"]
  /\ term_ld_count' = term_ld_count - 1
  /\ UNCHANGED <<prog, staddrStage, computeVars, resolved, commQ_count,
                 sabVars, svbVars, fwdVars, windowVars>>

\* DynamicNode::finishNode, when the pq of the context releases the node.
FinishProduce(p) ==
  /\ prodStage[p] = "finishing"
  /\ prodStage' = [prodStage EXCEPT ![p] = "completed"]
  /\ UNCHANGED <<prog, staddrStage, computeVars, resolved, commVars, sabVars,
                 svbVars, fwdVars, windowVars>>

FinishRecv(p) ==
  /\ recvStage[p] = "finishing"
  /\ recvStage' = [recvStage EXCEPT ![p] = "completed"]
  /\ UNCHANGED <<prog, supplyVars, stvalStage, resolved, commVars, sabVars,
                 svbVars, fwdVars, windowVars>>

FinishStaddr(s) ==
  /\ staddrStage[s] = "finishing"
  /\ staddrStage' = [staddrStage EXCEPT ![s] = "completed"]
  /\ UNCHANGED <<prog, prodStage, computeVars, resolved, commVars, sabVars,
                 svbVars, fwdVars, windowVars>>

FinishStval(s) ==
  /\ stvalStage[s] = "finishing"
  /\ stvalStage' = [stvalStage EXCEPT ![s] = "completed"]
  /\ UNCHANGED <<prog, supplyVars, recvStage, resolved, commVars, sabVars,
                 svbVars, fwdVars, windowVars>>

\* Every node has completed and both windows are empty: the contexts end.
AllDone ==
  /\ \A p \in Prods : prodStage[p] = "completed" /\ recvStage[p] = "completed"
  /\ \A s \in Stores : staddrStage[s] = "completed" /\ stvalStage[s] = "completed"
  /\ supplyStart = NumProds + NumStores
  /\ computeStart = NumProds + NumStores

Finished == AllDone /\ UNCHANGED vars

-----------------------------------------------------------------------------
ProduceStep(p) ==
  \/ IssueSend(p)
  \/ IssueLdProdMemory(p)
  \/ IssueLdProdLsq(p)
  \/ \E s \in Stores : IssueLdProdSvb(p, s)
  \/ IssueTrmAtomic(p)
  \/ ExecuteProduce(p)
  \/ ExecuteTerminalLoad(p)
  \/ ExecuteTrmAtomic(p)
  \/ MemoryReturn(p)
  \/ DrainTerminal(p)
  \/ FinishProduce(p)

RecvStep(p) == IssueRecv(p) \/ ExecuteRecv(p) \/ FinishRecv(p)

StaddrStep(s) ==
  ResolveAddress(s) \/ IssueStaddr(s) \/ ExecuteStaddr(s) \/ FinishStaddr(s)

StvalStep(s) ==
  IssueStval(s) \/ ExecuteStvalStay(s) \/ ExecuteStvalLeave(s) \/ FinishStval(s)

Next ==
  \/ RetireSupply
  \/ RetireCompute
  \/ \E p \in Prods : ProduceStep(p) \/ RecvStep(p)
  \/ \E s \in Stores : StaddrStep(s) \/ StvalStep(s)
  \/ Finished

Spec == Init /\ [][Next]_vars

\* The simulator calls process() of both cores every cycle, each call visits
\* every node that can move, memory answers every request, and an operand of
\* the supply slice does not wait for the compute slice.
Fairness ==
  /\ WF_vars(RetireSupply)
  /\ WF_vars(RetireCompute)
  /\ \A p \in Prods : WF_vars(ProduceStep(p)) /\ WF_vars(RecvStep(p))
  /\ \A s \in Stores : WF_vars(StaddrStep(s)) /\ WF_vars(StvalStep(s))

FairSpec == Spec /\ Fairness

-----------------------------------------------------------------------------
(* Properties.                                                             *)

\* Entries reserved for terminal operations that have not reached the commQ.
PendingTerminals ==
  {p \in Prods : /\ prodStage[p] \in {"queued", "terminal"}
                 /\ prog.kind[p] = "TRM_ATOMIC" \/ mem_status[p] \in {"PENDING", "RETURNED"}}

\* The counters that admit nodes agree with the buffers they count, although
\* an entry is reserved by issue, filled by process and freed by another core
\* (DESCQ.cpp:141-165, 258, 73): no entry leaks and none is counted twice.
CountersExact ==
  /\ commQ \cap PendingTerminals = {}
  /\ commQ_count = Cardinality(commQ \cup PendingTerminals)
  /\ term_ld_count = Cardinality(PendingTerminals)
  /\ SAB_count = Cardinality(SAB)
  /\ SVB_count = Cardinality({s \in Stores : stvalStage[s] = "queued"})

\* The assertion of DESCQ.cpp:111: the STADDR whose STVAL has completed is
\* the front of the SAB, whatever order the nodes executed in.
WritesAtFront ==
  \A s \in Stores :
    staddrStage[s] = "queued" /\ stvalStage[s] = "completed" => IsSabFront(s)

\* Decoupled stores reach memory in program order, each after its STVAL: the
\* STADDRs that have executed form a prefix whose values are complete.
StoresInOrder ==
  \A s \in Stores : staddrStage[s] \in {"finishing", "completed"} =>
    /\ stvalStage[s] = "completed"
    /\ \A t \in Stores : t < s => staddrStage[t] \in {"finishing", "completed"}

\* A forward that was set up stays connected until its RECV takes the value
\* (the assertions of DESCQ.cpp:66, 69 and 85): the load is in the commQ, the
\* two maps agree, and its STVAL has not left the store value buffer.
ForwardsConnected ==
  \A p \in Prods :
    /\ p \in commQ /\ mem_status[p] \in {"DESC_FWD", "FWD_COMPLETE"} =>
         STLMap[p] \in Stores /\ p \in SVB[STLMap[p]]
    /\ \A s \in Stores : p \in SVB[s] =>
         /\ p \in commQ /\ STLMap[p] = s
         /\ stvalStage[s] \in {"waiting", "queued"}

\* A RECV that the compute window does not reach.
OutOfReach(p) == recvStage[p] = "waiting" /\ ~InComputeWindow(LoadPos(p))

\* The commQ or the SVB is full, and what fills it waits for such a RECV.
RecvOutOfReach ==
  \/ commQ_count = commQ_size /\ \E p \in commQ : OutOfReach(p)
  \/ SVB_count = SVB_size /\ \E s \in Stores : \E p \in SVB[s] : OutOfReach(p)

\* Every RECV gets its value and every store is written, although nodes issue
\* out of order and the buffers refuse them when they are full, unless the
\* compute window stays behind a full buffer for good, before a RECV that would
\* make room: the deadlock that the comment at DynamicNode.cpp:695 means to
\* avoid, and the only one.
EventuallyDone == <>(AllDone \/ []RecvOutOfReach)

\* The refinement: an entry is full once its node has completed and holds its
\* value (ExecuteRecv's condition); a STADDR that has executed moved SAB_back.
EntryOf(p) ==
  CASE recvStage[p] \in {"finishing", "completed"} -> "taken"
    [] prodStage[p] = "waiting" -> "free"
    [] recvStage[p] \in {"waiting", "queued"} /\ prodStage[p] = "completed"
         /\ mem_status[p] \in {"NONE", "FWD_COMPLETE"} -> "full"
    [] OTHER -> "reserved"

Channel == INSTANCE DecoupledChannel WITH
  Entries <- Prods, NumWrites <- NumStores, Capacity <- commQ_size,
  entry <- [p \in Prods |-> EntryOf(p)],
  values <- Cardinality({s \in Stores : stvalStage[s] = "completed"}),
  written <- SAB_back + 1 - SAB_size

\* The queue, its forwarding and its store buffers implement the channel.
ImplementsChannel == Channel!Spec

=============================================================================
