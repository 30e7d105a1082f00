---------------------------- MODULE KernelGraph ----------------------------
(***************************************************************************)
(* From a kernel to its data dependence graph: the type GraphGen gives an  *)
(* instruction (compiler/Graph.hpp, GraphGen::detectFunctions), the edges  *)
(* it exports (addDataEdges, addPhiEdges, store_to_addr), and the graph    *)
(* the simulator builds of them (readGraph, Node::addDependent).           *)
(*                                                                         *)
(* A kernel is a sequence of basic blocks in LLVM's single assignment      *)
(* form, each a sequence of instructions [op, callee, uses, pointer]:      *)
(*   op       its opcode                                                   *)
(*   callee   of a call, the names the passes look for that the name of    *)
(*            the function contains; {} of other instructions              *)
(*   uses     the instructions its operands are, <<block, position>>;      *)
(*            of a PHI, its incoming values                                *)
(*   pointer  those of its operands that are its address: one, or none     *)
(***************************************************************************)
EXTENDS Integers, Sequences, FiniteSets, SequencesExt

Instructions ==
  [op : STRING, callee : SUBSET STRING, uses : SUBSET (Nat \X Nat), pointer : SUBSET (Nat \X Nat)]

\* The constructor of Node: what opcodes a type stands for.  Casts, bit
\* operations and the rest are given by one name each.
Opcodes ==
  [I_ADDSUB |-> {"add", "sub"}, I_MULT |-> {"mul"}, I_DIV |-> {"sdiv", "udiv"},
   I_REM |-> {"srem", "urem"}, FP_ADDSUB |-> {"fadd", "fsub"}, FP_MULT |-> {"fmul"},
   FP_DIV |-> {"fdiv"}, FP_REM |-> {"frem"}, LOGICAL |-> {"bits", "compare"},
   CAST |-> {"cast"}, GEP |-> {"getelementptr"}, LD |-> {"load"}, ST |-> {"store"},
   TERMINATOR |-> {"br", "condbr", "switch", "invoke", "ret"}, PHI |-> {"phi"}]

OpcodeType(op) ==
  IF \E t \in DOMAIN Opcodes : op \in Opcodes[t]
  THEN CHOOSE t \in DOMAIN Opcodes : op \in Opcodes[t] ELSE "INVALID"

\* The chain of tests of detectFunctions: the first name that the name of the
\* function contains.
CalleeTypes ==
  <<<<"desc_supply_produce", "SEND">>, <<"desc_supply_special_produce", "SEND">>,
    <<"desc_special_supply_produce", "SEND">>, <<"desc_supply_load_produce", "LD_PROD">>,
    <<"desc_compute_consume", "RECV">>, <<"desc_supply_consume", "STADDR">>,
    <<"desc_compute_produce", "STVAL">>, <<"DECADES_BARRIER", "BARRIER">>,
    <<"DECADES_PARTIAL_BARRIER", "PARTIAL_BARRIER">>, <<"decadesTF_matmul", "ACCELERATOR">>,
    <<"decadesTF_sdp", "ACCELERATOR">>, <<"decadesTF_conv2d_layer", "ACCELERATOR">>,
    <<"decadesTF_dense_layer", "ACCELERATOR">>, <<"decadesTF_bias_add", "ACCELERATOR">>,
    <<"dec_bs_vector_inc", "BS_VECTOR_INC">>, <<"dec_bs_wait", "BS_WAKE">>,
    <<"dec_bs_supply", "BS_DONE">>, <<"dec_call_bs", "CALL_BS">>,
    <<"dec_bs_flush", "CORE_INTERRUPT">>,
    <<"dec_atomic_fetch_add_float_async", "ATOMIC_FADD">>,
    <<"dec_atomic_fetch_add", "ATOMIC_ADD">>, <<"dec_atomic_compare_exchange", "ATOMIC_CAS">>,
    <<"dec_atomic_fetch_min_async", "ATOMIC_MIN">>,
    <<"desc_supply_alu_rmw_cas", "TRM_ATOMIC_CAS">>,
    <<"desc_supply_alu_rmw_fetchmin", "TRM_ATOMIC_MIN">>,
    <<"desc_supply_alu_rmw_fetchadd_float", "TRM_ATOMIC_FADD">>>>

Found(instr) == {k \in DOMAIN CalleeTypes : CalleeTypes[k][1] \in instr.callee}
ITypeOf(instr) ==
  IF Found(instr) = {} THEN OpcodeType(instr.op)
  ELSE CalleeTypes[CHOOSE k \in Found(instr) : \A j \in Found(instr) : k <= j][2]

Atomics == {"ATOMIC_ADD", "ATOMIC_FADD", "ATOMIC_MIN", "ATOMIC_CAS"}

\* The types that CoreExecution tells apart.
Class(type) ==
  IF type \in Atomics THEN "ATOMIC"
  ELSE IF type \in {"LD", "ST", "PHI", "TERMINATOR"} THEN type ELSE "ALU"

----------------------------------------------------------------------------
(* The edges that are exported.                                            *)

KernelInstrs(kernel) == UNION {{<<b, i>> : i \in DOMAIN kernel[b]} : b \in DOMAIN kernel}
At(kernel, n) == kernel[n[1]][n[2]]

Pairs(kernel) == KernelInstrs(kernel) \X KernelInstrs(kernel)

\* Mutant: only the first operand of an instruction becomes an edge.
DataEdgesMutant(kernel) ==
  {e \in Pairs(kernel) :
     /\ At(kernel, e[2]).op # "phi" /\ e[1] \in At(kernel, e[2]).uses
     /\ \A o \in At(kernel, e[2]).uses : e[1][1] < o[1] \/ (e[1][1] = o[1] /\ e[1][2] <= o[2])}

DataEdges(kernel) ==
  {e \in Pairs(kernel) : At(kernel, e[2]).op # "phi" /\ e[1] \in At(kernel, e[2]).uses}
PhiEdges(kernel) ==
  {e \in Pairs(kernel) : At(kernel, e[2]).op = "phi" /\ e[1] \in At(kernel, e[2]).uses}

\* store_to_addr: of stores, and of the calls that are treated like one.
HasAddrEdge(instr) ==
  instr.op = "store" \/ instr.callee \cap {"supply_consume", "supply_load_produce"} # {}
StoreToAddr(kernel) ==
  {e \in Pairs(kernel) : HasAddrEdge(At(kernel, e[1])) /\ e[2] \in At(kernel, e[1]).pointer}

----------------------------------------------------------------------------
(* The graph that is read: each edge goes where its kind and the blocks of *)
(* its ends say, and -1 names the instruction that gives a store's address.*)

Parents(kernel, n) == {s[2] : s \in {e[1] : e \in {x \in DataEdges(kernel) : x[2] = n /\ x[1][1] = n[1]}}}
ExternalParents(kernel, n) == {e[1] : e \in {x \in DataEdges(kernel) : x[2] = n /\ x[1][1] # n[1]}}
PhiParents(kernel, n) == {e[1] : e \in {x \in PhiEdges(kernel) : x[2] = n}}
AddrParents(kernel, n) ==
  {p[2] : p \in {e[2] : e \in {x \in StoreToAddr(kernel) : x[1] = n /\ x[2][1] = n[1]}}}

GraphNode(kernel, n) ==
  [type |-> Class(ITypeOf(At(kernel, n))), parents |-> Parents(kernel, n),
   addrParents |-> AddrParents(kernel, n), external |-> ExternalParents(kernel, n),
   phi |-> PhiParents(kernel, n)]

\* A block that ends in a conditional branch is known as one by its records.
GraphOf(kernel) ==
  [b \in DOMAIN kernel |->
     [inst |-> [i \in DOMAIN kernel[b] |-> GraphNode(kernel, <<b, i>>)],
      cond |-> Last(kernel[b]).op = "condbr"]]
=============================================================================
