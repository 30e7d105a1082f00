-------------------------- MODULE Instrumentation --------------------------
(***************************************************************************)
(* The other pass over the kernel (compiler/RecordDynamicInfo.cpp): which  *)
(* instructions get a call of the tracer in front of them, and what that   *)
(* call records.  It numbers blocks and instructions as GraphGen does, in  *)
(* the order of the function, on the same input (preproc.sh).  The passes  *)
(* share no table: that what is recorded is what the simulator takes       *)
(* (Context::initialize) rests on two lists of names and one of types.     *)
(***************************************************************************)
EXTENDS KernelGraph

\* The calls recorded as an access, stores or loads.
StoreCallees ==
  {"supply_consume", "dec_atomic_fetch_add_float_async", "dec_atomic_fetch_add",
   "dec_atomic_compare_exchange", "dec_atomic_fetch_min_async", "desc_supply_alu_rmw_cas",
   "desc_supply_alu_rmw_fetchmin", "desc_supply_alu_rmw_fetchadd_float"}
LoadCallees == {"supply_load_produce"}

MatmulAndSdp == {"decadesTF_matmul", "decadesTF_sdp"}
BiasAndConv2d == {"decadesTF_bias_add", "decadesTF_conv2d_layer"}
DenseLayer == {"decadesTF_dense_layer"}
AcceleratorCallees == MatmulAndSdp \cup BiasAndConv2d \cup DenseLayer
BarrierCallees == {"DECADES_PARTIAL_BARRIER"}

\* printBranch, printSwitch and printInvoke.
BranchKinds == [condbr |-> "cond", br |-> "uncond", invoke |-> "uncond", switch |-> "switch"]

\* What instInspect puts in front of an instruction: the record it makes when
\* it runs, if any.  The tests are a chain, so a call makes one record.
RecordType(instr) ==
  IF instr.op \in DOMAIN BranchKinds THEN "CF"
  ELSE IF instr.op \in {"load", "store"} THEN "MEM"
  ELSE IF instr.callee \cap (StoreCallees \cup LoadCallees) # {} THEN "MEM"
  ELSE IF instr.callee \cap AcceleratorCallees # {} THEN "ACC"
  ELSE IF instr.callee \cap BarrierCallees # {} THEN "PB"
  ELSE "none"

\* The types of the nodes that take an address, and the record they and the
\* two kinds of calls take when their context is created.
AddressTypes ==
  {"ST", "LD", "STADDR", "LD_PROD", "TRM_ATOMIC_FADD", "TRM_ATOMIC_MIN", "TRM_ATOMIC_CAS"}
    \cup Atomics

TakenType(instr) ==
  LET type == ITypeOf(instr)
  IN  IF type \in AddressTypes THEN "MEM"
      ELSE IF type = "ACCELERATOR" THEN "ACC"
      ELSE IF type = "PARTIAL_BARRIER" THEN "PB" ELSE "none"

\* The functions of the API, as the names the passes look for in theirs.
ApiFunctions ==
  {{CalleeTypes[k][1]} : k \in DOMAIN CalleeTypes \ {4, 6, 20}}
    \cup {{"dec_atomic_fetch_add_float_async", "dec_atomic_fetch_add"},
          {"desc_supply_consume", "supply_consume"},
          {"desc_supply_load_produce", "supply_load_produce"}}

\* What both passes say of each instruction.
Compiled(kernel) ==
  [b \in DOMAIN kernel |-> [i \in DOMAIN kernel[b] |->
     [record |-> RecordType(kernel[b][i]), takes |-> TakenType(kernel[b][i]),
      kind |-> IF kernel[b][i].op \in DOMAIN BranchKinds THEN BranchKinds[kernel[b][i].op] ELSE "none"]]]
=============================================================================
