--------------------------- MODULE MCTraceStream ---------------------------
(* An instance of TraceStream for TLC.                                     *)
EXTENDS TraceStream

Op(op) == [op |-> op, callee |-> {}, uses |-> {}, pointer |-> {}]
Call(names) == [op |-> "call", callee |-> names, uses |-> {}, pointer |-> {}]
Store == Call({"desc_supply_consume", "supply_consume"})
LoadProduce == Call({"desc_supply_load_produce", "supply_load_produce"})
FetchAdd == Call({"dec_atomic_fetch_add_float_async", "dec_atomic_fetch_add"})
FetchMin == Call({"dec_atomic_fetch_min_async"})
Matmul == Call({"decadesTF_matmul"})
Bias == Call({"decadesTF_bias_add"})
PartialBarrier == Call({"DECADES_PARTIAL_BARRIER"})

\* Blocks with branches of each kind, accesses of most kinds and calls of both
\* in either order; 5 has more accesses than a buffer holds with a branch.
Kernel ==
  <<<<Op("load"), Matmul, Op("br")>>,
    <<LoadProduce, Op("add"), Store, Op("condbr")>>,
    <<PartialBarrier, Op("ret")>>,
    <<Bias, FetchAdd, PartialBarrier, Op("switch")>>,
    <<Op("load"), Op("store"), FetchMin, Op("condbr")>>,
    <<PartialBarrier, Op("load"), Matmul, Op("ret")>>,
    <<Op("load"), Op("br")>>,
    <<Op("ret")>>,
    <<Op("load"), Op("condbr")>>>>

Ran(bb, addr) == [bb |-> bb, addr |-> addr]

\* A loop: its branch has both destinations, turns have different addresses.
Loop == <<Ran(1, <<10, 0, 0>>), Ran(2, <<20, 0, 30, 0>>), Ran(2, <<21, 0, 31, 0>>), Ran(3, <<0, 0>>)>>
Switch == <<Ran(4, <<0, 40, 0, 0>>), Ran(5, <<50, 51, 52, 0>>), Ran(6, <<0, 60, 0, 0>>)>>

\* Fewer records than a buffer holds, and more than a pipe does.
Short == <<Ran(7, <<70, 0>>), Ran(8, <<0>>)>>
Long == [k \in 1..8 |-> IF k = 8 THEN Ran(8, <<0>>) ELSE Ran(9, <<90 + k, 0>>)]

Run(usesFiles, nbFiles, cap, trace) ==
  [usesFiles |-> usesFiles, nbFiles |-> nbFiles, cap |-> cap,
   code |-> Compiled(Kernel), trace |-> trace,
   records |-> [t \in DOMAIN trace |-> RecordsOf(Compiled(Kernel), trace[t])]]

\* One pipe for both cores or three, a file for each, and a pipe for each of
\* two cores that holds all of their messages.
MCRuns ==
  {Run(FALSE, 1, 1, <<Loop, Switch>>), Run(FALSE, 1, 2, <<Loop, Short, Short>>),
   Run(TRUE, 2, 1, <<Loop, Switch>>), Run(FALSE, 2, 9, <<Short, Long>>)}

\* A pipe for each of two cores: one core records so little that its buffer
\* is written at the end, the other fills its pipe before.
TwoPipes == {Run(FALSE, 2, 1, <<Short, Long>>)}
=============================================================================
