-------------------------- MODULE MCCoreExecution --------------------------
(* An instance of CoreExecution for TLC.                                   *)
EXTENDS CoreExecution

Op(op, uses) == [op |-> op, callee |-> {}, uses |-> uses, pointer |-> {}]
Through(op, uses, pointer) == [op |-> op, callee |-> {}, uses |-> uses, pointer |-> {pointer}]
Call(callee, uses) == [op |-> "call", callee |-> callee, uses |-> uses, pointer |-> {}]
Ret == Op("ret", {})

\* A loop entered from a first block: the loop's store is to the address the
\* next turn loads, its PHI takes the value of the turn before.
LoopKernel ==
  <<<<Op("load", {}), Op("br", {})>>,
    <<Op("phi", {<<2, 3>>, <<1, 1>>}), Through("load", {<<2, 1>>}, <<2, 1>>),
      Op("add", {<<2, 2>>}),
      Through("store", {<<2, 2>>, <<2, 3>>, <<1, 1>>}, <<2, 2>>), Op("condbr", {<<2, 3>>})>>,
    <<Ret>>>>

\* Two blocks in turn that share one unit: stores and an atomic to one
\* address, the second store with a late address, and a load that may be
\* forwarded.
StoresKernel ==
  <<<<Op("add", {}), Op("add", {}), Op("store", {<<1, 2>>}),
      Through("store", {<<1, 1>>}, <<1, 1>>), Op("load", {}), Op("condbr", {})>>,
    <<Call({"dec_atomic_fetch_add"}, {}), Op("load", {<<1, 1>>}), Op("switch", {<<2, 1>>})>>,
    <<Ret>>>>

Program(kernel, trace, addr) ==
  [kernel |-> kernel, blocks |-> GraphOf(kernel), trace |-> trace, addr |-> addr]

Loop == Program(LoopKernel, <<1, 2, 2, 3>>, <<<<1, 0>>, <<0, 1, 0, 2, 0>>, <<0, 2, 0, 1, 0>>, <<0>>>>)
Stores == Program(StoresKernel, <<1, 2, 1, 3>>,
                  <<<<0, 0, 1, 2, 1, 0>>, <<1, 1, 0>>, <<0, 0, 1, 1, 2, 0>>, <<0>>>>)

Config(window, width, lsq, aliases, active, kind) ==
  [window |-> window, width |-> width, lsq |-> lsq, speculate |-> aliases, forward |-> aliases,
   active |-> active, predictor |-> kind, allAtOnce |-> FALSE]

\* In order, out of order with both uses of aliases, without either, and
\* with nothing limited.
MCConfigs ==
  {Config(1, 1, -1, FALSE, -1, "none"), Config(6, 2, 2, TRUE, 2, "gshare"),
   Config(6, 2, 2, FALSE, 1, "twobit"), Config(-1, -1, -1, TRUE, -1, "gshare")}

MCPrograms == {Loop, Stores}

MCUnits == [t \in {"ALU", "PHI", "TERMINATOR", "LD", "ST", "ATOMIC"} |->
              IF t = "ALU" THEN 1 ELSE -1]
=============================================================================
