---------------------------- MODULE CoreProgram ----------------------------
(***************************************************************************)
(* What a core executes: a kernel, its data dependence graph, and the      *)
(* trace of one run of it.  program has                                    *)
(*   kernel   the blocks of the kernel (KernelGraph)                       *)
(*   blocks   its graph, which is what the core follows                    *)
(*   trace    the blocks in the order they ran                             *)
(*   addr     addr[c][i], the address of instruction i of the c-th block   *)
(*            of the trace; 0 when it has none                             *)
(* A DynamicNode is a pair <<context, position in its block>>.             *)
(***************************************************************************)
EXTENDS KernelGraph

CONSTANTS
  Programs, Configs,
  MaxContexts, MaxBlock \* bounds on the trace and on a block of it

\* A block ends in its only terminator, and the last one ends the kernel.  What
\* an instruction uses has run before it (single assignment form); a value a
\* PHI merges comes from the block that computes it, and one comes from the
\* block it is entered from: Context::initialize compares that block with the
\* last, and the constructor of DynamicNode waits for one value.
RunsAfter(p, c, i, u) ==
  /\ u[1] \in DOMAIN p.kernel /\ u[2] \in DOMAIN p.kernel[u[1]]
  /\ IF u[1] = p.trace[c] THEN u[2] < i ELSE \E j \in 1..(c - 1) : p.trace[j] = u[1]
MergesOne(p, c, uses) ==
  \A u, v \in uses :
     /\ u[1] \in DOMAIN p.kernel /\ u[2] \in DOMAIN p.kernel[u[1]]
     /\ c > 1 /\ u[1] = p.trace[c - 1] /\ v[1] = p.trace[c - 1] => u = v

BlockRuns(p, c) ==
  LET block == p.kernel[p.trace[c]]
      type(i) == p.blocks[p.trace[c]].inst[i].type
  IN  /\ Len(block) \in 1..MaxBlock /\ Len(p.addr[c]) = Len(block)
      /\ Last(block).op = "ret" <=> c = Len(p.trace)
      /\ \A i \in DOMAIN block :
            /\ type(i) \in {"LD", "ST", "ATOMIC"} <=> p.addr[c][i] # 0
            /\ type(i) = "TERMINATOR" <=> i = Len(block)
            /\ block[i].pointer \subseteq block[i].uses
            /\ IF block[i].op = "phi" THEN MergesOne(p, c, block[i].uses)
               ELSE \A u \in block[i].uses : RunsAfter(p, c, i, u)

WellFormed(p) ==
  /\ p.kernel \in Seq(Seq(Instructions)) /\ p.blocks = GraphOf(p.kernel)
  /\ p.trace \in Seq(DOMAIN p.kernel) /\ Len(p.trace) \in 1..MaxContexts
  /\ p.addr \in Seq(Seq(Nat)) /\ Len(p.addr) = Len(p.trace)
  /\ \A b \in DOMAIN p.kernel : \A i \in DOMAIN p.kernel[b] :
        p.kernel[b][i].callee # {} => p.kernel[b][i].op = "call"
  /\ \A c \in DOMAIN p.trace : BlockRuns(p, c)

ASSUME ProgramAssumption ==
  /\ MaxContexts \in Nat /\ MaxBlock \in Nat
  /\ \A p \in Programs : WellFormed(p)

VARIABLES program, config

NodeIds == (1..MaxContexts) \X (1..MaxBlock)
NoNodes == [d \in NodeIds |-> 0]

TraceLength == Len(program.trace)
BB(c) == program.trace[c]
Block(c) == program.blocks[BB(c)].inst
NodesOf(c) == {<<c, i>> : i \in DOMAIN Block(c)}
Nodes == UNION {NodesOf(c) : c \in 1..TraceLength}

Instr(d) == Block(d[1])[d[2]]
Type(d) == Instr(d).type
Addr(d) == program.addr[d[1]][d[2]]
IsMem(d) == Addr(d) # 0
Static(d) == <<BB(d[1]), d[2]>>

Older(d, e) == d[1] < e[1] \/ (d[1] = e[1] /\ d[2] < e[2])
Oldest(S) == CHOOSE d \in S : \A e \in S : ~Older(e, d)
Youngest(S) == CHOOSE d \in S : \A e \in S : ~Older(d, e)

\* windowNumber: the position in program order, from 0.
Position(d) == Cardinality({e \in Nodes : Older(e, d)})

\* The nodes whose results d uses: of its block, of the last context before
\* it of another block, and, for a PHI, of the block it was entered from.
LastOf(b, c) == Youngest({<<k, 1>> : k \in {j \in 1..(c - 1) : BB(j) = b}})[1]
Uses(d) ==
  LET c == d[1]
      uses == program.kernel[BB(c)][d[2]].uses
      context(b) == IF b = BB(c) THEN c ELSE LastOf(b, c)
  IN  IF Type(d) = "PHI" THEN {<<c - 1, u[2]>> : u \in {x \in uses : c > 1 /\ x[1] = BB(c - 1)}}
      ELSE {<<context(u[1]), u[2]>> : u \in uses}
=============================================================================
