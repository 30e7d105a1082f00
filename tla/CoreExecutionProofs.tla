------------------------ MODULE CoreExecutionProofs ------------------------
(***************************************************************************)
(* Proofs about CoreExecution, for all programs, traces and configurations *)
(* its assumptions admit.                                                  *)
(*                                                                         *)
(* CoreInv is inductive.  It says where each node is (PlaceInv), what has  *)
(* left the window (WindowInv) and what the queues hold (QueueInv,         *)
(* UnresolvedInv); that the counts of parents are those that have not      *)
(* completed, whichever of the two places counted them (ParentInv), which  *)
(* needs the contexts that connect to be the youngest of their blocks      *)
(* (OwnerInv); hence that a node is ready exactly when its parents have    *)
(* completed (ReadyInv).  A store and a load go after the older accesses   *)
(* of their address (StoreOrder, LoadOrder): the searches of the queue     *)
(* find them, because what has left a queue has left the window.           *)
(*                                                                         *)
(* The module goes from sequences and sets, the graph and the program, the *)
(* queue and the window to one lemma per action.                           *)
(***************************************************************************)
EXTENDS CoreExecution, Instrumentation, FunctionTheorems, FiniteSetTheorems, WellFoundedInduction, SequenceTheorems, TLAPS

-----------------------------------------------------------------------------
(* Least elements.                                                         *)

Below == OpToRel(<, Nat)

LEMMA Least ==
  ASSUME NEW S \in SUBSET Nat, S # {}
  PROVE  \E m \in S : \A k \in S : m <= k
<1>1. IsWellFoundedOn(Below, Nat)
  BY NatLessThanWellFounded DEF Below
<1>2. PICK m \in S : \A k \in S : ~(<<k, m>> \in Below)
  BY <1>1, WFMin
<1>3. \A x, y \in Nat : x < y => <<x, y>> \in Below
  BY Zenon DEF Below, OpToRel
<1>4. \A k \in S : ~(k < m)
  BY <1>2, <1>3
<1> QED BY <1>4

-----------------------------------------------------------------------------
(* The program.                                                            *)

Mem == {"LD", "ST", "ATOMIC"}
KernelInstr(d) == program.kernel[BB(d[1])][d[2]]

LEMMA OpcodeTypes ==
  ASSUME NEW instr, instr.callee # {} => instr.op = "call"
  PROVE  Class(ITypeOf(instr)) = "PHI" <=> instr.op = "phi"
<1>1. \A t \in DOMAIN Opcodes : "phi" \in Opcodes[t] <=> t = "PHI"
  BY DEF Opcodes
<1>2. \A t \in DOMAIN Opcodes : "call" \notin Opcodes[t]
  BY DEF Opcodes
<1>3. "PHI" \in DOMAIN Opcodes /\ "INVALID" # "PHI" /\ Opcodes["PHI"] = {"phi"}
  BY DEF Opcodes
<1>4. \A op : OpcodeType(op) = "PHI" <=> op = "phi"
  BY <1>1, <1>3 DEF OpcodeType
<1>5. \A k \in DOMAIN CalleeTypes : CalleeTypes[k][2] # "PHI"
  BY DEF CalleeTypes
<1>6. \A t : Class(t) = "PHI" <=> t = "PHI"
  BY DEF Class, Atomics
<1>7. CASE Found(instr) = {}
  BY <1>4, <1>6, <1>7 DEF ITypeOf
<1>8. CASE Found(instr) # {}
  <2>1. Found(instr) \in SUBSET Nat /\ Found(instr) \subseteq DOMAIN CalleeTypes
    BY DEF Found, CalleeTypes
  <2>2. \E k \in Found(instr) : \A j \in Found(instr) : k <= j
    BY <1>8, <2>1, Least
  <2>3. ITypeOf(instr) # "PHI"
    BY <1>5, <1>8, <2>1, <2>2 DEF ITypeOf
  <2>4. instr.callee # {}
    BY <1>8 DEF Found
  <2> QED BY <1>6, <2>3, <2>4
<1> QED BY <1>7, <1>8

LEMMA ClassType == \A t : Class(t) \in DOMAIN Units
BY CoreAssumption DEF Class, Sizes

\* What GraphGen exports of an instruction is what it uses.
LEMMA EdgesOf ==
  ASSUME NEW kernel, NEW n \in KernelInstrs(kernel),
         At(kernel, n).uses \subseteq KernelInstrs(kernel)
  PROVE  /\ At(kernel, n).op = "phi" =>
              /\ Parents(kernel, n) = {} /\ ExternalParents(kernel, n) = {}
              /\ PhiParents(kernel, n) = At(kernel, n).uses
         /\ At(kernel, n).op # "phi" =>
              /\ \A j : j \in Parents(kernel, n) <=> <<n[1], j>> \in At(kernel, n).uses
              /\ ExternalParents(kernel, n) = {u \in At(kernel, n).uses : u[1] # n[1]}
              /\ PhiParents(kernel, n) = {}
<1> DEFINE U == At(kernel, n).uses
<1>1. \A u \in KernelInstrs(kernel) : u = <<u[1], u[2]>>
  BY DEF KernelInstrs
<1>2. \A u \in U : <<u, n>> \in Pairs(kernel)
  BY DEF Pairs
<1>3. CASE At(kernel, n).op = "phi"
  <2>1. {x \in DataEdges(kernel) : x[2] = n} = {}
    BY <1>3 DEF DataEdges
  <2>2. Parents(kernel, n) = {} /\ ExternalParents(kernel, n) = {}
    BY <2>1 DEF Parents, ExternalParents
  <2>3. \A u : u \in PhiParents(kernel, n) <=> \E x \in PhiEdges(kernel) : x[2] = n /\ u = x[1]
    BY DEF PhiParents
  <2>4. \A u : u \in PhiParents(kernel, n) => u \in U
    BY <2>3 DEF PhiEdges
  <2>5. \A u \in U : <<u, n>> \in PhiEdges(kernel)
    BY <1>2, <1>3 DEF PhiEdges
  <2>6. \A u \in U : u \in PhiParents(kernel, n)
    BY <2>3, <2>5
  <2> QED BY <1>3, <2>2, <2>4, <2>6
<1>4. CASE At(kernel, n).op # "phi"
  <2>1. {x \in PhiEdges(kernel) : x[2] = n} = {}
    BY <1>4 DEF PhiEdges
  <2>2. PhiParents(kernel, n) = {}
    BY <2>1 DEF PhiParents
  <2>3. \A u \in U : <<u, n>> \in DataEdges(kernel)
    BY <1>2, <1>4 DEF DataEdges
  <2>4. \A x \in DataEdges(kernel) : x[2] = n => x[1] \in U
    BY DEF DataEdges
  <2>5. \A u : u \in ExternalParents(kernel, n) <=>
                 \E x \in DataEdges(kernel) : x[2] = n /\ x[1][1] # n[1] /\ u = x[1]
    BY DEF ExternalParents
  <2>6. ExternalParents(kernel, n) = {u \in U : u[1] # n[1]}
    <3>1. ASSUME NEW u \in U, u[1] # n[1] PROVE u \in ExternalParents(kernel, n)
      <4> DEFINE x == <<u, n>>
      <4>1. x \in DataEdges(kernel) /\ x[2] = n /\ x[1] = u
        BY <2>3
      <4> QED BY <2>5, <3>1, <4>1
    <3>2. \A u \in ExternalParents(kernel, n) : u \in U /\ u[1] # n[1]
      BY <2>4, <2>5
    <3> QED BY <3>1, <3>2
  <2>7. \A j : j \in Parents(kernel, n) <=>
                 \E x \in DataEdges(kernel) : x[2] = n /\ x[1][1] = n[1] /\ j = x[1][2]
    BY DEF Parents
  <2>8. \A j : j \in Parents(kernel, n) => <<n[1], j>> \in U
    <3> SUFFICES ASSUME NEW j, j \in Parents(kernel, n) PROVE <<n[1], j>> \in U
      OBVIOUS
    <3>1. PICK x \in DataEdges(kernel) : x[2] = n /\ x[1][1] = n[1] /\ j = x[1][2]
      BY <2>7
    <3>2. x[1] \in U /\ x[1] = <<x[1][1], x[1][2]>>
      BY <1>1, <2>4, <3>1
    <3> QED BY <3>1, <3>2
  <2>9. ASSUME NEW j, <<n[1], j>> \in U PROVE j \in Parents(kernel, n)
    <3> DEFINE x == <<<<n[1], j>>, n>>
    <3>1. x \in DataEdges(kernel)
      BY <2>3, <2>9
    <3>2. x[2] = n /\ x[1][1] = n[1] /\ x[1][2] = j
      OBVIOUS
    <3> QED BY <2>7, <3>1, <3>2
  <2> QED BY <1>4, <2>2, <2>6, <2>8, <2>9
<1> QED BY <1>3, <1>4

LEMMA ProgramFacts ==
  ASSUME program \in Programs
  PROVE  /\ MaxContexts \in Nat /\ MaxBlock \in Nat
         /\ program.kernel \in Seq(Seq(Instructions))
         /\ program.blocks = GraphOf(program.kernel)
         /\ program.trace \in Seq(DOMAIN program.kernel) /\ Len(program.trace) \in 1..MaxContexts
         /\ program.addr \in Seq(Seq(Nat)) /\ Len(program.addr) = Len(program.trace)
         /\ \A b \in DOMAIN program.kernel : \A i \in DOMAIN program.kernel[b] :
              program.kernel[b][i].callee # {} => program.kernel[b][i].op = "call"
         /\ DOMAIN program.trace = 1..TraceLength
         /\ \A c \in 1..TraceLength : BlockRuns(program, c)
<1>1. WellFormed(program) /\ MaxContexts \in Nat /\ MaxBlock \in Nat
  BY ProgramAssumption
<1>2. program.trace \in Seq(DOMAIN program.kernel) /\ \A c \in DOMAIN program.trace : BlockRuns(program, c)
  BY <1>1 DEF WellFormed
<1>3. DOMAIN program.trace = 1..TraceLength
  BY <1>2 DEF TraceLength
<1>4. \A b \in DOMAIN program.kernel : \A i \in DOMAIN program.kernel[b] :
        program.kernel[b][i].callee # {} => program.kernel[b][i].op = "call"
  BY <1>1 DEF WellFormed
<1> QED BY <1>1, <1>2, <1>3, <1>4 DEF WellFormed

\* What the trace says of a block that runs.
LEMMA BlockFacts ==
  ASSUME program \in Programs, NEW c \in 1..TraceLength
  PROVE  LET block == program.kernel[BB(c)]
         IN  /\ Len(block) \in 1..MaxBlock /\ Len(program.addr[c]) = Len(block)
             /\ \A i \in DOMAIN block :
                  /\ Block(c)[i].type \in Mem <=> program.addr[c][i] # 0
                  /\ Block(c)[i].type = "TERMINATOR" <=> i = Len(block)
                  /\ block[i].op = "phi" => MergesOne(program, c, block[i].uses)
                  /\ block[i].op # "phi" => \A u \in block[i].uses : RunsAfter(program, c, i, u)
<1>1. BlockRuns(program, c)
  BY ProgramFacts
<1> QED BY <1>1 DEF BlockRuns, Block, BB, Mem

LEMMA BlockShape ==
  ASSUME program \in Programs, NEW c \in 1..TraceLength
  PROVE  /\ BB(c) \in DOMAIN program.kernel /\ program.kernel[BB(c)] \in Seq(Instructions)
         /\ Len(Block(c)) = Len(program.kernel[BB(c)]) /\ Len(Block(c)) \in 1..MaxBlock
         /\ DOMAIN Block(c) = 1..Len(Block(c)) /\ DOMAIN program.kernel[BB(c)] = 1..Len(Block(c))
         /\ \A i \in 1..Len(Block(c)) :
              Block(c)[i] = GraphNode(program.kernel, <<BB(c), i>>)
<1> DEFINE b == BB(c)
           n == Len(program.kernel[b])
<1> DEFINE K == program.kernel
           T == program.trace
<1>0. T \in Seq(DOMAIN K) /\ DOMAIN T = 1..TraceLength /\ K \in Seq(Seq(Instructions))
  BY ProgramFacts
<1>1. T[c] \in DOMAIN K
  BY <1>0, ElementOfSeq DEF TraceLength
<1>2. b \in DOMAIN program.kernel /\ program.kernel[b] \in Seq(Instructions) /\ n \in 1..MaxBlock
  <2>1. b \in DOMAIN program.kernel
    BY <1>1 DEF BB
  <2>2. program.kernel[b] \in Seq(Instructions)
    BY <1>0, <2>1
  <2>3. n \in 1..MaxBlock
    BY BlockFacts
  <2> QED BY <2>1, <2>2, <2>3
<1>3. DOMAIN program.kernel[b] = 1..n /\ n \in Nat
  BY <1>2
<1>4. Block(c) = [i \in 1..n |-> GraphNode(program.kernel, <<b, i>>)]
  <2>1. program.blocks = GraphOf(K)
    BY ProgramFacts
  <2>2. GraphOf(K)[b].inst = [i \in DOMAIN K[b] |-> GraphNode(K, <<b, i>>)]
    BY <1>2 DEF GraphOf
  <2> QED BY <1>3, <2>1, <2>2 DEF Block
<1> HIDE DEF n
<1>5. Len(Block(c)) = n /\ DOMAIN Block(c) = 1..n
  BY <1>3, <1>4
<1>6. \A i \in 1..n : Block(c)[i] = GraphNode(program.kernel, <<b, i>>)
  BY <1>4
<1> QED BY <1>2, <1>3, <1>5, <1>6 DEF n

LEMMA NodeShape ==
  ASSUME program \in Programs
  PROVE  /\ TraceLength \in Nat /\ TraceLength >= 1 /\ TraceLength <= MaxContexts
         /\ \A c \in 1..TraceLength : \A d :
              d \in NodesOf(c) <=> \E i \in 1..Len(Block(c)) : d = <<c, i>>
         /\ \A d \in Nodes : /\ d[1] \in 1..TraceLength /\ d[2] \in 1..Len(Block(d[1]))
                             /\ d = <<d[1], d[2]>> /\ d \in NodesOf(d[1])
         /\ \A c \in 1..TraceLength : NodesOf(c) \subseteq Nodes
         /\ Nodes \subseteq NodeIds /\ IsFiniteSet(NodeIds)
<1>1. TraceLength \in Nat /\ TraceLength >= 1 /\ TraceLength <= MaxContexts /\ MaxContexts \in Nat /\ MaxBlock \in Nat
  BY ProgramFacts DEF TraceLength
<1>2. \A c \in 1..TraceLength : \A d : d \in NodesOf(c) <=> \E i \in 1..Len(Block(c)) : d = <<c, i>>
  BY BlockShape DEF NodesOf
<1>3. \A d \in Nodes : d[1] \in 1..TraceLength /\ d[2] \in 1..Len(Block(d[1]))
                       /\ d = <<d[1], d[2]>> /\ d \in NodesOf(d[1])
  <2> SUFFICES ASSUME NEW d \in Nodes
               PROVE  d[1] \in 1..TraceLength /\ d[2] \in 1..Len(Block(d[1]))
                      /\ d = <<d[1], d[2]>> /\ d \in NodesOf(d[1])
    OBVIOUS
  <2>1. PICK c \in 1..TraceLength : d \in NodesOf(c)
    BY DEF Nodes
  <2>2. PICK i \in 1..Len(Block(c)) : d = <<c, i>>
    BY <1>2, <2>1
  <2> QED BY <2>1, <2>2
<1>4. \A c \in 1..TraceLength : NodesOf(c) \subseteq Nodes
  BY DEF Nodes
<1>5. Nodes \subseteq NodeIds
  <2> SUFFICES ASSUME NEW d \in Nodes PROVE d \in NodeIds
    OBVIOUS
  <2>1. Len(Block(d[1])) \in 1..MaxBlock
    BY <1>3, BlockShape
  <2>2. d[1] \in 1..MaxContexts /\ d[2] \in 1..MaxBlock
    BY <1>1, <1>3, <2>1
  <2> QED BY <1>3, <2>2 DEF NodeIds
<1>6. IsFiniteSet(NodeIds)
  <2>1. IsFiniteSet(1..MaxContexts) /\ IsFiniteSet(1..MaxBlock)
    BY <1>1, FS_Interval
  <2> QED BY <2>1, FS_Product DEF NodeIds
<1> QED BY <1>1, <1>2, <1>3, <1>4, <1>5, <1>6

LEMMA NodeKinds ==
  ASSUME program \in Programs, NEW d \in Nodes
  PROVE  /\ Static(d) \in KernelInstrs(program.kernel)
         /\ Instr(d) = GraphNode(program.kernel, Static(d))
         /\ At(program.kernel, Static(d)) = KernelInstr(d)
         /\ KernelInstr(d) \in Instructions
         /\ Type(d) \in DOMAIN Units
         /\ Type(d) = "PHI" <=> KernelInstr(d).op = "phi"
         /\ Addr(d) \in Nat /\ (IsMem(d) <=> Type(d) \in Mem)
         /\ Type(d) = "TERMINATOR" <=> d[2] = Len(Block(d[1]))
<1> DEFINE c == d[1]
           b == BB(c)
<1>1. c \in 1..TraceLength /\ d[2] \in 1..Len(Block(c))
  BY NodeShape
<1>2. /\ b \in DOMAIN program.kernel /\ program.kernel[b] \in Seq(Instructions)
      /\ Len(program.kernel[b]) = Len(Block(c))
      /\ DOMAIN program.kernel[b] = 1..Len(Block(c)) /\ Block(c)[d[2]] = GraphNode(program.kernel, <<b, d[2]>>)
  BY <1>1, BlockShape
<1>3. Static(d) \in KernelInstrs(program.kernel) /\ Instr(d) = GraphNode(program.kernel, Static(d))
  BY <1>1, <1>2 DEF KernelInstrs, Static, Instr
<1>4. At(program.kernel, Static(d)) = KernelInstr(d) /\ KernelInstr(d) \in Instructions
  BY <1>1, <1>2 DEF Static, At, KernelInstr
<1>5. Type(d) = Class(ITypeOf(KernelInstr(d)))
  BY <1>3, <1>4 DEF Type, GraphNode
<1>6. KernelInstr(d).callee # {} => KernelInstr(d).op = "call"
  BY <1>1, <1>2, ProgramFacts DEF KernelInstr
<1>7. Type(d) \in DOMAIN Units /\ (Type(d) = "PHI" <=> KernelInstr(d).op = "phi")
  BY <1>5, <1>6, ClassType, OpcodeTypes
<1>9. /\ Type(d) \in Mem <=> program.addr[c][d[2]] # 0
      /\ Type(d) = "TERMINATOR" <=> d[2] = Len(program.kernel[b])
      /\ c \in DOMAIN program.trace /\ Len(program.addr[c]) = Len(program.kernel[b])
  BY <1>1, <1>2, ProgramFacts, BlockFacts DEF Type, Instr
<1>10. program.addr[c] \in Seq(Nat)
  <2>1. program.addr \in Seq(Seq(Nat)) /\ Len(program.addr) = TraceLength
    BY ProgramFacts DEF TraceLength
  <2>2. c \in 1..Len(program.addr)
    BY <1>1, <2>1
  <2> QED BY <2>1, <2>2, ElementOfSeq
<1>11. d[2] \in DOMAIN program.addr[c]
  BY <1>1, <1>2, <1>9, <1>10
<1>12. Addr(d) \in Nat
  BY <1>10, <1>11 DEF Addr
<1>13. IsMem(d) <=> Type(d) \in Mem
  BY <1>9 DEF IsMem, Addr
<1>14. Type(d) = "TERMINATOR" <=> d[2] = Len(Block(d[1]))
  BY <1>2, <1>9
<1> QED BY <1>3, <1>4, <1>7, <1>12, <1>13, <1>14

-----------------------------------------------------------------------------
(* What a node waits for.                                                  *)

InBlock(d) == {<<d[1], i>> : i \in Instr(d).parents}
Merged(d) == {<<d[1] - 1, e[2]>> : e \in {f \in Instr(d).phi : d[1] > 1 /\ f[1] = BB(d[1] - 1)}}
Near(d) == IF Type(d) = "PHI" THEN Merged(d) ELSE InBlock(d)
Far(d) == {<<LastOf(e[1], d[1]), e[2]>> : e \in Instr(d).external}

LEMMA Greatest ==
  ASSUME NEW n \in Nat, NEW S \in SUBSET (1..n), S # {}
  PROVE  \E m \in S : \A k \in S : k <= m
<1> DEFINE T == {n - k : k \in S}
<1>1. T \in SUBSET Nat /\ T # {}
  <2>1. \A k \in S : n - k \in Nat
    OBVIOUS
  <2>2. PICK k \in S : TRUE
    OBVIOUS
  <2> QED BY <2>1, <2>2
<1>2. PICK t \in T : \A u \in T : t <= u
  BY <1>1, Least
<1>3. PICK m \in S : t = n - m
  BY <1>2
<1>4. \A k \in S : n - m <= n - k
  BY <1>2, <1>3
<1> QED BY <1>4

LEMMA LastOfIs ==
  ASSUME NEW c \in Nat, NEW b, NEW j \in 1..(c - 1), BB(j) = b
  PROVE  /\ LastOf(b, c) \in 1..(c - 1) /\ BB(LastOf(b, c)) = b
         /\ \A k \in 1..(c - 1) : BB(k) = b => k <= LastOf(b, c)
<1> DEFINE S == {k \in 1..(c - 1) : BB(k) = b}
           H == {<<k, 1>> : k \in S}
<1>1. PICK m \in S : \A k \in S : k <= m
  <2>1. S \in SUBSET (1..(c - 1)) /\ S # {} /\ c - 1 \in Nat
    OBVIOUS
  <2> QED BY <2>1, Greatest
<1>2. \A d \in H : \A e \in H : ~Older(d, e) <=> e[1] <= d[1]
  BY DEF Older
<1>3. <<m, 1>> \in H /\ \A e \in H : ~Older(<<m, 1>>, e)
  BY <1>1, <1>2
<1>4. Youngest(H) \in H /\ \A e \in H : ~Older(Youngest(H), e)
  BY <1>3 DEF Youngest
<1>5. Youngest(H)[1] \in S /\ \A k \in S : k <= Youngest(H)[1]
  <2>1. PICK k \in S : Youngest(H) = <<k, 1>>
    BY <1>4
  <2>2. \A i \in S : <<i, 1>> \in H
    OBVIOUS
  <2>3. \A i \in S : i <= k
    <3> TAKE i \in S
    <3>1. ~Older(<<k, 1>>, <<i, 1>>)
      BY <1>4, <2>1, <2>2
    <3> QED BY <3>1 DEF Older
  <2>4. Youngest(H)[1] = k
    BY <2>1
  <2> QED BY <2>3, <2>4
<1>6. LastOf(b, c) = Youngest(H)[1]
  BY DEF LastOf
<1> QED BY <1>5, <1>6

\* The edges of a node, in terms of what its instruction uses.
LEMMA NodeEdges ==
  ASSUME program \in Programs, NEW d \in Nodes
  PROVE  /\ Type(d) = "PHI" =>
              /\ Instr(d).parents = {} /\ Instr(d).external = {}
              /\ Instr(d).phi = KernelInstr(d).uses
              /\ MergesOne(program, d[1], KernelInstr(d).uses)
         /\ Type(d) # "PHI" =>
              /\ \A i : i \in Instr(d).parents <=> <<BB(d[1]), i>> \in KernelInstr(d).uses
              /\ Instr(d).external = {u \in KernelInstr(d).uses : u[1] # BB(d[1])}
              /\ Instr(d).phi = {}
              /\ \A u \in KernelInstr(d).uses : RunsAfter(program, d[1], d[2], u)
         /\ \A u \in KernelInstr(d).uses : u = <<u[1], u[2]>> /\ u \in KernelInstrs(program.kernel)
<1> DEFINE k == program.kernel
           n == Static(d)
           U == KernelInstr(d).uses
<1>1. n \in KernelInstrs(k) /\ Instr(d) = GraphNode(k, n) /\ At(k, n) = KernelInstr(d)
  BY NodeKinds
<1>2. Type(d) = "PHI" <=> KernelInstr(d).op = "phi"
  BY NodeKinds
<1>3. d[1] \in 1..TraceLength /\ d[2] \in DOMAIN k[BB(d[1])]
  BY NodeShape, BlockShape
<1>4. /\ KernelInstr(d).op = "phi" => MergesOne(program, d[1], U)
      /\ KernelInstr(d).op # "phi" => \A u \in U : RunsAfter(program, d[1], d[2], u)
  BY <1>3, BlockFacts DEF KernelInstr
<1>5. U \subseteq Nat \X Nat
  BY NodeKinds DEF Instructions
<1>6. \A u \in U : u = <<u[1], u[2]>> /\ u[1] \in DOMAIN k /\ u[2] \in DOMAIN k[u[1]]
  <2>1. KernelInstr(d).op = "phi" => \A u \in U : u[1] \in DOMAIN k /\ u[2] \in DOMAIN k[u[1]]
    BY <1>4 DEF MergesOne
  <2>2. KernelInstr(d).op # "phi" => \A u \in U : u[1] \in DOMAIN k /\ u[2] \in DOMAIN k[u[1]]
    BY <1>4 DEF RunsAfter
  <2> QED BY <1>5, <2>1, <2>2
<1>7. \A u \in U : u \in KernelInstrs(k)
  BY <1>6 DEF KernelInstrs
<1>8. /\ Instr(d).parents = Parents(k, n) /\ Instr(d).external = ExternalParents(k, n)
      /\ Instr(d).phi = PhiParents(k, n)
  BY <1>1 DEF GraphNode
<1>9. n[1] = BB(d[1])
  BY DEF Static
<1>10. At(k, n).uses \subseteq KernelInstrs(k) /\ At(k, n).uses = U
  BY <1>1, <1>7
<1>11. /\ At(k, n).op = "phi" => Parents(k, n) = {} /\ ExternalParents(k, n) = {} /\ PhiParents(k, n) = U
       /\ At(k, n).op # "phi" =>
              /\ \A j : j \in Parents(k, n) <=> <<n[1], j>> \in U
              /\ ExternalParents(k, n) = {u \in U : u[1] # n[1]}
              /\ PhiParents(k, n) = {}
  BY <1>1, <1>10, EdgesOf
<1>12. CASE Type(d) = "PHI"
  BY <1>1, <1>2, <1>4, <1>6, <1>7, <1>8, <1>11, <1>12
<1>13. CASE Type(d) # "PHI"
  BY <1>1, <1>2, <1>4, <1>6, <1>7, <1>8, <1>9, <1>11, <1>13
<1> QED BY <1>12, <1>13

LEMMA NearAndFar ==
  ASSUME program \in Programs, NEW d \in Nodes
  PROVE  /\ Uses(d) = Near(d) \cup Far(d)
         /\ Near(d) \subseteq Nodes /\ Far(d) \subseteq Nodes
         /\ \A e \in Near(d) \cup Far(d) : Older(e, d)
         /\ \A e \in Far(d) : e[1] < d[1]
         /\ Type(d) # "PHI" => \A e \in Near(d) : e[1] = d[1]
         /\ Type(d) = "PHI" => /\ Far(d) = {} /\ \A e \in Near(d) : e[1] = d[1] - 1
                               /\ \A e, f \in Near(d) : e = f
<1> DEFINE c == d[1]
           U == KernelInstr(d).uses
<1>1. c \in 1..TraceLength /\ TraceLength \in Nat /\ d[2] \in Nat /\ d = <<d[1], d[2]>>
  BY NodeShape
<1>2. \A u \in U : u = <<u[1], u[2]>> /\ u[1] \in DOMAIN program.kernel
                   /\ u[2] \in DOMAIN program.kernel[u[1]]
  BY NodeEdges DEF KernelInstrs
<1>3. \A k \in 1..TraceLength : \A i \in DOMAIN program.kernel[BB(k)] : <<k, i>> \in Nodes /\ i \in Nat
  <2> TAKE k \in 1..TraceLength
  <2> TAKE i \in DOMAIN program.kernel[BB(k)]
  <2>1. i \in 1..Len(Block(k))
    BY BlockShape
  <2> QED BY <2>1, NodeShape
<1>4. CASE Type(d) = "PHI"
  <2>1. Instr(d).external = {} /\ Instr(d).phi = U /\ MergesOne(program, c, U)
    BY <1>4, NodeEdges
  <2>2. Far(d) = {}
    BY <2>1 DEF Far
  <2>3. Near(d) = {<<c - 1, u[2]>> : u \in {x \in U : c > 1 /\ x[1] = BB(c - 1)}}
    BY <1>4, <2>1 DEF Near, Merged
  <2>4. Uses(d) = Near(d)
    BY <1>4, <2>3 DEF Uses, KernelInstr
  <2>5. \A e \in Near(d) : \E u \in U : c > 1 /\ u[1] = BB(c - 1) /\ e = <<c - 1, u[2]>>
    BY <2>3
  <2>6. ASSUME NEW e \in Near(d) PROVE e \in Nodes /\ Older(e, d) /\ e[1] = d[1] - 1
    <3>1. PICK u \in U : c > 1 /\ u[1] = BB(c - 1) /\ e = <<c - 1, u[2]>>
      BY <2>5
    <3>2. c - 1 \in 1..TraceLength /\ u[2] \in DOMAIN program.kernel[BB(c - 1)]
      BY <1>1, <1>2, <3>1
    <3> QED BY <1>1, <1>3, <3>1, <3>2 DEF Older
  <2>7. ASSUME NEW e \in Near(d), NEW f \in Near(d) PROVE e = f
    <3>1. PICK u \in U : c > 1 /\ u[1] = BB(c - 1) /\ e = <<c - 1, u[2]>>
      BY <2>5
    <3>2. PICK v \in U : c > 1 /\ v[1] = BB(c - 1) /\ f = <<c - 1, v[2]>>
      BY <2>5
    <3>3. u = v
      BY <2>1, <3>1, <3>2 DEF MergesOne, BB
    <3> QED BY <3>1, <3>2, <3>3
  <2> QED BY <1>4, <2>2, <2>4, <2>6, <2>7
<1>5. CASE Type(d) # "PHI"
  <2>1. /\ \A i : i \in Instr(d).parents <=> <<BB(c), i>> \in U
        /\ Instr(d).external = {u \in U : u[1] # BB(c)}
        /\ \A u \in U : RunsAfter(program, c, d[2], u)
    BY <1>5, NodeEdges
  <2>2. Near(d) = InBlock(d)
    BY <1>5 DEF Near
  <2>3. ASSUME NEW e \in Near(d)
        PROVE  e \in Nodes /\ Older(e, d) /\ e[1] = c /\ <<BB(c), e[2]>> \in U /\ e = <<c, e[2]>>
    <3>1. PICK i \in Instr(d).parents : e = <<c, i>>
      BY <2>2, <2>3 DEF InBlock
    <3>2. <<BB(c), i>> \in U
      BY <2>1
    <3>3. i \in DOMAIN program.kernel[BB(c)]
      BY <1>2, <3>2
    <3>4. RunsAfter(program, c, d[2], <<BB(c), i>>)
      BY <2>1, <3>2
    <3>5. i < d[2]
      BY <3>4 DEF RunsAfter, BB
    <3> QED BY <1>1, <1>3, <3>1, <3>2, <3>3, <3>5 DEF Older
  <2>4. ASSUME NEW u \in U, u[1] # BB(c)
        PROVE  /\ LastOf(u[1], c) \in 1..(c - 1) /\ BB(LastOf(u[1], c)) = u[1]
               /\ <<LastOf(u[1], c), u[2]>> \in Nodes
    <3>1. PICK j \in 1..(c - 1) : BB(j) = u[1]
      BY <2>1, <2>4 DEF RunsAfter, BB
    <3>2. LastOf(u[1], c) \in 1..(c - 1) /\ BB(LastOf(u[1], c)) = u[1]
      BY <1>1, <3>1, LastOfIs
    <3>3. u[2] \in DOMAIN program.kernel[BB(LastOf(u[1], c))] /\ LastOf(u[1], c) \in 1..TraceLength
      BY <1>1, <1>2, <3>2
    <3> QED BY <1>3, <3>2, <3>3
  <2>5. ASSUME NEW e \in Far(d)
        PROVE  /\ e \in Nodes /\ e[1] < c /\ Older(e, d)
               /\ \E u \in U : u[1] # BB(c) /\ e = <<LastOf(u[1], c), u[2]>>
    <3>1. PICK u \in Instr(d).external : e = <<LastOf(u[1], c), u[2]>>
      BY DEF Far
    <3>2. u \in U /\ u[1] # BB(c)
      BY <2>1
    <3>3. LastOf(u[1], c) \in 1..(c - 1) /\ e \in Nodes
      BY <2>4, <3>1, <3>2
    <3> QED BY <1>1, <3>1, <3>2, <3>3 DEF Older
  <2>6. Uses(d) = {<<IF u[1] = BB(c) THEN c ELSE LastOf(u[1], c), u[2]>> : u \in U}
    BY <1>5 DEF Uses, KernelInstr
  <2>7. ASSUME NEW e \in Uses(d) PROVE e \in Near(d) \cup Far(d)
    <3>1. PICK u \in U : e = <<IF u[1] = BB(c) THEN c ELSE LastOf(u[1], c), u[2]>>
      BY <2>6, <2>7
    <3>2. CASE u[1] = BB(c)
      <4>1. u = <<BB(c), u[2]>>
        BY <1>2, <3>2
      <4>2. u[2] \in Instr(d).parents /\ e = <<c, u[2]>>
        BY <2>1, <3>1, <3>2, <4>1
      <4> QED BY <2>2, <4>2 DEF InBlock
    <3>3. CASE u[1] # BB(c)
      <4>1. u \in Instr(d).external /\ e = <<LastOf(u[1], c), u[2]>>
        BY <2>1, <3>1, <3>3
      <4> QED BY <4>1 DEF Far
    <3> QED BY <3>2, <3>3
  <2>8. ASSUME NEW e \in Near(d) PROVE e \in Uses(d)
    <3>1. <<BB(c), e[2]>> \in U /\ e = <<c, e[2]>>
      BY <2>3
    <3>2. \E u \in U : u[1] = BB(c) /\ e = <<c, u[2]>>
      BY <3>1
    <3> QED BY <2>6, <3>2
  <2>9. ASSUME NEW e \in Far(d) PROVE e \in Uses(d)
    BY <2>5, <2>6
  <2> QED BY <1>5, <2>3, <2>5, <2>7, <2>8, <2>9
<1> QED BY <1>4, <1>5

-----------------------------------------------------------------------------
(* Program order: how many nodes of a set are before a node.               *)

Rank(S, d) == Cardinality({e \in S : Older(e, d)})

LEMMA OlderOrder ==
  /\ \A d \in NodeIds : ~Older(d, d) /\ d = <<d[1], d[2]>> /\ d[1] \in Int /\ d[2] \in Int
  /\ \A d, e, f \in NodeIds : Older(d, e) /\ Older(e, f) => Older(d, f)
  /\ \A d, e \in NodeIds : Older(d, e) => ~Older(e, d)
  /\ \A d, e \in NodeIds : Older(d, e) \/ d = e \/ Older(e, d)
<1>1. \A d \in NodeIds : d[1] \in Int /\ d[2] \in Int /\ d = <<d[1], d[2]>>
  BY DEF NodeIds
<1>2. \A d, e \in NodeIds : d[1] = e[1] /\ d[2] = e[2] => d = e
  BY <1>1
<1> QED BY <1>1, <1>2 DEF Older

LEMMA RankOrder ==
  ASSUME NEW S \in SUBSET NodeIds, IsFiniteSet(S), NEW e \in NodeIds
  PROVE  /\ Rank(S, e) \in 0..Cardinality(S) /\ Cardinality(S) \in Nat
         /\ \A d \in NodeIds : ~Older(e, d) => Rank(S, d) <= Rank(S, e)
         /\ \A d \in S : Older(d, e) => Rank(S, d) < Rank(S, e)
         /\ e \in S => Rank(S, e) < Cardinality(S)
<1> DEFINE B(d) == {f \in S : Older(f, d)}
<1>1. \A d \in NodeIds : IsFiniteSet(B(d)) /\ Cardinality(B(d)) \in Nat /\ Cardinality(B(d)) <= Cardinality(S)
  <2> TAKE d \in NodeIds
  <2>1. B(d) \in SUBSET S
    OBVIOUS
  <2> QED BY <2>1, FS_Subset, FS_CardinalityType
<1>2. Cardinality(S) \in Nat
  BY FS_CardinalityType
<1>3. ASSUME NEW d \in NodeIds, ~Older(e, d) PROVE Rank(S, d) <= Rank(S, e)
  <2>1. B(d) \in SUBSET B(e)
    BY <1>3, OlderOrder
  <2>2. Cardinality(B(d)) <= Cardinality(B(e))
    BY <1>1, <2>1, FS_Subset
  <2> QED BY <2>2 DEF Rank
<1>4. ASSUME NEW d \in S, Older(d, e) PROVE Rank(S, d) < Rank(S, e)
  <2>1. B(d) \in SUBSET B(e) /\ d \in B(e) /\ d \notin B(d) /\ d \in NodeIds
    BY <1>4, OlderOrder
  <2>2. Cardinality(B(d)) <= Cardinality(B(e)) /\ Cardinality(B(d)) # Cardinality(B(e))
    BY <1>1, <2>1, FS_Subset
  <2>3. Cardinality(B(d)) \in Nat /\ Cardinality(B(e)) \in Nat
    BY <1>1, <2>1
  <2> QED BY <2>2, <2>3 DEF Rank
<1>5. ASSUME e \in S PROVE Rank(S, e) < Cardinality(S)
  <2>1. B(e) \in SUBSET S /\ e \notin B(e)
    BY OlderOrder
  <2>2. Cardinality(B(e)) <= Cardinality(S) /\ Cardinality(B(e)) # Cardinality(S)
    BY <1>5, <2>1, FS_Subset
  <2>3. Cardinality(B(e)) \in Nat
    BY <1>1
  <2> QED BY <1>2, <2>2, <2>3 DEF Rank
<1> QED BY <1>1, <1>2, <1>3, <1>4, <1>5 DEF Rank

LEMMA RankOnto ==
  ASSUME NEW S \in SUBSET NodeIds, IsFiniteSet(S), NEW k \in 0..(Cardinality(S) - 1)
  PROVE  \E d \in S : Rank(S, d) = k
<1> DEFINE T == 0..(Cardinality(S) - 1)
           f == [d \in S |-> Rank(S, d)]
<1>1. Cardinality(S) \in Nat
  BY FS_CardinalityType
<1>2. \A d \in S : f[d] \in T
  BY <1>1, RankOrder
<1>3. f \in [S -> T]
  BY <1>2
<1>4. \A d, e \in S : f[d] = f[e] => d = e
  <2> SUFFICES ASSUME NEW d \in S, NEW e \in S, d # e PROVE Rank(S, d) # Rank(S, e)
    OBVIOUS
  <2>1. Older(d, e) \/ Older(e, d)
    BY OlderOrder
  <2>2. Rank(S, d) \in Int /\ Rank(S, e) \in Int
    BY <1>1, RankOrder
  <2> QED BY <2>1, <2>2, RankOrder
<1>5. f \in Injection(S, T)
  BY <1>3, <1>4, Fun_IsInj, Zenon
<1>6. IsFiniteSet(T) /\ Cardinality(T) = Cardinality(S)
  BY <1>1, FS_Interval
<1>7. f \in Surjection(S, T)
  BY <1>5, <1>6, FS_Injection
<1>8. k \in T /\ \A d \in S : f[d] = Rank(S, d)
  OBVIOUS
<1> HIDE DEF f, T
<1>9. PICK d \in S : f[d] = k
  BY <1>7, <1>8, Fun_SurjectionProperties
<1> QED BY <1>8, <1>9

-----------------------------------------------------------------------------
(* The nodes of the contexts that exist.                                   *)

LEMMA CreatedFacts ==
  ASSUME program \in Programs, created \in 0..TraceLength
  PROVE  /\ \A d : d \in CreatedNodes <=> d \in Nodes /\ d[1] <= created
         /\ CreatedNodes \subseteq NodeIds /\ Nodes \subseteq NodeIds
         /\ IsFiniteSet(Nodes) /\ IsFiniteSet(CreatedNodes)
         /\ Cardinality(CreatedNodes) \in Nat
         /\ Cardinality(CreatedNodes) <= MaxContexts * MaxBlock
         /\ MaxContexts * MaxBlock \in Nat
<1>1. created \in Nat /\ created <= TraceLength /\ TraceLength \in Nat
  BY NodeShape
<1>2. ASSUME NEW d \in CreatedNodes PROVE d \in Nodes /\ d[1] <= created
  <2>1. PICK c \in 1..created : d \in NodesOf(c)
    BY DEF CreatedNodes
  <2>2. c \in 1..TraceLength
    BY <1>1
  <2>3. PICK i \in 1..Len(Block(c)) : d = <<c, i>>
    BY <2>1, <2>2, NodeShape
  <2>4. d \in Nodes
    BY <2>1, <2>2, NodeShape
  <2> QED BY <2>3, <2>4
<1>3. ASSUME NEW d \in Nodes, d[1] <= created PROVE d \in CreatedNodes
  <2>1. d[1] \in 1..TraceLength /\ d \in NodesOf(d[1])
    BY NodeShape
  <2>2. d[1] \in 1..created
    BY <1>1, <1>3, <2>1
  <2> QED BY <2>1, <2>2 DEF CreatedNodes
<1>4. Nodes \subseteq NodeIds /\ IsFiniteSet(NodeIds)
  BY NodeShape
<1>5. CreatedNodes \in SUBSET NodeIds
  BY <1>2, <1>4
<1>6. Cardinality(NodeIds) = MaxContexts * MaxBlock
  <2>1. MaxContexts \in Nat /\ MaxBlock \in Nat
    BY ProgramFacts
  <2>2. IsFiniteSet(1..MaxContexts) /\ IsFiniteSet(1..MaxBlock)
        /\ Cardinality(1..MaxContexts) = MaxContexts /\ Cardinality(1..MaxBlock) = MaxBlock
    <3>1. \A n \in Nat : IsFiniteSet(1..n) /\ Cardinality(1..n) = IF 1 > n THEN 0 ELSE n - 1 + 1
      BY FS_Interval
    <3> QED BY <2>1, <3>1
  <2>3. Cardinality((1..MaxContexts) \X (1..MaxBlock)) = Cardinality(1..MaxContexts) * Cardinality(1..MaxBlock)
    BY <2>2, FS_Product
  <2> QED BY <2>2, <2>3 DEF NodeIds
<1>7. IsFiniteSet(Nodes) /\ IsFiniteSet(CreatedNodes)
      /\ Cardinality(CreatedNodes) <= Cardinality(NodeIds) /\ Cardinality(CreatedNodes) \in Nat
      /\ Cardinality(NodeIds) \in Nat
  BY <1>4, <1>5, FS_Subset, FS_CardinalityType
<1> QED BY <1>2, <1>3, <1>4, <1>5, <1>6, <1>7

\* A node is older exactly when its position is smaller, and the nodes that
\* exist have the first positions.
LEMMA Positions ==
  ASSUME program \in Programs, created \in 0..TraceLength
  PROVE  /\ \A d \in Nodes : Position(d) \in Nat
         /\ \A d, e \in Nodes : Older(d, e) => Position(d) < Position(e)
         /\ \A d \in CreatedNodes : Position(d) < Cardinality(CreatedNodes)
         /\ \A d \in Nodes \ CreatedNodes : Position(d) >= Cardinality(CreatedNodes)
<1>1. /\ \A d : d \in CreatedNodes <=> d \in Nodes /\ d[1] <= created
      /\ CreatedNodes \subseteq NodeIds /\ Nodes \subseteq NodeIds
      /\ IsFiniteSet(Nodes) /\ IsFiniteSet(CreatedNodes)
  BY CreatedFacts
<1>2. \A d : Position(d) = Rank(Nodes, d)
  BY DEF Position, Rank
<1>3. \A d \in Nodes : Position(d) \in Nat
  BY <1>1, <1>2, RankOrder
<1>4. \A d, e \in Nodes : Older(d, e) => Position(d) < Position(e)
  BY <1>1, <1>2, RankOrder
<1>5. \A d \in CreatedNodes : Position(d) < Cardinality(CreatedNodes)
  <2> TAKE d \in CreatedNodes
  <2>1. \A e \in Nodes : Older(e, d) => e \in CreatedNodes
    <3> SUFFICES ASSUME NEW e \in Nodes, Older(e, d) PROVE e[1] <= created
      BY <1>1
    <3>1. e[1] <= d[1] /\ d[1] <= created /\ e[1] \in Int /\ d[1] \in Int /\ created \in Int
      BY <1>1, OlderOrder, NodeShape DEF Older
    <3> QED BY <3>1
  <2>2. {e \in Nodes : Older(e, d)} = {e \in CreatedNodes : Older(e, d)}
    BY <1>1, <2>1
  <2>3. Position(d) = Rank(CreatedNodes, d)
    BY <2>2 DEF Position, Rank
  <2> QED BY <1>1, <2>3, RankOrder
<1>6. \A d \in Nodes \ CreatedNodes : Position(d) >= Cardinality(CreatedNodes)
  <2> TAKE d \in Nodes \ CreatedNodes
  <2>1. \A e \in CreatedNodes : e \in Nodes /\ Older(e, d)
    <3> TAKE e \in CreatedNodes
    <3>1. e[1] <= created /\ ~(d[1] <= created) /\ e \in Nodes
      BY <1>1
    <3>2. e[1] \in Int /\ d[1] \in Int /\ created \in Int
      BY <1>1, OlderOrder, NodeShape
    <3> QED BY <3>1, <3>2 DEF Older
  <2>2. CreatedNodes \in SUBSET {e \in Nodes : Older(e, d)}
    BY <2>1
  <2>3. {e \in Nodes : Older(e, d)} \in SUBSET Nodes
    OBVIOUS
  <2>4. IsFiniteSet({e \in Nodes : Older(e, d)})
    BY <1>1, <2>3, FS_Subset
  <2>5. Cardinality(CreatedNodes) <= Cardinality({e \in Nodes : Older(e, d)})
    BY <2>2, <2>4, FS_Subset
  <2>6. Cardinality(CreatedNodes) \in Nat /\ Position(d) \in Nat
    BY <1>3, CreatedFacts
  <2> QED BY <2>5, <2>6 DEF Position
<1> QED BY <1>3, <1>4, <1>5, <1>6

\* finishNode tells a node of exactly those it waits for in its block, or as a
\* PHI in the block before.
LEMMA Told ==
  ASSUME program \in Programs, created \in 0..TraceLength, NEW d \in CreatedNodes
  PROVE  /\ InBlockOrPhi(d) \subseteq CreatedNodes
         /\ \A e \in CreatedNodes : e \in InBlockOrPhi(d) <=> d \in Near(e)
<1>1. \A e : e \in CreatedNodes <=> e \in Nodes /\ e[1] <= created
  BY CreatedFacts
<1>2. d \in Nodes /\ d[1] \in 1..TraceLength /\ d[1] <= created /\ d[2] \in Int /\ d = <<d[1], d[2]>>
  BY <1>1, NodeShape
<1>3. created \in Int /\ TraceLength \in Int /\ created <= TraceLength
  BY NodeShape
<1>4. \A c \in 1..TraceLength : \A e : e \in NodesOf(c) <=> e \in Nodes /\ e[1] = c
  <2> TAKE c \in 1..TraceLength
  <2> TAKE e
  <2>1. e \in NodesOf(c) => e \in Nodes /\ e[1] = c
    BY NodeShape
  <2>2. e \in Nodes => e \in NodesOf(e[1])
    BY NodeShape
  <2> QED BY <2>1, <2>2
<1>5. ASSUME NEW e \in InBlockOrPhi(d) PROVE e \in CreatedNodes
  <2>1. CASE e \in Dependents(d)
    <3>1. e \in NodesOf(d[1])
      BY <2>1 DEF Dependents
    <3> QED BY <1>1, <1>2, <1>4, <3>1
  <2>2. CASE e \in PhiDependents(d)
    <3>1. d[1] + 1 <= created /\ e \in NodesOf(d[1] + 1)
      BY <1>2, <1>3, <2>2 DEF PhiDependents
    <3>2. d[1] + 1 \in 1..TraceLength
      BY <1>2, <1>3, <3>1
    <3> QED BY <1>1, <1>4, <3>1, <3>2
  <2> QED BY <1>5, <2>1, <2>2 DEF InBlockOrPhi
<1>6. ASSUME NEW e \in CreatedNodes PROVE e \in InBlockOrPhi(d) <=> d \in Near(e)
  <2>1. e \in Nodes /\ e[1] \in 1..TraceLength /\ e[1] <= created
    BY <1>1, NodeShape
  <2>2. e \in Dependents(d) <=> e[1] = d[1] /\ d[2] \in Instr(e).parents
    BY <1>2, <1>4, <2>1 DEF Dependents
  <2>3. e \in PhiDependents(d) <=> e[1] = d[1] + 1 /\ Static(d) \in Instr(e).phi
    <3>1. CASE d[1] + 1 > created
      BY <1>2, <1>3, <2>1, <3>1 DEF PhiDependents
    <3>2. CASE ~(d[1] + 1 > created)
      <4>1. d[1] + 1 \in 1..TraceLength
        BY <1>2, <1>3, <3>2
      <4> QED BY <1>4, <2>1, <3>2, <4>1 DEF PhiDependents
    <3> QED BY <3>1, <3>2
  <2>4. CASE Type(e) = "PHI"
    <3>1. Instr(e).parents = {} /\ \A f \in Instr(e).phi : f = <<f[1], f[2]>>
      BY <2>1, <2>4, NodeEdges
    <3>2. d \in Near(e) <=> \E f \in Instr(e).phi : e[1] > 1 /\ f[1] = BB(e[1] - 1) /\ d = <<e[1] - 1, f[2]>>
      BY <2>4 DEF Near, Merged
    <3>3. ASSUME NEW f \in Instr(e).phi, e[1] > 1, f[1] = BB(e[1] - 1), d = <<e[1] - 1, f[2]>>
          PROVE  e[1] = d[1] + 1 /\ Static(d) \in Instr(e).phi
      <4>1. d[1] = e[1] - 1 /\ d[2] = f[2]
        BY <3>3
      <4>2. e[1] = d[1] + 1
        BY <1>2, <2>1, <4>1
      <4>3. Static(d) = f
        BY <3>1, <3>3, <4>1 DEF Static
      <4> QED BY <4>2, <4>3
    <3>4. ASSUME e[1] = d[1] + 1, Static(d) \in Instr(e).phi
          PROVE  \E f \in Instr(e).phi : e[1] > 1 /\ f[1] = BB(e[1] - 1) /\ d = <<e[1] - 1, f[2]>>
      <4>1. e[1] > 1 /\ e[1] - 1 = d[1]
        BY <1>2, <2>1, <3>4
      <4>2. Static(d)[1] = BB(e[1] - 1) /\ Static(d)[2] = d[2]
        BY <4>1 DEF Static
      <4> QED BY <1>2, <3>4, <4>1, <4>2
    <3> QED BY <2>2, <2>3, <3>1, <3>2, <3>3, <3>4 DEF InBlockOrPhi
  <2>5. CASE Type(e) # "PHI"
    <3>1. Instr(e).phi = {}
      BY <2>1, <2>5, NodeEdges
    <3>2. d \in Near(e) <=> \E i \in Instr(e).parents : d = <<e[1], i>>
      BY <2>5 DEF Near, InBlock
    <3>3. d \in Near(e) <=> e[1] = d[1] /\ d[2] \in Instr(e).parents
      BY <1>2, <3>2
    <3> QED BY <2>2, <2>3, <3>1, <3>3 DEF InBlockOrPhi
  <2> QED BY <2>4, <2>5
<1> QED BY <1>5, <1>6

-----------------------------------------------------------------------------
(* The queues.                                                             *)

Ordered(q) == \A i, j \in DOMAIN q : i < j => Older(q[i], q[j])
Of(c, types) == {d \in NodesOf(c) : Type(d) \in types}

LEMMA MembersOf ==
  ASSUME NEW q
  PROVE  \A x : x \in ToSet(q) <=> \E i \in DOMAIN q : x = q[i]
BY DEF ToSet

LEMMA OfFacts ==
  ASSUME program \in Programs, NEW c \in 1..TraceLength, NEW types
  PROVE  /\ Of(c, types) \in SUBSET NodeIds /\ IsFiniteSet(Of(c, types))
         /\ Cardinality(Of(c, types)) \in Nat
<1>1. NodesOf(c) \subseteq Nodes /\ Nodes \subseteq NodeIds /\ IsFiniteSet(NodeIds)
  BY NodeShape
<1>2. Of(c, types) \in SUBSET NodeIds
  BY <1>1 DEF Of
<1>3. IsFiniteSet(Of(c, types))
  BY <1>1, <1>2, FS_Subset
<1> QED BY <1>2, <1>3, FS_CardinalityType

LEMMA MemoryNodesFacts ==
  ASSUME program \in Programs, NEW c \in 1..TraceLength, NEW types, ~Bypassed
  PROVE  /\ MemoryNodes(c, types) \in Seq(NodeIds)
         /\ Len(MemoryNodes(c, types)) = Cardinality(Of(c, types))
         /\ ToSet(MemoryNodes(c, types)) = Of(c, types)
         /\ Ordered(MemoryNodes(c, types))
<1> DEFINE S == Of(c, types)
           n == Cardinality(S)
           q == MemoryNodes(c, types)
<1>1. S \in SUBSET NodeIds /\ IsFiniteSet(S) /\ n \in Nat
  BY OfFacts
<1>2. q = [k \in 1..n |-> CHOOSE d \in S : Rank(S, d) = k - 1]
  BY DEF MemoryNodes, Of, Rank
<1> HIDE DEF S, q
<1>3. \A k \in 1..n : q[k] \in S /\ Rank(S, q[k]) = k - 1
  <2> TAKE k \in 1..n
  <2>1. k - 1 \in 0..(n - 1)
    BY <1>1
  <2>2. \E d \in S : Rank(S, d) = k - 1
    BY <1>1, <2>1, RankOnto
  <2>3. q[k] = CHOOSE d \in S : Rank(S, d) = k - 1
    BY <1>2
  <2> QED BY <2>2, <2>3
<1>4. DOMAIN q = 1..n
  BY <1>2
<1>5. q \in [1..n -> S]
  BY <1>2, <1>3
<1>6. q \in Seq(NodeIds) /\ Len(q) = n
  <2>1. q \in [1..n -> NodeIds]
    BY <1>1, <1>5
  <2>2. q \in Seq(NodeIds)
    BY <1>1, <2>1, SeqDef
  <2>3. Len(q) = n
    BY <1>1, <1>4, <2>2, LenProperties
  <2> QED BY <2>2, <2>3
<1>7. \A x : x \in ToSet(q) <=> \E i \in 1..n : x = q[i]
  BY <1>4, MembersOf
<1>8. ASSUME NEW d \in S PROVE d \in ToSet(q)
  <2> DEFINE k == Rank(S, d) + 1
  <2>1. k \in 1..n /\ Rank(S, d) \in Int
    BY <1>1, RankOrder
  <2>2. q[k] \in S /\ Rank(S, q[k]) = Rank(S, d)
    BY <1>3, <2>1
  <2>3. ~Older(q[k], d) /\ ~Older(d, q[k])
    BY <1>1, <2>1, <2>2, RankOrder
  <2>4. q[k] = d
    BY <1>1, <2>2, <2>3, OlderOrder
  <2> QED BY <1>7, <2>1, <2>4
<1>9. ToSet(q) = S
  BY <1>3, <1>7, <1>8
<1>10. ASSUME NEW i \in 1..n, NEW j \in 1..n, i < j PROVE Older(q[i], q[j])
  <2>1. q[i] \in S /\ q[j] \in S /\ Rank(S, q[i]) = i - 1 /\ Rank(S, q[j]) = j - 1
    BY <1>3
  <2>2. ~(Rank(S, q[j]) <= Rank(S, q[i]))
    BY <1>1, <1>10, <2>1
  <2> QED BY <1>1, <2>1, <2>2, RankOrder
<1> QED BY <1>4, <1>6, <1>9, <1>10 DEF q, S, Ordered

LEMMA CountOfFacts ==
  ASSUME program \in Programs, NEW c \in 1..TraceLength, NEW type
  PROVE  CountOf(c, type) = Cardinality(Of(c, {type})) /\ CountOf(c, type) \in Nat
<1> DEFINE I == {i \in DOMAIN Block(c) : Block(c)[i].type = type}
           S == Of(c, {type})
           f == [i \in I |-> <<c, i>>]
<1>1. \A i : i \in I <=> <<c, i>> \in S
  BY DEF Of, NodesOf, Type, Instr
<1>2. \A d \in S : \E i \in I : d = <<c, i>>
  BY <1>1 DEF Of, NodesOf
<1>3. f \in [I -> S] /\ \A i \in I : f[i] = <<c, i>>
  BY <1>1
<1> HIDE DEF f, I, S
<1>4. \A i, j \in I : f[i] = f[j] => i = j
  BY <1>3
<1>5. \A d \in S : \E i \in I : f[i] = d
  BY <1>2, <1>3
<1>6. f \in Bijection(I, S)
  BY <1>3, <1>4, <1>5, Fun_IsBij
<1>7. IsFiniteSet(I)
  <2>1. DOMAIN Block(c) = 1..Len(Block(c)) /\ Len(Block(c)) \in Int
    BY BlockShape
  <2>2. IsFiniteSet(DOMAIN Block(c))
    BY <2>1, FS_Interval
  <2> QED BY <2>2, FS_Subset DEF I
<1>8. Cardinality(S) = Cardinality(I)
  BY <1>6, <1>7, FS_Bijection DEF ExistsBijection
<1> QED BY <1>7, <1>8, FS_CardinalityType DEF CountOf, I, S

LEMMA StoresOf ==
  ASSUME program \in Programs, NEW c \in 1..TraceLength
  PROVE  Cardinality(Of(c, {"ST", "ATOMIC"})) = CountOf(c, "ST") + CountOf(c, "ATOMIC")
<1>1. Of(c, {"ST", "ATOMIC"}) = Of(c, {"ST"}) \cup Of(c, {"ATOMIC"})
  BY DEF Of
<1>2. Of(c, {"ST"}) \cap Of(c, {"ATOMIC"}) = {}
  BY DEF Of
<1>3. IsFiniteSet(Of(c, {"ST"})) /\ IsFiniteSet(Of(c, {"ATOMIC"}))
  BY OfFacts
<1>4. Cardinality({}) = 0
  BY FS_EmptySet
<1>5. CountOf(c, "ST") \in Nat /\ CountOf(c, "ATOMIC") \in Nat
      /\ Cardinality(Of(c, {"ST"})) = CountOf(c, "ST")
      /\ Cardinality(Of(c, {"ATOMIC"})) = CountOf(c, "ATOMIC")
  BY CountOfFacts
<1>6. Cardinality(Of(c, {"ST"}) \cup Of(c, {"ATOMIC"})) =
        Cardinality(Of(c, {"ST"})) + Cardinality(Of(c, {"ATOMIC"}))
          - Cardinality(Of(c, {"ST"}) \cap Of(c, {"ATOMIC"}))
  BY <1>3, FS_Union
<1>7. Cardinality(Of(c, {"ST", "ATOMIC"})) = CountOf(c, "ST") + CountOf(c, "ATOMIC") - 0
  BY <1>1, <1>2, <1>4, <1>5, <1>6, Zenon
<1> QED BY <1>5, <1>7

\* The queue without its first k entries.
LEMMA Drop ==
  ASSUME NEW q \in Seq(NodeIds), Ordered(q), NEW k \in 0..Len(q)
  PROVE  /\ Without(q, k) \in Seq(NodeIds) /\ Ordered(Without(q, k))
         /\ Len(Without(q, k)) = Len(q) - k
         /\ ToSet(Without(q, k)) \subseteq ToSet(q)
         /\ \A d \in ToSet(q) \ ToSet(Without(q, k)) :
              /\ \E i \in 1..k : d = q[i]
              /\ \A e \in ToSet(Without(q, k)) : Older(d, e)
<1> DEFINE r == Without(q, k)
           n == Len(q)
<1>1. n \in Nat /\ DOMAIN q = 1..n /\ \A i \in 1..n : q[i] \in NodeIds
  BY LenProperties, ElementOfSeq
<1>2. k \in Nat /\ k <= n
  BY <1>1
<1>3. /\ r \in Seq(NodeIds) /\ Len(r) = IF k + 1 <= n THEN n - (k + 1) + 1 ELSE 0
      /\ \A i \in 1..(n - (k + 1) + 1) : r[i] = q[(k + 1) + i - 1]
  <2>1. k + 1 \in Int /\ n \in Int /\ \A i \in (k + 1)..n : q[i] \in NodeIds
    BY <1>1, <1>2
  <2> QED BY <2>1, SubSeqProperties DEF Without
<1> HIDE DEF r, n
<1>4. Len(r) = n - k
  BY <1>1, <1>2, <1>3
<1>5. DOMAIN r = 1..(n - k) /\ \A i \in 1..(n - k) : r[i] = q[k + i] /\ k + i \in 1..n
  <2>1. DOMAIN r = 1..(n - k)
    BY <1>3, <1>4, LenProperties
  <2>2. \A i \in 1..(n - k) : r[i] = q[k + i] /\ k + i \in 1..n
    BY <1>1, <1>2, <1>3
  <2> QED BY <2>1, <2>2
<1>6. Ordered(r)
  <2> SUFFICES ASSUME NEW i \in 1..(n - k), NEW j \in 1..(n - k), i < j
               PROVE  Older(r[i], r[j])
    BY <1>5 DEF Ordered
  <2>1. r[i] = q[k + i] /\ r[j] = q[k + j] /\ k + i \in 1..n /\ k + j \in 1..n /\ k + i < k + j
    BY <1>2, <1>5
  <2> QED BY <1>1, <2>1 DEF Ordered
<1>7. \A x : x \in ToSet(r) <=> \E i \in 1..(n - k) : x = r[i]
  <2>1. DOMAIN r = 1..(n - k)
    BY <1>5
  <2> QED BY <2>1, MembersOf, Zenon
<1>8. \A x : x \in ToSet(q) <=> \E i \in 1..n : x = q[i]
  BY <1>1, MembersOf
<1>9. ToSet(r) \subseteq ToSet(q)
  <2> SUFFICES ASSUME NEW i \in 1..(n - k) PROVE r[i] \in ToSet(q)
    BY <1>7
  <2>1. r[i] = q[k + i] /\ k + i \in 1..n
    BY <1>5
  <2> QED BY <1>8, <2>1
<1>10. ASSUME NEW d \in ToSet(q), d \notin ToSet(r)
       PROVE  (\E i \in 1..k : d = q[i]) /\ \A e \in ToSet(r) : Older(d, e)
  <2>1. PICK i \in 1..n : d = q[i]
    BY <1>8
  <2>2. i <= k
    <3> SUFFICES ASSUME i > k PROVE FALSE
      BY <1>2, <2>1
    <3> DEFINE j == i - k
    <3>1. j \in 1..(n - k) /\ k + j = i
      BY <1>1, <1>2, <2>1
    <3> HIDE DEF j
    <3>2. r[j] = d
      BY <1>5, <2>1, <3>1
    <3> QED BY <1>7, <1>10, <3>1, <3>2
  <2>3. i \in 1..k
    BY <1>1, <1>2, <2>2
  <2>4. ASSUME NEW e \in ToSet(r) PROVE Older(d, e)
    <3>1. PICK j \in 1..(n - k) : e = r[j]
      BY <1>7, <2>4
    <3>2. e = q[k + j] /\ k + j \in 1..n /\ i < k + j
      BY <1>2, <1>5, <2>3, <3>1
    <3> QED BY <1>1, <2>1, <3>2 DEF Ordered
  <2> QED BY <2>1, <2>3, <2>4
<1> QED BY <1>3, <1>4, <1>6, <1>9, <1>10 DEF r, n

\* A queue followed by younger nodes.
LEMMA Join ==
  ASSUME NEW q \in Seq(NodeIds), NEW r \in Seq(NodeIds), Ordered(q), Ordered(r),
         \A d \in ToSet(q), e \in ToSet(r) : Older(d, e)
  PROVE  /\ q \o r \in Seq(NodeIds) /\ Ordered(q \o r)
         /\ Len(q \o r) = Len(q) + Len(r)
         /\ ToSet(q \o r) = ToSet(q) \cup ToSet(r)
<1> DEFINE s == q \o r
           m == Len(q)
           n == Len(r)
<1>1. m \in Nat /\ n \in Nat /\ DOMAIN q = 1..m /\ DOMAIN r = 1..n
  BY LenProperties
<1>2. s \in Seq(NodeIds) /\ Len(s) = m + n
      /\ \A i \in 1..(m + n) : s[i] = IF i <= m THEN q[i] ELSE r[i - m]
  BY ConcatProperties
<1> HIDE DEF s, m, n
<1>3. DOMAIN s = 1..(m + n)
  BY <1>2, LenProperties
<1>4. \A x : x \in ToSet(q) <=> \E i \in 1..m : x = q[i]
  BY <1>1, MembersOf
<1>5. \A x : x \in ToSet(r) <=> \E i \in 1..n : x = r[i]
  BY <1>1, MembersOf
<1>6. \A x : x \in ToSet(s) <=> \E i \in 1..(m + n) : x = s[i]
  BY <1>3, MembersOf
<1>7. \A i \in 1..m : i \in 1..(m + n) /\ s[i] = q[i] /\ q[i] \in ToSet(q)
  <2> TAKE i \in 1..m
  <2>1. i \in 1..(m + n) /\ i <= m
    BY <1>1
  <2> QED BY <1>2, <1>4, <2>1
<1>8. \A i \in 1..n : m + i \in 1..(m + n) /\ s[m + i] = r[i] /\ r[i] \in ToSet(r)
  <2> TAKE i \in 1..n
  <2>1. m + i \in 1..(m + n) /\ ~(m + i <= m) /\ (m + i) - m = i
    BY <1>1
  <2> QED BY <1>2, <1>5, <2>1
<1>9. \A i \in 1..(m + n) : i \in 1..m \/ (i - m \in 1..n /\ i = m + (i - m))
  BY <1>1
<1>10. ToSet(s) = ToSet(q) \cup ToSet(r)
  <2>1. ASSUME NEW x \in ToSet(s) PROVE x \in ToSet(q) \cup ToSet(r)
    <3>1. PICK i \in 1..(m + n) : x = s[i]
      BY <1>6, <2>1
    <3>2. CASE i \in 1..m
      BY <1>7, <3>1, <3>2
    <3>3. CASE i - m \in 1..n /\ i = m + (i - m)
      BY <1>8, <3>1, <3>3
    <3> QED BY <1>9, <3>2, <3>3
  <2>2. ASSUME NEW x \in ToSet(q) PROVE x \in ToSet(s)
    <3>1. PICK i \in 1..m : x = q[i]
      BY <1>4, <2>2
    <3> QED BY <1>6, <1>7, <3>1
  <2>3. ASSUME NEW x \in ToSet(r) PROVE x \in ToSet(s)
    <3>1. PICK i \in 1..n : x = r[i]
      BY <1>5, <2>3
    <3> QED BY <1>6, <1>8, <3>1
  <2> QED BY <2>1, <2>2, <2>3
<1>11. Ordered(s)
  <2> SUFFICES ASSUME NEW i \in 1..(m + n), NEW j \in 1..(m + n), i < j
               PROVE  Older(s[i], s[j])
    BY <1>3 DEF Ordered
  <2>1. CASE i \in 1..m /\ j \in 1..m
    BY <1>1, <1>7, <2>1 DEF Ordered
  <2>2. CASE i \in 1..m /\ j - m \in 1..n /\ j = m + (j - m)
    <3>1. s[i] \in ToSet(q) /\ s[j] \in ToSet(r)
      BY <1>7, <1>8, <2>2
    <3> QED BY <3>1
  <2>3. CASE i - m \in 1..n /\ i = m + (i - m) /\ j - m \in 1..n /\ j = m + (j - m)
    <3>1. s[i] = r[i - m] /\ s[j] = r[j - m]
      BY <1>8, <2>3
    <3>2. i - m < j - m
      BY <1>1
    <3> QED BY <1>1, <2>3, <3>1, <3>2 DEF Ordered
  <2>4. ~(i - m \in 1..n /\ j \in 1..m)
    BY <1>1
  <2> QED BY <1>9, <2>1, <2>2, <2>3, <2>4
<1> QED BY <1>2, <1>10, <1>11 DEF s, m, n

-----------------------------------------------------------------------------
(* The invariant.                                                          *)

Terminator(c) == <<c, Len(Block(c))>>

\* A node that waits for what it uses.
Held(d) == Type(d) # "TERMINATOR" \/ ~config.allAtOnce

\* The contexts that exist are the first of the trace; with branch prediction
\* or without, one more is due when the terminator of the last has completed.
ContextInv ==
  /\ program \in Programs /\ config \in Configs
  /\ created \in 0..TraceLength /\ toCreate \in 0..1
  /\ ~config.allAtOnce =>
       /\ toCreate = 1 <=> created = 0 \/ Terminator(created) \in completed
       /\ \A c \in 1..(created - 1) : Terminator(c) \in completed

\* Where each node is.
PlaceInv ==
  /\ completed \subseteq issued /\ issued \subseteq CreatedNodes
  /\ issued \ completed = pq \cup atMemory \cup speculatedSet
  /\ pq \cap atMemory = {} /\ pq \cap speculatedSet = {} /\ atMemory \cap speculatedSet = {}
  /\ speculated \subseteq speculatedSet
  /\ outstanding = NoNodes
  /\ toVisit \subseteq issueSet /\ issueSet \subseteq CreatedNodes \ issued

\* What has left the window has completed; a window of one holds one node.
WindowInv ==
  /\ windowStart \in 0..Cardinality(CreatedNodes)
  /\ windowEnd \in 0..(LastPosition + Max({config.window, 0}))
  /\ config.window = 1 => windowEnd = windowStart
  /\ \A d \in CreatedNodes : LeftRob(d) => d \in completed

\* The queues, and the addresses that are not resolved.
HoldsAccesses(q, types) ==
  /\ q \in Seq(NodeIds) /\ Ordered(q)
  /\ ToSet(q) \subseteq Accesses(types)
  /\ \A d \in Accesses(types) \ ToSet(q) : LeftRob(d) /\ \A e \in ToSet(q) : Older(d, e)

StoreTypes == {"ST", "ATOMIC"}
Atomic(c) == IF c = 0 THEN 0 ELSE CountOf(c, "ATOMIC")
QueueInv ==
  /\ HoldsAccesses(lq, {"LD"}) /\ HoldsAccesses(sq, StoreTypes)
  /\ config.lsq # -1 => Len(lq) <= config.lsq /\ Len(sq) <= config.lsq + Atomic(created)
UnresolvedInv ==
  /\ unresolvedLd \subseteq Accesses({"LD"}) \ (issued \cup issueSet)
  /\ unresolvedSt \subseteq Accesses(StoreTypes) \ (issued \cup issueSet)

\* A store goes after the older accesses to its address have completed, a
\* load reads after the older stores have gone.
SameLocation(d, e) == IsMem(e) /\ Addr(d) = Addr(e) /\ Older(d, e)
StoreOrder ==
  \A e \in issued : \A d \in CreatedNodes :
     SameLocation(d, e) /\ Type(e) # "LD" => d \in completed
LoadOrder ==
  (config.forward => config.speculate) =>
    \A e \in atMemory : \A d \in CreatedNodes :
       SameLocation(d, e) /\ Type(d) # "LD" => d \in issued

Missing(S, C) == Cardinality(S \ C)

\* The counts of parents are those that have not completed, and a node that
\* has not knows its dependents in other blocks.
ParentInv ==
  /\ pending \in [NodeIds -> Int] /\ pendingExt \in [NodeIds -> Int]
  /\ extDependents \in [NodeIds -> SUBSET NodeIds]
  /\ \A e, d \in NodeIds :
       d \in extDependents[e] <=> e \notin completed /\ d \in CreatedNodes /\ e \in Far(d)
  /\ \A d \in CreatedNodes : Held(d) =>
       /\ pending[d] = Missing(Near(d), completed)
       /\ pendingExt[d] = Missing(Far(d), completed)

\* curr_owner is the last context of a block.
OwnerInv ==
  /\ owner \in [DOMAIN program.blocks -> Nat]
  /\ \A k \in 1..created : /\ owner[BB(k)] \in k..created
                           /\ BB(owner[BB(k)]) = BB(k)

\* A node is in an issue set, or has issued, from when it may.
Predicted(d) == Type(d) = "TERMINATOR" /\ (d \notin mispredicted \/ config.allAtOnce)
ReadyInv ==
  /\ \A d \in issueSet \cup issued : Uses(d) \subseteq completed \/ Predicted(d)
  /\ \A d \in CreatedNodes \ (issueSet \cup issued) : Held(d) /\ ~(Uses(d) \subseteq completed)

Busy(t) == {d \in issued \ completed : Type(d) = t}
LiveOf(b) == {c \in Live : BB(c) = b}
UnitInv ==
  /\ availableFUs \in [Types -> Int]
  /\ \A t \in Types \ Mem :
       /\ Units[t] = -1 => availableFUs[t] = -1
       /\ Units[t] # -1 => availableFUs[t] >= 0 /\ availableFUs[t] = Units[t] - Cardinality(Busy(t))
ActiveInv ==
  /\ activeLeft \in [DOMAIN program.blocks -> Int]
  /\ config.active # -1 => \A b \in DOMAIN program.blocks :
       activeLeft[b] >= 0 /\ activeLeft[b] = config.active - Cardinality(LiveOf(b))
SmallInv == PredictorOK(predictor) /\ ports \in 0..MaxPorts

CoreInv ==
  /\ ContextInv /\ PlaceInv /\ WindowInv /\ QueueInv /\ UnresolvedInv
  /\ StoreOrder /\ LoadOrder /\ ParentInv /\ OwnerInv /\ ReadyInv
  /\ UnitInv /\ ActiveInv /\ SmallInv

-----------------------------------------------------------------------------
(* The program and the configuration stay as they are.                     *)

Fixed == program' = program /\ config' = config

LEMMA FixedProgram ==
  ASSUME Fixed
  PROVE  /\ TraceLength' = TraceLength /\ Nodes' = Nodes
         /\ \A c : BB(c)' = BB(c) /\ Block(c)' = Block(c) /\ NodesOf(c)' = NodesOf(c)
         /\ \A d : Instr(d)' = Instr(d) /\ Type(d)' = Type(d) /\ Addr(d)' = Addr(d)
         /\ \A d : Position(d)' = Position(d)
<1> USE DEF Fixed
<1>1. TraceLength' = TraceLength
  BY DEF TraceLength
<1>2. \A c : BB(c)' = BB(c)
  BY DEF BB
<1>3. \A c : Block(c)' = Block(c)
  BY <1>2 DEF Block
<1>4. \A c : NodesOf(c)' = NodesOf(c)
  BY <1>3 DEF NodesOf
<1>5. Nodes' = Nodes
  BY <1>1, <1>4 DEF Nodes
<1>6. \A d : Instr(d)' = Instr(d)
  BY <1>3 DEF Instr
<1>7. \A d : Type(d)' = Type(d)
  BY <1>6 DEF Type
<1>8. \A d : Addr(d)' = Addr(d)
  BY DEF Addr
<1>9. \A d : Position(d)' = Position(d)
  BY <1>5 DEF Position
<1> QED BY <1>1, <1>2, <1>3, <1>4, <1>5, <1>6, <1>7, <1>8, <1>9

LEMMA FixedNodes ==
  ASSUME Fixed
  PROVE  /\ \A d : (IsMem(d)' <=> IsMem(d)) /\ (Held(d)' <=> Held(d))
         /\ \A d : Near(d)' = Near(d) /\ Far(d)' = Far(d)
         /\ \A d : Uses(d)' = Uses(d)
         /\ (Bypassed' <=> Bypassed)
         /\ \A c : Terminator(c)' = Terminator(c)
         /\ \A c, type : CountOf(c, type)' = CountOf(c, type)
         /\ \A d, e : SameLocation(d, e)' <=> SameLocation(d, e)
<1>1. \A d : IsMem(d)' <=> IsMem(d)
  BY FixedProgram DEF IsMem
<1>2. \A d : Held(d)' <=> Held(d)
  BY FixedProgram DEF Held, Fixed
<1>3. \A d : Near(d)' = Near(d)
  <2>1. \A d : InBlock(d)' = InBlock(d)
    BY FixedProgram DEF InBlock
  <2>2. \A d : Merged(d)' = Merged(d)
    BY FixedProgram DEF Merged
  <2> QED BY <2>1, <2>2, FixedProgram DEF Near
<1>4. \A b, c : LastOf(b, c)' = LastOf(b, c)
  <2> TAKE b, c
  <2>1. {j \in 1..(c - 1) : BB(j) = b}' = {j \in 1..(c - 1) : BB(j) = b}
    BY FixedProgram
  <2> QED BY <2>1 DEF LastOf
<1>5. \A d : Far(d)' = Far(d)
  BY <1>4, FixedProgram DEF Far
<1>6. \A d : Uses(d)' = Uses(d)
  <2> TAKE d
  <2> DEFINE c == d[1]
             U == program.kernel[BB(c)][d[2]].uses
             P == {<<c - 1, u[2]>> : u \in {x \in U : c > 1 /\ x[1] = BB(c - 1)}}
             Q == {<<IF u[1] = BB(c) THEN c ELSE LastOf(u[1], c), u[2]>> : u \in U}
  <2>1. Uses(d) = IF Type(d) = "PHI" THEN P ELSE Q
    BY DEF Uses
  <2>2. U' = U
    BY FixedProgram DEF Fixed
  <2>3. P' = P
    <3>1. BB(c - 1)' = BB(c - 1)
      BY FixedProgram
    <3> QED BY <2>2, <3>1
  <2>4. Q' = Q
    <3>1. BB(c)' = BB(c)
      BY FixedProgram
    <3> QED BY <1>4, <2>2, <3>1
  <2>5. Uses(d)' = IF Type(d)' = "PHI" THEN P' ELSE Q'
    BY DEF Uses
  <2> HIDE DEF P, Q
  <2> QED BY <2>1, <2>3, <2>4, <2>5, FixedProgram
<1>7. Bypassed' <=> Bypassed
  BY DEF Bypassed, Fixed
<1>8. \A c : Terminator(c)' = Terminator(c)
  BY FixedProgram DEF Terminator
<1>9. \A c, type : CountOf(c, type)' = CountOf(c, type)
  BY FixedProgram DEF CountOf
<1>10. \A d, e : SameLocation(d, e)' <=> SameLocation(d, e)
  BY <1>1, FixedProgram DEF SameLocation
<1> QED BY <1>1, <1>2, <1>3, <1>5, <1>6, <1>7, <1>8, <1>9, <1>10

-----------------------------------------------------------------------------
(* What each part of the invariant rests on.                               *)

LEMMA FixedCreated ==
  ASSUME Fixed, created' = created
  PROVE  /\ CreatedNodes' = CreatedNodes
         /\ \A types : Accesses(types)' = Accesses(types)
<1>1. CreatedNodes' = CreatedNodes
  BY FixedProgram DEF CreatedNodes
<1> QED BY <1>1, FixedProgram, FixedNodes DEF Accesses

LEMMA SameContext ==
  ASSUME Fixed, ContextInv, created' = created, toCreate' = toCreate, completed' = completed
  PROVE  ContextInv'
<1>1. \A c : Terminator(c)' = Terminator(c)
  BY FixedNodes
<1>2. Terminator(created)' = Terminator(created)
  BY FixedProgram DEF Terminator
<1> QED BY <1>1, <1>2, FixedProgram DEF ContextInv, Fixed

LEMMA SameWindow ==
  ASSUME Fixed, WindowInv, created' = created, completed \subseteq completed',
         windowStart' = windowStart, windowEnd' = windowEnd
  PROVE  WindowInv'
<1>1. CreatedNodes' = CreatedNodes
  BY FixedCreated
<1>2. \A d : LeftRob(d)' <=> LeftRob(d)
  BY FixedProgram DEF LeftRob
<1> QED BY <1>1, <1>2 DEF WindowInv, Fixed, LastPosition

LEMMA SameQueue ==
  ASSUME Fixed, QueueInv, created' = created, lq' = lq, sq' = sq,
         \A d \in CreatedNodes : LeftRob(d) => LeftRob(d)'
  PROVE  QueueInv'
<1>1. HoldsAccesses(lq, {"LD"}) /\ HoldsAccesses(sq, StoreTypes)
  BY DEF QueueInv
<1>2. HoldsAccesses(lq, {"LD"})' /\ HoldsAccesses(sq, StoreTypes)'
  <2>1. \A q, types : HoldsAccesses(q, types) =>
           (q \in Seq(NodeIds) /\ Ordered(q) /\ ToSet(q) \subseteq Accesses(types)'
            /\ \A d \in Accesses(types)' \ ToSet(q) : LeftRob(d)' /\ \A e \in ToSet(q) : Older(d, e))
    <3> TAKE q, types
    <3>1. Accesses(types)' = Accesses(types) /\ Accesses(types) \subseteq CreatedNodes
      BY FixedCreated DEF Accesses
    <3> QED BY <3>1 DEF HoldsAccesses
  <2> QED BY <1>1, <2>1 DEF HoldsAccesses
<1>3. Atomic(created)' = Atomic(created)
  BY FixedNodes DEF Atomic
<1> QED BY <1>2, <1>3 DEF QueueInv, Fixed

LEMMA FewerUnresolved ==
  ASSUME Fixed, UnresolvedInv, created' = created,
         unresolvedLd' \subseteq unresolvedLd, unresolvedSt' \subseteq unresolvedSt,
         \A d \in unresolvedLd' \cup unresolvedSt' : d \notin issued' /\ d \notin issueSet'
  PROVE  UnresolvedInv'
BY FixedCreated DEF UnresolvedInv

LEMMA StoreOrderStep ==
  ASSUME Fixed, StoreOrder, created' = created, completed \subseteq completed',
         \A e \in issued' \ issued : \A d \in CreatedNodes :
           SameLocation(d, e) /\ Type(e) # "LD" => d \in completed
  PROVE  StoreOrder'
<1>1. CreatedNodes' = CreatedNodes
  BY FixedCreated
<1>2. \A e \in issued' : \A d \in CreatedNodes : SameLocation(d, e) /\ Type(e) # "LD" => d \in completed
  BY DEF StoreOrder
<1>3. \A d, e : SameLocation(d, e)' <=> SameLocation(d, e)
  BY FixedNodes
<1>4. \A d : Type(d)' = Type(d)
  BY FixedProgram
<1> QED BY <1>1, <1>2, <1>3, <1>4 DEF StoreOrder

LEMMA LoadOrderStep ==
  ASSUME Fixed, LoadOrder, created' = created, issued \subseteq issued',
         \A e \in atMemory' \ atMemory : (config.forward => config.speculate) =>
           \A d \in CreatedNodes : SameLocation(d, e) /\ Type(d) # "LD" => d \in issued
  PROVE  LoadOrder'
<1>1. CreatedNodes' = CreatedNodes
  BY FixedCreated
<1>2. (config.forward => config.speculate) =>
        \A e \in atMemory' : \A d \in CreatedNodes : SameLocation(d, e) /\ Type(d) # "LD" => d \in issued
  BY DEF LoadOrder
<1>3. \A d, e : SameLocation(d, e)' <=> SameLocation(d, e)
  BY FixedNodes
<1>4. \A d : Type(d)' = Type(d)
  BY FixedProgram
<1> QED BY <1>1, <1>2, <1>3, <1>4 DEF LoadOrder, Fixed

LEMMA SameParent ==
  ASSUME Fixed, ParentInv, created' = created, completed' = completed, parentVars' = parentVars
  PROVE  ParentInv'
<1>1. CreatedNodes' = CreatedNodes
  BY FixedCreated
<1>2. \A d : Far(d)' = Far(d) /\ Near(d)' = Near(d) /\ (Held(d)' <=> Held(d))
  BY FixedNodes
<1> QED BY <1>1, <1>2 DEF ParentInv, parentVars

LEMMA SameOwner ==
  ASSUME Fixed, OwnerInv, created' = created, owner' = owner
  PROVE  OwnerInv'
<1>1. \A k : BB(k)' = BB(k)
  BY FixedProgram
<1>2. \A k : BB(owner[BB(k)])' = BB(owner[BB(k)])
  BY FixedProgram DEF BB, Fixed
<1> QED BY <1>1, <1>2 DEF OwnerInv, Fixed

LEMMA SameReady ==
  ASSUME Fixed, ReadyInv, created' = created, completed' = completed,
         mispredicted' = mispredicted, issueSet' \cup issued' = issueSet \cup issued
  PROVE  ReadyInv'
<1>1. CreatedNodes' = CreatedNodes
  BY FixedCreated
<1>2. \A d : Uses(d)' = Uses(d) /\ (Held(d)' <=> Held(d))
  BY FixedNodes
<1>3. \A d : Predicted(d)' <=> Predicted(d)
  BY FixedProgram DEF Predicted, Fixed
<1> QED BY <1>1, <1>2, <1>3 DEF ReadyInv

LEMMA SameUnit ==
  ASSUME UnitInv, availableFUs' = availableFUs, \A t \in Types \ Mem : Busy(t)' = Busy(t)
  PROVE  UnitInv'
BY DEF UnitInv, Types

LEMMA SameActive ==
  ASSUME Fixed, ActiveInv, created' = created, completed' = completed, activeLeft' = activeLeft
  PROVE  ActiveInv'
<1>1. Live' = Live
  BY FixedProgram DEF Live
<1>2. \A b : LiveOf(b)' = LiveOf(b)
  BY <1>1, FixedProgram DEF LiveOf
<1> QED BY <1>2 DEF ActiveInv, Fixed

-----------------------------------------------------------------------------
(* Issue: what the tests of the queue say of the older accesses.           *)

LEMMA InQueueOrLeft ==
  ASSUME program \in Programs, created \in 0..TraceLength, QueueInv, ~Bypassed,
         NEW d \in CreatedNodes, IsMem(d)
  PROVE  /\ Type(d) = "LD" => d \in ToSet(lq) \/ LeftRob(d)
         /\ Type(d) # "LD" => Type(d) \in StoreTypes /\ (d \in ToSet(sq) \/ LeftRob(d))
<1>1. Type(d) \in Mem
  BY CreatedFacts, NodeKinds
<1>2. Type(d) = "LD" => d \in Accesses({"LD"})
  BY DEF Accesses
<1>3. Type(d) # "LD" => Type(d) \in StoreTypes /\ d \in Accesses(StoreTypes)
  BY <1>1 DEF Accesses, Mem, StoreTypes
<1> QED BY <1>2, <1>3 DEF QueueInv, HoldsAccesses

\* In a window of one, what is older has completed.
LEMMA AloneInWindow ==
  ASSUME program \in Programs, created \in 0..TraceLength, WindowInv, Bypassed,
         NEW d \in CreatedNodes, NEW e \in CreatedNodes, CanIssue(e), Older(d, e)
  PROVE  d \in completed
<1>1. config.window = 1 /\ windowEnd = windowStart /\ windowStart \in Int
  BY CreatedFacts DEF Bypassed, WindowInv
<1>2. Position(e) \in windowStart..windowEnd
  BY <1>1 DEF CanIssue
<1>3. Position(d) < Position(e) /\ Position(d) \in Int /\ Position(e) \in Int
  BY CreatedFacts, Positions
<1>4. LeftRob(d)
  BY <1>1, <1>2, <1>3 DEF LeftRob
<1> QED BY <1>4 DEF WindowInv

LEMMA StoreWaits ==
  ASSUME program \in Programs, created \in 0..TraceLength, WindowInv, QueueInv,
         NEW e \in CreatedNodes, CanIssue(e), Writes(e),
         NEW d \in CreatedNodes, SameLocation(d, e)
  PROVE  d \in completed
<1>1. CASE Bypassed
  BY <1>1, AloneInWindow DEF SameLocation
<1>2. CASE ~Bypassed
  <2>1. IsMem(d) /\ Addr(d) = Addr(e) /\ Older(d, e)
    BY DEF SameLocation, IsMem
  <2>2. \A f \in SameAddress(sq, e) \cup SameAddress(lq, e) : Older(f, e) => LeftRob(f)
    BY <1>2 DEF Writes, CheckStoreIssue
  <2>3. d \in ToSet(lq) \/ d \in ToSet(sq) => LeftRob(d)
    BY <2>1, <2>2 DEF SameAddress
  <2>4. LeftRob(d)
    BY <1>2, <2>1, <2>3, InQueueOrLeft
  <2> QED BY <2>4 DEF WindowInv
<1> QED BY <1>1, <1>2

LEMMA LoadWaits ==
  ASSUME program \in Programs, created \in 0..TraceLength, PlaceInv, WindowInv, QueueInv,
         config.forward => config.speculate,
         NEW e \in CreatedNodes, CanIssue(e), LoadReads(e),
         NEW d \in CreatedNodes, SameLocation(d, e), Type(d) # "LD"
  PROVE  d \in issued
<1>1. \A f \in CreatedNodes : f \in completed \/ LeftRob(f) => f \in issued
  BY DEF WindowInv, PlaceInv
<1>2. CASE Bypassed
  BY <1>1, <1>2, AloneInWindow DEF SameLocation
<1>3. CASE ~Bypassed
  <2>1. IsMem(d) /\ Addr(d) = Addr(e) /\ Older(d, e)
    BY DEF SameLocation, IsMem
  <2>2. CheckLoadIssue(e) >= 0
    BY DEF LoadReads, GoesUnchecked
  <2>3. ~(SameAddress(sq, e) # {} /\ \E f \in SameAddress(sq, e) : Older(f, e) /\ ~LeftRob(f) /\ f \notin issued)
    BY <1>3, <2>2 DEF CheckLoadIssue
  <2>4. d \in ToSet(sq) => d \in issued \/ LeftRob(d)
    BY <2>1, <2>3 DEF SameAddress
  <2> QED BY <1>1, <1>3, <2>1, <2>4, InQueueOrLeft
<1> QED BY <1>2, <1>3

\* An older store whose address is not resolved is still in the queue: no read
\* goes to memory as a guess.
LEMMA NoGuessIsRead ==
  ASSUME PlaceInv, WindowInv, QueueInv, UnresolvedInv, NEW d
  PROVE  ~SpeculatesRead(d)
<1> SUFFICES ASSUME SpeculatesRead(d) PROVE FALSE
  OBVIOUS
<1>1. CheckLoadIssue(d) = 0
  BY DEF SpeculatesRead
<1>2. UnresolvedStore(d) /\ config.speculate /\ SameAddress(sq, d) = {}
  BY <1>1 DEF CheckLoadIssue
<1>3. PICK e \in unresolvedSt : Older(e, d) /\ Addr(e) = Addr(d)
  BY <1>2 DEF UnresolvedStore
<1>4. e \in Accesses(StoreTypes) /\ e \notin issued
  BY DEF UnresolvedInv
<1>5. e \notin ToSet(sq)
  BY <1>2, <1>3 DEF SameAddress
<1>6. LeftRob(e) /\ e \in CreatedNodes
  BY <1>4, <1>5 DEF QueueInv, HoldsAccesses, Accesses
<1> QED BY <1>4, <1>6 DEF WindowInv, PlaceInv

-----------------------------------------------------------------------------
(* Issue: the steps.                                                       *)

\* What a step that issues d leaves as it is.
LEMMA IssueKeeps ==
  ASSUME CoreInv, NEW d \in toVisit, Issues(d)
  PROVE  /\ Fixed /\ created' = created /\ completed' = completed
         /\ d \in issueSet /\ d \in CreatedNodes /\ d \notin issued /\ d \in Nodes
         /\ ContextInv' /\ WindowInv' /\ QueueInv' /\ UnresolvedInv'
         /\ ParentInv' /\ OwnerInv' /\ ReadyInv' /\ ActiveInv'
         /\ ~IsMem(d) \/ Type(d) = "LD" \/ Writes(d) => StoreOrder'
         /\ \A t \in Types \ Mem : IsMem(d) => Busy(t)' = Busy(t)
         /\ PredictorOK(predictor)'
<1>1. Fixed /\ created' = created /\ completed' = completed /\ toCreate' = toCreate
      /\ owner' = owner /\ mispredicted' = mispredicted /\ activeLeft' = activeLeft
      /\ predictor' = predictor /\ lq' = lq /\ sq' = sq /\ windowStart' = windowStart
      /\ windowEnd' = windowEnd /\ parentVars' = parentVars
      /\ unresolvedLd' = unresolvedLd /\ unresolvedSt' = unresolvedSt
  BY DEF Issues, Fixed, contextVars, lsqVars, parentVars
<1>2. issued' = issued \cup {d} /\ issueSet' = issueSet \ {d}
  BY DEF Issues
<1>3. program \in Programs /\ created \in 0..TraceLength
  BY DEF CoreInv, ContextInv
<1>4. d \in issueSet /\ d \in CreatedNodes /\ d \notin issued /\ d \in Nodes
  BY <1>3, CreatedFacts DEF CoreInv, PlaceInv
<1>5. ContextInv' /\ WindowInv' /\ OwnerInv' /\ ParentInv' /\ ActiveInv'
  BY <1>1, SameContext, SameWindow, SameOwner, SameParent, SameActive DEF CoreInv
<1>6. \A x : LeftRob(x) => LeftRob(x)'
  BY <1>1, FixedProgram DEF LeftRob
<1>7. QueueInv'
  BY <1>1, <1>6, SameQueue DEF CoreInv
<1>8. UnresolvedInv'
  <2>1. \A x \in unresolvedLd \cup unresolvedSt : x \notin issued /\ x \notin issueSet
    BY DEF CoreInv, UnresolvedInv
  <2>2. \A x \in unresolvedLd' \cup unresolvedSt' : x \notin issued' /\ x \notin issueSet'
    BY <1>1, <1>2, <1>4, <2>1
  <2> QED BY <1>1, <2>2, FewerUnresolved DEF CoreInv
<1>9. ReadyInv'
  <2>1. issueSet' \cup issued' = issueSet \cup issued
    BY <1>2, <1>4
  <2> QED BY <1>1, <2>1, SameReady DEF CoreInv
<1>10. ASSUME ~IsMem(d) \/ Type(d) = "LD" \/ Writes(d) PROVE StoreOrder'
  <2>1. ASSUME NEW e \in issued' \ issued, NEW f \in CreatedNodes, SameLocation(f, e), Type(e) # "LD"
        PROVE  f \in completed
    <3>1. e = d /\ Writes(d)
      BY <1>2, <1>10, <2>1 DEF SameLocation
    <3> QED BY <1>3, <1>4, <2>1, <3>1, StoreWaits DEF CoreInv, Issues
  <2> QED BY <1>1, <2>1, StoreOrderStep DEF CoreInv
<1>11. ASSUME NEW t \in Types \ Mem, IsMem(d) PROVE Busy(t)' = Busy(t)
  <2>1. Type(d) # t
    BY <1>3, <1>4, <1>11, NodeKinds
  <2>2. \A x : Type(x)' = Type(x)
    BY <1>1, FixedProgram
  <2> QED BY <1>1, <1>2, <2>1, <2>2 DEF Busy
<1>12. PredictorOK(predictor)'
  BY <1>1 DEF CoreInv, SmallInv, PredictorOK
<1> QED BY <1>1, <1>4, <1>5, <1>7, <1>8, <1>9, <1>10, <1>11, <1>12

LEMMA IssueCompKeepsInv ==
  ASSUME CoreInv, NEW d \in toVisit, IssueComp(d)
  PROVE  CoreInv'
<1>1. Issues(d) /\ ~IsMem(d) /\ UnitFree(d)
  BY DEF IssueComp, Issues, Accepted
<1>2. /\ Fixed /\ created' = created /\ completed' = completed
      /\ d \in issueSet /\ d \in CreatedNodes /\ d \notin issued /\ d \in Nodes
      /\ ContextInv' /\ WindowInv' /\ QueueInv' /\ UnresolvedInv'
      /\ ParentInv' /\ OwnerInv' /\ ReadyInv' /\ ActiveInv' /\ StoreOrder' /\ PredictorOK(predictor)'
  BY <1>1, IssueKeeps
<1>3. /\ pq' = pq \cup {d} /\ atMemory' = atMemory /\ speculatedSet' = speculatedSet
      /\ speculated' = speculated /\ outstanding' = outstanding /\ ports' = ports
      /\ availableFUs' = IF availableFUs[Type(d)] = -1 THEN availableFUs
                         ELSE [availableFUs EXCEPT ![Type(d)] = @ - 1]
  BY DEF IssueComp, speculationVars
<1>4. issued' = issued \cup {d} /\ issueSet' = issueSet \ {d} /\ toVisit' = toVisit \ {d}
  BY <1>1 DEF Issues
<1>5. program \in Programs
  BY DEF CoreInv, ContextInv
<1>6. PlaceInv'
  <2>1. CreatedNodes' = CreatedNodes
    BY <1>2, FixedCreated
  <2> QED BY <1>2, <1>3, <1>4, <2>1 DEF CoreInv, PlaceInv
<1>7. LoadOrder'
  <2>1. atMemory' \ atMemory = {} /\ issued \subseteq issued'
    BY <1>3, <1>4
  <2> QED BY <1>2, <2>1, LoadOrderStep DEF CoreInv
<1>8. UnitInv'
  <2>1. Type(d) \in Types \ Mem
    BY <1>1, <1>2, <1>5, NodeKinds DEF Types
  <2>2. availableFUs \in [Types -> Int]
    BY DEF CoreInv, UnitInv
  <2>3. \A t \in Types \ Mem : Units[t] \in Int /\ availableFUs[t] \in Int
    BY <2>2, CoreAssumption DEF Types, Sizes
  <2>4. \A x : Type(x)' = Type(x)
    BY <1>2, FixedProgram
  <2>5. \A t : Busy(t)' = IF t = Type(d) THEN Busy(t) \cup {d} ELSE Busy(t)
    BY <1>2, <1>4, <2>4 DEF CoreInv, PlaceInv, Busy
  <2>6. \A t : d \notin Busy(t) /\ IsFiniteSet(Busy(t)) /\ Cardinality(Busy(t)) \in Nat
    <3> TAKE t
    <3>1. Busy(t) \in SUBSET CreatedNodes
      BY DEF CoreInv, PlaceInv, Busy
    <3>2. IsFiniteSet(CreatedNodes)
      BY <1>5, CreatedFacts DEF CoreInv, ContextInv
    <3>3. IsFiniteSet(Busy(t))
      BY <3>1, <3>2, FS_Subset
    <3> QED BY <1>2, <3>3, FS_CardinalityType DEF Busy
  <2>7. Cardinality(Busy(Type(d)) \cup {d}) = Cardinality(Busy(Type(d))) + 1
    BY <2>6, FS_AddElement
  <2>8. availableFUs' \in [Types -> Int]
    BY <1>3, <2>1, <2>2
  <2>9. ASSUME NEW t \in Types \ Mem, Units[t] = -1 PROVE availableFUs'[t] = -1
    <3>1. availableFUs[t] = -1
      BY <2>9 DEF CoreInv, UnitInv
    <3> QED BY <1>3, <2>2, <3>1
  <2>10. ASSUME NEW t \in Types \ Mem, Units[t] # -1
         PROVE  availableFUs'[t] >= 0 /\ availableFUs'[t] = Units[t] - Cardinality(Busy(t)')
    <3>1. availableFUs[t] >= 0 /\ availableFUs[t] = Units[t] - Cardinality(Busy(t))
      BY <2>10 DEF CoreInv, UnitInv
    <3>2. CASE t = Type(d)
      <4>1. availableFUs[t] # -1 /\ availableFUs[t] # 0
        BY <1>1, <2>3, <3>1, <3>2 DEF UnitFree
      <4>2. availableFUs'[t] = availableFUs[t] - 1
        BY <1>3, <2>1, <2>2, <3>2, <4>1
      <4>3. Cardinality(Busy(t)') = Cardinality(Busy(t)) + 1
        BY <2>5, <2>7, <3>2
      <4> QED BY <2>3, <2>6, <3>1, <4>1, <4>2, <4>3
    <3>3. CASE t # Type(d)
      <4>1. availableFUs'[t] = availableFUs[t]
        BY <1>3, <2>1, <2>2, <3>3
      <4> QED BY <2>5, <3>1, <3>3, <4>1
    <3> QED BY <3>2, <3>3
  <2> QED BY <2>8, <2>9, <2>10 DEF UnitInv, Types
<1>9. SmallInv'
  BY <1>2, <1>3 DEF CoreInv, SmallInv
<1> QED BY <1>2, <1>6, <1>7, <1>8, <1>9 DEF CoreInv

\* The accesses: units stay as they are, and the cache has a port left.
LEMMA AccessKeeps ==
  ASSUME CoreInv, NEW d \in toVisit, Issues(d), IsMem(d), availableFUs' = availableFUs,
         ports' = ports \/ ports' = ports - 1,
         Type(d) = "LD" \/ Writes(d)
  PROVE  /\ Fixed /\ created' = created /\ completed' = completed /\ CreatedNodes' = CreatedNodes
         /\ d \in issueSet /\ d \in CreatedNodes /\ d \notin issued /\ d \in Nodes
         /\ issued' = issued \cup {d} /\ issueSet' = issueSet \ {d} /\ toVisit' = toVisit \ {d}
         /\ PlaceInv' /\ LoadOrder' => CoreInv'
<1>1. /\ Fixed /\ created' = created /\ completed' = completed
      /\ d \in issueSet /\ d \in CreatedNodes /\ d \notin issued /\ d \in Nodes
      /\ ContextInv' /\ WindowInv' /\ QueueInv' /\ UnresolvedInv'
      /\ ParentInv' /\ OwnerInv' /\ ReadyInv' /\ ActiveInv'
      /\ ~IsMem(d) \/ Type(d) = "LD" \/ Writes(d) => StoreOrder'
      /\ \A t \in Types \ Mem : IsMem(d) => Busy(t)' = Busy(t)
      /\ PredictorOK(predictor)'
  BY IssueKeeps
<1>2. UnitInv'
  BY <1>1, SameUnit DEF CoreInv
<1>3. ports > 0 /\ ports \in 0..MaxPorts /\ MaxPorts \in Nat
  BY CoreAssumption DEF Issues, Accepted, CoreInv, SmallInv
<1>4. SmallInv'
  <2>1. ports' \in 0..MaxPorts
    BY <1>3
  <2> QED BY <1>1, <2>1 DEF SmallInv
<1>5. CreatedNodes' = CreatedNodes
  BY <1>1, FixedCreated
<1>6. issued' = issued \cup {d} /\ issueSet' = issueSet \ {d} /\ toVisit' = toVisit \ {d}
  BY DEF Issues
<1> QED BY <1>1, <1>2, <1>4, <1>5, <1>6 DEF CoreInv

LEMMA ForwardLoadKeepsInv ==
  ASSUME CoreInv, NEW d \in toVisit, ForwardLoad(d)
  PROVE  CoreInv'
<1>1. Issues(d) /\ IsMem(d) /\ Type(d) = "LD" /\ availableFUs' = availableFUs /\ ports' = ports
  BY DEF ForwardLoad, Forwards
<1>2. /\ Fixed /\ created' = created /\ completed' = completed /\ CreatedNodes' = CreatedNodes
      /\ d \in issueSet /\ d \in CreatedNodes /\ d \notin issued
      /\ issued' = issued \cup {d} /\ issueSet' = issueSet \ {d} /\ toVisit' = toVisit \ {d}
      /\ PlaceInv' /\ LoadOrder' => CoreInv'
  BY <1>1, AccessKeeps
<1>3. /\ pq' = pq \cup {d} /\ speculated' = speculated \ {d} /\ speculatedSet' = speculatedSet
      /\ outstanding' = outstanding /\ atMemory' = atMemory
  BY DEF ForwardLoad
<1>4. PlaceInv'
  BY <1>2, <1>3 DEF CoreInv, PlaceInv
<1>5. LoadOrder'
  <2>1. atMemory' \ atMemory = {} /\ issued \subseteq issued'
    BY <1>2, <1>3
  <2> QED BY <1>2, <2>1, LoadOrderStep DEF CoreInv
<1> QED BY <1>2, <1>4, <1>5

LEMMA ForwardOnGuessKeepsInv ==
  ASSUME CoreInv, NEW d \in toVisit, ForwardOnGuess(d)
  PROVE  CoreInv'
<1>1. Issues(d) /\ IsMem(d) /\ Type(d) = "LD" /\ availableFUs' = availableFUs /\ ports' = ports
  BY DEF ForwardOnGuess, ForwardsOnGuess
<1>2. /\ Fixed /\ created' = created /\ completed' = completed /\ CreatedNodes' = CreatedNodes
      /\ d \in issueSet /\ d \in CreatedNodes /\ d \notin issued
      /\ issued' = issued \cup {d} /\ issueSet' = issueSet \ {d} /\ toVisit' = toVisit \ {d}
      /\ PlaceInv' /\ LoadOrder' => CoreInv'
  BY <1>1, AccessKeeps
<1>3. /\ speculatedSet' = speculatedSet \cup {d} /\ speculated' = speculated \cup {d}
      /\ pq' = pq /\ outstanding' = outstanding /\ atMemory' = atMemory
  BY DEF ForwardOnGuess
<1>4. PlaceInv'
  BY <1>2, <1>3 DEF CoreInv, PlaceInv
<1>5. LoadOrder'
  <2>1. atMemory' \ atMemory = {} /\ issued \subseteq issued'
    BY <1>2, <1>3
  <2> QED BY <1>2, <2>1, LoadOrderStep DEF CoreInv
<1> QED BY <1>2, <1>4, <1>5

LEMMA ReadMemoryKeepsInv ==
  ASSUME CoreInv, NEW d \in toVisit, ReadMemory(d)
  PROVE  CoreInv'
<1>1. /\ Issues(d) /\ IsMem(d) /\ LoadReads(d) /\ Type(d) = "LD" /\ CanIssue(d)
      /\ availableFUs' = availableFUs /\ ports' = ports - 1
  BY DEF ReadMemory, LoadReads, Issues
<1>2. /\ Fixed /\ created' = created /\ completed' = completed /\ CreatedNodes' = CreatedNodes
      /\ d \in issueSet /\ d \in CreatedNodes /\ d \notin issued
      /\ issued' = issued \cup {d} /\ issueSet' = issueSet \ {d} /\ toVisit' = toVisit \ {d}
      /\ PlaceInv' /\ LoadOrder' => CoreInv'
  BY <1>1, AccessKeeps
<1>3. ~SpeculatesRead(d)
  BY NoGuessIsRead DEF CoreInv
<1>4. /\ pq' = pq /\ speculated' = speculated \ {d} /\ speculatedSet' = speculatedSet
      /\ outstanding' = outstanding /\ atMemory' = atMemory \cup {d}
  BY <1>3 DEF ReadMemory
<1>5. PlaceInv'
  BY <1>2, <1>4 DEF CoreInv, PlaceInv
<1>6. LoadOrder'
  <2>1. issued \subseteq issued' /\ atMemory' \ atMemory \subseteq {d}
    BY <1>2, <1>4
  <2>2. program \in Programs /\ created \in 0..TraceLength
    BY DEF CoreInv, ContextInv
  <2>3. (config.forward => config.speculate) =>
          \A e \in CreatedNodes : SameLocation(e, d) /\ Type(e) # "LD" => e \in issued
    BY <1>1, <1>2, <2>2, LoadWaits DEF CoreInv
  <2> QED BY <1>2, <2>1, <2>3, LoadOrderStep DEF CoreInv
<1> QED BY <1>2, <1>5, <1>6

LEMMA WriteMemoryKeepsInv ==
  ASSUME CoreInv, NEW d \in toVisit, WriteMemory(d)
  PROVE  CoreInv'
<1>1. /\ Issues(d) /\ IsMem(d) /\ Writes(d) /\ CanIssue(d)
      /\ availableFUs' = availableFUs /\ ports' = ports - 1
  BY DEF WriteMemory, Issues
<1>2. /\ Fixed /\ created' = created /\ completed' = completed /\ CreatedNodes' = CreatedNodes
      /\ d \in issueSet /\ d \in CreatedNodes /\ d \notin issued
      /\ issued' = issued \cup {d} /\ issueSet' = issueSet \ {d} /\ toVisit' = toVisit \ {d}
      /\ PlaceInv' /\ LoadOrder' => CoreInv'
  BY <1>1, AccessKeeps
<1>3. /\ speculated' = speculated \ {d} /\ speculatedSet' = speculatedSet /\ outstanding' = outstanding
      /\ \/ pq' = pq \cup {d} /\ atMemory' = atMemory
         \/ atMemory' = atMemory \cup {d} /\ pq' = pq
  BY DEF WriteMemory
<1>4. PlaceInv'
  <2>1. CASE pq' = pq \cup {d} /\ atMemory' = atMemory
    BY <1>2, <1>3, <2>1 DEF CoreInv, PlaceInv
  <2>2. CASE atMemory' = atMemory \cup {d} /\ pq' = pq
    BY <1>2, <1>3, <2>2 DEF CoreInv, PlaceInv
  <2> QED BY <1>3, <2>1, <2>2
<1>5. LoadOrder'
  <2>1. issued \subseteq issued' /\ atMemory' \ atMemory \subseteq {d} /\ completed \subseteq issued
    BY <1>2, <1>3 DEF CoreInv, PlaceInv
  <2>2. program \in Programs /\ created \in 0..TraceLength
    BY DEF CoreInv, ContextInv
  <2>3. \A e \in CreatedNodes : SameLocation(e, d) => e \in issued
    BY <1>1, <1>2, <2>1, <2>2, StoreWaits DEF CoreInv
  <2> QED BY <1>2, <2>1, <2>3, LoadOrderStep DEF CoreInv
<1> QED BY <1>2, <1>4, <1>5

\* The steps that issue nothing.
LEMMA PassKeepsInv ==
  ASSUME CoreInv, NEW d \in toVisit, WindowFull(d) \/ Refused(d)
  PROVE  CoreInv'
<1>1. /\ Fixed /\ created' = created /\ completed' = completed /\ toCreate' = toCreate
      /\ owner' = owner /\ mispredicted' = mispredicted /\ activeLeft' = activeLeft
      /\ predictor' = predictor /\ lq' = lq /\ sq' = sq /\ windowStart' = windowStart
      /\ windowEnd' = windowEnd /\ parentVars' = parentVars
      /\ unresolvedLd' = unresolvedLd /\ unresolvedSt' = unresolvedSt
      /\ issued' = issued /\ issueSet' = issueSet /\ toVisit' \subseteq toVisit
      /\ pq' = pq /\ atMemory' = atMemory /\ speculationVars' = speculationVars
      /\ availableFUs' = availableFUs /\ ports' = ports
  BY DEF WindowFull, Refused, Fixed, contextVars, lsqVars, parentVars, windowVars
<1>2. CreatedNodes' = CreatedNodes
  BY <1>1, FixedCreated
<1>3. ContextInv' /\ WindowInv' /\ OwnerInv' /\ ParentInv' /\ ActiveInv' /\ ReadyInv'
  BY <1>1, SameContext, SameWindow, SameOwner, SameParent, SameActive, SameReady DEF CoreInv
<1>4. \A x : LeftRob(x) => LeftRob(x)'
  BY <1>1, FixedProgram DEF LeftRob
<1>5. QueueInv' /\ UnresolvedInv'
  <2>1. \A x \in unresolvedLd \cup unresolvedSt : x \notin issued /\ x \notin issueSet
    BY DEF CoreInv, UnresolvedInv
  <2> QED BY <1>1, <1>4, <2>1, SameQueue, FewerUnresolved DEF CoreInv
<1>6. StoreOrder' /\ LoadOrder'
  BY <1>1, StoreOrderStep, LoadOrderStep DEF CoreInv
<1>7. UnitInv'
  <2>1. \A t : Busy(t)' = Busy(t)
    BY <1>1, FixedProgram DEF Busy
  <2> QED BY <1>1, <2>1, SameUnit DEF CoreInv
<1>8. PlaceInv' /\ SmallInv'
  BY <1>1, <1>2 DEF CoreInv, PlaceInv, SmallInv, speculationVars, PredictorOK
<1> QED BY <1>3, <1>5, <1>6, <1>7, <1>8 DEF CoreInv

-----------------------------------------------------------------------------
(* Retirement.                                                             *)

LEMMA WindowMoves ==
  ASSUME program \in Programs, created \in 0..TraceLength, WindowInv
  PROVE  /\ WindowAfter \in windowStart..Cardinality(CreatedNodes)
         /\ \A d \in CreatedNodes : Position(d) < WindowAfter => d \in completed
<1> DEFINE open == {Position(d) : d \in CreatedNodes \ completed}
           n == Cardinality(CreatedNodes)
<1>1. n \in Nat /\ windowStart \in 0..n
  BY CreatedFacts DEF WindowInv
<1>2. \A d \in CreatedNodes : Position(d) \in Nat /\ Position(d) < n
  BY CreatedFacts, Positions
<1>3. \A d \in CreatedNodes \ completed : Position(d) >= windowStart
  BY <1>1, <1>2 DEF WindowInv, LeftRob
<1>4. CASE open = {}
  <2>1. WindowAfter = n
    BY <1>4 DEF WindowAfter
  <2>2. \A d \in CreatedNodes : d \in completed
    BY <1>4
  <2> QED BY <1>1, <2>1, <2>2
<1>5. CASE open # {}
  <2>1. WindowAfter = Min(open)
    BY <1>5 DEF WindowAfter
  <2>2. open \in SUBSET Nat
    BY <1>2
  <2>3. \E m \in open : \A k \in open : m <= k
    BY <1>5, <2>2, Least
  <2> HIDE DEF open
  <2>4. Min(open) \in open /\ \A k \in open : Min(open) <= k
    BY <2>3 DEF Min
  <2>5. \A d \in CreatedNodes \ completed : WindowAfter <= Position(d)
    BY <2>1, <2>4 DEF open
  <2>6. PICK d \in CreatedNodes \ completed : WindowAfter = Position(d)
    BY <2>1, <2>4 DEF open
  <2> QED BY <1>1, <1>2, <1>3, <2>5, <2>6
<1> QED BY <1>4, <1>5

LEMMA ConfigFacts ==
  ASSUME config \in Configs
  PROVE  /\ config.window \in Int /\ config.window >= -1
         /\ config.lsq \in Int /\ config.active \in Int /\ config.width \in Int
         /\ config.lsq # -1 => config.lsq > 0
         /\ config.active # -1 => config.active > 0
         /\ config.speculate \in BOOLEAN /\ config.forward \in BOOLEAN /\ config.allAtOnce \in BOOLEAN
         /\ Max({config.window, 0}) \in Nat /\ Max({config.window, 0}) >= config.window
         /\ BranchLookahead \in Nat
<1>1. config.window \in Sizes /\ config.lsq \in Sizes /\ config.active \in Sizes /\ config.width \in Sizes
  BY CoreAssumption
<1>2. /\ config.speculate \in BOOLEAN /\ config.forward \in BOOLEAN /\ config.allAtOnce \in BOOLEAN
      /\ BranchLookahead \in Nat
  BY CoreAssumption
<1>3. \E x \in {config.window, 0} : \A y \in {config.window, 0} : x >= y
  BY <1>1 DEF Sizes
<1>4. Max({config.window, 0}) \in {config.window, 0}
      /\ \A y \in {config.window, 0} : Max({config.window, 0}) >= y
  BY <1>3 DEF Max
<1>5. Max({config.window, 0}) \in Nat /\ Max({config.window, 0}) >= config.window
  BY <1>1, <1>4 DEF Sizes
<1> QED BY <1>1, <1>2, <1>5 DEF Sizes

LEMMA RetireKeepsInv ==
  ASSUME CoreInv, Retire
  PROVE  CoreInv'
<1>1. /\ Fixed /\ created' = created /\ completed' = completed /\ toCreate' = toCreate
      /\ owner' = owner /\ mispredicted' = mispredicted /\ activeLeft' = activeLeft
      /\ predictor' = predictor /\ lq' = lq /\ sq' = sq
      /\ parentVars' = parentVars
      /\ unresolvedLd' = unresolvedLd /\ unresolvedSt' = unresolvedSt
      /\ issued' = issued /\ issueSet' = issueSet /\ toVisit' = issueSet
      /\ speculatedSet' = speculatedSet /\ speculated' = speculated
      /\ availableFUs' = availableFUs /\ ports' \in 0..MaxPorts
      /\ windowStart' = WindowAfter
      /\ windowEnd' = IF windowStart' = windowStart THEN windowEnd
                      ELSE IF config.window + windowStart' < 1 THEN LastPosition
                      ELSE config.window + windowStart' - 1
  BY DEF Retire, Fixed, contextVars, lsqVars, parentVars
<1>2. CreatedNodes' = CreatedNodes /\ program \in Programs /\ created \in 0..TraceLength /\ config \in Configs
  BY <1>1, FixedCreated DEF CoreInv, ContextInv
<1>3. ContextInv' /\ OwnerInv' /\ ParentInv' /\ ActiveInv' /\ ReadyInv'
  BY <1>1, SameContext, SameOwner, SameParent, SameActive, SameReady DEF CoreInv
<1>4. /\ windowStart' \in windowStart..Cardinality(CreatedNodes)
      /\ \A d \in CreatedNodes : Position(d) < windowStart' => d \in completed
      /\ windowStart \in Nat
  BY <1>1, <1>2, WindowMoves, CreatedFacts DEF CoreInv, WindowInv
<1>5. \A d \in CreatedNodes : LeftRob(d) => LeftRob(d)'
  <2> TAKE d \in CreatedNodes
  <2>1. Position(d)' = Position(d)
    BY <1>1, FixedProgram
  <2>2. Position(d) \in Nat
    BY <1>2, CreatedFacts, Positions
  <2> QED BY <1>4, <2>1, <2>2 DEF LeftRob
<1>6. QueueInv' /\ UnresolvedInv'
  <2>1. \A x \in unresolvedLd \cup unresolvedSt : x \notin issued /\ x \notin issueSet
    BY DEF CoreInv, UnresolvedInv
  <2> QED BY <1>1, <1>5, <2>1, SameQueue, FewerUnresolved DEF CoreInv
<1>7. WindowInv'
  <2> DEFINE n == Cardinality(CreatedNodes)
             p == MaxContexts * MaxBlock
             m == Max({config.window, 0})
  <2>1. /\ n \in Nat /\ p \in Nat /\ n <= p /\ BranchLookahead \in Nat
        /\ m \in Nat /\ m >= config.window /\ config.window \in Int
    BY <1>2, CreatedFacts, ConfigFacts
  <2>2. windowEnd \in 0..(LastPosition + m) /\ LastPosition = p + BranchLookahead
        /\ (config.window = 1 => windowEnd = windowStart)
    BY DEF CoreInv, WindowInv, LastPosition
  <2> HIDE DEF n, p, m
  <2>3. windowEnd' \in 0..(LastPosition + m)
    BY <1>1, <1>4, <2>1, <2>2 DEF n
  <2>4. config.window = 1 => windowEnd' = windowStart'
    BY <1>1, <1>4, <2>2
  <2>5. \A d \in CreatedNodes : LeftRob(d)' => d \in completed
    BY <1>1, <1>4, FixedProgram DEF LeftRob
  <2>6. windowStart' \in 0..n
    BY <1>4 DEF n
  <2> QED BY <1>1, <1>2, <2>3, <2>4, <2>5, <2>6 DEF WindowInv, Fixed, LastPosition, n, m
<1>8. PICK answered \in SUBSET atMemory :
        LET left == [d \in NodeIds |-> IF d \in answered /\ config.speculate /\ outstanding[d] > 0
                                       THEN outstanding[d] - 1 ELSE outstanding[d]]
        IN  /\ atMemory' = atMemory \ answered
            /\ outstanding' = left
            /\ pq' = pq \cup {d \in answered : config.speculate => left[d] = 0}
  BY DEF Retire
<1>9. outstanding' = NoNodes /\ pq' = pq \cup answered /\ atMemory' = atMemory \ answered
  <2> DEFINE left == [d \in NodeIds |-> IF d \in answered /\ config.speculate /\ outstanding[d] > 0
                                        THEN outstanding[d] - 1 ELSE outstanding[d]]
  <2>1. outstanding = [d \in NodeIds |-> 0]
    BY DEF CoreInv, PlaceInv, NoNodes
  <2>2. \A d \in NodeIds : outstanding[d] = 0 /\ ~(outstanding[d] > 0)
    BY <2>1
  <2>3. left = [d \in NodeIds |-> 0]
    BY <2>2
  <2>4. answered \subseteq NodeIds
    BY <1>2, CreatedFacts DEF CoreInv, PlaceInv
  <2>5. \A d \in answered : left[d] = 0
    BY <2>3, <2>4
  <2>6. atMemory' = atMemory \ answered /\ outstanding' = left
        /\ pq' = pq \cup {d \in answered : config.speculate => left[d] = 0}
    BY <1>8
  <2> HIDE DEF left
  <2> QED BY <2>3, <2>5, <2>6 DEF NoNodes
<1>10. PlaceInv'
  BY <1>1, <1>2, <1>9 DEF CoreInv, PlaceInv
<1>11. StoreOrder' /\ LoadOrder'
  <2>1. atMemory' \ atMemory = {} /\ issued' \ issued = {}
    BY <1>1, <1>9
  <2> QED BY <1>1, <2>1, StoreOrderStep, LoadOrderStep DEF CoreInv
<1>12. UnitInv'
  <2>1. \A t : Busy(t)' = Busy(t)
    BY <1>1, FixedProgram DEF Busy
  <2> QED BY <1>1, <2>1, SameUnit DEF CoreInv
<1>13. SmallInv'
  BY <1>1 DEF CoreInv, SmallInv, PredictorOK
<1> QED BY <1>3, <1>6, <1>7, <1>10, <1>11, <1>12, <1>13 DEF CoreInv

-----------------------------------------------------------------------------
(* Completion.                                                             *)

LEMMA MissingType ==
  ASSUME NEW S, IsFiniteSet(S), NEW C
  PROVE  Missing(S, C) \in Nat
BY FS_Difference, FS_CardinalityType DEF Missing

LEMMA NoneMissing ==
  ASSUME NEW S, IsFiniteSet(S), NEW C
  PROVE  Missing(S, C) = 0 <=> S \subseteq C
<1>1. IsFiniteSet(S \ C)
  BY FS_Difference
<1>2. Cardinality(S \ C) = 0 <=> S \ C = {}
  BY <1>1, FS_EmptySet
<1> QED BY <1>2 DEF Missing

LEMMA FewerMissing ==
  ASSUME NEW S, IsFiniteSet(S), NEW C, NEW D, D \cap C = {}
  PROVE  Missing(S, C \cup D) = Missing(S, C) - Cardinality(D \cap S)
<1>1. IsFiniteSet(S \ C)
  BY FS_Difference
<1>2. Cardinality((S \ C) \ D) = Cardinality(S \ C) - Cardinality((S \ C) \cap D)
  BY <1>1, FS_Difference
<1>3. (S \ C) \ D = S \ (C \cup D) /\ (S \ C) \cap D = D \cap S
  OBVIOUS
<1> QED BY <1>2, <1>3 DEF Missing

\* A store goes only after the older loads of its address have completed, so
\* check_speculation finds none of them.
LEMMA NothingReplayed ==
  ASSUME CoreInv, NEW D \in SUBSET issued
  PROVE  Replayed(D) = {}
<1>1. program \in Programs /\ created \in 0..TraceLength
  BY DEF CoreInv, ContextInv
<1>2. ASSUME NEW d \in D, Type(d) = "ST" PROVE Misspeculated(d) = {}
  <2> SUFFICES ASSUME NEW e \in Misspeculated(d) PROVE FALSE
    OBVIOUS
  <2>1. e \in ToSet(lq) /\ Addr(e) = Addr(d) /\ Older(e, d) /\ e \in speculated
    BY DEF Misspeculated, SameAddress
  <2>2. e \in CreatedNodes
    BY <2>1 DEF CoreInv, QueueInv, HoldsAccesses, Accesses
  <2>3. d \in Nodes
    BY <1>1, CreatedFacts DEF CoreInv, PlaceInv
  <2>4. IsMem(d)
    BY <1>1, <1>2, <2>3, NodeKinds DEF Mem
  <2>5. e \in completed
    BY <1>2, <2>1, <2>2, <2>4 DEF CoreInv, StoreOrder, SameLocation
  <2> QED BY <2>1, <2>5 DEF CoreInv, PlaceInv
<1> QED BY <1>2 DEF Replayed

\* The counts once the nodes of D have completed.
TellIn(D, d) == {e \in D : d \in InBlockOrPhi(e)}
TellOut(D, d) == {e \in D : d \in extDependents[e]}
LeftIn(D) == [d \in NodeIds |-> pending[d] - Cardinality(TellIn(D, d))]
LeftOut(D) == [d \in NodeIds |-> pendingExt[d] - Cardinality(TellOut(D, d))]
ToldBy(D) == UNION {InBlockOrPhi(d) \cup extDependents[d] : d \in D}
Woken(D) == Activated(ToldBy(D), LeftIn(D), LeftOut(D), mispredicted, issued \cup completed \cup D)
Finishes(D) == D \subseteq issued \ completed

LEMMA CompleteStep ==
  ASSUME CoreInv, Complete
  PROVE  \E D \in SUBSET (issued \ completed) :
           /\ Finishes(D)
           /\ Fixed /\ created' = created /\ owner' = owner /\ mispredicted' = mispredicted
           /\ predictor' = predictor /\ ports' = ports /\ lq' = lq /\ sq' = sq
           /\ windowStart' = windowStart /\ windowEnd' = windowEnd
           /\ atMemory' = atMemory /\ outstanding' = outstanding /\ toVisit' = {}
           /\ pq' = pq \ D /\ speculatedSet' = speculatedSet \ D /\ speculated' = speculated \ D
           /\ completed' = completed \cup D /\ issued' = issued
           /\ D \cap atMemory = {}
           /\ pending' = LeftIn(D) /\ pendingExt' = LeftOut(D)
           /\ extDependents' = [d \in NodeIds |-> IF d \in D THEN {} ELSE extDependents[d]]
           /\ issueSet' = issueSet \cup Woken(D)
           /\ ResolveAddresses({d \in Woken(D) : IsMem(d)} \cup UNION {AddressDependents(d) : d \in D})
           /\ availableFUs' = [t \in Types |-> IF availableFUs[t] = -1 THEN -1
                                ELSE availableFUs[t] + Cardinality({d \in D : Type(d) = t})]
           /\ toCreate' = IF config.allAtOnce THEN toCreate
                          ELSE toCreate + Cardinality({d \in D : Type(d) = "TERMINATOR"})
           /\ activeLeft' = [b \in DOMAIN activeLeft |->
                IF config.active = -1 THEN -1
                ELSE activeLeft[b] + Cardinality({c \in {x \in Live : NodesOf(x) \subseteq completed'} : BB(c) = b})]
<1>1. PICK due \in SUBSET pq : FinishNodes(due \cup Settled) /\ pq' = pq \ due
  BY DEF Complete
<1> DEFINE D == due \cup Settled
<1>2. Settled \subseteq speculatedSet
  BY DEF Settled
<1>3. D \in SUBSET (issued \ completed)
  BY <1>2 DEF CoreInv, PlaceInv
<1>4. pq' = pq \ D /\ speculatedSet' = speculatedSet \ D /\ D \cap atMemory = {}
  BY <1>1, <1>2 DEF Complete, CoreInv, PlaceInv
<1> HIDE DEF D
<1>5. Replayed(D) = {}
  BY <1>3, NothingReplayed
<1>6. FinishNodes(D)
  BY <1>1 DEF D
<1>7. /\ completed' = (completed \cup D) \ Replayed(D) /\ issued' = issued \ Replayed(D)
      /\ speculated' = speculated \ (Replayed(D) \cup D)
      /\ pending' = LeftIn(D) /\ pendingExt' = LeftOut(D)
      /\ extDependents' = [d \in NodeIds |-> IF d \in D THEN {} ELSE extDependents[d]]
  BY <1>6 DEF FinishNodes, LeftIn, LeftOut, TellIn, TellOut
<1>8. /\ availableFUs' = [t \in Types |-> IF availableFUs[t] = -1 THEN -1
                           ELSE availableFUs[t] + Cardinality({d \in D : Type(d) = t})]
      /\ toCreate' = IF config.allAtOnce THEN toCreate
                     ELSE toCreate + Cardinality({d \in D : Type(d) = "TERMINATOR"})
      /\ activeLeft' = [b \in DOMAIN activeLeft |->
           IF config.active = -1 THEN -1
           ELSE activeLeft[b] + Cardinality({c \in {x \in Live : NodesOf(x) \subseteq completed'} : BB(c) = b})]
  BY <1>6 DEF FinishNodes
<1>9. LET W == Activated(ToldBy(D) \cup Replayed(D), LeftIn(D), LeftOut(D), mispredicted,
                          (issued \cup completed \cup D) \ Replayed(D))
      IN  /\ issueSet' = issueSet \cup W
          /\ ResolveAddresses({d \in W : IsMem(d)} \cup UNION {AddressDependents(d) : d \in D})
  <2> DEFINE again == Replayed(D)
             left == [d \in NodeIds |-> pending[d] - Cardinality({e \in D : d \in InBlockOrPhi(e)})]
             leftExt == [d \in NodeIds |-> pendingExt[d] - Cardinality({e \in D : d \in extDependents[e]})]
             told == again \cup UNION {InBlockOrPhi(d) \cup extDependents[d] : d \in D}
             active == Activated(told, left, leftExt, mispredicted, (issued \cup completed \cup D) \ again)
  <2>1. issueSet' = issueSet \cup active
    BY <1>6 DEF FinishNodes
  <2>2. ResolveAddresses({d \in active : IsMem(d)} \cup UNION {AddressDependents(d) : d \in D})
    BY <1>6 DEF FinishNodes
  <2>3. left = LeftIn(D) /\ leftExt = LeftOut(D)
    BY DEF LeftIn, LeftOut, TellIn, TellOut
  <2>4. told = ToldBy(D) \cup Replayed(D)
    <3>1. \A x : x \in ToldBy(D) <=> \E d \in D : x \in InBlockOrPhi(d) \cup extDependents[d]
      BY DEF ToldBy
    <3>2. \A x : x \in told <=> x \in again \/ \E d \in D : x \in InBlockOrPhi(d) \cup extDependents[d]
      OBVIOUS
    <3> HIDE DEF told
    <3> QED BY <3>1, <3>2
  <2> HIDE DEF left, leftExt, told
  <2> QED BY <2>1, <2>2, <2>3, <2>4
<1>10. /\ ToldBy(D) \cup Replayed(D) = ToldBy(D)
       /\ (issued \cup completed \cup D) \ Replayed(D) = issued \cup completed \cup D
       /\ (completed \cup D) \ Replayed(D) = completed \cup D /\ issued \ Replayed(D) = issued
       /\ speculated \ (Replayed(D) \cup D) = speculated \ D
  BY <1>5
<1>11. /\ issueSet' = issueSet \cup Woken(D)
       /\ ResolveAddresses({d \in Woken(D) : IsMem(d)} \cup UNION {AddressDependents(d) : d \in D})
  BY <1>9, <1>10 DEF Woken
<1>12. /\ Fixed /\ created' = created /\ owner' = owner /\ mispredicted' = mispredicted
       /\ predictor' = predictor /\ ports' = ports /\ lq' = lq /\ sq' = sq
       /\ windowStart' = windowStart /\ windowEnd' = windowEnd
       /\ atMemory' = atMemory /\ outstanding' = outstanding /\ toVisit' = {}
  BY DEF Complete, Fixed, windowVars
<1>13. Finishes(D) /\ completed' = completed \cup D /\ issued' = issued /\ speculated' = speculated \ D
  BY <1>3, <1>7, <1>10 DEF Finishes
<1> QED BY <1>3, <1>4, <1>7, <1>8, <1>11, <1>12, <1>13

LEMMA TellsFacts ==
  ASSUME CoreInv, NEW D, Finishes(D)
  PROVE  /\ D \subseteq CreatedNodes /\ IsFiniteSet(D) /\ D \cap completed = {}
         /\ ToldBy(D) \subseteq CreatedNodes
         /\ \A d \in CreatedNodes : TellIn(D, d) = D \cap Near(d)
         /\ \A d \in CreatedNodes : TellOut(D, d) = D \cap Far(d)
         /\ \A d \in CreatedNodes : D \cap (Near(d) \cup Far(d)) # {} => d \in ToldBy(D)
         /\ \A d \in CreatedNodes : /\ Near(d) \in SUBSET NodeIds /\ Far(d) \in SUBSET NodeIds
                                    /\ IsFiniteSet(Near(d)) /\ IsFiniteSet(Far(d))
                                    /\ Uses(d) = Near(d) \cup Far(d)
<1>1. program \in Programs /\ created \in 0..TraceLength
  BY DEF CoreInv, ContextInv
<1>2. CreatedNodes \subseteq NodeIds /\ IsFiniteSet(CreatedNodes) /\ CreatedNodes \subseteq Nodes
      /\ Nodes \subseteq NodeIds /\ IsFiniteSet(Nodes)
  BY <1>1, CreatedFacts
<1>3. D \subseteq CreatedNodes /\ D \cap completed = {}
  BY DEF Finishes, CoreInv, PlaceInv
<1>4. IsFiniteSet(D)
  BY <1>2, <1>3, FS_Subset
<1>5. \A e \in D : \A d \in NodeIds : d \in extDependents[e] <=> d \in CreatedNodes /\ e \in Far(d)
  BY <1>2, <1>3 DEF CoreInv, ParentInv
<1>6. \A e \in D : extDependents[e] \subseteq NodeIds
  BY <1>2, <1>3 DEF CoreInv, ParentInv
<1>7. \A x : x \in ToldBy(D) <=> \E d \in D : x \in InBlockOrPhi(d) \cup extDependents[d]
  BY DEF ToldBy
<1>8. \A e \in D : InBlockOrPhi(e) \subseteq CreatedNodes
  BY <1>1, <1>3, Told
<1>9. \A e \in D, d \in CreatedNodes : d \in InBlockOrPhi(e) <=> e \in Near(d)
  BY <1>1, <1>3, Told
<1>10. ToldBy(D) \subseteq CreatedNodes
  BY <1>5, <1>6, <1>7, <1>8
<1>11. \A d \in CreatedNodes : TellIn(D, d) = D \cap Near(d)
  BY <1>9 DEF TellIn
<1>12. \A d \in CreatedNodes : TellOut(D, d) = D \cap Far(d)
  BY <1>2, <1>5 DEF TellOut
<1>13. \A d \in CreatedNodes : D \cap (Near(d) \cup Far(d)) # {} => d \in ToldBy(D)
  BY <1>2, <1>5, <1>7, <1>9
<1>14. \A d \in CreatedNodes : /\ Near(d) \in SUBSET NodeIds /\ Far(d) \in SUBSET NodeIds
                               /\ IsFiniteSet(Near(d)) /\ IsFiniteSet(Far(d))
                               /\ Uses(d) = Near(d) \cup Far(d)
  <2> TAKE d \in CreatedNodes
  <2>1. Near(d) \in SUBSET Nodes /\ Far(d) \in SUBSET Nodes /\ Uses(d) = Near(d) \cup Far(d)
    BY <1>1, <1>2, NearAndFar
  <2> QED BY <1>2, <2>1, FS_Subset
<1> QED BY <1>3, <1>4, <1>10, <1>11, <1>12, <1>13, <1>14

\* The counts stay exact, so a node is activated when the last of what it uses
\* completes, and not before.
LEMMA CountsAreExact ==
  ASSUME CoreInv, NEW D, Finishes(D)
  PROVE  /\ LeftIn(D) \in [NodeIds -> Int] /\ LeftOut(D) \in [NodeIds -> Int]
         /\ \A d \in CreatedNodes : Held(d) =>
              /\ LeftIn(D)[d] = Missing(Near(d), completed \cup D)
              /\ LeftOut(D)[d] = Missing(Far(d), completed \cup D)
              /\ ~(LeftIn(D)[d] > 0 \/ LeftOut(D)[d] > 0) <=> Uses(d) \subseteq completed \cup D
<1>1. CreatedNodes \subseteq NodeIds
  BY CreatedFacts DEF CoreInv, ContextInv
<1>2. \A d \in NodeIds : /\ LeftIn(D)[d] = pending[d] - Cardinality(TellIn(D, d))
                         /\ LeftOut(D)[d] = pendingExt[d] - Cardinality(TellOut(D, d))
  BY DEF LeftIn, LeftOut
<1>3. \A d : /\ Cardinality(TellIn(D, d)) \in Nat
             /\ Cardinality(TellOut(D, d)) \in Nat
  <2> TAKE d
  <2>1. IsFiniteSet(D)
    BY TellsFacts
  <2>2. TellIn(D, d) \in SUBSET D /\ TellOut(D, d) \in SUBSET D
    BY DEF TellIn, TellOut
  <2>3. IsFiniteSet(TellIn(D, d)) /\ IsFiniteSet(TellOut(D, d))
    BY <2>1, <2>2, FS_Subset
  <2> QED BY <2>3, FS_CardinalityType
<1>4. LeftIn(D) \in [NodeIds -> Int] /\ LeftOut(D) \in [NodeIds -> Int]
  <2>1. \A d \in NodeIds : pending[d] \in Int /\ pendingExt[d] \in Int
    BY DEF CoreInv, ParentInv
  <2>2. \A d \in NodeIds : LeftIn(D)[d] \in Int /\ LeftOut(D)[d] \in Int
    BY <1>2, <1>3, <2>1
  <2>3. LeftIn(D) = [d \in NodeIds |-> LeftIn(D)[d]] /\ LeftOut(D) = [d \in NodeIds |-> LeftOut(D)[d]]
    BY DEF LeftIn, LeftOut
  <2> QED BY <2>2, <2>3
<1>5. ASSUME NEW d \in CreatedNodes, Held(d)
      PROVE  /\ LeftIn(D)[d] = Missing(Near(d), completed \cup D)
             /\ LeftOut(D)[d] = Missing(Far(d), completed \cup D)
             /\ ~(LeftIn(D)[d] > 0 \/ LeftOut(D)[d] > 0) <=> Uses(d) \subseteq completed \cup D
  <2>1. /\ pending[d] = Missing(Near(d), completed) /\ pendingExt[d] = Missing(Far(d), completed)
        /\ d \in NodeIds
    BY <1>1, <1>5 DEF CoreInv, ParentInv
  <2>2. /\ D \cap completed = {}
        /\ TellIn(D, d) = D \cap Near(d)
        /\ TellOut(D, d) = D \cap Far(d)
        /\ IsFiniteSet(Near(d)) /\ IsFiniteSet(Far(d)) /\ Uses(d) = Near(d) \cup Far(d)
    BY TellsFacts
  <2>3. Missing(Near(d), completed \cup D) = Missing(Near(d), completed) - Cardinality(D \cap Near(d))
    BY <2>2, FewerMissing
  <2>4. Missing(Far(d), completed \cup D) = Missing(Far(d), completed) - Cardinality(D \cap Far(d))
    BY <2>2, FewerMissing
  <2>5. LeftIn(D)[d] = Missing(Near(d), completed \cup D)
    BY <1>2, <2>1, <2>2, <2>3
  <2>6. LeftOut(D)[d] = Missing(Far(d), completed \cup D)
    BY <1>2, <2>1, <2>2, <2>4
  <2>7. ~(LeftIn(D)[d] > 0) <=> Near(d) \subseteq completed \cup D
    <3>1. Missing(Near(d), completed \cup D) \in Nat
      BY <2>2, MissingType
    <3>2. Missing(Near(d), completed \cup D) = 0 <=> Near(d) \subseteq completed \cup D
      BY <2>2, NoneMissing
    <3> QED BY <2>5, <3>1, <3>2
  <2>8. ~(LeftOut(D)[d] > 0) <=> Far(d) \subseteq completed \cup D
    <3>1. Missing(Far(d), completed \cup D) \in Nat
      BY <2>2, MissingType
    <3>2. Missing(Far(d), completed \cup D) = 0 <=> Far(d) \subseteq completed \cup D
      BY <2>2, NoneMissing
    <3> QED BY <2>6, <3>1, <3>2
  <2>9. Uses(d) \subseteq completed \cup D <=> Near(d) \subseteq completed \cup D /\ Far(d) \subseteq completed \cup D
    BY <2>2
  <2> QED BY <2>5, <2>6, <2>7, <2>8, <2>9
<1> QED BY <1>4, <1>5

LEMMA WokenFacts ==
  ASSUME CoreInv, NEW D, Finishes(D)
  PROVE  /\ Woken(D) \subseteq CreatedNodes \ issued
         /\ \A d \in Woken(D) : Uses(d) \subseteq completed \cup D \/ Predicted(d)
         /\ \A d \in CreatedNodes \ (issueSet \cup issued) :
              Uses(d) \subseteq completed \cup D => d \in Woken(D)
<1>1. \A d : d \in Woken(D) <=>
        /\ d \in ToldBy(D) /\ d \notin issued \cup completed \cup D
        /\ LeftIn(D)[d] > 0 \/ LeftOut(D)[d] > 0 =>
             ~MustWait(d, mispredicted) /\ Position(d) + BranchLookahead <= windowEnd
  BY DEF Woken, Activated
<1>2. D \subseteq issued /\ completed \subseteq issued
  BY DEF Finishes, CoreInv, PlaceInv
<1>3. Woken(D) \subseteq CreatedNodes \ issued
  BY <1>1, TellsFacts
<1>4. ASSUME NEW d \in Woken(D) PROVE Uses(d) \subseteq completed \cup D \/ Predicted(d)
  <2>1. d \in CreatedNodes
    BY <1>3
  <2>2. CASE LeftIn(D)[d] > 0 \/ LeftOut(D)[d] > 0
    BY <1>1, <2>2 DEF MustWait, Predicted
  <2>3. CASE ~(LeftIn(D)[d] > 0 \/ LeftOut(D)[d] > 0) /\ Held(d)
    BY <2>1, <2>3, CountsAreExact
  <2>4. CASE ~Held(d)
    BY <2>4 DEF Held, Predicted
  <2> QED BY <2>2, <2>3, <2>4
<1>5. ASSUME NEW d \in CreatedNodes, d \notin issueSet \cup issued, Uses(d) \subseteq completed \cup D
      PROVE  d \in Woken(D)
  <2>1. Held(d) /\ ~(Uses(d) \subseteq completed)
    BY <1>5 DEF CoreInv, ReadyInv
  <2>2. D \cap (Near(d) \cup Far(d)) # {}
    <3>1. Uses(d) = Near(d) \cup Far(d)
      BY TellsFacts
    <3> QED BY <1>5, <2>1, <3>1
  <2>3. d \in ToldBy(D)
    BY <2>2, TellsFacts
  <2>4. ~(LeftIn(D)[d] > 0 \/ LeftOut(D)[d] > 0)
    BY <1>5, <2>1, CountsAreExact
  <2> QED BY <1>1, <1>2, <1>5, <2>3, <2>4
<1> QED BY <1>3, <1>4, <1>5

\* Completing takes D from the nodes in flight and from what is unresolved.
LEMMA CompletePlaces ==
  ASSUME CoreInv, NEW D, Finishes(D), Fixed, created' = created,
         atMemory' = atMemory, outstanding' = outstanding, toVisit' = {},
         pq' = pq \ D, speculatedSet' = speculatedSet \ D, speculated' = speculated \ D,
         completed' = completed \cup D, issued' = issued, issueSet' = issueSet \cup Woken(D),
         D \cap atMemory = {}
  PROVE  PlaceInv'
<1>1. CreatedNodes' = CreatedNodes
  BY FixedCreated
<1>2. Woken(D) \subseteq CreatedNodes \ issued
  BY WokenFacts
<1>3. D \subseteq issued /\ D \cap completed = {}
  BY DEF Finishes
<1>4. NoNodes' = NoNodes
  BY DEF NoNodes, NodeIds
<1> QED BY <1>1, <1>2, <1>3, <1>4 DEF CoreInv, PlaceInv

LEMMA CompleteUnits ==
  ASSUME CoreInv, NEW D, Finishes(D), Fixed,
         completed' = completed \cup D, issued' = issued,
         availableFUs' = [t \in Types |-> IF availableFUs[t] = -1 THEN -1
                           ELSE availableFUs[t] + Cardinality({d \in D : Type(d) = t})]
  PROVE  UnitInv'
<1> DEFINE Kind(t) == {d \in D : Type(d) = t}
<1>1. IsFiniteSet(D) /\ IsFiniteSet(CreatedNodes)
  BY TellsFacts, CreatedFacts DEF CoreInv, ContextInv
<1>2. \A t : IsFiniteSet(Kind(t)) /\ Cardinality(Kind(t)) \in Nat
  <2> TAKE t
  <2>1. Kind(t) \in SUBSET D
    OBVIOUS
  <2>2. IsFiniteSet(Kind(t))
    BY <1>1, <2>1, FS_Subset
  <2> QED BY <2>2, FS_CardinalityType
<1>3. \A t : IsFiniteSet(Busy(t)) /\ Cardinality(Busy(t)) \in Nat
  <2> TAKE t
  <2>1. Busy(t) \in SUBSET CreatedNodes
    BY DEF Busy, CoreInv, PlaceInv
  <2>2. IsFiniteSet(Busy(t))
    BY <1>1, <2>1, FS_Subset
  <2> QED BY <2>2, FS_CardinalityType
<1>4. \A t : Busy(t)' = Busy(t) \ Kind(t) /\ Busy(t) \cap Kind(t) = Kind(t)
  <2> TAKE t
  <2>1. \A d : Type(d)' = Type(d)
    BY FixedProgram
  <2>2. Busy(t)' = Busy(t) \ Kind(t)
    BY <2>1 DEF Busy
  <2>3. Busy(t) \cap Kind(t) = Kind(t)
    BY DEF Busy, Finishes
  <2> QED BY <2>2, <2>3
<1>5. \A t : Cardinality(Busy(t)') = Cardinality(Busy(t)) - Cardinality(Kind(t))
  <2> TAKE t
  <2>1. Cardinality(Busy(t) \ Kind(t)) = Cardinality(Busy(t)) - Cardinality(Busy(t) \cap Kind(t))
    BY <1>3, FS_Difference
  <2> QED BY <1>4, <2>1
<1>6. \A t : Cardinality(Busy(t)') \in Nat
  <2> TAKE t
  <2>1. Busy(t) \ Kind(t) \in SUBSET Busy(t)
    OBVIOUS
  <2>2. IsFiniteSet(Busy(t) \ Kind(t))
    BY <1>3, <2>1, FS_Subset
  <2> QED BY <1>4, <2>2, FS_CardinalityType
<1>7. availableFUs' = [t \in Types |-> IF availableFUs[t] = -1 THEN -1
                           ELSE availableFUs[t] + Cardinality(Kind(t))]
  OBVIOUS
<1> HIDE DEF Kind
<1>8. availableFUs \in [Types -> Int]
  BY DEF CoreInv, UnitInv
<1>9. \A t \in Types : availableFUs'[t] = IF availableFUs[t] = -1 THEN -1
                           ELSE availableFUs[t] + Cardinality(Kind(t))
  BY <1>7
<1>10. availableFUs' \in [Types -> Int]
  BY <1>2, <1>7, <1>8
<1>11. ASSUME NEW t \in Types \ Mem
       PROVE  /\ Units[t] = -1 => availableFUs'[t] = -1
              /\ Units[t] # -1 =>
                   /\ availableFUs'[t] >= 0
                   /\ availableFUs'[t] = Units[t] - Cardinality(Busy(t)')
  <2>1. /\ Units[t] = -1 => availableFUs[t] = -1
        /\ Units[t] # -1 => availableFUs[t] >= 0 /\ availableFUs[t] = Units[t] - Cardinality(Busy(t))
    BY DEF CoreInv, UnitInv
  <2>2. Units[t] \in Int
    BY CoreAssumption DEF Types, Sizes
  <2> QED BY <1>2, <1>3, <1>5, <1>6, <1>8, <1>9, <2>1, <2>2
<1> QED BY <1>10, <1>11 DEF UnitInv, Types

LEMMA CompleteActive ==
  ASSUME CoreInv, NEW D, Finishes(D), Fixed, created' = created, completed' = completed \cup D,
         activeLeft' = [b \in DOMAIN activeLeft |->
           IF config.active = -1 THEN -1
           ELSE activeLeft[b] + Cardinality({c \in {x \in Live : NodesOf(x) \subseteq completed'} : BB(c) = b})]
  PROVE  ActiveInv'
<1> DEFINE Over(b) == {c \in {x \in Live : NodesOf(x) \subseteq completed'} : BB(c) = b}
<1>1. \A b : LiveOf(b)' = LiveOf(b) \ Over(b) /\ LiveOf(b) \cap Over(b) = Over(b)
  <2> TAKE b
  <2>1. Live' = {c \in 1..created : ~(NodesOf(c) \subseteq completed')}
    BY FixedProgram DEF Live
  <2>2. \A c : BB(c)' = BB(c)
    BY FixedProgram
  <2>3. \A c : c \in LiveOf(b)' <=> c \in 1..created /\ ~(NodesOf(c) \subseteq completed') /\ BB(c) = b
    BY <2>1, <2>2 DEF LiveOf
  <2>4. \A c : c \in LiveOf(b) <=> c \in 1..created /\ ~(NodesOf(c) \subseteq completed) /\ BB(c) = b
    BY DEF LiveOf, Live
  <2>5. \A c : c \in Over(b) <=> c \in LiveOf(b) /\ NodesOf(c) \subseteq completed'
    BY DEF LiveOf
  <2> HIDE DEF Over
  <2>6. \A c : ~(NodesOf(c) \subseteq completed') => ~(NodesOf(c) \subseteq completed)
    OBVIOUS
  <2>7. \A c : c \in LiveOf(b)' <=> c \in LiveOf(b) /\ c \notin Over(b)
    BY <2>3, <2>4, <2>5, <2>6
  <2> QED BY <2>5, <2>7
<1>2. \A b : IsFiniteSet(LiveOf(b)) /\ Cardinality(LiveOf(b)) \in Nat
  <2> TAKE b
  <2>1. IsFiniteSet(1..created)
    <3>1. created \in Int
      BY NodeShape DEF CoreInv, ContextInv
    <3> QED BY <3>1, FS_Interval
  <2>2. LiveOf(b) \in SUBSET (1..created)
    BY DEF LiveOf, Live
  <2>3. IsFiniteSet(LiveOf(b))
    BY <2>1, <2>2, FS_Subset
  <2> QED BY <2>3, FS_CardinalityType
<1>3. \A b : Cardinality(Over(b)) \in Nat /\ Cardinality(LiveOf(b)') \in Nat
  <2> TAKE b
  <2>1. Over(b) \in SUBSET LiveOf(b) /\ LiveOf(b)' \in SUBSET LiveOf(b)
    BY <1>1
  <2>2. IsFiniteSet(Over(b)) /\ IsFiniteSet(LiveOf(b)')
    BY <1>2, <2>1, FS_Subset
  <2> QED BY <2>2, FS_CardinalityType
<1>4. \A b : Cardinality(LiveOf(b)') = Cardinality(LiveOf(b)) - Cardinality(Over(b))
  <2> TAKE b
  <2>1. Cardinality(LiveOf(b) \ Over(b)) = Cardinality(LiveOf(b)) - Cardinality(LiveOf(b) \cap Over(b))
    BY <1>2, FS_Difference
  <2> QED BY <1>1, <2>1
<1>5. activeLeft' = [b \in DOMAIN activeLeft |->
           IF config.active = -1 THEN -1 ELSE activeLeft[b] + Cardinality(Over(b))]
  OBVIOUS
<1> HIDE DEF Over
<1>6. activeLeft \in [DOMAIN program.blocks -> Int]
  BY DEF CoreInv, ActiveInv
<1>7. activeLeft' \in [DOMAIN program.blocks -> Int]
  BY <1>3, <1>5, <1>6
<1>8. ASSUME config.active # -1, NEW b \in DOMAIN program.blocks
      PROVE  activeLeft'[b] >= 0 /\ activeLeft'[b] = config.active - Cardinality(LiveOf(b)')
  <2>1. activeLeft[b] >= 0 /\ activeLeft[b] = config.active - Cardinality(LiveOf(b))
    BY <1>8 DEF CoreInv, ActiveInv
  <2>2. activeLeft'[b] = activeLeft[b] + Cardinality(Over(b))
    BY <1>5, <1>6, <1>8
  <2>3. config.active \in Int
    BY ConfigFacts DEF CoreInv, ContextInv
  <2>4. activeLeft[b] \in Int
    BY <1>6
  <2> QED BY <1>2, <1>3, <1>4, <2>1, <2>2, <2>3, <2>4
<1> QED BY <1>7, <1>8 DEF ActiveInv, Fixed

\* A context is due when the terminator of the youngest completes, and it can
\* only do so once.
LEMMA CompleteContexts ==
  ASSUME CoreInv, NEW D, Finishes(D), Fixed, created' = created, completed' = completed \cup D,
         toCreate' = IF config.allAtOnce THEN toCreate
                     ELSE toCreate + Cardinality({d \in D : Type(d) = "TERMINATOR"})
  PROVE  ContextInv'
<1> DEFINE E == {d \in D : Type(d) = "TERMINATOR"}
<1>1. program \in Programs /\ config \in Configs /\ created \in 0..TraceLength /\ toCreate \in 0..1
  BY DEF CoreInv, ContextInv
<1>2. \A c : Terminator(c)' = Terminator(c)
  BY FixedNodes
<1>3. TraceLength' = TraceLength /\ Terminator(created)' = Terminator(created)
  BY FixedProgram DEF Terminator
<1>4. CASE config.allAtOnce
  BY <1>1, <1>3, <1>4 DEF ContextInv, Fixed
<1>5. CASE ~config.allAtOnce
  <2>1. /\ toCreate = 1 <=> created = 0 \/ Terminator(created) \in completed
        /\ \A c \in 1..(created - 1) : Terminator(c) \in completed
    BY <1>5 DEF CoreInv, ContextInv
  <2>2. D \subseteq CreatedNodes /\ D \cap completed = {}
    BY TellsFacts
  <2>3. \A d \in E : d = Terminator(created) /\ created > 0
    <3> TAKE d \in E
    <3>1. d \in Nodes /\ d[1] <= created
      BY <1>1, <2>2, CreatedFacts
    <3>2. d = <<d[1], d[2]>> /\ d[1] \in 1..TraceLength /\ TraceLength \in Nat
      BY <1>1, <3>1, NodeShape
    <3>3. d = Terminator(d[1])
      BY <1>1, <3>1, <3>2, NodeKinds DEF Terminator
    <3>4. ~(d[1] \in 1..(created - 1))
      BY <2>1, <2>2, <3>3
    <3>5. d[1] = created
      BY <1>1, <3>1, <3>2, <3>4
    <3> QED BY <1>1, <3>2, <3>3, <3>5
  <2>4. CASE E = {}
    <3>1. Cardinality(E) = 0
      BY <2>4, FS_EmptySet
    <3>2. toCreate' = toCreate
      BY <1>1, <1>5, <3>1
    <3>3. created # 0 => Terminator(created) \notin D
      <4> SUFFICES ASSUME created # 0, Terminator(created) \in D PROVE FALSE
        OBVIOUS
      <4>1. created \in 1..TraceLength /\ created = Terminator(created)[1]
            /\ Len(Block(created)) = Terminator(created)[2]
        BY <1>1, NodeShape DEF Terminator
      <4>2. Type(Terminator(created)) = "TERMINATOR"
        BY <1>1, <2>2, <4>1, CreatedFacts, NodeKinds
      <4> QED BY <2>4, <4>2
    <3> QED BY <1>1, <1>2, <1>3, <2>1, <3>2, <3>3 DEF ContextInv, Fixed
  <2>5. CASE E # {}
    <3>1. E = {Terminator(created)} /\ created > 0 /\ Terminator(created) \in D
      BY <2>3, <2>5
    <3>2. Cardinality(E) = 1
      BY <3>1, FS_Singleton
    <3>3. toCreate = 0
      BY <1>1, <2>1, <2>2, <3>1
    <3>4. toCreate' = 1
      BY <1>5, <3>2, <3>3
    <3> QED BY <1>1, <1>2, <1>3, <2>1, <3>1, <3>4 DEF ContextInv, Fixed
  <2> QED BY <2>4, <2>5
<1> QED BY <1>4, <1>5

LEMMA CompleteReady ==
  ASSUME CoreInv, NEW D, Finishes(D), Fixed, created' = created, mispredicted' = mispredicted,
         completed' = completed \cup D, issued' = issued, issueSet' = issueSet \cup Woken(D)
  PROVE  ReadyInv'
<1>1. CreatedNodes' = CreatedNodes
  BY FixedCreated
<1>2. \A d : Uses(d)' = Uses(d) /\ (Held(d)' <=> Held(d))
  BY FixedNodes
<1>3. \A d : Predicted(d)' <=> Predicted(d)
  BY FixedProgram DEF Predicted, Fixed
<1>4. \A d \in issueSet' \cup issued' : Uses(d) \subseteq completed' \/ Predicted(d)
  BY WokenFacts DEF CoreInv, ReadyInv
<1>5. \A d \in CreatedNodes \ (issueSet' \cup issued') : Held(d) /\ ~(Uses(d) \subseteq completed')
  BY WokenFacts DEF CoreInv, ReadyInv
<1> QED BY <1>1, <1>2, <1>3, <1>4, <1>5 DEF ReadyInv

LEMMA CompleteParents ==
  ASSUME CoreInv, NEW D, Finishes(D), Fixed, created' = created, completed' = completed \cup D,
         pending' = LeftIn(D), pendingExt' = LeftOut(D),
         extDependents' = [d \in NodeIds |-> IF d \in D THEN {} ELSE extDependents[d]]
  PROVE  ParentInv'
<1>1. CreatedNodes' = CreatedNodes
  BY FixedCreated
<1>2. \A d : Far(d)' = Far(d) /\ Near(d)' = Near(d) /\ (Held(d)' <=> Held(d))
  BY FixedNodes
<1>3. extDependents \in [NodeIds -> SUBSET NodeIds]
      /\ \A e, d \in NodeIds :
           d \in extDependents[e] <=> e \notin completed /\ d \in CreatedNodes /\ e \in Far(d)
  BY DEF CoreInv, ParentInv
<1>4. extDependents' \in [NodeIds -> SUBSET NodeIds]
  BY <1>3
<1>5. \A e, d \in NodeIds :
        d \in extDependents'[e] <=> e \notin completed' /\ d \in CreatedNodes /\ e \in Far(d)
  BY <1>3
<1>6. pending' \in [NodeIds -> Int] /\ pendingExt' \in [NodeIds -> Int]
  BY CountsAreExact
<1>7. \A d \in CreatedNodes : Held(d) =>
        /\ pending'[d] = Missing(Near(d), completed')
        /\ pendingExt'[d] = Missing(Far(d), completed')
  BY CountsAreExact
<1>8. NodeIds' = NodeIds
  BY DEF NodeIds
<1>9. \A d : Missing(Near(d), completed)' = Missing(Near(d), completed')
             /\ Missing(Far(d), completed)' = Missing(Far(d), completed')
  BY <1>2 DEF Missing
<1> QED BY <1>1, <1>2, <1>4, <1>5, <1>6, <1>7, <1>8, <1>9 DEF ParentInv

LEMMA CompleteKeepsInv ==
  ASSUME CoreInv, Complete
  PROVE  CoreInv'
<1>1. PICK D \in SUBSET (issued \ completed) :
           /\ Finishes(D)
           /\ Fixed /\ created' = created /\ owner' = owner /\ mispredicted' = mispredicted
           /\ predictor' = predictor /\ ports' = ports /\ lq' = lq /\ sq' = sq
           /\ windowStart' = windowStart /\ windowEnd' = windowEnd
           /\ atMemory' = atMemory /\ outstanding' = outstanding /\ toVisit' = {}
           /\ pq' = pq \ D /\ speculatedSet' = speculatedSet \ D /\ speculated' = speculated \ D
           /\ completed' = completed \cup D /\ issued' = issued
           /\ D \cap atMemory = {}
           /\ pending' = LeftIn(D) /\ pendingExt' = LeftOut(D)
           /\ extDependents' = [d \in NodeIds |-> IF d \in D THEN {} ELSE extDependents[d]]
           /\ issueSet' = issueSet \cup Woken(D)
           /\ ResolveAddresses({d \in Woken(D) : IsMem(d)} \cup UNION {AddressDependents(d) : d \in D})
           /\ availableFUs' = [t \in Types |-> IF availableFUs[t] = -1 THEN -1
                                ELSE availableFUs[t] + Cardinality({d \in D : Type(d) = t})]
           /\ toCreate' = IF config.allAtOnce THEN toCreate
                          ELSE toCreate + Cardinality({d \in D : Type(d) = "TERMINATOR"})
           /\ activeLeft' = [b \in DOMAIN activeLeft |->
                IF config.active = -1 THEN -1
                ELSE activeLeft[b] + Cardinality({c \in {x \in Live : NodesOf(x) \subseteq completed'} : BB(c) = b})]
  BY CompleteStep
<1>2. ContextInv'
  BY <1>1, CompleteContexts
<1>3. PlaceInv'
  BY <1>1, CompletePlaces
<1>4. WindowInv'
  BY <1>1, SameWindow DEF CoreInv
<1>5. QueueInv'
  <2>1. \A d : LeftRob(d) => LeftRob(d)'
    BY <1>1, FixedProgram DEF LeftRob
  <2> QED BY <1>1, <2>1, SameQueue DEF CoreInv
<1>6. UnresolvedInv'
  <2> DEFINE M == {d \in Woken(D) : IsMem(d)}
             A == UNION {AddressDependents(d) : d \in D}
  <2>1. ResolveAddresses(M \cup A)
    BY <1>1
  <2>2. \A d \in unresolvedLd \cup unresolvedSt :
          d \in CreatedNodes /\ Type(d) \in Mem /\ d \notin issued /\ d \notin issueSet /\ ~Bypassed
    BY DEF CoreInv, UnresolvedInv, Accesses, StoreTypes, Mem
  <2>3. \A d \in CreatedNodes : Type(d) \in Mem => IsMem(d)
    BY CreatedFacts, NodeKinds DEF CoreInv, ContextInv
  <2>4. \A d \in unresolvedLd \cup unresolvedSt : d \in Woken(D) => d \in M
    BY <2>2, <2>3
  <2> HIDE DEF M, A
  <2>5. unresolvedLd' \subseteq unresolvedLd /\ unresolvedSt' \subseteq unresolvedSt
    BY <2>1 DEF ResolveAddresses
  <2>6. \A d \in unresolvedLd' \cup unresolvedSt' : d \notin M
    BY <2>1, <2>2 DEF ResolveAddresses
  <2>7. \A d \in unresolvedLd' \cup unresolvedSt' : d \notin issued' /\ d \notin issueSet'
    BY <1>1, <2>2, <2>4, <2>5, <2>6
  <2> QED BY <1>1, <2>5, <2>7, FewerUnresolved DEF CoreInv
<1>7. StoreOrder' /\ LoadOrder'
  <2>1. atMemory' \ atMemory = {} /\ issued' \ issued = {}
        /\ completed \subseteq completed' /\ issued \subseteq issued'
    BY <1>1
  <2> QED BY <1>1, <2>1, StoreOrderStep, LoadOrderStep DEF CoreInv
<1>8. ParentInv'
  BY <1>1, CompleteParents
<1>9. OwnerInv'
  BY <1>1, SameOwner DEF CoreInv
<1>10. ReadyInv'
  BY <1>1, CompleteReady
<1>11. UnitInv'
  BY <1>1, CompleteUnits
<1>12. ActiveInv'
  BY <1>1, CompleteActive
<1>13. SmallInv'
  BY <1>1 DEF CoreInv, SmallInv, PredictorOK
<1> QED BY <1>2, <1>3, <1>4, <1>5, <1>6, <1>7, <1>8, <1>9, <1>10, <1>11, <1>12, <1>13 DEF CoreInv

-----------------------------------------------------------------------------
(* Creation of a context: its nodes, and what createContext gives them.    *)

OwnersWith(c) == [owner EXCEPT ![BB(c)] = c]
MergedAt(c, d) == {<<c - 1, e[2]>> : e \in {f \in Instr(d).phi : c > 1 /\ f[1] = BB(c - 1)}}
LeftOf(c, d) ==
  IF Type(d) = "TERMINATOR" /\ config.allAtOnce THEN 0
  ELSE IF Type(d) # "PHI" THEN Cardinality(Instr(d).parents)
  ELSE IF MergedAt(c, d) = {} THEN 0
  ELSE 1 - Cardinality(MergedAt(c, d) \cap completed)
WaitedFor(c, d) == {<<OwnersWith(c)[e[1]], e[2]>> : e \in Instr(d).external} \ completed
LeftExtOf(c, d) == IF Type(d) = "TERMINATOR" /\ config.allAtOnce THEN 0 ELSE Cardinality(WaitedFor(c, d))
Starts(c) == Activated(NodesOf(c), pending', pendingExt', mispredicted', {})

LEMMA CreateStep ==
  ASSUME CreateContext, NEW c, c = created + 1
  PROVE  /\ Fixed /\ created' = c /\ toCreate > 0 /\ c <= TraceLength
         /\ CheckSize(c) /\ MayStart(c)
         /\ toCreate' = toCreate - 1 /\ owner' = OwnersWith(c)
         /\ activeLeft' = IF config.active = -1 THEN activeLeft
                          ELSE [activeLeft EXCEPT ![BB(c)] = @ - 1]
         /\ lq' = Without(lq, LdNeed(c)) \o MemoryNodes(c, {"LD"})
         /\ sq' = Without(sq, StNeed(c)) \o MemoryNodes(c, StoreTypes)
         /\ pending' = [d \in NodeIds |-> IF d \in NodesOf(c) THEN LeftOf(c, d) ELSE pending[d]]
         /\ pendingExt' = [d \in NodeIds |-> IF d \in NodesOf(c) THEN LeftExtOf(c, d) ELSE pendingExt[d]]
         /\ extDependents' = [e \in NodeIds |->
              extDependents[e] \cup {d \in NodesOf(c) : e \in WaitedFor(c, d)}]
         /\ mispredicted' = mispredicted \/ mispredicted' = mispredicted \cup {Terminator(c)}
         /\ predictor' = IF Conditional(c) THEN Trained(config.predictor, predictor, BB(c), Taken(c))
                         ELSE predictor
         /\ issueSet' = issueSet \cup Starts(c)
         /\ unresolvedLd' = unresolvedLd \cup (ToSet(MemoryNodes(c, {"LD"})) \ {d \in Starts(c) : IsMem(d)})
         /\ unresolvedSt' = unresolvedSt \cup (ToSet(MemoryNodes(c, StoreTypes)) \ {d \in Starts(c) : IsMem(d)})
         /\ issued' = issued /\ completed' = completed /\ toVisit' = toVisit
         /\ windowStart' = windowStart /\ windowEnd' = windowEnd
         /\ pq' = pq /\ atMemory' = atMemory /\ speculatedSet' = speculatedSet
         /\ speculated' = speculated /\ outstanding' = outstanding
         /\ availableFUs' = availableFUs /\ ports' = ports
<1>1. /\ Fixed /\ created' = c /\ toCreate > 0 /\ c <= TraceLength
      /\ CheckSize(c) /\ MayStart(c)
      /\ toCreate' = toCreate - 1 /\ owner' = OwnersWith(c)
      /\ activeLeft' = IF config.active = -1 THEN activeLeft
                       ELSE [activeLeft EXCEPT ![BB(c)] = @ - 1]
      /\ lq' = Without(lq, LdNeed(c)) \o MemoryNodes(c, {"LD"})
      /\ sq' = Without(sq, StNeed(c)) \o MemoryNodes(c, StoreTypes)
  BY DEF CreateContext, Fixed, OwnersWith, StoreTypes
<1>2. /\ issued' = issued /\ completed' = completed /\ toVisit' = toVisit
      /\ windowStart' = windowStart /\ windowEnd' = windowEnd
      /\ pq' = pq /\ atMemory' = atMemory /\ speculatedSet' = speculatedSet
      /\ speculated' = speculated /\ outstanding' = outstanding
      /\ availableFUs' = availableFUs /\ ports' = ports
  BY DEF CreateContext, windowVars, speculationVars
<1>3. pending' = [d \in NodeIds |-> IF d \in NodesOf(c) THEN LeftOf(c, d) ELSE pending[d]]
  BY DEF CreateContext, LeftOf, MergedAt
<1>4. pendingExt' = [d \in NodeIds |-> IF d \in NodesOf(c) THEN LeftExtOf(c, d) ELSE pendingExt[d]]
  BY DEF CreateContext, LeftExtOf, WaitedFor, OwnersWith
<1>5. extDependents' = [e \in NodeIds |->
         extDependents[e] \cup {d \in NodesOf(c) : e \in WaitedFor(c, d)}]
  BY DEF CreateContext, WaitedFor, OwnersWith
<1>6. mispredicted' = mispredicted \/ mispredicted' = mispredicted \cup {Terminator(c)}
  <2>1. \E wrong \in Wrong(c) :
           mispredicted' = IF wrong THEN mispredicted \cup {Terminator(c)} ELSE mispredicted
    BY DEF CreateContext, Terminator
  <2> QED BY <2>1
<1>7. predictor' = IF Conditional(c) THEN Trained(config.predictor, predictor, BB(c), Taken(c))
                   ELSE predictor
  BY DEF CreateContext
<1>8. issueSet' = issueSet \cup Starts(c)
  BY DEF CreateContext, Starts
<1>9. /\ unresolvedLd' = unresolvedLd \cup (ToSet(MemoryNodes(c, {"LD"})) \ {d \in Starts(c) : IsMem(d)})
      /\ unresolvedSt' = unresolvedSt \cup (ToSet(MemoryNodes(c, StoreTypes)) \ {d \in Starts(c) : IsMem(d)})
  BY DEF CreateContext, Starts, StoreTypes
<1> QED BY <1>1, <1>2, <1>3, <1>4, <1>5, <1>6, <1>7, <1>8, <1>9

\* The nodes of the context that comes next.
LEMMA NewNodes ==
  ASSUME CoreInv, NEW c, c = created + 1, c <= TraceLength
  PROVE  /\ program \in Programs /\ created \in 0..TraceLength /\ c \in 1..TraceLength
         /\ NodesOf(c) \subseteq Nodes /\ NodesOf(c) \subseteq NodeIds /\ CreatedNodes \subseteq NodeIds
         /\ NodesOf(c) \cap CreatedNodes = {}
         /\ \A d \in NodesOf(c) : /\ d[1] = c /\ ~LeftRob(d)
                                  /\ d \notin completed /\ d \notin issued /\ d \notin issueSet
                                  /\ \A e \in CreatedNodes : Older(e, d)
<1>1. program \in Programs /\ created \in 0..TraceLength
  BY DEF CoreInv, ContextInv
<1>2. created \in Nat /\ TraceLength \in Nat /\ c \in 1..TraceLength
  BY <1>1, NodeShape
<1>3. NodesOf(c) \subseteq Nodes /\ Nodes \subseteq NodeIds /\ CreatedNodes \subseteq NodeIds
  BY <1>1, <1>2, NodeShape, CreatedFacts
<1>4. \A d \in NodesOf(c) : d[1] = c
  BY <1>1, <1>2, NodeShape
<1>5. \A d \in CreatedNodes : d \in Nodes /\ d[1] <= created /\ d[1] \in Nat
  BY <1>1, <1>2, CreatedFacts, NodeShape
<1>6. NodesOf(c) \cap CreatedNodes = {}
  BY <1>2, <1>4, <1>5
<1>7. \A d \in NodesOf(c) : \A e \in CreatedNodes : Older(e, d)
  BY <1>2, <1>4, <1>5 DEF Older
<1>8. \A d \in NodesOf(c) : ~LeftRob(d)
  <2> TAKE d \in NodesOf(c)
  <2>1. d \in Nodes /\ d \notin CreatedNodes
    BY <1>3, <1>6
  <2>2. Position(d) >= Cardinality(CreatedNodes) /\ Position(d) \in Nat
    BY <1>1, <2>1, Positions
  <2>3. windowStart \in 0..Cardinality(CreatedNodes) /\ Cardinality(CreatedNodes) \in Nat
    BY <1>1, CreatedFacts DEF CoreInv, WindowInv
  <2> QED BY <2>2, <2>3 DEF LeftRob
<1>9. completed \subseteq CreatedNodes /\ issued \subseteq CreatedNodes /\ issueSet \subseteq CreatedNodes
  BY DEF CoreInv, PlaceInv
<1> QED BY <1>1, <1>2, <1>3, <1>4, <1>6, <1>7, <1>8, <1>9

LEMMA MoreCreated ==
  ASSUME CoreInv, NEW c, c = created + 1, c <= TraceLength, Fixed, created' = c
  PROVE  CreatedNodes' = CreatedNodes \cup NodesOf(c)
<1>1. created \in Nat
  BY NewNodes, NodeShape
<1>2. 1..c = (1..created) \cup {c}
  BY <1>1
<1>3. CreatedNodes' = UNION {NodesOf(k) : k \in 1..c}
  BY FixedProgram DEF CreatedNodes
<1>4. \A x : x \in CreatedNodes' <=> \E k \in 1..c : x \in NodesOf(k)
  BY <1>3
<1>5. \A x : x \in CreatedNodes <=> \E k \in 1..created : x \in NodesOf(k)
  BY DEF CreatedNodes
<1> QED BY <1>2, <1>4, <1>5

\* The owner of a block is the last of its contexts, so the parents of other
\* blocks are the ones the node uses.
LEMMA OwnersAreLast ==
  ASSUME CoreInv, NEW c, c = created + 1, c <= TraceLength, NEW d \in NodesOf(c)
  PROVE  /\ WaitedFor(c, d) = Far(d) \ completed
         /\ MergedAt(c, d) = Merged(d)
<1>1. /\ program \in Programs /\ created \in 0..TraceLength /\ c \in 1..TraceLength
      /\ d \in Nodes /\ d[1] = c /\ created \in Nat
  BY NewNodes, NodeShape
<1>2. MergedAt(c, d) = Merged(d)
  BY <1>1 DEF MergedAt, Merged
<1>3. owner \in [DOMAIN program.blocks -> Nat]
      /\ \A k \in 1..created : /\ owner[BB(k)] \in k..created
                               /\ BB(owner[BB(k)]) = BB(k)
  BY DEF CoreInv, OwnerInv
<1>4. ASSUME NEW e \in Instr(d).external
      PROVE  OwnersWith(c)[e[1]] = LastOf(e[1], c)
  <2>1. Type(d) # "PHI"
    BY <1>1, <1>4, NodeEdges
  <2>2. e \in KernelInstr(d).uses /\ e[1] # BB(c) /\ RunsAfter(program, c, d[2], e)
    BY <1>1, <1>4, <2>1, NodeEdges
  <2>3. PICK j \in 1..(c - 1) : BB(j) = e[1]
    BY <2>2 DEF RunsAfter, BB
  <2> DEFINE l == LastOf(e[1], c)
             o == owner[e[1]]
  <2>4. /\ l \in 1..(c - 1) /\ BB(l) = e[1]
        /\ \A k \in 1..(c - 1) : BB(k) = e[1] => k <= l
    BY <1>1, <2>3, LastOfIs
  <2>5. c - 1 = created
    BY <1>1
  <2>6. o \in l..created /\ BB(o) = e[1]
    BY <1>3, <2>4, <2>5
  <2>7. o \in 1..(c - 1)
    BY <1>1, <2>4, <2>5, <2>6
  <2>8. o = l
    BY <1>1, <2>4, <2>6, <2>7
  <2>9. OwnersWith(c)[e[1]] = o
    <3>1. e[1] \in DOMAIN program.blocks
      <4>1. BB(j) \in DOMAIN program.kernel
        <5>1. j \in 1..TraceLength
          BY <1>1, <2>3, NodeShape
        <5> QED BY <1>1, <5>1, BlockShape
      <4>2. program.blocks = GraphOf(program.kernel)
        BY <1>1, ProgramFacts
      <4> QED BY <2>3, <4>1, <4>2 DEF GraphOf
    <3> QED BY <1>3, <2>2, <3>1 DEF OwnersWith
  <2> QED BY <2>8, <2>9
<1>5. {<<OwnersWith(c)[e[1]], e[2]>> : e \in Instr(d).external} = Far(d)
  BY <1>1, <1>4 DEF Far
<1> QED BY <1>2, <1>5 DEF WaitedFor

LEMMA ParentsOfBlock ==
  ASSUME program \in Programs, NEW d \in Nodes, Type(d) # "PHI"
  PROVE  Cardinality(Instr(d).parents) = Cardinality(Near(d))
<1> DEFINE P == Instr(d).parents
           N == InBlock(d)
           f == [e \in N |-> e[2]]
<1>1. Near(d) = N
  BY DEF Near
<1>2. IsFiniteSet(N)
  BY <1>1, NearAndFar, NodeShape, FS_Subset
<1>3. \A e \in N : \E i \in P : e = <<d[1], i>>
  BY DEF InBlock
<1>4. \A i \in P : <<d[1], i>> \in N
  BY DEF InBlock
<1>5. \A e \in N : f[e] = e[2]
  OBVIOUS
<1>6. f \in [N -> P]
  BY <1>3
<1> HIDE DEF f, N, P
<1>7. \A e, g \in N : f[e] = f[g] => e = g
  <2> TAKE e, g \in N
  <2>1. PICK i \in P : e = <<d[1], i>>
    BY <1>3
  <2>2. PICK j \in P : g = <<d[1], j>>
    BY <1>3
  <2> QED BY <1>5, <2>1, <2>2
<1>8. \A i \in P : \E e \in N : f[e] = i
  <2> TAKE i \in P
  <2>1. f[<<d[1], i>>] = i
    BY <1>4, <1>5
  <2> QED BY <1>4, <2>1
<1>9. f \in Bijection(N, P)
  BY <1>6, <1>7, <1>8, Fun_IsBij
<1>10. Cardinality(P) = Cardinality(N)
  BY <1>2, <1>9, FS_Bijection DEF ExistsBijection
<1> QED BY <1>1, <1>10 DEF P

\* The counts a context starts with are exact.
LEMMA NewCounts ==
  ASSUME CoreInv, NEW c, c = created + 1, c <= TraceLength, NEW d \in NodesOf(c)
  PROVE  /\ Held(d) => /\ LeftOf(c, d) = Missing(Near(d), completed)
                       /\ LeftExtOf(c, d) = Missing(Far(d), completed)
         /\ ~Held(d) => LeftOf(c, d) = 0 /\ LeftExtOf(c, d) = 0
         /\ IsFiniteSet(Near(d)) /\ IsFiniteSet(Far(d))
         /\ LeftOf(c, d) \in Int /\ LeftExtOf(c, d) \in Int
<1>1. program \in Programs /\ d \in Nodes /\ d[1] = c /\ c \in 1..TraceLength
  BY NewNodes
<1>2. WaitedFor(c, d) = Far(d) \ completed /\ MergedAt(c, d) = Merged(d)
  BY OwnersAreLast
<1>3. Near(d) \in SUBSET Nodes /\ Far(d) \in SUBSET Nodes
      /\ (Type(d) # "PHI" => \A e \in Near(d) : e[1] = c)
      /\ (Type(d) = "PHI" => \A e, f \in Near(d) : e = f)
  BY <1>1, NearAndFar
<1>4. IsFiniteSet(Near(d)) /\ IsFiniteSet(Far(d))
  <2>1. IsFiniteSet(Nodes)
    BY <1>1, NodeShape, FS_Subset
  <2> QED BY <1>3, <2>1, FS_Subset
<1>5. Missing(Near(d), completed) \in Nat /\ Missing(Far(d), completed) \in Nat
  BY <1>4, MissingType
<1>6. ASSUME Held(d)
      PROVE  LeftOf(c, d) = Missing(Near(d), completed) /\ LeftExtOf(c, d) = Missing(Far(d), completed)
  <2>1. ~(Type(d) = "TERMINATOR" /\ config.allAtOnce)
    BY <1>6 DEF Held
  <2>2. LeftExtOf(c, d) = Missing(Far(d), completed)
    BY <1>2, <2>1 DEF LeftExtOf, Missing
  <2>3. CASE Type(d) # "PHI"
    <3>1. LeftOf(c, d) = Cardinality(Near(d))
      BY <1>1, <2>1, <2>3, ParentsOfBlock DEF LeftOf
    <3>2. Near(d) \ completed = Near(d)
      <4>1. \A e \in completed : e[1] <= created /\ created \in Nat
        BY NewNodes, CreatedFacts, NodeShape DEF CoreInv, PlaceInv
      <4> QED BY <1>3, <2>3, <4>1
    <3> QED BY <2>2, <3>1, <3>2 DEF Missing
  <2>4. CASE Type(d) = "PHI" /\ Near(d) = {}
    <3>1. Near(d) = Merged(d)
      BY <2>4 DEF Near
    <3>2. LeftOf(c, d) = 0
      BY <1>2, <2>1, <2>4, <3>1 DEF LeftOf
    <3>3. Near(d) \ completed = {}
      BY <2>4
    <3> QED BY <2>2, <3>2, <3>3, FS_EmptySet DEF Missing
  <2>5. CASE Type(d) = "PHI" /\ Near(d) # {}
    <3>1. Near(d) = Merged(d)
      BY <2>5 DEF Near
    <3>2. LeftOf(c, d) = 1 - Cardinality(Near(d) \cap completed)
      BY <1>2, <2>1, <2>5, <3>1 DEF LeftOf
    <3>3. PICK e \in Near(d) : Near(d) = {e}
      BY <1>3, <2>5
    <3>4. CASE e \in completed
      <4>1. Near(d) \cap completed = {e} /\ Near(d) \ completed = {}
        BY <3>3, <3>4
      <4>2. Cardinality(Near(d) \cap completed) = 1 /\ Cardinality(Near(d) \ completed) = 0
        BY <4>1, FS_EmptySet, FS_Singleton
      <4> QED BY <2>2, <3>2, <4>2 DEF Missing
    <3>5. CASE e \notin completed
      <4>1. Near(d) \cap completed = {} /\ Near(d) \ completed = {e}
        BY <3>3, <3>5
      <4>2. Cardinality(Near(d) \cap completed) = 0 /\ Cardinality(Near(d) \ completed) = 1
        BY <4>1, FS_EmptySet, FS_Singleton
      <4> QED BY <2>2, <3>2, <4>2 DEF Missing
    <3> QED BY <3>4, <3>5
  <2> QED BY <2>3, <2>4, <2>5
<1>7. ~Held(d) => LeftOf(c, d) = 0 /\ LeftExtOf(c, d) = 0
  BY DEF Held, LeftOf, LeftExtOf
<1> QED BY <1>4, <1>5, <1>6, <1>7

LEMMA CreateContexts ==
  ASSUME CoreInv, NEW c, c = created + 1, c <= TraceLength,
         Fixed, created' = c, toCreate > 0, toCreate' = toCreate - 1, completed' = completed
  PROVE  ContextInv'
<1>1. program \in Programs /\ config \in Configs /\ created \in 0..TraceLength /\ toCreate \in 0..1
      /\ c \in 1..TraceLength /\ created \in Nat
  BY NewNodes, NodeShape DEF CoreInv, ContextInv
<1>2. toCreate = 1 /\ toCreate' = 0
  BY <1>1
<1>3. Terminator(c) \notin completed
  <2>1. Terminator(c) \in NodesOf(c)
    <3>1. Len(Block(c)) \in 1..Len(Block(c))
      BY <1>1, BlockShape
    <3> QED BY <1>1, <3>1, NodeShape DEF Terminator
  <2> QED BY <2>1, NewNodes
<1>4. ~config.allAtOnce => \A k \in 1..(c - 1) : Terminator(k) \in completed
  <2> SUFFICES ASSUME ~config.allAtOnce, NEW k \in 1..(c - 1) PROVE Terminator(k) \in completed
    OBVIOUS
  <2>1. (created = 0 \/ Terminator(created) \in completed)
        /\ \A i \in 1..(created - 1) : Terminator(i) \in completed
    BY <1>2 DEF CoreInv, ContextInv
  <2>2. k = created \/ k \in 1..(created - 1)
    BY <1>1
  <2> QED BY <1>1, <2>1, <2>2
<1>5. \A k : Terminator(k)' = Terminator(k)
  BY FixedNodes
<1>6. TraceLength' = TraceLength /\ Terminator(created)' = Terminator(c)
  BY FixedProgram DEF Terminator
<1>7. program' \in Programs /\ config' \in Configs /\ created' \in 0..TraceLength /\ toCreate' \in 0..1
  BY <1>1, <1>2 DEF Fixed
<1> QED BY <1>1, <1>2, <1>3, <1>4, <1>5, <1>6, <1>7 DEF ContextInv, Fixed

LEMMA CreatePlaces ==
  ASSUME CoreInv, NEW c, c = created + 1, c <= TraceLength, Fixed, created' = c,
         issueSet' = issueSet \cup Starts(c),
         issued' = issued, completed' = completed, toVisit' = toVisit,
         pq' = pq, atMemory' = atMemory, speculatedSet' = speculatedSet,
         speculated' = speculated, outstanding' = outstanding
  PROVE  PlaceInv'
<1>1. CreatedNodes' = CreatedNodes \cup NodesOf(c)
  BY MoreCreated
<1>2. Starts(c) \subseteq NodesOf(c) /\ \A d \in NodesOf(c) : d \notin issued
  BY NewNodes DEF Starts, Activated
<1>3. NoNodes' = NoNodes
  BY DEF NoNodes, NodeIds
<1> QED BY <1>1, <1>2, <1>3 DEF CoreInv, PlaceInv

LEMMA CreateWindow ==
  ASSUME CoreInv, NEW c, c = created + 1, c <= TraceLength, Fixed, created' = c,
         completed' = completed, windowStart' = windowStart, windowEnd' = windowEnd
  PROVE  WindowInv'
<1>1. CreatedNodes' = CreatedNodes \cup NodesOf(c)
  BY MoreCreated
<1>2. \A d : LeftRob(d)' <=> LeftRob(d)
  BY FixedProgram DEF LeftRob
<1>3. \A d \in NodesOf(c) : ~LeftRob(d)
  BY NewNodes
<1>4. Cardinality(CreatedNodes) <= Cardinality(CreatedNodes')
      /\ Cardinality(CreatedNodes) \in Nat /\ Cardinality(CreatedNodes') \in Nat
  <2>1. IsFiniteSet(CreatedNodes') /\ CreatedNodes \in SUBSET CreatedNodes'
    <3>1. IsFiniteSet(NodeIds) /\ CreatedNodes' \in SUBSET NodeIds
      BY <1>1, NewNodes, NodeShape
    <3> QED BY <1>1, <3>1, FS_Subset
  <2> QED BY <2>1, FS_Subset, FS_CardinalityType
<1>5. windowStart' \in 0..Cardinality(CreatedNodes')
  BY <1>4 DEF CoreInv, WindowInv
<1>6. /\ windowEnd' \in 0..(LastPosition + Max({config.window, 0}))
      /\ config.window = 1 => windowEnd' = windowStart'
  BY DEF CoreInv, WindowInv
<1>7. \A d \in CreatedNodes' : LeftRob(d) => d \in completed
  BY <1>1, <1>3 DEF CoreInv, WindowInv
<1>8. /\ windowEnd' \in 0..(LastPosition' + Max({config'.window, 0}))
      /\ config'.window = 1 => windowEnd' = windowStart'
  BY <1>6 DEF Fixed, LastPosition
<1> QED BY <1>2, <1>5, <1>7, <1>8 DEF WindowInv

\* One queue: what goes has left the window, what comes is younger.
Enters(c, types) == IF Bypassed THEN {} ELSE Of(c, types)
Admits(c, q, types, k, r) ==
  /\ r \in Seq(NodeIds) /\ Ordered(r)
  /\ Len(r) = Len(q) - k + Cardinality(Enters(c, types))
  /\ ToSet(r) \subseteq Accesses(types) \cup Enters(c, types) /\ Enters(c, types) \subseteq ToSet(r)
  /\ \A d \in Accesses(types) \ ToSet(r) : LeftRob(d) /\ \A e \in ToSet(r) : Older(d, e)

LEMMA AdmitAccesses ==
  ASSUME CoreInv, NEW c, c = created + 1, c <= TraceLength,
         NEW q, NEW types, HoldsAccesses(q, types), NEW k \in Nat, MayGo(q, k),
         NEW r, r = Without(q, k) \o MemoryNodes(c, types)
  PROVE  Admits(c, q, types, k, r)
<1> DEFINE new == Enters(c, types)
           m == MemoryNodes(c, types)
           w == Without(q, k)
<1>1. /\ program \in Programs /\ created \in 0..TraceLength /\ c \in 1..TraceLength
      /\ \A d \in NodesOf(c) : \A e \in CreatedNodes : Older(e, d)
  BY NewNodes
<1>2. /\ q \in Seq(NodeIds) /\ Ordered(q) /\ ToSet(q) \subseteq Accesses(types)
      /\ \A d \in Accesses(types) \ ToSet(q) : LeftRob(d) /\ \A e \in ToSet(q) : Older(d, e)
  BY DEF HoldsAccesses
<1>3. k \in 0..Len(q) /\ \A i \in 1..k : LeftRob(q[i])
  BY DEF MayGo
<1>4. /\ w \in Seq(NodeIds) /\ Ordered(w) /\ Len(w) = Len(q) - k /\ ToSet(w) \subseteq ToSet(q)
      /\ \A d \in ToSet(q) \ ToSet(w) :
           /\ \E i \in 1..k : d = q[i]
           /\ \A e \in ToSet(w) : Older(d, e)
  BY <1>2, <1>3, Drop
<1>5. m \in Seq(NodeIds) /\ Ordered(m) /\ Len(m) = Cardinality(new) /\ ToSet(m) = new
  <2>1. CASE Bypassed
    <3>1. m = <<>> /\ new = {}
      BY <2>1 DEF MemoryNodes, Enters
    <3>2. DOMAIN m = {} /\ Len(m) = 0 /\ m \in Seq(NodeIds)
      <4>1. m \in Seq(NodeIds) /\ Len(m) = 0
        BY <3>1, EmptySeq
      <4>2. DOMAIN m = 1..0
        BY <4>1, LenProperties
      <4> QED BY <4>1, <4>2
    <3>3. ToSet(m) = {}
      BY <3>2, MembersOf
    <3>4. Ordered(m)
      BY <3>2 DEF Ordered
    <3> QED BY <3>1, <3>2, <3>3, <3>4, FS_EmptySet
  <2>2. CASE ~Bypassed
    <3>1. new = Of(c, types)
      BY <2>2 DEF Enters
    <3> QED BY <1>1, <2>2, <3>1, MemoryNodesFacts
  <2> QED BY <2>1, <2>2
<1>6. new \subseteq NodesOf(c) /\ Accesses(types) \subseteq CreatedNodes
  BY DEF Of, Accesses, Enters
<1>7. \A d \in Accesses(types), e \in new : Older(d, e)
  BY <1>1, <1>6
<1> HIDE DEF w, m, new
<1>8. \A d \in ToSet(w), e \in ToSet(m) : Older(d, e)
  BY <1>2, <1>4, <1>5, <1>7
<1>9. w \o m \in Seq(NodeIds) /\ Ordered(w \o m) /\ Len(w \o m) = Len(w) + Len(m)
      /\ ToSet(w \o m) = ToSet(w) \cup ToSet(m)
  BY <1>4, <1>5, <1>8, Join
<1>10. r = w \o m
  BY DEF w, m
<1>11. ASSUME NEW d \in Accesses(types), d \notin ToSet(w)
       PROVE  LeftRob(d) /\ \A e \in ToSet(w) : Older(d, e)
  <2>1. CASE d \in ToSet(q)
    BY <1>3, <1>4, <1>11, <2>1
  <2>2. CASE d \notin ToSet(q)
    BY <1>2, <1>4, <1>11, <2>2
  <2> QED BY <2>1, <2>2
<1>12. ToSet(r) = ToSet(w) \cup new
  BY <1>5, <1>9, <1>10
<1>13. \A d \in Accesses(types) \ ToSet(r) : LeftRob(d) /\ \A e \in ToSet(r) : Older(d, e)
  BY <1>7, <1>11, <1>12
<1>14. Len(r) = Len(q) - k + Cardinality(new)
  BY <1>4, <1>5, <1>9, <1>10
<1>15. ToSet(r) \subseteq Accesses(types) \cup new /\ new \subseteq ToSet(r)
  BY <1>2, <1>4, <1>12
<1>16. r \in Seq(NodeIds) /\ Ordered(r)
  BY <1>9, <1>10
<1> QED BY <1>5, <1>13, <1>14, <1>15, <1>16 DEF m, new, Admits

LEMMA MaxOfTwo ==
  ASSUME NEW a \in Int, NEW b \in Int
  PROVE  Max({a, b}) \in {a, b} /\ Max({a, b}) >= a /\ Max({a, b}) >= b
<1>1. \E x \in {a, b} : \A y \in {a, b} : x >= y
  <2>1. CASE a >= b
    BY <2>1
  <2>2. CASE b >= a
    BY <2>2
  <2> QED BY <2>1, <2>2
<1> QED BY <1>1 DEF Max

LEMMA MinOfTwo ==
  ASSUME NEW a \in Int, NEW b \in Int
  PROVE  Min({a, b}) \in {a, b} /\ Min({a, b}) <= a /\ Min({a, b}) <= b
<1>1. \E x \in {a, b} : \A y \in {a, b} : x <= y
  <2>1. CASE a <= b
    BY <2>1
  <2>2. CASE b <= a
    BY <2>2
  <2> QED BY <2>1, <2>2
<1> QED BY <1>1 DEF Min

\* What must go makes room for what comes.
LEMMA NeedFacts ==
  ASSUME config \in Configs, NEW q \in Seq(NodeIds), NEW n \in Nat
  PROVE  /\ Need(q, n) \in Nat /\ Len(q) \in Nat
         /\ config.lsq # -1 => Len(q) - Need(q, n) + n <= config.lsq
<1>1. Len(q) \in Nat
  BY LenProperties
<1>2. config.lsq \in Int
  BY ConfigFacts
<1>3. CASE config.lsq = -1
  BY <1>1, <1>3 DEF Need
<1>4. CASE config.lsq # -1
  <2> DEFINE x == Len(q) + n - config.lsq
  <2>1. x \in Int
    BY <1>1, <1>2
  <2>2. Need(q, n) = Max({0, x})
    BY <1>4 DEF Need
  <2> HIDE DEF x
  <2>3. Max({0, x}) \in {0, x} /\ Max({0, x}) >= 0 /\ Max({0, x}) >= x
    <3>1. 0 \in Int
      OBVIOUS
    <3> QED BY <2>1, <3>1, MaxOfTwo, Zenon
  <2>4. Need(q, n) \in Int /\ Need(q, n) >= 0 /\ Need(q, n) >= x
    BY <2>1, <2>2, <2>3
  <2> QED BY <1>1, <1>2, <2>4 DEF x
<1> QED BY <1>3, <1>4

LEMMA CreateQueues ==
  ASSUME CoreInv, NEW c, c = created + 1, c <= TraceLength, Fixed, created' = c,
         CheckSize(c), windowStart' = windowStart,
         lq' = Without(lq, LdNeed(c)) \o MemoryNodes(c, {"LD"}),
         sq' = Without(sq, StNeed(c)) \o MemoryNodes(c, StoreTypes)
  PROVE  QueueInv'
<1>1. program \in Programs /\ c \in 1..TraceLength /\ config \in Configs /\ created \in Nat
  BY NewNodes, NodeShape DEF CoreInv, ContextInv
<1>2. HoldsAccesses(lq, {"LD"}) /\ HoldsAccesses(sq, StoreTypes)
      /\ lq \in Seq(NodeIds) /\ sq \in Seq(NodeIds)
      /\ (config.lsq # -1 => Len(lq) <= config.lsq /\ Len(sq) <= config.lsq + Atomic(created))
  BY DEF CoreInv, QueueInv, HoldsAccesses
<1> DEFINE l == CountOf(c, "LD")
           s == CountOf(c, "ST")
           a == CountOf(c, "ATOMIC")
<1>3. l \in Nat /\ s \in Nat /\ a \in Nat
      /\ Cardinality(Of(c, {"LD"})) = l /\ Cardinality(Of(c, StoreTypes)) = s + a
  BY <1>1, CountOfFacts, StoresOf DEF StoreTypes
<1>4. LdNeed(c) = Need(lq, l) /\ StNeed(c) = Need(sq, s)
  BY DEF LdNeed, StNeed
<1>5. MayGo(lq, LdNeed(c)) /\ MayGo(sq, StNeed(c))
  BY DEF CheckSize
<1> HIDE DEF l, s, a
<1>6. LdNeed(c) \in Nat /\ Len(lq) \in Nat /\ (config.lsq # -1 => Len(lq) - LdNeed(c) + l <= config.lsq)
  BY <1>1, <1>2, <1>3, <1>4, NeedFacts
<1>7. StNeed(c) \in Nat /\ Len(sq) \in Nat /\ (config.lsq # -1 => Len(sq) - StNeed(c) + s <= config.lsq)
  BY <1>1, <1>2, <1>3, <1>4, NeedFacts
<1>8. Admits(c, lq, {"LD"}, LdNeed(c), lq')
  BY <1>2, <1>5, <1>6, AdmitAccesses
<1>9. Admits(c, sq, StoreTypes, StNeed(c), sq')
  BY <1>2, <1>5, <1>7, AdmitAccesses
<1>10. /\ lq' \in Seq(NodeIds) /\ Ordered(lq')
      /\ Len(lq') = Len(lq) - LdNeed(c) + Cardinality(Enters(c, {"LD"}))
      /\ ToSet(lq') \subseteq Accesses({"LD"}) \cup Enters(c, {"LD"}) /\ Enters(c, {"LD"}) \subseteq ToSet(lq')
      /\ \A d \in Accesses({"LD"}) \ ToSet(lq') : LeftRob(d) /\ \A e \in ToSet(lq') : Older(d, e)
  BY <1>8 DEF Admits
<1>11. /\ sq' \in Seq(NodeIds) /\ Ordered(sq')
      /\ Len(sq') = Len(sq) - StNeed(c) + Cardinality(Enters(c, StoreTypes))
      /\ ToSet(sq') \subseteq Accesses(StoreTypes) \cup Enters(c, StoreTypes)
      /\ Enters(c, StoreTypes) \subseteq ToSet(sq')
      /\ \A d \in Accesses(StoreTypes) \ ToSet(sq') : LeftRob(d) /\ \A e \in ToSet(sq') : Older(d, e)
  BY <1>9 DEF Admits
<1>12. \A types : Accesses(types)' = Accesses(types) \cup Enters(c, types)
  <2> TAKE types
  <2>1. CreatedNodes' = CreatedNodes \cup NodesOf(c)
    BY MoreCreated
  <2>2. (Bypassed' <=> Bypassed) /\ \A d : Type(d)' = Type(d)
    BY FixedNodes, FixedProgram
  <2>3. Accesses(types)' = IF Bypassed THEN {} ELSE {d \in CreatedNodes \cup NodesOf(c) : Type(d) \in types}
    BY <2>1, <2>2 DEF Accesses
  <2> QED BY <2>3 DEF Accesses, Enters, Of
<1>13. \A d : LeftRob(d)' <=> LeftRob(d)
  BY FixedProgram DEF LeftRob
<1>14. HoldsAccesses(lq, {"LD"})'
  <2>1. ToSet(lq') \subseteq Accesses({"LD"})'
    BY <1>10, <1>12
  <2>2. \A d \in Accesses({"LD"})' \ ToSet(lq') : LeftRob(d)' /\ \A e \in ToSet(lq') : Older(d, e)
    BY <1>10, <1>12, <1>13
  <2>3. NodeIds' = NodeIds
    BY DEF NodeIds
  <2> QED BY <1>10, <2>1, <2>2, <2>3 DEF HoldsAccesses
<1>15. HoldsAccesses(sq, StoreTypes)'
  <2>1. ToSet(sq') \subseteq Accesses(StoreTypes)'
    BY <1>11, <1>12
  <2>2. \A d \in Accesses(StoreTypes)' \ ToSet(sq') : LeftRob(d)' /\ \A e \in ToSet(sq') : Older(d, e)
    BY <1>11, <1>12, <1>13
  <2>3. NodeIds' = NodeIds
    BY DEF NodeIds
  <2> QED BY <1>11, <2>1, <2>2, <2>3 DEF HoldsAccesses
<1>16. config.lsq # -1 => Len(lq') <= config.lsq /\ Len(sq') <= config.lsq + a
  <2>1. Cardinality(Enters(c, {"LD"})) \in 0..l /\ Cardinality(Enters(c, StoreTypes)) \in 0..(s + a)
    <3>1. CASE Bypassed
      <4>1. Cardinality(Enters(c, {"LD"})) = 0 /\ Cardinality(Enters(c, StoreTypes)) = 0
        BY <3>1, FS_EmptySet DEF Enters
      <4> QED BY <1>3, <4>1
    <3>2. CASE ~Bypassed
      <4>1. Cardinality(Enters(c, {"LD"})) = l /\ Cardinality(Enters(c, StoreTypes)) = s + a
        BY <1>3, <3>2 DEF Enters
      <4> QED BY <1>3, <4>1
    <3> QED BY <3>1, <3>2
  <2>2. config.lsq \in Int
    BY <1>1, ConfigFacts
  <2>3. Len(lq') = Len(lq) - LdNeed(c) + Cardinality(Enters(c, {"LD"}))
        /\ Len(sq') = Len(sq) - StNeed(c) + Cardinality(Enters(c, StoreTypes))
    BY <1>10, <1>11
  <2> DEFINE x == Len(lq) - LdNeed(c)
             y == Len(sq) - StNeed(c)
             m == Cardinality(Enters(c, {"LD"}))
             n == Cardinality(Enters(c, StoreTypes))
  <2>4. x \in Int /\ y \in Int
    BY <1>6, <1>7
  <2>5. config.lsq # -1 => x + l <= config.lsq /\ y + s <= config.lsq
    BY <1>6, <1>7
  <2>6. m \in 0..l /\ n \in 0..(s + a) /\ Len(lq') = x + m /\ Len(sq') = y + n
    BY <2>1, <2>3
  <2> HIDE DEF x, y, m, n
  <2> QED BY <1>3, <2>2, <2>4, <2>5, <2>6
<1>17. Atomic(created)' = a
  <2>1. Atomic(created)' = CountOf(c, "ATOMIC")'
    BY <1>1 DEF Atomic
  <2> QED BY <2>1, FixedNodes DEF a
<1> QED BY <1>14, <1>15, <1>16, <1>17 DEF QueueInv, Fixed

LEMMA EntersFacts ==
  ASSUME program \in Programs, NEW c \in 1..TraceLength, NEW types
  PROVE  ToSet(MemoryNodes(c, types)) = Enters(c, types)
<1>1. CASE Bypassed
  <2>1. MemoryNodes(c, types) = <<>> /\ Enters(c, types) = {}
    BY <1>1 DEF MemoryNodes, Enters
  <2>2. <<>> \in Seq(NodeIds) /\ Len(<<>>) = 0
    BY EmptySeq
  <2>3. DOMAIN MemoryNodes(c, types) = {}
    <3>1. DOMAIN MemoryNodes(c, types) = 1..0
      BY <2>1, <2>2, LenProperties
    <3> QED BY <3>1
  <2> QED BY <2>1, <2>3, MembersOf
<1>2. CASE ~Bypassed
  BY <1>2, MemoryNodesFacts DEF Enters
<1> QED BY <1>1, <1>2

LEMMA CreateUnresolved ==
  ASSUME CoreInv, NEW c, c = created + 1, c <= TraceLength, Fixed, created' = c,
         issued' = issued, issueSet' = issueSet \cup Starts(c),
         unresolvedLd' = unresolvedLd \cup (ToSet(MemoryNodes(c, {"LD"})) \ {d \in Starts(c) : IsMem(d)}),
         unresolvedSt' = unresolvedSt \cup (ToSet(MemoryNodes(c, StoreTypes)) \ {d \in Starts(c) : IsMem(d)})
  PROVE  UnresolvedInv'
<1>1. program \in Programs /\ c \in 1..TraceLength
  BY NewNodes
<1>2. CreatedNodes' = CreatedNodes \cup NodesOf(c) /\ NodesOf(c) \cap CreatedNodes = {}
  BY NewNodes, MoreCreated
<1>3. Starts(c) \subseteq NodesOf(c)
  BY DEF Starts, Activated
<1>4. \A types : Accesses(types)' = Accesses(types) \cup Enters(c, types)
  <2> TAKE types
  <2>1. (Bypassed' <=> Bypassed) /\ \A d : Type(d)' = Type(d)
    BY FixedNodes, FixedProgram
  <2>2. Accesses(types)' = IF Bypassed THEN {} ELSE {d \in CreatedNodes \cup NodesOf(c) : Type(d) \in types}
    BY <1>2, <2>1 DEF Accesses
  <2> QED BY <2>2 DEF Accesses, Enters, Of
<1>5. \A d \in NodesOf(c) : d \notin issued /\ d \notin issueSet /\ (Type(d) \in Mem => IsMem(d))
  BY <1>1, NewNodes, NodeKinds
<1>6. \A types : Enters(c, types) \subseteq NodesOf(c) /\ Accesses(types) \subseteq CreatedNodes
                 /\ \A d \in Enters(c, types) : Type(d) \in types
  BY DEF Enters, Of, Accesses
<1>7. ToSet(MemoryNodes(c, {"LD"})) = Enters(c, {"LD"})
      /\ ToSet(MemoryNodes(c, StoreTypes)) = Enters(c, StoreTypes)
  BY <1>1, EntersFacts
<1>8. unresolvedLd \subseteq Accesses({"LD"}) \ (issued \cup issueSet)
      /\ unresolvedSt \subseteq Accesses(StoreTypes) \ (issued \cup issueSet)
  BY DEF CoreInv, UnresolvedInv
<1>9. ASSUME NEW d \in unresolvedLd'
      PROVE  d \in Accesses({"LD"})' /\ d \notin issued /\ d \notin issueSet'
  <2>1. CASE d \in unresolvedLd
    BY <1>2, <1>3, <1>4, <1>6, <1>8, <2>1
  <2>2. CASE d \in Enters(c, {"LD"}) /\ ~(d \in Starts(c) /\ IsMem(d))
    <3>1. d \in NodesOf(c) /\ Type(d) \in Mem
      BY <1>6, <2>2 DEF Mem
    <3> QED BY <1>4, <1>5, <2>2, <3>1
  <2> QED BY <1>7, <2>1, <2>2
<1>10. ASSUME NEW d \in unresolvedSt'
       PROVE  d \in Accesses(StoreTypes)' /\ d \notin issued /\ d \notin issueSet'
  <2>1. CASE d \in unresolvedSt
    BY <1>2, <1>3, <1>4, <1>6, <1>8, <2>1
  <2>2. CASE d \in Enters(c, StoreTypes) /\ ~(d \in Starts(c) /\ IsMem(d))
    <3>1. d \in NodesOf(c) /\ Type(d) \in Mem
      BY <1>6, <2>2 DEF Mem, StoreTypes
    <3> QED BY <1>4, <1>5, <2>2, <3>1
  <2> QED BY <1>7, <2>1, <2>2
<1> QED BY <1>9, <1>10 DEF UnresolvedInv

LEMMA CreateOrders ==
  ASSUME CoreInv, NEW c, c = created + 1, c <= TraceLength, Fixed, created' = c,
         issued' = issued, completed' = completed, atMemory' = atMemory
  PROVE  StoreOrder' /\ LoadOrder'
<1>1. CreatedNodes' = CreatedNodes \cup NodesOf(c)
  BY MoreCreated
<1>2. atMemory \subseteq issued /\ issued \subseteq CreatedNodes
  BY DEF CoreInv, PlaceInv
<1>3. \A e \in issued : \A d \in NodesOf(c) : ~Older(d, e)
  BY <1>2, NewNodes, OlderOrder
<1>4. \A e \in issued : \A d \in CreatedNodes' : Older(d, e) => d \in CreatedNodes
  BY <1>1, <1>3
<1>5. \A d, e : SameLocation(d, e)' <=> SameLocation(d, e)
  BY FixedNodes
<1>6. \A d, e : SameLocation(d, e) => Older(d, e)
  BY DEF SameLocation
<1>7. \A d : Type(d)' = Type(d)
  BY FixedProgram
<1>8. StoreOrder'
  BY <1>4, <1>5, <1>6, <1>7 DEF CoreInv, StoreOrder
<1>9. LoadOrder'
  BY <1>2, <1>4, <1>5, <1>6, <1>7 DEF CoreInv, LoadOrder, Fixed
<1> QED BY <1>8, <1>9

LEMMA CreateParents ==
  ASSUME CoreInv, NEW c, c = created + 1, c <= TraceLength, Fixed, created' = c,
         completed' = completed,
         pending' = [d \in NodeIds |-> IF d \in NodesOf(c) THEN LeftOf(c, d) ELSE pending[d]],
         pendingExt' = [d \in NodeIds |-> IF d \in NodesOf(c) THEN LeftExtOf(c, d) ELSE pendingExt[d]],
         extDependents' = [e \in NodeIds |->
           extDependents[e] \cup {d \in NodesOf(c) : e \in WaitedFor(c, d)}]
  PROVE  ParentInv'
<1>1. CreatedNodes' = CreatedNodes \cup NodesOf(c) /\ NodesOf(c) \cap CreatedNodes = {}
      /\ CreatedNodes \subseteq NodeIds /\ NodesOf(c) \subseteq NodeIds
  BY MoreCreated, NewNodes
<1>2. \A d : Far(d)' = Far(d) /\ Near(d)' = Near(d) /\ (Held(d)' <=> Held(d))
  BY FixedNodes
<1>3. /\ pending \in [NodeIds -> Int] /\ pendingExt \in [NodeIds -> Int]
      /\ extDependents \in [NodeIds -> SUBSET NodeIds]
      /\ \A e, d \in NodeIds :
           d \in extDependents[e] <=> e \notin completed /\ d \in CreatedNodes /\ e \in Far(d)
      /\ \A d \in CreatedNodes : Held(d) =>
           /\ pending[d] = Missing(Near(d), completed)
           /\ pendingExt[d] = Missing(Far(d), completed)
  BY DEF CoreInv, ParentInv
<1>4. \A d \in NodesOf(c) : LeftOf(c, d) \in Int /\ LeftExtOf(c, d) \in Int
  BY NewCounts
<1>5. pending' \in [NodeIds -> Int] /\ pendingExt' \in [NodeIds -> Int]
  BY <1>3, <1>4
<1>6. extDependents' \in [NodeIds -> SUBSET NodeIds]
  <2>1. \A e \in NodeIds : extDependents[e] \cup {d \in NodesOf(c) : e \in WaitedFor(c, d)} \in SUBSET NodeIds
    BY <1>1, <1>3
  <2> QED BY <2>1
<1>7. ASSUME NEW e \in NodeIds, NEW d \in NodeIds
      PROVE  d \in extDependents'[e] <=> e \notin completed /\ d \in CreatedNodes' /\ e \in Far(d)
  <2>1. d \in extDependents'[e] <=> d \in extDependents[e] \/ (d \in NodesOf(c) /\ e \in WaitedFor(c, d))
    OBVIOUS
  <2>2. d \in NodesOf(c) => WaitedFor(c, d) = Far(d) \ completed
    BY OwnersAreLast
  <2>3. d \in extDependents[e] <=> e \notin completed /\ d \in CreatedNodes /\ e \in Far(d)
    BY <1>3
  <2> QED BY <1>1, <2>1, <2>2, <2>3
<1>8. ASSUME NEW d \in CreatedNodes', Held(d)
      PROVE  pending'[d] = Missing(Near(d), completed) /\ pendingExt'[d] = Missing(Far(d), completed)
  <2>1. CASE d \in NodesOf(c)
    <3>1. pending'[d] = LeftOf(c, d) /\ pendingExt'[d] = LeftExtOf(c, d)
      BY <1>1, <2>1
    <3>2. LeftOf(c, d) = Missing(Near(d), completed) /\ LeftExtOf(c, d) = Missing(Far(d), completed)
      BY <1>8, <2>1, NewCounts
    <3> QED BY <3>1, <3>2
  <2>2. CASE d \in CreatedNodes
    <3>1. pending'[d] = pending[d] /\ pendingExt'[d] = pendingExt[d]
      BY <1>1, <2>2
    <3> QED BY <1>3, <1>8, <2>2, <3>1
  <2> QED BY <1>1, <2>1, <2>2
<1>9. NodeIds' = NodeIds
  BY DEF NodeIds
<1>10. \A d : Missing(Near(d), completed)' = Missing(Near(d), completed)
              /\ Missing(Far(d), completed)' = Missing(Far(d), completed)
  BY <1>2 DEF Missing
<1> QED BY <1>2, <1>5, <1>6, <1>7, <1>8, <1>9, <1>10 DEF ParentInv

LEMMA CreateOwner ==
  ASSUME CoreInv, NEW c, c = created + 1, c <= TraceLength, Fixed, created' = c,
         owner' = OwnersWith(c)
  PROVE  OwnerInv'
<1>1. program \in Programs /\ c \in 1..TraceLength /\ created \in Nat /\ TraceLength \in Nat
  BY NewNodes, NodeShape
<1>2. BB(c) \in DOMAIN program.blocks
  <2>1. BB(c) \in DOMAIN program.kernel /\ program.blocks = GraphOf(program.kernel)
    BY <1>1, BlockShape, ProgramFacts
  <2> QED BY <2>1 DEF GraphOf
<1>3. owner \in [DOMAIN program.blocks -> Nat]
      /\ \A k \in 1..created : /\ owner[BB(k)] \in k..created
                               /\ BB(owner[BB(k)]) = BB(k)
  BY DEF CoreInv, OwnerInv
<1>4. owner' \in [DOMAIN program.blocks -> Nat] /\ owner'[BB(c)] = c
      /\ \A b \in DOMAIN program.blocks : b # BB(c) => owner'[b] = owner[b]
  BY <1>1, <1>2, <1>3 DEF OwnersWith
<1>5. ASSUME NEW k \in 1..c
      PROVE  owner'[BB(k)] \in k..c /\ BB(owner'[BB(k)]) = BB(k)
  <2>1. CASE BB(k) = BB(c)
    BY <1>1, <1>4, <2>1
  <2>2. CASE BB(k) # BB(c)
    <3>1. k \in 1..created
      BY <1>1, <2>2
    <3>2. BB(k) \in DOMAIN program.blocks
      <4>1. k \in 1..TraceLength
        BY <1>1
      <4>2. BB(k) \in DOMAIN program.kernel /\ program.blocks = GraphOf(program.kernel)
        BY <1>1, <4>1, BlockShape, ProgramFacts
      <4> QED BY <4>2 DEF GraphOf
    <3>3. owner'[BB(k)] = owner[BB(k)]
      BY <1>4, <2>2, <3>2
    <3>4. owner[BB(k)] \in k..created /\ BB(owner[BB(k)]) = BB(k)
      BY <1>3, <3>1
    <3> QED BY <1>1, <3>1, <3>3, <3>4
  <2> QED BY <2>1, <2>2
<1>6. \A k : BB(k)' = BB(k)
  BY FixedProgram
<1>7. \A k : BB(owner[BB(k)])' = BB(owner'[BB(k)])
  BY <1>6 DEF BB, Fixed
<1> QED BY <1>4, <1>5, <1>6, <1>7 DEF OwnerInv, Fixed

LEMMA CreateReady ==
  ASSUME CoreInv, NEW c, c = created + 1, c <= TraceLength, Fixed, created' = c,
         completed' = completed, issued' = issued, issueSet' = issueSet \cup Starts(c),
         mispredicted' = mispredicted \/ mispredicted' = mispredicted \cup {Terminator(c)},
         pending' = [d \in NodeIds |-> IF d \in NodesOf(c) THEN LeftOf(c, d) ELSE pending[d]],
         pendingExt' = [d \in NodeIds |-> IF d \in NodesOf(c) THEN LeftExtOf(c, d) ELSE pendingExt[d]]
  PROVE  ReadyInv'
<1>1. /\ CreatedNodes' = CreatedNodes \cup NodesOf(c) /\ NodesOf(c) \cap CreatedNodes = {}
      /\ NodesOf(c) \subseteq NodeIds /\ program \in Programs /\ c \in 1..TraceLength
  BY MoreCreated, NewNodes
<1>2. \A d : Uses(d)' = Uses(d) /\ (Held(d)' <=> Held(d))
  BY FixedNodes
<1>3. \A d : Predicted(d)' <=> Type(d) = "TERMINATOR" /\ (d \notin mispredicted' \/ config.allAtOnce)
  BY FixedProgram DEF Predicted, Fixed
<1>4. \A d \in CreatedNodes : Predicted(d)' <=> Predicted(d)
  <2>1. Terminator(c) \notin CreatedNodes
    <3>1. Len(Block(c)) \in 1..Len(Block(c))
      BY <1>1, BlockShape
    <3>2. Terminator(c) \in NodesOf(c)
      BY <1>1, <3>1, NodeShape DEF Terminator
    <3> QED BY <1>1, <3>2
  <2>2. \A d \in CreatedNodes : d \in mispredicted' <=> d \in mispredicted
    BY <2>1
  <2> QED BY <1>3, <2>2 DEF Predicted
<1>5. \A d : d \in Starts(c) <=>
        /\ d \in NodesOf(c)
        /\ pending'[d] > 0 \/ pendingExt'[d] > 0 =>
             ~MustWait(d, mispredicted') /\ Position(d) + BranchLookahead <= windowEnd
  BY DEF Starts, Activated
<1>6. ASSUME NEW d \in NodesOf(c)
      PROVE  /\ Held(d) => (~(pending'[d] > 0 \/ pendingExt'[d] > 0) <=> Uses(d) \subseteq completed)
             /\ ~Held(d) => ~(pending'[d] > 0 \/ pendingExt'[d] > 0)
  <2>1. pending'[d] = LeftOf(c, d) /\ pendingExt'[d] = LeftExtOf(c, d)
    BY <1>1
  <2>2. IsFiniteSet(Near(d)) /\ IsFiniteSet(Far(d))
    BY NewCounts
  <2>3. Uses(d) = Near(d) \cup Far(d)
    BY <1>1, NewNodes, NearAndFar
  <2>4. CASE ~Held(d)
    <3>1. LeftOf(c, d) = 0 /\ LeftExtOf(c, d) = 0
      BY <2>4, NewCounts
    <3> QED BY <2>1, <2>4, <3>1
  <2>5. CASE Held(d)
    <3>1. LeftOf(c, d) = Missing(Near(d), completed) /\ LeftExtOf(c, d) = Missing(Far(d), completed)
      BY <2>5, NewCounts
    <3>2. Missing(Near(d), completed) \in Nat /\ Missing(Far(d), completed) \in Nat
      BY <2>2, MissingType
    <3>3. Missing(Near(d), completed) = 0 <=> Near(d) \subseteq completed
      BY <2>2, NoneMissing
    <3>4. Missing(Far(d), completed) = 0 <=> Far(d) \subseteq completed
      BY <2>2, NoneMissing
    <3>5. ~(pending'[d] > 0) <=> Near(d) \subseteq completed
      BY <2>1, <3>1, <3>2, <3>3
    <3>6. ~(pendingExt'[d] > 0) <=> Far(d) \subseteq completed
      BY <2>1, <3>1, <3>2, <3>4
    <3> QED BY <2>3, <2>5, <3>5, <3>6
  <2> QED BY <2>4, <2>5
<1>7. ASSUME NEW d \in Starts(c) PROVE Uses(d) \subseteq completed \/ Predicted(d)'
  <2>1. d \in NodesOf(c)
    BY <1>5
  <2>2. CASE pending'[d] > 0 \/ pendingExt'[d] > 0
    BY <1>3, <1>5, <2>2 DEF MustWait
  <2>3. CASE ~(pending'[d] > 0 \/ pendingExt'[d] > 0) /\ Held(d)
    BY <1>6, <2>1, <2>3
  <2>4. CASE ~Held(d)
    BY <1>3, <2>4 DEF Held
  <2> QED BY <2>2, <2>3, <2>4
<1>8. ASSUME NEW d \in NodesOf(c), d \notin Starts(c)
      PROVE  Held(d) /\ ~(Uses(d) \subseteq completed)
  BY <1>5, <1>6, <1>8
<1>9. \A d \in issueSet \cup issued : d \in CreatedNodes
  BY DEF CoreInv, PlaceInv
<1>10. \A d \in issueSet' \cup issued' : Uses(d) \subseteq completed' \/ Predicted(d)'
  <2>1. \A d \in issueSet \cup issued : Uses(d) \subseteq completed \/ Predicted(d)
    BY DEF CoreInv, ReadyInv
  <2> QED BY <1>4, <1>7, <1>9, <2>1
<1>11. \A d \in CreatedNodes' \ (issueSet' \cup issued') : Held(d) /\ ~(Uses(d) \subseteq completed')
  <2>1. \A d \in CreatedNodes \ (issueSet \cup issued) : Held(d) /\ ~(Uses(d) \subseteq completed)
    BY DEF CoreInv, ReadyInv
  <2> QED BY <1>1, <1>8, <2>1
<1> QED BY <1>2, <1>10, <1>11 DEF ReadyInv

LEMMA CreateActive ==
  ASSUME CoreInv, NEW c, c = created + 1, c <= TraceLength, Fixed, created' = c,
         completed' = completed, MayStart(c),
         activeLeft' = IF config.active = -1 THEN activeLeft
                       ELSE [activeLeft EXCEPT ![BB(c)] = @ - 1]
  PROVE  ActiveInv'
<1>1. program \in Programs /\ c \in 1..TraceLength /\ created \in Nat /\ config \in Configs
  BY NewNodes, NodeShape DEF CoreInv, ContextInv
<1>2. BB(c) \in DOMAIN program.blocks
  <2>1. BB(c) \in DOMAIN program.kernel /\ program.blocks = GraphOf(program.kernel)
    BY <1>1, BlockShape, ProgramFacts
  <2> QED BY <2>1 DEF GraphOf
<1>3. ~(NodesOf(c) \subseteq completed)
  <2>1. Len(Block(c)) \in 1..Len(Block(c))
    BY <1>1, BlockShape
  <2>2. <<c, Len(Block(c))>> \in NodesOf(c)
    BY <1>1, <2>1, NodeShape
  <2> QED BY <2>2, NewNodes
<1>4. Live' = Live \cup {c} /\ c \notin Live
  <2>1. Live' = {k \in 1..c : ~(NodesOf(k) \subseteq completed)}
    BY FixedProgram DEF Live
  <2>2. 1..c = (1..created) \cup {c} /\ c \notin 1..created
    BY <1>1
  <2> QED BY <1>3, <2>1, <2>2 DEF Live
<1>5. \A b : LiveOf(b)' = IF b = BB(c) THEN LiveOf(b) \cup {c} ELSE LiveOf(b)
  <2> TAKE b
  <2>1. LiveOf(b)' = {k \in Live \cup {c} : BB(k) = b}
    BY <1>4, FixedProgram DEF LiveOf
  <2> QED BY <2>1 DEF LiveOf
<1>6. \A b : IsFiniteSet(LiveOf(b)) /\ Cardinality(LiveOf(b)) \in Nat
  <2> TAKE b
  <2>1. IsFiniteSet(1..created)
    BY <1>1, FS_Interval
  <2>2. LiveOf(b) \in SUBSET (1..created)
    BY DEF LiveOf, Live
  <2>3. IsFiniteSet(LiveOf(b))
    BY <2>1, <2>2, FS_Subset
  <2> QED BY <2>3, FS_CardinalityType
<1>7. Cardinality(LiveOf(BB(c))') = Cardinality(LiveOf(BB(c))) + 1
  <2>1. LiveOf(BB(c))' = LiveOf(BB(c)) \cup {c}
    <3>1. BB(c)' = BB(c)
      BY FixedProgram
    <3>2. LiveOf(BB(c))' = {k \in Live \cup {c} : BB(k) = BB(c)}
      BY <1>4, <3>1, FixedProgram DEF LiveOf
    <3> QED BY <3>2 DEF LiveOf
  <2>2. c \notin LiveOf(BB(c))
    BY <1>4 DEF LiveOf
  <2> QED BY <1>6, <2>1, <2>2, FS_AddElement
<1>8. activeLeft \in [DOMAIN program.blocks -> Int]
  BY DEF CoreInv, ActiveInv
<1>9. activeLeft' \in [DOMAIN program.blocks -> Int]
  <2>1. activeLeft[BB(c)] - 1 \in Int
    BY <1>2, <1>8
  <2>2. [activeLeft EXCEPT ![BB(c)] = @ - 1] \in [DOMAIN program.blocks -> Int]
    BY <1>8, <2>1
  <2> QED BY <1>8, <2>2
<1>10. ASSUME config.active # -1, NEW b \in DOMAIN program.blocks
       PROVE  activeLeft'[b] >= 0 /\ activeLeft'[b] = config.active - Cardinality(LiveOf(b)')
  <2>1. activeLeft[b] >= 0 /\ activeLeft[b] = config.active - Cardinality(LiveOf(b))
        /\ activeLeft[b] \in Int
    BY <1>8, <1>10 DEF CoreInv, ActiveInv
  <2>2. config.active \in Int
    BY <1>1, ConfigFacts
  <2>3. CASE b = BB(c)
    <3>1. activeLeft'[b] = activeLeft[b] - 1
      BY <1>8, <1>10, <2>3
    <3>2. activeLeft[b] > 0
      BY <1>10, <2>3 DEF MayStart
    <3>3. Cardinality(LiveOf(b)') = Cardinality(LiveOf(b)) + 1
      <4>1. LiveOf(b)' = LiveOf(b) \cup {c}
        BY <1>5, <2>3
      <4>2. c \notin LiveOf(b)
        BY <1>4 DEF LiveOf
      <4> QED BY <1>6, <4>1, <4>2, FS_AddElement
    <3>4. Cardinality(LiveOf(b)) \in Nat
      BY <1>6
    <3> QED BY <2>1, <2>2, <3>1, <3>2, <3>3, <3>4
  <2>4. CASE b # BB(c)
    <3>1. activeLeft'[b] = activeLeft[b]
      BY <1>8, <1>10, <2>4
    <3>2. LiveOf(b)' = LiveOf(b)
      BY <1>5, <2>4
    <3> QED BY <2>1, <3>1, <3>2
  <2> QED BY <2>3, <2>4
<1>11. DOMAIN program.blocks' = DOMAIN program.blocks
  BY DEF Fixed
<1> QED BY <1>9, <1>10, <1>11 DEF ActiveInv, Fixed

-----------------------------------------------------------------------------
(* The predictor.                                                          *)

LEMMA PowerOfTwo ==
  ASSUME NEW n \in Nat
  PROVE  2^n \in Nat \ {0}
<1>1. IsFiniteSet(1..n) /\ Cardinality(1..n) = n
  BY FS_Interval
<1>2. IsFiniteSet(SUBSET (1..n)) /\ Cardinality(SUBSET (1..n)) = 2^n
  BY <1>1, FS_SUBSET
<1>3. Cardinality(SUBSET (1..n)) \in Nat
  BY <1>2, FS_CardinalityType
<1>4. SUBSET (1..n) # {}
  OBVIOUS
<1>5. Cardinality(SUBSET (1..n)) # 0
  BY <1>2, <1>4, FS_EmptySet
<1> QED BY <1>2, <1>3, <1>5

LEMMA TrainedOK ==
  ASSUME NEW kind, NEW p, PredictorOK(p), NEW pc, NEW taken \in BOOLEAN
  PROVE  PredictorOK(Trained(kind, p, pc, taken))
<1>1. p.table \in [0..(BhtSize - 1) -> 0..3] /\ p.history \in 0..(2^HistoryBits - 1)
  BY DEF PredictorOK
<1>2. 2^HistoryBits \in Nat \ {0}
  BY PredictorAssumption, PowerOfTwo
<1>3. CASE kind \notin {"onebit", "twobit", "gshare"}
  BY <1>3 DEF Trained
<1>4. CASE kind \in {"onebit", "twobit", "gshare"}
  <2> DEFINE r == Row(kind, p, pc)
             up == Min({p.table[r] + 1, Ceiling(kind)})
             down == Max({p.table[r] - 1, 0})
             v == IF taken THEN up ELSE down
             t == [p.table EXCEPT ![r] = v]
             h == IF kind = "gshare" THEN (2 * p.history + (IF taken THEN 1 ELSE 0)) % 2^HistoryBits
                  ELSE p.history
  <2>1. Trained(kind, p, pc, taken) = [table |-> t, history |-> h]
    BY <1>4 DEF Trained
  <2>2. r \in 0..(BhtSize - 1) => v \in 0..3
    <3> SUFFICES ASSUME r \in 0..(BhtSize - 1) PROVE v \in 0..3
      OBVIOUS
    <3>1. p.table[r] \in 0..3
      BY <1>1
    <3> DEFINE x == p.table[r]
               y == Ceiling(kind)
    <3>2. y \in {1, 3}
      BY DEF Ceiling
    <3> HIDE DEF x, y, r
    <3>3. x \in 0..3 /\ x + 1 \in Int /\ x - 1 \in Int /\ y \in Int /\ 0 \in Int
      BY <3>1, <3>2 DEF x
    <3>4. Min({x + 1, y}) \in {x + 1, y} /\ Min({x + 1, y}) <= x + 1 /\ Min({x + 1, y}) <= y
      BY <3>3, MinOfTwo, Zenon
    <3>5. Max({x - 1, 0}) \in {x - 1, 0} /\ Max({x - 1, 0}) >= x - 1 /\ Max({x - 1, 0}) >= 0
      BY <3>3, MaxOfTwo, Zenon
    <3>6. Min({x + 1, y}) \in 0..3
      BY <3>2, <3>3, <3>4
    <3>7. Max({x - 1, 0}) \in 0..3
      BY <3>3, <3>5
    <3> QED BY <3>6, <3>7 DEF x, y
  <2>3. t \in [0..(BhtSize - 1) -> 0..3]
    <3> HIDE DEF r, v
    <3> QED BY <1>1, <2>2
  <2>4. h \in 0..(2^HistoryBits - 1)
    <3> DEFINE n == 2^HistoryBits
    <3>1. n \in Nat \ {0} /\ p.history \in Nat
      BY <1>1, <1>2
    <3> HIDE DEF n
    <3>2. \A x \in Nat : x % n \in 0..(n - 1)
      BY <3>1
    <3>3. (2 * p.history + (IF taken THEN 1 ELSE 0)) \in Nat
      BY <3>1
    <3>4. p.history \in 0..(n - 1)
      BY <1>1 DEF n
    <3> QED BY <3>2, <3>3, <3>4 DEF n
  <2> HIDE DEF t, h
  <2> QED BY <2>1, <2>3, <2>4 DEF PredictorOK
<1> QED BY <1>3, <1>4

LEMMA CreateContextKeepsInv ==
  ASSUME CoreInv, CreateContext
  PROVE  CoreInv'
<1>1. PICK c : c = created + 1
  OBVIOUS
<1>2. /\ Fixed /\ created' = c /\ toCreate > 0 /\ c <= TraceLength
      /\ CheckSize(c) /\ MayStart(c)
      /\ toCreate' = toCreate - 1 /\ owner' = OwnersWith(c)
      /\ activeLeft' = IF config.active = -1 THEN activeLeft
                       ELSE [activeLeft EXCEPT ![BB(c)] = @ - 1]
      /\ lq' = Without(lq, LdNeed(c)) \o MemoryNodes(c, {"LD"})
      /\ sq' = Without(sq, StNeed(c)) \o MemoryNodes(c, StoreTypes)
      /\ pending' = [d \in NodeIds |-> IF d \in NodesOf(c) THEN LeftOf(c, d) ELSE pending[d]]
      /\ pendingExt' = [d \in NodeIds |-> IF d \in NodesOf(c) THEN LeftExtOf(c, d) ELSE pendingExt[d]]
      /\ extDependents' = [e \in NodeIds |->
           extDependents[e] \cup {d \in NodesOf(c) : e \in WaitedFor(c, d)}]
      /\ mispredicted' = mispredicted \/ mispredicted' = mispredicted \cup {Terminator(c)}
      /\ predictor' = IF Conditional(c) THEN Trained(config.predictor, predictor, BB(c), Taken(c))
                      ELSE predictor
      /\ issueSet' = issueSet \cup Starts(c)
      /\ unresolvedLd' = unresolvedLd \cup (ToSet(MemoryNodes(c, {"LD"})) \ {d \in Starts(c) : IsMem(d)})
      /\ unresolvedSt' = unresolvedSt \cup (ToSet(MemoryNodes(c, StoreTypes)) \ {d \in Starts(c) : IsMem(d)})
      /\ issued' = issued /\ completed' = completed /\ toVisit' = toVisit
      /\ windowStart' = windowStart /\ windowEnd' = windowEnd
      /\ pq' = pq /\ atMemory' = atMemory /\ speculatedSet' = speculatedSet
      /\ speculated' = speculated /\ outstanding' = outstanding
      /\ availableFUs' = availableFUs /\ ports' = ports
  BY <1>1, CreateStep
<1>3. ContextInv'
  BY <1>1, <1>2, CreateContexts
<1>4. PlaceInv'
  BY <1>1, <1>2, CreatePlaces
<1>5. WindowInv'
  BY <1>1, <1>2, CreateWindow
<1>6. QueueInv'
  BY <1>1, <1>2, CreateQueues
<1>7. UnresolvedInv'
  BY <1>1, <1>2, CreateUnresolved
<1>8. StoreOrder' /\ LoadOrder'
  BY <1>1, <1>2, CreateOrders
<1>9. ParentInv'
  BY <1>1, <1>2, CreateParents
<1>10. OwnerInv'
  BY <1>1, <1>2, CreateOwner
<1>11. ReadyInv'
  BY <1>1, <1>2, CreateReady
<1>12. UnitInv'
  <2>1. \A t : Busy(t)' = Busy(t)
    BY <1>2, FixedProgram DEF Busy
  <2> QED BY <1>2, <2>1, SameUnit DEF CoreInv
<1>13. ActiveInv'
  BY <1>1, <1>2, CreateActive
<1>14. SmallInv'
  <2>1. PredictorOK(predictor) /\ ports \in 0..MaxPorts
    BY DEF CoreInv, SmallInv
  <2>2. Taken(c) \in BOOLEAN
    BY DEF Taken
  <2>3. PredictorOK(predictor')
    BY <1>2, <2>1, <2>2, TrainedOK
  <2> QED BY <1>2, <2>1, <2>3 DEF SmallInv, PredictorOK
<1> QED BY <1>3, <1>4, <1>5, <1>6, <1>7, <1>8, <1>9, <1>10, <1>11, <1>12, <1>13, <1>14 DEF CoreInv

\* The queue may have given up entries though no context was created.
LEMMA Shorter ==
  ASSUME NEW q, NEW types, HoldsAccesses(q, types), NEW k \in Nat, MayGo(q, k)
  PROVE  HoldsAccesses(Without(q, k), types) /\ Len(Without(q, k)) <= Len(q)
<1> DEFINE w == Without(q, k)
<1>1. /\ q \in Seq(NodeIds) /\ Ordered(q) /\ ToSet(q) \subseteq Accesses(types)
      /\ \A d \in Accesses(types) \ ToSet(q) : LeftRob(d) /\ \A e \in ToSet(q) : Older(d, e)
  BY DEF HoldsAccesses
<1>2. k \in 0..Len(q) /\ \A i \in 1..k : LeftRob(q[i])
  BY DEF MayGo
<1>3. /\ w \in Seq(NodeIds) /\ Ordered(w) /\ Len(w) = Len(q) - k /\ ToSet(w) \subseteq ToSet(q)
      /\ \A d \in ToSet(q) \ ToSet(w) :
           /\ \E i \in 1..k : d = q[i]
           /\ \A e \in ToSet(w) : Older(d, e)
  BY <1>1, <1>2, Drop
<1> HIDE DEF w
<1>4. ASSUME NEW d \in Accesses(types), d \notin ToSet(w)
      PROVE  LeftRob(d) /\ \A e \in ToSet(w) : Older(d, e)
  <2>1. CASE d \in ToSet(q)
    BY <1>2, <1>3, <1>4, <2>1
  <2>2. CASE d \notin ToSet(q)
    BY <1>1, <1>3, <1>4, <2>2
  <2> QED BY <2>1, <2>2
<1>5. HoldsAccesses(w, types)
  BY <1>1, <1>3, <1>4 DEF HoldsAccesses
<1>6. Len(w) <= Len(q)
  BY <1>1, <1>2, <1>3, LenProperties
<1> QED BY <1>5, <1>6 DEF w

LEMMA CreateNoneKeepsInv ==
  ASSUME CoreInv, CreateNone
  PROVE  CoreInv'
<1>1. /\ Fixed /\ created' = created /\ completed' = completed /\ toCreate' = toCreate
      /\ owner' = owner /\ mispredicted' = mispredicted /\ activeLeft' = activeLeft
      /\ predictor' = predictor /\ parentVars' = parentVars
      /\ unresolvedLd' = unresolvedLd /\ unresolvedSt' = unresolvedSt
      /\ issued' = issued /\ issueSet' = issueSet /\ toVisit' = toVisit
      /\ speculatedSet' = speculatedSet /\ speculated' = speculated /\ outstanding' = outstanding
      /\ pq' = pq /\ atMemory' = atMemory
      /\ windowStart' = windowStart /\ windowEnd' = windowEnd
      /\ availableFUs' = availableFUs /\ ports' = ports
  BY DEF CreateNone, Fixed, contextVars, parentVars, windowVars, speculationVars
<1>2. CreatedNodes' = CreatedNodes /\ program \in Programs /\ created \in 0..TraceLength /\ config \in Configs
  BY <1>1, FixedCreated DEF CoreInv, ContextInv
<1>3. ContextInv' /\ OwnerInv' /\ ParentInv' /\ ActiveInv' /\ ReadyInv' /\ WindowInv'
  BY <1>1, SameContext, SameOwner, SameParent, SameActive, SameReady, SameWindow DEF CoreInv
<1>4. UnresolvedInv'
  <2>1. \A x \in unresolvedLd \cup unresolvedSt : x \notin issued /\ x \notin issueSet
    BY DEF CoreInv, UnresolvedInv
  <2> QED BY <1>1, <2>1, FewerUnresolved DEF CoreInv
<1>5. PlaceInv'
  <2>1. NoNodes' = NoNodes
    BY DEF NoNodes, NodeIds
  <2> QED BY <1>1, <1>2, <2>1 DEF CoreInv, PlaceInv
<1>6. StoreOrder' /\ LoadOrder'
  <2>1. atMemory' \ atMemory = {} /\ issued' \ issued = {}
    BY <1>1
  <2> QED BY <1>1, <2>1, StoreOrderStep, LoadOrderStep DEF CoreInv
<1>7. UnitInv'
  <2>1. \A t : Busy(t)' = Busy(t)
    BY <1>1, FixedProgram DEF Busy
  <2> QED BY <1>1, <2>1, SameUnit DEF CoreInv
<1>8. SmallInv'
  BY <1>1 DEF CoreInv, SmallInv, PredictorOK
<1>9. QueueInv'
  <2>1. \A d : LeftRob(d)' <=> LeftRob(d)
    BY <1>1, FixedProgram DEF LeftRob
  <2>2. CASE lq' = lq /\ sq' = sq
    BY <1>1, <2>1, <2>2, SameQueue DEF CoreInv
  <2>3. CASE ~(lq' = lq /\ sq' = sq)
    <3>1. PICK c : c = created + 1
      OBVIOUS
    <3>2. /\ c <= TraceLength /\ CheckSize(c)
          /\ lq' = Without(lq, LdNeed(c)) /\ sq' = Without(sq, StNeed(c))
      BY <2>3, <3>1 DEF CreateNone
    <3>3. MayGo(lq, LdNeed(c)) /\ MayGo(sq, StNeed(c))
      BY <3>2 DEF CheckSize
    <3>4. HoldsAccesses(lq, {"LD"}) /\ HoldsAccesses(sq, StoreTypes)
          /\ lq \in Seq(NodeIds) /\ sq \in Seq(NodeIds)
          /\ (config.lsq # -1 => Len(lq) <= config.lsq /\ Len(sq) <= config.lsq + Atomic(created))
      BY DEF CoreInv, QueueInv, HoldsAccesses
    <3>5. c \in 1..TraceLength
      BY <3>1, <3>2, NewNodes
    <3>6. LdNeed(c) \in Nat /\ StNeed(c) \in Nat
      <4>1. CountOf(c, "LD") \in Nat /\ CountOf(c, "ST") \in Nat
        BY <1>2, <3>5, CountOfFacts
      <4> QED BY <1>2, <3>4, <4>1, NeedFacts DEF LdNeed, StNeed
    <3>7. HoldsAccesses(lq', {"LD"}) /\ Len(lq') <= Len(lq)
      BY <3>2, <3>3, <3>4, <3>6, Shorter
    <3>8. HoldsAccesses(sq', StoreTypes) /\ Len(sq') <= Len(sq)
      BY <3>2, <3>3, <3>4, <3>6, Shorter
    <3>9. \A types : Accesses(types)' = Accesses(types)
      BY <1>1, FixedCreated
    <3>10. NodeIds' = NodeIds
      BY DEF NodeIds
    <3>11. HoldsAccesses(lq, {"LD"})' /\ HoldsAccesses(sq, StoreTypes)'
      BY <2>1, <3>7, <3>8, <3>9, <3>10 DEF HoldsAccesses
    <3>12. Atomic(created)' = Atomic(created) /\ Atomic(created) \in Nat
      <4>1. Atomic(created)' = Atomic(created)
        BY <1>1, FixedNodes DEF Atomic
      <4>2. created # 0 => created \in 1..TraceLength
        BY <1>2, NodeShape
      <4>3. Atomic(created) \in Nat
        BY <1>2, <4>2, CountOfFacts DEF Atomic
      <4> QED BY <4>1, <4>3
    <3>13. config.lsq # -1 => Len(lq') <= config.lsq /\ Len(sq') <= config.lsq + Atomic(created)
      <4>1. Len(lq) \in Nat /\ Len(sq) \in Nat /\ Len(lq') \in Nat /\ Len(sq') \in Nat
        BY <3>4, <3>7, <3>8, LenProperties DEF HoldsAccesses
      <4>2. config.lsq \in Int
        BY <1>2, ConfigFacts
      <4> QED BY <3>4, <3>7, <3>8, <3>12, <4>1, <4>2
    <3> QED BY <1>1, <3>11, <3>12, <3>13 DEF QueueInv, Fixed
  <2> QED BY <2>2, <2>3
<1> QED BY <1>3, <1>4, <1>5, <1>6, <1>7, <1>8, <1>9 DEF CoreInv

-----------------------------------------------------------------------------
(* The theorems.                                                           *)

LEMMA InitInv ==
  ASSUME Init
  PROVE  CoreInv
<1>1. /\ program \in Programs /\ config \in Configs /\ created = 0 /\ toCreate = 1
      /\ lq = <<>> /\ sq = <<>> /\ unresolvedLd = {} /\ unresolvedSt = {}
      /\ issued = {} /\ completed = {} /\ issueSet = {} /\ toVisit = {}
      /\ speculatedSet = {} /\ speculated = {} /\ outstanding = NoNodes
      /\ pq = {} /\ atMemory = {} /\ windowStart = 0 /\ windowEnd = 0 /\ mispredicted = {}
      /\ pending = NoNodes /\ pendingExt = NoNodes
      /\ extDependents = [d \in NodeIds |-> {}]
      /\ owner = [b \in DOMAIN program.blocks |-> 0]
      /\ activeLeft = [b \in DOMAIN program.blocks |-> config.active]
      /\ availableFUs = Units /\ ports = 0 /\ predictor = NewPredictor(config.predictor)
  BY DEF Init, LsqInit
<1>2. CreatedNodes = {} /\ Live = {}
  BY <1>1 DEF CreatedNodes, Live
<1>3. TraceLength \in Nat
  BY <1>1, NodeShape
<1>4. ContextInv
  BY <1>1, <1>3 DEF ContextInv
<1>5. PlaceInv
  BY <1>1, <1>2 DEF PlaceInv
<1>6. WindowInv
  <2>1. Cardinality(CreatedNodes) = 0
    BY <1>2, FS_EmptySet
  <2>2. LastPosition + Max({config.window, 0}) \in Nat
    <3>1. MaxContexts * MaxBlock \in Nat
      BY <1>4, CreatedFacts DEF ContextInv
    <3>2. Max({config.window, 0}) \in Nat /\ BranchLookahead \in Nat
      BY <1>1, ConfigFacts
    <3> QED BY <3>1, <3>2 DEF LastPosition
  <2> QED BY <1>1, <1>2, <2>1, <2>2 DEF WindowInv
<1>7. QueueInv
  <2>1. <<>> \in Seq(NodeIds) /\ Len(<<>>) = 0
    BY EmptySeq
  <2>2. \A types : Accesses(types) = {}
    BY <1>2 DEF Accesses
  <2>3. DOMAIN lq = {} /\ DOMAIN sq = {}
    <3>1. DOMAIN lq = 1..0 /\ DOMAIN sq = 1..0
      BY <1>1, <2>1, LenProperties
    <3> QED BY <3>1
  <2>4. ToSet(lq) = {} /\ ToSet(sq) = {}
    BY <2>3, MembersOf
  <2>5. HoldsAccesses(lq, {"LD"}) /\ HoldsAccesses(sq, StoreTypes)
    BY <1>1, <2>1, <2>2, <2>3, <2>4 DEF HoldsAccesses, Ordered
  <2>6. config.lsq # -1 => Len(lq) <= config.lsq /\ Len(sq) <= config.lsq + Atomic(created)
    <3>1. Len(lq) = 0 /\ Len(sq) = 0 /\ Atomic(created) = 0
      BY <1>1, <2>1 DEF Atomic
    <3>2. config.lsq \in Int /\ (config.lsq # -1 => config.lsq > 0)
      BY <1>1, ConfigFacts
    <3> QED BY <3>1, <3>2
  <2> QED BY <2>5, <2>6 DEF QueueInv
<1>8. UnresolvedInv /\ StoreOrder /\ LoadOrder
  BY <1>1 DEF UnresolvedInv, StoreOrder, LoadOrder
<1>9. ParentInv
  BY <1>1, <1>2 DEF ParentInv, NoNodes
<1>10. OwnerInv
  BY <1>1 DEF OwnerInv
<1>11. ReadyInv
  BY <1>1, <1>2 DEF ReadyInv
<1>12. UnitInv
  <2>1. \A t : Busy(t) = {}
    BY <1>1 DEF Busy
  <2>2. \A t : Cardinality(Busy(t)) = 0
    BY <2>1, FS_EmptySet
  <2>3. \A t \in Types : Units[t] \in Int /\ (Units[t] # -1 => Units[t] > 0)
    BY CoreAssumption DEF Types, Sizes
  <2>4. availableFUs \in [Types -> Int]
    BY <1>1, <2>3, CoreAssumption DEF Types
  <2>5. \A t \in Types \ Mem :
          /\ Units[t] = -1 => availableFUs[t] = -1
          /\ Units[t] # -1 => availableFUs[t] >= 0 /\ availableFUs[t] = Units[t] - Cardinality(Busy(t))
    BY <1>1, <2>2, <2>3
  <2> QED BY <2>4, <2>5 DEF UnitInv
<1>13. ActiveInv
  <2>1. \A b : LiveOf(b) = {}
    BY <1>2 DEF LiveOf
  <2>2. \A b : Cardinality(LiveOf(b)) = 0
    BY <2>1, FS_EmptySet
  <2>3. config.active \in Int /\ (config.active # -1 => config.active > 0)
    BY <1>1, ConfigFacts
  <2>4. config.active # -1 => \A b \in DOMAIN program.blocks :
          activeLeft[b] >= 0 /\ activeLeft[b] = config.active - Cardinality(LiveOf(b))
    BY <1>1, <2>2, <2>3
  <2>5. activeLeft \in [DOMAIN program.blocks -> Int]
    BY <1>1, <2>3
  <2> QED BY <2>4, <2>5 DEF ActiveInv
<1>14. SmallInv
  <2>1. 2^HistoryBits \in Nat \ {0}
    BY PredictorAssumption, PowerOfTwo
  <2>2. 0 \in 0..(2^HistoryBits - 1)
    <3> DEFINE n == 2^HistoryBits
    <3>1. n \in Nat \ {0}
      BY <2>1
    <3> HIDE DEF n
    <3>2. 0 \in 0..(n - 1)
      BY <3>1
    <3> QED BY <3>2 DEF n
  <2>3. \A kind : Untrained(kind) \in 0..3
    BY DEF Untrained
  <2>4. PredictorOK(predictor)
    BY <1>1, <2>2, <2>3 DEF PredictorOK, NewPredictor
  <2>5. MaxPorts \in Nat
    BY CoreAssumption
  <2> QED BY <1>1, <2>4, <2>5 DEF SmallInv
<1> QED BY <1>4, <1>5, <1>6, <1>7, <1>8, <1>9, <1>10, <1>11, <1>12, <1>13, <1>14 DEF CoreInv

LEMMA StutterKeepsInv ==
  ASSUME CoreInv, UNCHANGED vars
  PROVE  CoreInv'
<1>1. /\ Fixed /\ created' = created /\ completed' = completed /\ toCreate' = toCreate
      /\ owner' = owner /\ mispredicted' = mispredicted /\ activeLeft' = activeLeft
      /\ predictor' = predictor /\ parentVars' = parentVars /\ lq' = lq /\ sq' = sq
      /\ unresolvedLd' = unresolvedLd /\ unresolvedSt' = unresolvedSt
      /\ issued' = issued /\ issueSet' = issueSet /\ toVisit' = toVisit
      /\ speculatedSet' = speculatedSet /\ speculated' = speculated /\ outstanding' = outstanding
      /\ pq' = pq /\ atMemory' = atMemory
      /\ windowStart' = windowStart /\ windowEnd' = windowEnd
      /\ availableFUs' = availableFUs /\ ports' = ports
  BY DEF vars, Fixed, lsqVars, contextVars, parentVars, windowVars, speculationVars
<1>2. CreatedNodes' = CreatedNodes
  BY <1>1, FixedCreated
<1>3. ContextInv' /\ OwnerInv' /\ ParentInv' /\ ActiveInv' /\ ReadyInv' /\ WindowInv'
  BY <1>1, SameContext, SameOwner, SameParent, SameActive, SameReady, SameWindow DEF CoreInv
<1>4. \A d : LeftRob(d)' <=> LeftRob(d)
  BY <1>1, FixedProgram DEF LeftRob
<1>5. QueueInv'
  BY <1>1, <1>4, SameQueue DEF CoreInv
<1>6. UnresolvedInv'
  <2>1. \A x \in unresolvedLd \cup unresolvedSt : x \notin issued /\ x \notin issueSet
    BY DEF CoreInv, UnresolvedInv
  <2> QED BY <1>1, <2>1, FewerUnresolved DEF CoreInv
<1>7. PlaceInv'
  <2>1. NoNodes' = NoNodes
    BY DEF NoNodes, NodeIds
  <2> QED BY <1>1, <1>2, <2>1 DEF CoreInv, PlaceInv
<1>8. StoreOrder' /\ LoadOrder'
  <2>1. atMemory' \ atMemory = {} /\ issued' \ issued = {}
    BY <1>1
  <2> QED BY <1>1, <2>1, StoreOrderStep, LoadOrderStep DEF CoreInv
<1>9. UnitInv'
  <2>1. \A t : Busy(t)' = Busy(t)
    BY <1>1, FixedProgram DEF Busy
  <2> QED BY <1>1, <2>1, SameUnit DEF CoreInv
<1>10. SmallInv'
  BY <1>1 DEF CoreInv, SmallInv, PredictorOK
<1> QED BY <1>3, <1>5, <1>6, <1>7, <1>8, <1>9, <1>10 DEF CoreInv

LEMMA NextKeepsInv ==
  ASSUME CoreInv, [Next]_vars
  PROVE  CoreInv'
<1>1. CASE Retire
  BY <1>1, RetireKeepsInv
<1>2. ASSUME NEW d \in toVisit, Visit(d) PROVE CoreInv'
  <2>1. CASE WindowFull(d) \/ Refused(d)
    BY <2>1, PassKeepsInv
  <2>2. CASE IssueComp(d)
    BY <2>2, IssueCompKeepsInv
  <2>3. CASE ForwardLoad(d)
    BY <2>3, ForwardLoadKeepsInv
  <2>4. CASE ForwardOnGuess(d)
    BY <2>4, ForwardOnGuessKeepsInv
  <2>5. CASE ReadMemory(d)
    BY <2>5, ReadMemoryKeepsInv
  <2>6. CASE WriteMemory(d)
    BY <2>6, WriteMemoryKeepsInv
  <2> QED BY <1>2, <2>1, <2>2, <2>3, <2>4, <2>5, <2>6 DEF Visit
<1>3. CASE Complete
  BY <1>3, CompleteKeepsInv
<1>4. CASE CreateContext
  BY <1>4, CreateContextKeepsInv
<1>5. CASE CreateNone
  BY <1>5, CreateNoneKeepsInv
<1>6. CASE UNCHANGED vars
  BY <1>6, StutterKeepsInv
<1> QED BY <1>1, <1>2, <1>3, <1>4, <1>5, <1>6 DEF Next

\* In every run the parts of the invariant hold together: the counts, sets and
\* queues of the core agree with the program it executes.
THEOREM Invariance == Spec => []CoreInv
<1>1. Init => CoreInv
  BY InitInv
<1>2. CoreInv /\ [Next]_vars => CoreInv'
  BY NextKeepsInv
<1> QED BY <1>1, <1>2, PTL DEF Spec

\* The state of a core is of its type; a node that has issued and not
\* completed waits in one place (Core::process, DynamicNode).
THEOREM TypesAreRight == Spec => []TypeOK
<1>1. CoreInv => TypeOK
  BY DEF CoreInv, ContextInv, PlaceInv, WindowInv, SmallInv, TypeOK
<1> QED BY <1>1, Invariance, PTL

\* No instruction issues before the values it uses have been computed, but for
\* a terminator whose branch was predicted (DynamicNode::tryActivate).
THEOREM ParentsComeFirst == Spec => []ParentsFirst
<1>1. CoreInv => ParentsFirst
  BY DEF CoreInv, ReadyInv, Predicted, ParentsFirst
<1> QED BY <1>1, Invariance, PTL

\* A node whose parents have all completed has been activated, whatever order
\* they completed in and whenever its context was created
\* (DynamicNode::finishNode, Context::initialize).
THEOREM WakeupsReachAll == Spec => []NoLostWakeup
<1>1. CoreInv => NoLostWakeup
  <2> SUFFICES ASSUME CoreInv, NEW d \in CreatedNodes \ (issued \cup issueSet)
               PROVE  ~(Uses(d) \subseteq completed)
    BY DEF NoLostWakeup
  <2>1. d \in CreatedNodes \ (issueSet \cup issued)
    OBVIOUS
  <2> QED BY <2>1 DEF CoreInv, ReadyInv
<1> QED BY <1>1, Invariance, PTL

\* Accesses to one address go to memory in program order where it shows, in
\* every configuration that forwards only if it also speculates: the shipped
\* ones do.  Without speculation a load that could forward on a guess reads
\* memory unchecked (DynamicNode::issueMemNode).
THEOREM MemoryIsOrdered ==
  (\A x \in Configs : x.forward => x.speculate) => (Spec => []MemoryOrder)
<1> SUFFICES ASSUME \A x \in Configs : x.forward => x.speculate
             PROVE  Spec => []MemoryOrder
  OBVIOUS
<1>1. CoreInv => MemoryOrder
  <2> SUFFICES ASSUME CoreInv, NEW e \in issued, NEW d \in CreatedNodes,
                      IsMem(e), Addr(d) = Addr(e), Older(d, e)
               PROVE  /\ Type(e) # "LD" => d \in completed
                      /\ e \in atMemory /\ Type(d) # "LD" => d \in issued
    BY DEF MemoryOrder
  <2>1. SameLocation(d, e)
    BY DEF SameLocation
  <2>2. config.forward => config.speculate
    BY DEF CoreInv, ContextInv
  <2> QED BY <2>1, <2>2 DEF CoreInv, StoreOrder, LoadOrder
<1> QED BY <1>1, Invariance, PTL

\* The queues hold the program's accesses in order, without the first of them,
\* which have left the window, and keep their size (LoadStoreQ::checkSize,
\* insert).
THEOREM QueuesAreSound == Spec => []LsqSound
<1>1. CoreInv => LsqSound
  <2> SUFFICES ASSUME CoreInv PROVE LsqSound
    OBVIOUS
  <2>1. HoldsAccesses(lq, {"LD"}) /\ HoldsAccesses(sq, StoreTypes)
        /\ (config.lsq # -1 => Len(lq) <= config.lsq /\ Len(sq) <= config.lsq + Atomic(created))
    BY DEF CoreInv, QueueInv
  <2>2. config.lsq \in Int /\ Len(lq) \in Nat
    BY <2>1, ConfigFacts, LenProperties DEF CoreInv, ContextInv, HoldsAccesses
  <2>3. IsQueueOf(lq, {"LD"}, 0)
    BY <2>1, <2>2 DEF HoldsAccesses, IsQueueOf, Ordered
  <2>4. IsQueueOf(sq, {"ST", "ATOMIC"}, IF created = 0 THEN 0 ELSE CountOf(created, "ATOMIC"))
    BY <2>1 DEF HoldsAccesses, IsQueueOf, Ordered, StoreTypes, Atomic
  <2>5. (unresolvedLd \cup unresolvedSt) \cap issued = {}
    BY DEF CoreInv, UnresolvedInv
  <2> QED BY <2>3, <2>4, <2>5 DEF LsqSound
<1> QED BY <1>1, Invariance, PTL

\* The counters of units and of live contexts never drift from what is busy and
\* live, and a context is due exactly when the last terminator has completed
\* (finishNode, Context::complete, Core::createContext).
THEOREM LimitsAreKept == Spec => []LimitsHold
<1>1. CoreInv => LimitsHold
  <2> SUFFICES ASSUME CoreInv PROVE LimitsHold
    OBVIOUS
  <2>1. TypeOK
    BY DEF CoreInv, ContextInv, PlaceInv, WindowInv, SmallInv, TypeOK
  <2>2. \A t \in Types \ {"LD", "ST", "ATOMIC"} : Units[t] # -1 =>
          /\ availableFUs[t] >= 0
          /\ availableFUs[t] = Units[t] - Cardinality({d \in issued \ completed : Type(d) = t})
    BY DEF CoreInv, UnitInv, Busy, Mem
  <2>3. config.active # -1 => \A b \in DOMAIN activeLeft :
          /\ activeLeft[b] >= 0
          /\ activeLeft[b] = config.active - Cardinality({c \in Live : BB(c) = b})
    <3>1. DOMAIN activeLeft = DOMAIN program.blocks
      BY DEF CoreInv, ActiveInv
    <3> QED BY <3>1 DEF CoreInv, ActiveInv, LiveOf
  <2>4. ~config.allAtOnce =>
          (toCreate = 1 <=> created = 0 \/ <<created, Len(Block(created))>> \in completed)
    BY DEF CoreInv, ContextInv, Terminator
  <2> QED BY <2>1, <2>2, <2>3, <2>4 DEF LimitsHold
<1> QED BY <1>1, Invariance, PTL

\* No instruction that has completed is ever taken back: check_speculation
\* looks at loads older than the store, and a store waits for those
\* (LoadStoreQ::check_speculation, check_store_issue).
THEOREM NothingIsReplayed == Spec => [][completed \subseteq completed']_vars
<1>1. ASSUME CoreInv, [Next]_vars PROVE [completed \subseteq completed']_vars
  <2> SUFFICES ASSUME Next PROVE completed \subseteq completed'
    BY <1>1
  <2>1. CASE Retire
    BY <2>1 DEF Retire
  <2>2. CASE \E d \in toVisit : Visit(d)
    BY <2>2 DEF Visit, WindowFull, Refused, IssueComp, ForwardLoad, ForwardOnGuess, ReadMemory,
                WriteMemory, Issues
  <2>3. CASE Complete
    <3>1. \E D \in SUBSET (issued \ completed) : completed' = completed \cup D
      BY <1>1, <2>3, CompleteStep
    <3> QED BY <3>1
  <2>4. CASE CreateContext
    BY <2>4 DEF CreateContext
  <2>5. CASE CreateNone
    BY <2>5 DEF CreateNone
  <2> QED BY <2>1, <2>2, <2>3, <2>4, <2>5 DEF Next
<1> QED BY <1>1, Invariance, PTL DEF Spec

-----------------------------------------------------------------------------
(* The two passes over the kernel agree, for every instruction there is: a *)
(* context finds in the trace the accesses its nodes take.                 *)

\* The names of the table are different, so a name is that of one entry.
LEMMA TableOfNames ==
  /\ DOMAIN CalleeTypes = 1..26
  /\ \A j, k \in 1..26 : CalleeTypes[j][1] = CalleeTypes[k][1] => j = k
BY SMTT(60) DEF CalleeTypes

\* A function whose name has one entry gets the type of the entry.
LEMMA TypeOfOneName ==
  ASSUME NEW instr, NEW k \in 1..26, instr.callee = {CalleeTypes[k][1]}
  PROVE  ITypeOf(instr) = CalleeTypes[k][2]
<1>1. Found(instr) = {k}
  BY TableOfNames DEF Found
<1>2. (CHOOSE i \in Found(instr) : \A j \in Found(instr) : i <= j) = k
  BY <1>1
<1> QED
  BY <1>1, <1>2 DEF ITypeOf

\* GraphGen types an instruction as taking a record only if RecordDynamicInfo
\* has it make that record: a context never waits for an address or a call
\* that the native run does not write (the assertion of DynamicNode.cpp:83).
THEOREM PassesAgree ==
  ASSUME NEW instr,
         \/ instr.op # "call" /\ instr.callee = {}
         \/ instr.op = "call" /\ instr.callee \in ApiFunctions
  PROVE  TakenType(instr) \in {"none", RecordType(instr)}
<1>1. CASE instr.op # "call" /\ instr.callee = {}
  <2>1. Found(instr) = {}
    BY <1>1 DEF Found
  <2>2. ITypeOf(instr) = OpcodeType(instr.op)
    BY <2>1 DEF ITypeOf
  <2>3. CASE instr.op \in {"load", "store"}
    BY <2>2, <2>3 DEF TakenType, RecordType, BranchKinds, AddressTypes, OpcodeType, Opcodes
  <2>4. CASE instr.op \notin {"load", "store"}
    <3>1. OpcodeType(instr.op) \notin AddressTypes \cup {"ACCELERATOR", "PARTIAL_BARRIER"}
      BY <2>4 DEF OpcodeType, Opcodes, AddressTypes, Atomics
    <3> QED
      BY <2>2, <3>1 DEF TakenType
  <2> QED
    BY <2>3, <2>4
<1>2. CASE instr.op = "call" /\ instr.callee \in ApiFunctions
  <2>1. CASE \E k \in 1..26 : k \notin {4, 6, 20} /\ instr.callee = {CalleeTypes[k][1]}
    <3>1. PICK k \in 1..26 : k \notin {4, 6, 20} /\ instr.callee = {CalleeTypes[k][1]}
      BY <2>1
    <3>2. ITypeOf(instr) = CalleeTypes[k][2]
      BY <3>1, TypeOfOneName
    <3>3. CASE k \in {10, 11, 12, 13, 14}
      <4>1. ITypeOf(instr) = "ACCELERATOR"
        BY <3>2, <3>3 DEF CalleeTypes
      <4>2. CalleeTypes[k][1] \in AcceleratorCallees \ (StoreCallees \cup LoadCallees)
        BY <3>3 DEF CalleeTypes, AcceleratorCallees, MatmulAndSdp, BiasAndConv2d, DenseLayer,
           StoreCallees, LoadCallees
      <4>3. RecordType(instr) = "ACC"
        BY <1>2, <3>1, <4>2 DEF RecordType, BranchKinds
      <4> QED
        BY <4>1, <4>3 DEF TakenType, AddressTypes, Atomics
    <3>4. CASE k = 9
      <4>1. CalleeTypes[k] = <<"DECADES_PARTIAL_BARRIER", "PARTIAL_BARRIER">>
        BY <3>4 DEF CalleeTypes
      <4>2. instr.callee = {"DECADES_PARTIAL_BARRIER"} /\ ITypeOf(instr) = "PARTIAL_BARRIER"
        BY <3>1, <3>2, <4>1
      <4>3. "DECADES_PARTIAL_BARRIER" \notin StoreCallees \cup LoadCallees \cup AcceleratorCallees
        BY DEF StoreCallees, LoadCallees, AcceleratorCallees, MatmulAndSdp, BiasAndConv2d, DenseLayer
      <4>4. RecordType(instr) = "PB"
        BY <1>2, <4>2, <4>3 DEF RecordType, BranchKinds, BarrierCallees
      <4> QED
        BY <4>2, <4>4 DEF TakenType, AddressTypes, Atomics
    <3>5. CASE k \in 21..26
      <4>1. ITypeOf(instr) \in AddressTypes
        BY <3>2, <3>5 DEF CalleeTypes, AddressTypes, Atomics
      <4>2. CalleeTypes[k][1] \in StoreCallees
        BY <3>5 DEF CalleeTypes, StoreCallees
      <4>3. RecordType(instr) = "MEM"
        BY <1>2, <3>1, <4>2 DEF RecordType, BranchKinds
      <4> QED
        BY <4>1, <4>3 DEF TakenType
    <3>6. CASE k \in {1, 2, 3, 5, 7, 8, 15, 16, 17, 18, 19}
      BY <3>2, <3>6 DEF CalleeTypes, TakenType, AddressTypes, Atomics
    <3> QED
      BY <3>1, <3>3, <3>4, <3>5, <3>6
  <2>2. CASE instr.callee \in {{"dec_atomic_fetch_add_float_async", "dec_atomic_fetch_add"},
                               {"desc_supply_consume", "supply_consume"},
                               {"desc_supply_load_produce", "supply_load_produce"}}
    <3>1. RecordType(instr) = "MEM"
      BY <1>2, <2>2 DEF RecordType, BranchKinds, StoreCallees, LoadCallees
    <3>2. \A k \in Found(instr) : k \in {4, 6, 20, 21}
      BY <2>2 DEF Found, CalleeTypes
    <3>3. Found(instr) # {}
      BY <2>2, TableOfNames DEF Found, CalleeTypes
    <3>4. PICK k \in Found(instr) : \A j \in Found(instr) : k <= j
      BY <3>2, <3>3
    <3>5. (CHOOSE i \in Found(instr) : \A j \in Found(instr) : i <= j) \in Found(instr)
      BY <3>4
    <3>6. ITypeOf(instr) \in {"LD_PROD", "STADDR", "ATOMIC_FADD", "ATOMIC_ADD"}
      BY <3>2, <3>3, <3>5 DEF ITypeOf, CalleeTypes
    <3> QED
      BY <3>1, <3>6 DEF TakenType, AddressTypes, Atomics
  <2> QED
    BY <1>2, <2>1, <2>2, TableOfNames DEF ApiFunctions
<1> QED
  BY <1>1, <1>2
=============================================================================
