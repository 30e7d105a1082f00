---------------------------- MODULE TraceStream ----------------------------
(***************************************************************************)
(* The simulator reads the trace of the native run while it is being made  *)
(* (Simulator::run, Core::read_dyn_data, Core::createContext).  Each       *)
(* simulator thread has the cores of one file.  In a cycle it first reads, *)
(* for each of its cores, until the core knows its next two blocks, then   *)
(* lets the cores run, and meets the other threads; the simulation goes on *)
(* while some tile has work.  What a core executes is CoreExecution; here  *)
(* the terminator of its youngest context finishes, and its contexts       *)
(* complete, in any cycles.  The trimming of cf (Core.cpp:376) needs more  *)
(* contexts than blocks that were read, and never happens.                 *)
(***************************************************************************)
EXTENDS TraceWriter

CONSTANT MaxThreads  \* bound: threads of a run

ASSUME MaxThreadsAssumption == \A r \in Runs : Len(r.trace) <= MaxThreads

VARIABLES
  at,              \* where each simulator thread is in its cycle
  cf, lastBbid, destinations, finished, memory,    \* what read_dyn_data keeps of a core
  calls,           \* acc_args and partial_barrier_sizes
  created, live,   \* contexts created, and how many of them are live
  toCreate,        \* context_to_create
  context,         \* the youngest context of a core
  busy,            \* processVec
  simulate

readerVars == <<cf, lastBbid, destinations, finished, memory>>
coreVars == <<created, live, toCreate, context, calls, busy>>
vars == <<writerVars, at, readerVars, coreVars, simulate>>

Cores == Threads
\* The instructions that have a record of an access, or take one.
Body(bb) == {<<bb, i>> : i \in DOMAIN run.code[bb]}
Code(n) == run.code[n[1]][n[2]]
Instrs == {n \in UNION {Body(bb) : bb \in DOMAIN run.code} : "MEM" \in {Code(n).record, Code(n).takes}}

NoBlock == -1
NoContext == [bb |-> NoBlock, prev |-> NoBlock, next |-> NoBlock, addrs |-> <<>>, calls |-> <<>>]

\* The cores of a simulator thread, in the order of coreDist.
CoresPerThread == Len(run.trace) \div run.nbFiles
CoreDist(s) == [i \in 1..CoresPerThread |-> s * CoresPerThread + i - 1]

Init ==
  /\ WriterInit
  /\ at = [s \in Files |-> [phase |-> "read", core |-> 1]]
  /\ cf = [c \in Cores |-> <<>>]
  /\ lastBbid = [c \in Cores |-> NoBlock]
  /\ destinations = [c \in Cores |-> [cond |-> {}, next |-> {}]]
  /\ finished = [c \in Cores |-> FALSE]
  /\ memory = [c \in Cores |-> [i \in Instrs |-> <<>>]]
  /\ calls = [c \in Cores |-> [type \in CallTypes |-> <<>>]]
  /\ created = [c \in Cores |-> 0]
  /\ live = [c \in Cores |-> 0]
  /\ toCreate = [c \in Cores |-> 1]
  /\ context = [c \in Cores |-> NoContext]
  /\ busy = [c \in Cores |-> FALSE]
  /\ simulate = TRUE

---------------------------------------------------------------------------
(* Reading: the while loop before a cycle, and Core::read_dyn_data.        *)

\* Mutant: does not wait for the block after the next.
KnownOneMutant(c) == Len(cf[c]) >= created[c] + 1 \/ finished[c]
\* Mutant: waits for another block after the last.
KnownMutant(c) == Len(cf[c]) >= created[c] + 2
Known(c) == Len(cf[c]) >= created[c] + 2 \/ finished[c]

\* cf after message m; the block the last branch led to ends the trace.
BlocksOf(m) == [i \in DOMAIN m.cf |-> m.cf[i].bb]
LastOf(c, m) == IF m.cf = <<>> THEN lastBbid[c] ELSE Last(m.cf).next
Read(c, m) == cf[c] \o BlocksOf(m) \o IF m.end THEN <<LastOf(c, m)>> ELSE <<>>

Conditional(c, m) ==
  destinations[c].cond \cup {m.cf[i].bb : i \in {j \in DOMAIN m.cf : m.cf[j].kind = "cond"}}

\* A conditional branch gets a destination when its successor is read with it.
Annotated(c, m) ==
  LET blocks == Read(c, m)
      pairs == {i \in (Len(cf[c]) + 1)..(Len(blocks) - 1) : blocks[i] \in Conditional(c, m)}
  IN  destinations[c].next \cup {<<blocks[i], blocks[i + 1]>> : i \in pairs}

AddressesOf(m, instr) ==
  LET mine == SelectSeq(m.mem, LAMBDA rec : rec.instr = instr)
  IN  [i \in DOMAIN mine |-> mine[i].value]

ReadMessage(s, m) ==
  LET c == m.id
  IN  /\ dynFiles' = [dynFiles EXCEPT ![s] = Tail(@)]
      /\ cf' = [cf EXCEPT ![c] = Read(c, m)]
      /\ lastBbid' = [lastBbid EXCEPT ![c] = LastOf(c, m)]
      /\ destinations' = [destinations EXCEPT ![c] = [cond |-> Conditional(c, m),
                                                      next |-> Annotated(c, m)]]
      /\ finished' = [finished EXCEPT ![c] = m.end]
      /\ memory' = [memory EXCEPT ![c] = [i \in Instrs |-> @[i] \o AddressesOf(m, i)]]

Reads(s) == simulate /\ at[s].phase = "read"
CurrentCore(s) == CoreDist(s)[at[s].core]

Advance(s, phase) ==
  IF at[s].core < CoresPerThread THEN [at EXCEPT ![s].core = @ + 1]
  ELSE [at EXCEPT ![s] = [phase |-> phase, core |-> 1]]

\* read_dyn: the message may be for another core of this thread.
ReadDyn(s) ==
  /\ Reads(s) /\ ~Known(CurrentCore(s)) /\ dynFiles[s] # <<>>
  /\ ReadMessage(s, Head(dynFiles[s]))
  /\ UNCHANGED <<run, pos, buf, accFiles, cleaned, at, coreVars, simulate>>

\* read_dyn finds nothing, and is called again.
ReadNothing(s) ==
  Reads(s) /\ ~Known(CurrentCore(s)) /\ dynFiles[s] = <<>> /\ UNCHANGED vars

ReadDone(s) ==
  /\ Reads(s) /\ Known(CurrentCore(s))
  /\ at' = Advance(s, "process")
  /\ UNCHANGED <<writerVars, readerVars, coreVars, simulate>>

---------------------------------------------------------------------------
(* A cycle of a core, as far as the trace is concerned.                    *)

AtEnd(c) == finished[c] /\ Len(cf[c]) = created[c]

\* Context::initialize: each access takes the oldest address of its
\* instruction; a call takes the oldest of its type, and reads the file of
\* calls, whichever core they are for, until there is one.
Taking(c, k, type) == {n \in Body(Blocks(c)[k].bb) : Code(n).takes = type}
Accesses(c, k) == Taking(c, k, "MEM")
NbCalls(c, k, type) == Cardinality(Taking(c, k, type))

CallsFor(file, c, type) ==
  LET mine == SelectSeq(file, LAMBDA m : m.id = c /\ m.type = type)
  IN  [i \in DOMAIN mine |-> mine[i].value]
CallsAfter(s, n) ==
  LET file == SubSeq(accFiles[s], 1, n)
  IN  [c \in Cores |-> [type \in CallTypes |-> calls[c][type] \o CallsFor(file, c, type)]]

Enough(cs, c, k) == \A type \in CallTypes : Len(cs[c][type]) >= NbCalls(c, k, type)

\* The block of the next context, as cf names it: its graph is fixed, so its
\* instructions are those of the native run's block k.
NewContext(c, k, cs) ==
  [bb |-> cf[c][k],
   prev |-> IF k = 1 THEN NoBlock ELSE cf[c][k - 1],
   next |-> IF Len(cf[c]) = k THEN NoBlock ELSE cf[c][k + 1],
   addrs |-> [n \in Accesses(c, k) |-> Head(memory[c][n])],
   calls |-> [type \in CallTypes |-> SubSeq(cs[c][type], 1, NbCalls(c, k, type))]]

\* What createContext asserts or takes for granted of the trace.
DataPresent(c, k) ==
  /\ k \in DOMAIN cf[c] /\ (finished[c] \/ k + 1 \in DOMAIN cf[c])
  /\ \A i \in Accesses(c, k) : memory[c][i] # <<>>

\* createContext succeeds: n messages of the file of calls are read.
Create(s, c, n) ==
  LET k == created[c] + 1
      cs == CallsAfter(s, n)
  IN  /\ Enough(cs, c, k) /\ \A m \in 0..(n - 1) : ~Enough(CallsAfter(s, m), c, k)
      /\ accFiles' = [accFiles EXCEPT ![s] = SubSeq(@, n + 1, Len(@))]
      /\ context' = [context EXCEPT ![c] = NewContext(c, k, cs)]
      /\ memory' = [memory EXCEPT ![c] = [i \in Instrs |->
                       IF i \in Accesses(c, k) THEN Tail(@[i]) ELSE @[i]]]
      /\ calls' = [cs EXCEPT ![c] = [type \in CallTypes |->
                       SubSeq(@[type], NbCalls(c, k, type) + 1, Len(@[type]))]]
      /\ created' = [created EXCEPT ![c] = k]

Processes(s) == simulate /\ at[s].phase = "process"

\* One tile->process(): branch, the terminator of the youngest context
\* finishes; left, the contexts still live, which never lack the youngest
\* before its branch; creates, whether the context that is due is created.  A
\* core without live contexts has an empty load/store queue and can create.
ProcessCore(s, branch, left, creates) ==
  LET c == CurrentCore(s)
      due == toCreate[c] + IF branch THEN 1 ELSE 0
  IN  /\ Processes(s)
      /\ branch => toCreate[c] = 0 /\ live[c] > 0
      /\ left <= live[c] /\ (due = 0 => left > 0)
      /\ creates => due > 0 /\ ~AtEnd(c)
      /\ (due > 0 /\ left = 0 /\ ~AtEnd(c)) => creates
      /\ \/ creates /\ \E n \in 0..Len(accFiles[s]) : Create(s, c, n)
         \/ ~creates /\ UNCHANGED <<accFiles, context, memory, calls, created>>
      /\ toCreate' = [toCreate EXCEPT ![c] = due - IF creates THEN 1 ELSE 0]
      /\ live' = [live EXCEPT ![c] = left + IF creates THEN 1 ELSE 0]
      /\ busy' = [busy EXCEPT ![c] = left > 0 \/ creates]
      /\ at' = Advance(s, "wait")
      /\ UNCHANGED <<run, pos, buf, dynFiles, cleaned, cf, lastBbid, destinations, finished,
                     simulate>>

ProcessIdle(s) == ProcessCore(s, FALSE, live[CurrentCore(s)], FALSE)
ProcessWork(s) ==
  \E branch, creates \in BOOLEAN : \E left \in 0..live[CurrentCore(s)] :
     /\ branch \/ creates \/ left < live[CurrentCore(s)]
     /\ ProcessCore(s, branch, left, creates)

\* The barrier of the threads, and the single that follows it.
NextCycle ==
  /\ simulate /\ \A s \in Files : at[s].phase = "wait"
  /\ simulate' = \E c \in Cores : busy[c]
  /\ at' = [s \in Files |-> [phase |-> "read", core |-> 1]]
  /\ UNCHANGED <<writerVars, readerVars, coreVars>>

Finished == ~simulate /\ cleaned = Len(run.trace) /\ UNCHANGED vars

\* The native run takes its steps whatever the simulator does.
simulatorVars == <<at, readerVars, coreVars, simulate>>
NativeStep(t) == Record(t) /\ UNCHANGED simulatorVars
NativeEnd == Cleanup /\ UNCHANGED simulatorVars

Next ==
  \/ \E t \in Threads : NativeStep(t)
  \/ NativeEnd
  \/ \E s \in Files : ReadDyn(s) \/ ReadNothing(s) \/ ReadDone(s) \/ ProcessIdle(s) \/ ProcessWork(s)
  \/ NextCycle
  \/ Finished

Spec == Init /\ [][Next]_vars

\* Every thread of either program gets its turns, and what a core executes
\* has a finite latency: the work of a core is done in some cycle.
Fairness ==
  /\ WF_vars(NativeEnd) /\ WF_vars(NextCycle)
  /\ \A t \in 0..(MaxThreads - 1) :
        /\ WF_vars(t \in Threads /\ NativeStep(t))
        /\ WF_vars(t \in Files /\ (ReadDyn(t) \/ ReadDone(t) \/ ProcessIdle(t) \/ ProcessWork(t)))
        /\ SF_vars(t \in Files /\ ProcessWork(t))
FairSpec == Spec /\ Fairness

---------------------------------------------------------------------------

\* The two ends of a buffer never meet, a pipe never holds more than it can
\* and a core's counters are in range: the bounds tracer.cc:115-137 computes.
TypeOK ==
  /\ \A t \in Threads : CfPos(buf[t]) <= MemPos(buf[t]) /\ pos[t] \in 0..Len(Records(t))
  /\ \A f \in Files : /\ ~run.usesFiles => Len(dynFiles[f]) <= run.cap
                      /\ \A i \in DOMAIN dynFiles[f] : dynFiles[f][i].id \in Threads
  /\ \A c \in Cores : /\ created[c] \in 0..Len(Blocks(c)) /\ live[c] \in 0..created[c]
                      /\ toCreate[c] \in 0..1 /\ busy[c] \in BOOLEAN
  /\ cleaned \in 0..Len(run.trace) /\ simulate \in BOOLEAN

\* A core about to run has read all that the next context takes: its block
\* and the one after it, and every address (the assertion of DynamicNode.cpp:83).
DataIsThere ==
  \A s \in Files :
     (Processes(s) /\ ~AtEnd(CurrentCore(s)))
        => DataPresent(CurrentCore(s), created[CurrentCore(s)] + 1)

\* The context the native run's block k is for, whatever the threads, files
\* and message boundaries.
Expected(c, k) ==
  LET b == Blocks(c)[k]
  IN  [bb |-> b.bb,
       prev |-> IF k = 1 THEN NoBlock ELSE Blocks(c)[k - 1].bb,
       next |-> IF k = Len(Blocks(c)) THEN NoBlock ELSE Blocks(c)[k + 1].bb,
       addrs |-> [n \in Accesses(c, k) |-> b.addr[n[2]]],
       calls |-> [type \in CallTypes |-> [i \in 1..NbCalls(c, k, type) |-> k]]]

\* Each core follows its own thread: no block is read twice, lost or out of
\* order, no context is created before its block is read, and each takes the
\* neighbours, addresses and calls of its own block.
ContextsFollowTrace ==
  /\ DataIsThere
  /\ \A c \in Cores :
        /\ IsPrefix(cf[c], [k \in DOMAIN Blocks(c) |-> Blocks(c)[k].bb])
        /\ created[c] <= Len(cf[c])
        /\ created[c] > 0 => context[c] = Expected(c, created[c])

\* Core.cpp:281: of two blocks that were read, the second is a destination of
\* the conditional branch of the first.
DestinationsKnown ==
  \A c \in Cores : \A i \in 1..(Len(cf[c]) - 1) :
     cf[c][i] \in destinations[c].cond => <<cf[c][i], cf[c][i + 1]>> \in destinations[c].next

\* The native run ends, and the simulation ends with every block simulated:
\* neither waits for the other for ever, and none stops early.
EventuallySimulated ==
  <>(cleaned = Len(run.trace) /\ ~simulate /\ \A c \in Cores : created[c] = Len(Blocks(c)))
=============================================================================
