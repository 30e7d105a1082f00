------------------------- MODULE AcceleratorMemory -------------------------
(***************************************************************************)
(* How an accelerator reads its memory: the accelerator tile               *)
(* (src/sim/tile/Accelerator.cpp), the DRAM interface (memsys/DRAM.cpp)    *)
(* and the last level cache (memsys/LLCache.cpp), which one thread runs in *)
(* lockstep, in the order DRAM, LLC, accelerator ("turn").  Ordinary loads *)
(* share the LLC and the DRAM with the accelerator.                        *)
(*                                                                         *)
(* Abstracted: what the accelerators compute (an invocation is its blocks  *)
(* of memory and any number of cycles), ports and latencies (a loop may    *)
(* stop after any element), stores and write-backs, the L1s, whose         *)
(* evictions nobody waits for, and invocations of kinds without a model.   *)
(***************************************************************************)
EXTENDS Integers, FiniteSets, Sequences

CONSTANTS
  LineSize,     \* size_of_cacheline, in bytes
  Addrs,        \* the byte addresses that are read or evicted
  Loads,        \* ordinary loads
  addrOf,       \* the address of each load
  Invocations,  \* invocations of the accelerator
  blocksOf,     \* the blocks of each: where they start, their size in bytes,
                \* and how often the DRAM reads each line
  MaxCycles,    \* bound: cycles of an invocation
  None

Line(a) == a \div LineSize

\* dramaddr, the address at which the LLC asks for a line.
Base(a) == Line(a) * LineSize

\* AccBlock: end is the last word, and the addresses next_to_send steps
\* through start at the first byte, wherever that is in its line.
NewBlock(b, factor) ==
  LET elements == (b.size - 4) \div LineSize IN
  [start |-> b.start, end |-> b.start + b.size - 4, nb_elem |-> elements,
   total |-> elements * factor, issued |-> 0, finished |-> 0]

element(b, n) == b.start + n * LineSize

Lines == {Line(a) : a \in Addrs} \cup {Line(addrOf[t]) : t \in Loads}

ASSUME AcceleratorAssumption ==
  /\ LineSize \in Nat \ {0}
  /\ Addrs \subseteq Nat \ {0}
  /\ addrOf \in [Loads -> Nat] /\ \A t \in Loads : Base(addrOf[t]) \in Addrs
  /\ \A i \in Invocations :
       /\ blocksOf[i] \in Seq([start : Nat \ {0}, size : Nat, factor : Nat])
       /\ \A k \in DOMAIN blocksOf[i] :
            LET b == NewBlock(blocksOf[i][k], 1) IN
            blocksOf[i][k].size >= 4 /\ \A n \in 0 .. b.nb_elem - 1 : element(b, n) \in Addrs
  /\ MaxCycles \in Nat
  /\ None \notin Invocations

VARIABLES
  turn,         \* which loop of the three process functions runs
  state,        \* the state of each invocation
  current,      \* the invocation the accelerator is processing, or None
  wait_on_DRAM,
  left,         \* final_cycle - cycles, no less than -1
  request,      \* acc_requests: the invocation whose blocks are sent, or None
  response,     \* acc_responses
  acc_memory,   \* blocks of the DRAM interface
  LLC_evicted,
  finished_acc,
  reads,        \* how many reads of each address the DRAM is serving
  accelertor_mem, \* blocks of the LLC (spelled as in the source)
  evictions,    \* evictions of each address in the pq of the LLC
  cached,       \* the lines in the LLC
  missed,       \* lines with a null entry in addr_map, left by a miss
  place         \* where each load is

vars == <<turn, state, current, wait_on_DRAM, left, request, response, acc_memory, LLC_evicted,
          finished_acc, reads, accelertor_mem, evictions, cached, missed, place>>
accelerator == <<state, current, wait_on_DRAM, left, request>>
dram == <<acc_memory, finished_acc, reads, response>>
llc == <<accelertor_mem, evictions, cached, missed>>

Turns == {"start", "return", "issue", "evict", "fill", "execute", "send", "acc"}
Places == {"new", "llc", "to_send", "dram", "to_complete", "done"}

-----------------------------------------------------------------------------
(* AccBlock.                                                               *)

completed(b) == b.finished = b.total
completed_requesting(b) == b.issued = b.total
next_to_send(b) == element(b, b.issued % b.nb_elem)
contains(b, a) == a >= b.start /\ a <= b.end

\* The first block that contains the address and has not completed counts it.
Claims(blocks, k, a) == contains(blocks[k], a) /\ ~completed(blocks[k])
FirstClaim(blocks, k, a) == Claims(blocks, k, a) /\ \A j \in 1 .. k - 1 : ~Claims(blocks, j, a)
Unclaimed(blocks, a) == \A k \in DOMAIN blocks : ~Claims(blocks, k, a)

\* transaction_complete and sent, for the block at k.
Count(blocks, k) == [blocks EXCEPT ![k].finished = @ + 1]
Sent(blocks, k) == [blocks EXCEPT ![k].issued = @ + 1]

AllCompleted(blocks) == blocks # <<>> /\ \A k \in DOMAIN blocks : completed(blocks[k])

Block == [start : Nat, end : Nat, nb_elem : Nat, total : Nat, issued : Nat, finished : Nat]

\* A block asks for no more than it holds, has elements if it asks at all, and
\* they are within it.
BlockSound(b) ==
  /\ b.issued <= b.total /\ (b.total > 0 => b.nb_elem > 0)
  /\ b.nb_elem * LineSize <= b.end - b.start
  /\ \A n \in 0 .. b.nb_elem - 1 : element(b, n) \in Addrs

TypeOK ==
  /\ turn \in Turns
  /\ state \in [Invocations -> {"new", "queued", "running", "done"}]
  /\ current \in Invocations \cup {None}
  /\ wait_on_DRAM \in BOOLEAN /\ LLC_evicted \in BOOLEAN /\ finished_acc \in BOOLEAN
  /\ left \in -1 .. MaxCycles
  /\ request \in Invocations \cup {None}
  /\ response \in {"none", "sent", "ready"}
  /\ acc_memory \in Seq(Block) /\ accelertor_mem \in Seq(Block)
  /\ \A k \in DOMAIN acc_memory :
       BlockSound(acc_memory[k]) /\ acc_memory[k].finished <= acc_memory[k].total
  /\ \A k \in DOMAIN accelertor_mem : BlockSound(accelertor_mem[k])
  /\ reads \in [Addrs -> Nat] /\ evictions \in [Addrs -> Nat]
  /\ cached \in SUBSET Lines /\ missed \in SUBSET Lines
  /\ place \in [Loads -> Places]

Init ==
  /\ turn = "start"
  /\ state = [i \in Invocations |-> "new"]
  /\ current = None /\ wait_on_DRAM = FALSE /\ left = -1
  /\ request = None /\ response = "none"
  /\ acc_memory = <<>> /\ LLC_evicted = FALSE /\ finished_acc = FALSE
  /\ reads = [a \in Addrs |-> 0]
  /\ accelertor_mem = <<>> /\ evictions = [a \in Addrs |-> 0]
  /\ cached \in SUBSET Lines /\ missed \in SUBSET (Lines \ cached)
  /\ place = [t \in Loads |-> "new"]

-----------------------------------------------------------------------------
(* DRAMSimInterface::process.                                              *)

\* The blocks of a new invocation go to the interface and to the LLC.
DramStart ==
  /\ turn = "start" /\ turn' = "return"
  /\ IF request = None
     THEN UNCHANGED <<acc_memory, accelertor_mem, finished_acc, LLC_evicted>>
     ELSE LET blocks == blocksOf[request] IN
          /\ acc_memory' = acc_memory \o [k \in DOMAIN blocks |-> NewBlock(blocks[k], blocks[k].factor)]
          /\ accelertor_mem' = accelertor_mem \o [k \in DOMAIN blocks |-> NewBlock(blocks[k], 1)]
          /\ finished_acc' = FALSE /\ LLC_evicted' = FALSE
  /\ request' = None
  /\ UNCHANGED <<state, current, wait_on_DRAM, left, response, reads, evictions, cached, missed, place>>

\* read_complete: a read is counted by the first block that claims its
\* address, otherwise it answers all the loads that wait for that address.
ReadComplete(a) ==
  /\ turn = "return" /\ reads[a] > 0
  /\ reads' = [reads EXCEPT ![a] = @ - 1]
  /\ \/ /\ \E k \in DOMAIN acc_memory :
             FirstClaim(acc_memory, k, a) /\ acc_memory' = Count(acc_memory, k)
        /\ UNCHANGED place
     \/ /\ Unclaimed(acc_memory, a)
        /\ place' = [t \in Loads |->
             IF place[t] = "dram" /\ Base(addrOf[t]) = a THEN "to_complete" ELSE place[t]]
        /\ UNCHANGED acc_memory
  /\ UNCHANGED <<turn, accelerator, response, LLC_evicted, finished_acc, llc>>

DramIssueTurn ==
  /\ turn = "return" /\ turn' = "issue"
  /\ UNCHANGED <<accelerator, dram, LLC_evicted, llc, place>>

\* The next read of a block of the accelerator.
DramIssue(k) ==
  /\ turn = "issue" /\ LLC_evicted
  /\ k \in DOMAIN acc_memory /\ ~completed_requesting(acc_memory[k])
  /\ acc_memory' = Sent(acc_memory, k)
  /\ LET a == next_to_send(acc_memory[k]) IN reads' = [reads EXCEPT ![a] = @ + 1]
  /\ UNCHANGED <<turn, accelerator, response, LLC_evicted, finished_acc, llc, place>>

TimeIsUp == left <= 0

\* The response, once, when all blocks have completed; and the blocks are
\* dropped when the cycles of the accelerator are over as well.
DramFinish ==
  /\ turn = "issue" /\ turn' = "evict"
  /\ LET finished == finished_acc \/ AllCompleted(acc_memory) IN
     /\ response' = IF finished /\ ~finished_acc THEN "sent" ELSE response
     /\ IF finished /\ TimeIsUp
        THEN acc_memory' = <<>> /\ finished_acc' = FALSE /\ LLC_evicted' = FALSE
        ELSE finished_acc' = finished /\ UNCHANGED <<acc_memory, LLC_evicted>>
  /\ UNCHANGED <<accelerator, reads, llc, place>>

-----------------------------------------------------------------------------
(* LLCache::process.                                                       *)

\* FunctionalCache::present: a null entry counts as well.
NextPresent(b) == Line(next_to_send(b)) \in cached \cup missed

\* A block stops at a line that is present, for want of a port; then one after
\* it finds none either.
StoppedAt(b) == ~completed_requesting(b) => NextPresent(b)

EvictsInOrder(k) ==
  \A j \in 1 .. k - 1 :
    /\ StoppedAt(accelertor_mem[j])
    /\ ~completed_requesting(accelertor_mem[j]) => ~NextPresent(accelertor_mem[k])

\* The next line of a block: if it is present, its eviction joins the pq.
LlcEvict(k) ==
  /\ turn = "evict"
  /\ k \in DOMAIN accelertor_mem /\ ~completed_requesting(accelertor_mem[k])
  /\ EvictsInOrder(k)
  /\ LET a == next_to_send(accelertor_mem[k]) IN
     \/ /\ NextPresent(accelertor_mem[k])
        /\ evictions' = [evictions EXCEPT ![a] = @ + 1]
        /\ accelertor_mem' = Sent(accelertor_mem, k)
     \/ /\ ~NextPresent(accelertor_mem[k])
        /\ accelertor_mem' = Count(Sent(accelertor_mem, k), k)
        /\ UNCHANGED evictions
  /\ UNCHANGED <<turn, accelerator, dram, LLC_evicted, cached, missed, place>>

\* An access of an L2 arrives.
LoadArrives(t) ==
  /\ turn = "evict" /\ place[t] = "new"
  /\ place' = [place EXCEPT ![t] = "llc"]
  /\ UNCHANGED <<turn, accelerator, dram, LLC_evicted, llc>>

LlcFillTurn ==
  /\ turn = "evict" /\ turn' = "fill"
  /\ \A k \in DOMAIN accelertor_mem : StoppedAt(accelertor_mem[k])
  /\ UNCHANGED <<accelerator, dram, LLC_evicted, llc, place>>

\* TransactionComplete, for all that the DRAM has answered; each may take the
\* place of a line, even of one answered just before.
LlcFill ==
  /\ turn = "fill" /\ turn' = "execute"
  /\ LET answered == {t \in Loads : place[t] = "to_complete"}
         filled == {Line(addrOf[t]) : t \in answered}
     IN
     /\ \E lost \in SUBSET (cached \cup filled) :
          /\ Cardinality(lost) <= Cardinality(answered)
          /\ filled # {} => ~(filled \subseteq lost)
          /\ cached' = (cached \cup filled) \ lost
     /\ missed' = missed \ filled
     /\ place' = [t \in Loads |-> IF t \in answered THEN "done" ELSE place[t]]
  /\ UNCHANGED <<accelerator, dram, LLC_evicted, accelertor_mem, evictions>>

\* mutant: no block counts the eviction
ExecuteEvictionMutant(a) ==
  /\ turn = "execute" /\ evictions[a] > 0
  /\ evictions' = [evictions EXCEPT ![a] = @ - 1]
  /\ cached' = cached \ {Line(a)}
  /\ UNCHANGED <<turn, accelerator, dram, LLC_evicted, accelertor_mem, missed, place>>

\* An eviction: the first block that claims the address counts it.
ExecuteEviction(a) ==
  /\ turn = "execute" /\ evictions[a] > 0
  /\ evictions' = [evictions EXCEPT ![a] = @ - 1]
  /\ cached' = cached \ {Line(a)}
  /\ \/ \E k \in DOMAIN accelertor_mem :
          FirstClaim(accelertor_mem, k, a) /\ accelertor_mem' = Count(accelertor_mem, k)
     \/ Unclaimed(accelertor_mem, a) /\ UNCHANGED accelertor_mem
  /\ UNCHANGED <<turn, accelerator, dram, LLC_evicted, missed, place>>

\* A miss leaves a null entry (CacheSet::access looks up with []).
ExecuteLoad(t) ==
  /\ turn = "execute" /\ place[t] = "llc"
  /\ \/ /\ Line(addrOf[t]) \in cached
        /\ place' = [place EXCEPT ![t] = "done"] /\ UNCHANGED missed
     \/ /\ Line(addrOf[t]) \notin cached
        /\ place' = [place EXCEPT ![t] = "to_send"]
        /\ missed' = missed \cup {Line(addrOf[t])}
  /\ UNCHANGED <<turn, accelerator, dram, LLC_evicted, accelertor_mem, evictions, cached>>

LlcSendTurn ==
  /\ turn = "execute" /\ turn' = "send"
  /\ UNCHANGED <<accelerator, dram, LLC_evicted, llc, place>>

\* willAcceptTransaction: no block of the accelerator contains the address of
\* the line.
LlcSend(t) ==
  /\ turn = "send" /\ place[t] = "to_send"
  /\ \A k \in DOMAIN acc_memory : ~contains(acc_memory[k], Base(addrOf[t]))
  /\ place' = [place EXCEPT ![t] = "dram"]
  /\ reads' = [reads EXCEPT ![Base(addrOf[t])] = @ + 1]
  /\ UNCHANGED <<turn, accelerator, acc_memory, response, LLC_evicted, finished_acc, llc>>

\* mutant: done when every eviction has been asked for
LlcFinishedMutant == accelertor_mem # <<>> /\ \A k \in DOMAIN accelertor_mem : completed_requesting(accelertor_mem[k])
LlcFinished == AllCompleted(accelertor_mem)

\* All the blocks have been evicted: the DRAM may read them.
LlcFinish ==
  /\ turn = "send" /\ turn' = "acc"
  /\ IF LlcFinished THEN accelertor_mem' = <<>> /\ LLC_evicted' = TRUE
     ELSE UNCHANGED <<accelertor_mem, LLC_evicted>>
  /\ UNCHANGED <<accelerator, dram, evictions, cached, missed, place>>

-----------------------------------------------------------------------------
(* Accelerator::process, which ends the cycle.                             *)

NextLeft == IF left > -1 THEN left - 1 ELSE -1

\* A response of this cycle is read in the next one.
NextResponse == IF response = "sent" THEN "ready" ELSE "none"

\* issueAccNode of a core.
Invoke(i) ==
  /\ turn = "acc" /\ state[i] = "new"
  /\ state' = [state EXCEPT ![i] = "queued"]
  /\ UNCHANGED <<turn, current, wait_on_DRAM, left, request, dram, LLC_evicted, llc, place>>

AccIdle ==
  /\ turn = "acc" /\ turn' = "start"
  /\ current = None
  /\ \A i \in Invocations : state[i] # "queued"
  /\ left' = NextLeft
  /\ response' = IF response = "sent" THEN "ready" ELSE response
  /\ UNCHANGED <<state, current, wait_on_DRAM, request, acc_memory, finished_acc, reads, LLC_evicted, llc, place>>

\* invoke: the blocks and the end of the computation go to the DRAM.
AccInvoke(i) ==
  /\ turn = "acc" /\ turn' = "start"
  /\ current = None /\ state[i] = "queued"
  /\ current' = i
  /\ state' = [state EXCEPT ![i] = "running"]
  /\ wait_on_DRAM' = TRUE
  /\ \E cycles \in 0 .. MaxCycles : left' = cycles - 1
  /\ request' = i
  /\ response' = IF response = "sent" THEN "ready" ELSE response
  /\ UNCHANGED <<acc_memory, finished_acc, reads, LLC_evicted, llc, place>>

\* mutant: does not wait for the DRAM
BusyMutant(waiting) == left >= 0
Busy(waiting) == left >= 0 \/ waiting

\* execute: read the response; done when it has come and the time is over.
AccExecute ==
  /\ turn = "acc" /\ turn' = "start"
  /\ current # None
  /\ wait_on_DRAM' = (wait_on_DRAM /\ response # "ready")
  /\ IF Busy(wait_on_DRAM')
     THEN UNCHANGED <<state, current>>
     ELSE /\ state' = [state EXCEPT ![current] = "done"]
          /\ current' = None
  /\ left' = NextLeft
  /\ response' = NextResponse
  /\ UNCHANGED <<request, acc_memory, finished_acc, reads, LLC_evicted, llc, place>>

-----------------------------------------------------------------------------
Next ==
  \/ DramStart \/ DramIssueTurn \/ DramFinish
  \/ LlcFillTurn \/ LlcFill \/ LlcSendTurn \/ LlcFinish
  \/ AccIdle \/ AccExecute
  \/ \E a \in Addrs : ReadComplete(a) \/ ExecuteEviction(a)
  \/ \E k \in DOMAIN acc_memory : DramIssue(k)
  \/ \E k \in DOMAIN accelertor_mem : LlcEvict(k)
  \/ \E t \in Loads : LoadArrives(t) \/ ExecuteLoad(t) \/ LlcSend(t)
  \/ \E i \in Invocations : Invoke(i) \/ AccInvoke(i)

Spec == Init /\ [][Next]_vars

Cycle ==
  \/ DramStart \/ DramIssueTurn \/ DramFinish
  \/ LlcFillTurn \/ LlcFill \/ LlcSendTurn \/ LlcFinish
  \/ AccIdle \/ AccExecute \/ \E i \in Invocations : AccInvoke(i)

\* The thread runs one cycle after the other.  Ports come back every cycle and
\* latencies end, so what a loop can do again and again it does.
Fairness ==
  /\ WF_vars(Cycle)
  /\ SF_vars(\E a \in Addrs : ReadComplete(a))
  /\ SF_vars(\E a \in Addrs : ExecuteEviction(a))
  /\ SF_vars(\E k \in DOMAIN acc_memory : DramIssue(k))
  /\ SF_vars(\E k \in DOMAIN accelertor_mem : LlcEvict(k))

FairSpec == Spec /\ Fairness

\* The same for the loads, which no invocation waits for.
LoadFairness == \A t \in Loads : SF_vars(ExecuteLoad(t)) /\ SF_vars(LlcSend(t))

LoadFairSpec == FairSpec /\ LoadFairness

-----------------------------------------------------------------------------
(* Properties.                                                             *)

\* When the blocks of an invocation reach the DRAM, those of the one before
\* are gone: the accelerator finishes after the DRAM has dropped them
\* (Accelerator.cpp:68, DRAM.cpp:189), although neither asks the other.  No
\* block counts more reads than it holds (AccBlock::transaction_complete).
OneInvocationAtATime ==
  /\ TypeOK
  /\ request # None /\ turn = "start" => acc_memory = <<>> /\ ~finished_acc /\ response = "none"

\* While the accelerator reads a block, the LLC holds no line that it reads
\* (DRAM.cpp:149): what it held was written back before, and no load that was
\* under way brings a line back.  Only the first line of a block that starts
\* in the middle of a line is not contained in the block, which compares with
\* the address of the line (LLCache.cpp:160, Memory_helpers.cpp:30): a load may
\* bring that one back.
\* The LLC drops its blocks only when no eviction is left in its pq, where it
\* would later be counted by a block of another invocation (LLCache.cpp:193).
ReadsAfterEviction ==
  /\ \A k \in DOMAIN acc_memory :
       LET b == acc_memory[k] IN
       b.issued > 0 /\ ~completed(b) =>
         /\ accelertor_mem = <<>>
         /\ \A n \in 0 .. b.nb_elem - 1 :
              n > 0 \/ b.start % LineSize = 0 => Line(element(b, n)) \notin cached
  /\ accelertor_mem = <<>> => \A a \in Addrs : evictions[a] = 0

\* An address that one block asks for is in another one.
Overlap(blocks) ==
  \E j, k \in DOMAIN blocks :
    j # k /\ \E n \in 0 .. blocks[k].nb_elem - 1 : contains(blocks[j], element(blocks[k], n))

\* A block that will not complete: counted too often, or asked for in full,
\* with nothing under way that could be counted for it.
Miscounted(blocks, underway) ==
  \E k \in DOMAIN blocks :
    \/ blocks[k].finished > blocks[k].total
    \/ /\ blocks[k].finished < blocks[k].total
       /\ \A j \in DOMAIN blocks : completed_requesting(blocks[j])
       /\ \A a \in Addrs : contains(blocks[k], a) => underway[a] = 0

StuckByOverlap ==
  \/ Overlap(accelertor_mem) /\ Miscounted(accelertor_mem, evictions)
  \/ Overlap(acc_memory) /\ LLC_evicted /\ Miscounted(acc_memory, reads)

\* Every invocation finishes, unless blocks of one overlap and one of them was
\* counted for another (DRAM.cpp:20, LLCache.cpp:213): then it, and all that
\* wait for the accelerator, stay for ever.
EventuallyFinished ==
  \A i \in Invocations : state[i] = "queued" ~> state[i] = "done" \/ StuckByOverlap

\* Every load that is waiting for the DRAM is answered.
LoadsAnswered == \A t \in Loads : place[t] = "dram" ~> place[t] = "done"
=============================================================================
