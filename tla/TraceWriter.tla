---------------------------- MODULE TraceWriter ----------------------------
(***************************************************************************)
(* The native run (compiler/tracer.cc).  Each thread runs its part of the  *)
(* kernel and records it: the addresses of its accesses and the block each *)
(* block leads to go into the thread's buffer, from its two ends, and the  *)
(* buffer goes as one message into a file or pipe when the next record     *)
(* would not fit; a call of an accelerator or of a partial barrier is      *)
(* written at once to a second file.  When all threads have ended, the     *)
(* main thread ends their traces in turn.                                  *)
(*                                                                         *)
(* run.code is the kernel (Instrumentation), run.trace[t] what thread t    *)
(* executes of it: a sequence of blocks [bb, addr], where addr[i] is the   *)
(* address that instruction i of the block accesses, 0 if it has none, and *)
(* run.records[t] what it records.                                         *)
(***************************************************************************)
EXTENDS Instrumentation

CONSTANTS
  Runs,        \* the native runs, and how they reach the simulator
  BufSize,     \* ints in the buffer of a thread, 1024 in the code
  CallCap      \* messages a pipe of calls holds

CallTypes == {"ACC", "PB"}

\* What a thread that executes blocks records, in order.  The last block ends
\* in no branch.
InstrRecord(code, blocks, k, i) ==
  LET b == blocks[k]
      instr == code[b.bb][i]
  IN  CASE instr.record = "none" -> <<>>
        [] instr.record = "MEM" -> <<[type |-> "MEM", instr |-> <<b.bb, i>>, value |-> b.addr[i]]>>
        [] instr.record = "CF" ->
             <<[type |-> "CF", kind |-> instr.kind, bb |-> b.bb, next |-> blocks[k + 1].bb]>>
        [] OTHER -> <<[type |-> instr.record, value |-> k]>>
BlockRecords(code, blocks, k) ==
  FlattenSeq([i \in DOMAIN code[blocks[k].bb] |-> InstrRecord(code, blocks, k, i)])
RecordsOf(code, blocks) ==
  FlattenSeq([k \in DOMAIN blocks |-> BlockRecords(code, blocks, k)])

\* nb_files divides the number of threads: the quotients of tracer.cc:75 and
\* sim.cpp:254 are rounded down, and both sides then agree on the files.  A
\* thread leaves its first block: Core.cpp:277 has no block to end with else.
ASSUME TraceAssumption ==
  /\ BufSize \in Nat /\ BufSize >= 16 /\ CallCap \in Nat \ {0}
  /\ \A r \in Runs :
        /\ r.usesFiles \in BOOLEAN /\ r.cap \in Nat \ {0}
        /\ r.nbFiles \in Nat \ {0} /\ Len(r.trace) % r.nbFiles = 0
        /\ r.usesFiles => r.nbFiles = Len(r.trace)
        /\ r.records = [t \in DOMAIN r.trace |-> RecordsOf(r.code, r.trace[t])]
        /\ \A t \in DOMAIN r.trace : Len(r.trace[t]) >= 2
        /\ \A t \in DOMAIN r.trace : \A k \in DOMAIN r.trace[t] :
              LET x == r.trace[t][k] IN
                /\ x.bb \in DOMAIN r.code /\ Len(x.addr) = Len(r.code[x.bb])
                /\ Last(r.code[x.bb]).kind = "none" <=> k = Len(r.trace[t])

VARIABLES
  run,
  pos,         \* the records a thread has made
  buf,         \* its buffer: the control-flow records and the accesses
  dynFiles,    \* the messages in each file or pipe
  accFiles,    \* the calls in each file or pipe
  cleaned      \* the threads whose trace has been ended

writerVars == <<run, pos, buf, dynFiles, accFiles, cleaned>>

Threads == 0..(Len(run.trace) - 1)
Files == 0..(run.nbFiles - 1)
Blocks(t) == run.trace[t + 1]
Records(t) == run.records[t + 1]

Empty == [cf |-> <<>>, mem |-> <<>>]

WriterInit ==
  /\ run \in Runs
  /\ pos = [t \in Threads |-> 0]
  /\ buf = [t \in Threads |-> Empty]
  /\ dynFiles = [f \in Files |-> <<>>]
  /\ accFiles = [f \in Files |-> <<>>]
  /\ cleaned = 0

\* The file of a thread, and the one a simulator thread reads for a core.
FileOf(t) == t \div (Len(run.trace) \div run.nbFiles)

HasRoom(f) == run.usesFiles \/ Len(dynFiles[f]) < run.cap

\* The positions cf and mem of insert_mess: the first free int of the front,
\* and the int after the last free one.
CfPos(b) == 3 * Len(b.cf) + 3
MemPos(b) == BufSize - 5 * Len(b.mem)

FlushBeforeCf(b) == CfPos(b) + 3 > MemPos(b)
\* Mutant: compares before making room for the five ints of the access.
FlushBeforeMemMutant(b) == MemPos(b) < CfPos(b)
FlushBeforeMem(b) == MemPos(b) - 5 < CfPos(b)
FlushBeforeEnd(b) == CfPos(b) + 3 > MemPos(b) - 5

Message(t, b, end) == [id |-> t, cf |-> b.cf, mem |-> b.mem, end |-> end]
Written(files, t, m) == [files EXCEPT ![FileOf(t)] = Append(@, m)]

\* insert_mess for CF and MEM.  write_mess repeats its write until the pipe
\* takes the whole message, so a thread that must flush waits for room.
Inserted(b, rec) ==
  IF rec.type = "CF" THEN [b EXCEPT !.cf = Append(@, rec)] ELSE [b EXCEPT !.mem = Append(@, rec)]

MustFlush(b, rec) == IF rec.type = "CF" THEN FlushBeforeCf(b) ELSE FlushBeforeMem(b)

NextRecord(t) == Records(t)[pos[t] + 1]
Running(t) == pos[t] < Len(Records(t))

RecordInBuffer(t) ==
  /\ Running(t) /\ NextRecord(t).type \in {"CF", "MEM"}
  /\ ~MustFlush(buf[t], NextRecord(t))
  /\ buf' = [buf EXCEPT ![t] = Inserted(@, NextRecord(t))]
  /\ pos' = [pos EXCEPT ![t] = @ + 1]
  /\ UNCHANGED <<run, dynFiles, accFiles, cleaned>>

RecordAfterFlush(t) ==
  /\ Running(t) /\ NextRecord(t).type \in {"CF", "MEM"}
  /\ MustFlush(buf[t], NextRecord(t)) /\ HasRoom(FileOf(t))
  /\ dynFiles' = Written(dynFiles, t, Message(t, buf[t], FALSE))
  /\ buf' = [buf EXCEPT ![t] = Inserted(Empty, NextRecord(t))]
  /\ pos' = [pos EXCEPT ![t] = @ + 1]
  /\ UNCHANGED <<run, accFiles, cleaned>>

\* write_acc_mess, from print_matmul to print_partial_barrier: not buffered.
RecordCall(t) ==
  /\ Running(t) /\ NextRecord(t).type \in CallTypes
  /\ run.usesFiles \/ Len(accFiles[FileOf(t)]) < CallCap
  /\ accFiles' = Written(accFiles, t, [id |-> t, type |-> NextRecord(t).type,
                                       value |-> NextRecord(t).value])
  /\ pos' = [pos EXCEPT ![t] = @ + 1]
  /\ UNCHANGED <<run, buf, dynFiles, cleaned>>

Record(t) == RecordInBuffer(t) \/ RecordAfterFlush(t) \/ RecordCall(t)

\* tracer_cleanup: END for each thread, once the parallel region is over.
Cleaning == (\A t \in Threads : ~Running(t)) /\ cleaned \in Threads

FlushForEnd ==
  /\ Cleaning /\ FlushBeforeEnd(buf[cleaned]) /\ HasRoom(FileOf(cleaned))
  /\ dynFiles' = Written(dynFiles, cleaned, Message(cleaned, buf[cleaned], FALSE))
  /\ buf' = [buf EXCEPT ![cleaned] = Empty]
  /\ UNCHANGED <<run, pos, accFiles, cleaned>>

\* The records -1 of both kinds are the message's end.
End ==
  /\ Cleaning /\ ~FlushBeforeEnd(buf[cleaned]) /\ HasRoom(FileOf(cleaned))
  /\ dynFiles' = Written(dynFiles, cleaned, Message(cleaned, buf[cleaned], TRUE))
  /\ buf' = [buf EXCEPT ![cleaned] = Empty]
  /\ cleaned' = cleaned + 1
  /\ UNCHANGED <<run, pos, accFiles>>

Cleanup == FlushForEnd \/ End
=============================================================================
