# A verification model of MosaicSim

MosaicSim is a cycle-driven simulator of heterogeneous systems. LLVM passes
turn a kernel into a graph of its instructions and instrument it; the kernel
runs natively and writes a trace; the simulator lets cores execute graph and
trace on caches, accelerator tiles and DRAM, some of them in pairs that are
decoupled into a supply and a compute slice. This directory models the parts
in which several actors, queues or clocks meet, checks them with TLC on small
instances and proves their main invariants with TLAPS for all instances.

Lines are given as `File.cpp:line`; the files are under `src/sim`, in `tile/`,
`memsys/`, `memsys/DRAMSim2/`, `misc/` or directly there, or under
`src/compiler`.

## 1. The system

One OpenMP thread runs one or more core tiles; the last thread runs the DRAM
interface, the LLC and the accelerator tile, in that order (`sim.cpp:284`). All
threads run a cycle, in any order and concurrently, and meet at an OpenMP
barrier before the next (`sim.cpp:303`). Within a cycle, tiles exchange
information in three ways: method calls on shared objects (`DESCQ`, `Barrier`,
the lock maps of the LLC), queues of pointers (`incoming_transactions`,
`to_complete`, `to_send`) and the double buffers of `CommMec.hpp`. The native
run is another process; it meets the simulator in pipes or files.

| Component | State | Operations | Meets | What is hard | Correct when |
|---|---|---|---|---|---|
| DESCQ (`DESCQ.cpp`, `issueDESCNode`) | commQ, terminal buffer, SAB, SVB, STLMap, counters and pointers | `insert`, `execute`, `process`, completion | two cores on two threads, the LSQ, memory | execution in pointer order, counters changed in three places, forwarding from a value that has not been computed | counters exact, stores in order, forwards connected, no slice waits for ever within reach of its window |
| Core (`Core.cpp`, `DynamicNode.cpp`) | contexts, issue set, window, pending parents, units | `process`, `createContext`, `tryActivate`, `finishNode`, `complete` | LSQ, caches, predictor | wakeups in two places, contexts created while their parents complete, speculation | values first, no wakeup lost, limits kept, everything finishes |
| Load/store queue (`LoadStoreQ.cpp`) | lq, sq, address maps | `checkSize`, `check_*`, `resolveAddress` | contexts, DESCQ | admission of a block, late addresses, three reverse searches | accesses to one address keep their order |
| Branch predictors (`Bpred.cpp`) | BHT, global history | `predict` | core | masks, saturation | counters in range |
| L1 and MSHR (`L1Cache.cpp`) | pq, to_send, to_prefetch, MSHR map | `execute`, `process`, `transComplete_MSHR_update` | core, L2 | order of the loops, merging, full MSHR file, prefetches that enter again and again | every entry has its request, no merged miss lost, every access answered |
| Functional cache (`FunctionalCache.cpp`) | addr_map, list, free entries | `access`, `insert`, `evict` | the three levels | null entries after a miss, ghost lines, tags | map, list and free entries agree, the last lines used are held |
| L2 and LLC pipelines | pq, to_send, to_evict | `execute`, `process`, `TransactionComplete` | L1s, DRAM | write-backs that miss, fills that meet | everything answered, write-backs are of stores |
| LLC lock (`LLCache.cpp`) | lockedLineMap, lockedLineQ, acknowledgements | `lockCacheline`, `evictAllCaches`, `releaseLock` | all cores and both private levels | hand-over while evictions are in flight, hits that bypass the lock | sound queue, owner alive, acknowledgements present while they are read |
| Accelerator and memory (`Accelerator.cpp`, `DRAM.cpp`, `AccBlock`) | blocks at LLC and DRAM, two timers, response buffer | `invoke`, `execute`, evictions, reads | LLC, DRAM, loads of the cores | two copies of each block that finish separately, blocks that overlap or start inside a line | one invocation at a time, reads after write-back |
| DRAM (`DRAMSim2`) | transaction queue, command queues, two tables of bank states, buses | `update` of controller, queue and rank | DRAM interface | timing tables in two places, refresh, power down, activates dropped by position | every command allowed, data in order, everything served |
| Barrier (`sim.cpp:18`, `IssueWindow`) | barrier_map, to_insert, pq, window | `register_barrier`, `canIssue` | all cores | release in the middle of a cycle of another thread, wrap of the window | nobody passes before all arrive, no barrier lost |
| Trace reading (`sim.cpp`, `Core::read_dyn_data`) | cf, memory, acc_map, files | `run`, `read_dyn_data`, `createContext` | native run | chunks of several streams, pipes that are full | each context takes the records of its block, both programs end |
| Tracer and instrumentation (`tracer.cc`, `RecordDynamicInfo.cpp`) | a buffer per thread, pipes | `tracer_ld`, `write_mess`, `tracer_cleanup` | simulator | records of two sizes in one buffer, two passes that must agree | buffers sound, recorded is what is taken |
| Graph generator (`GraphGen.cpp`, `Graph.cpp`) | types, edges | `detectFunctions`, `addDataEdges`, `readGraph` | core | PHIs, addresses, values of other blocks | the core waits for the values it uses |
| CommMec double buffers | two arrays, two counters | `insert`, `get_comp_buff`, `get_comp_elems` | any two tiles | parity of clocks, full buffer | nothing lost, read once |
| Configuration, statistics, accelerator formulas | | | | | |

`PROJECT.json` lists every component with its status, and every hazard with its
line and the properties that cover it.

## 2. Modules

| Module | Code | Kind |
|---|---|---|
| `DecoupledQueue` | `DESCQ.cpp`, `DynamicNode.cpp:661-792`, `LoadStoreQ.cpp:165-281`, both windows | component |
| `DecoupledChannel` | what DESCQ promises | abstract specification |
| `DecoupledQueueProofs` | | proofs, refinement |
| `KernelGraph`, `CoreProgram` | `GraphGen.cpp`, `Graph.cpp`; what a core executes | operators |
| `LoadStoreQ`, `BranchPredictor` | `LoadStoreQ.cpp`, `Bpred.cpp` | operators on their state |
| `CoreExecution`, `CoreExecutionProofs` | `Core.cpp`, `DynamicNode.cpp` | composition of the four; proofs, also of `Instrumentation` |
| `Instrumentation`, `TraceWriter` | `RecordDynamicInfo.cpp`, `tracer.cc` | operators; the native run |
| `TraceStream` | `sim.cpp`, `Core.cpp`, `Context::initialize` | composition of native run and simulator |
| `L1MissPath`, `L1MissPathProofs` | `L1Cache.cpp`, `Cache.cpp` | component, proofs |
| `CacheSet` | `FunctionalCache.cpp` | operators on a set |
| `LruSets` | what the private caches promise | abstract specification |
| `CacheHierarchy`, `CacheHierarchyProofs` | `Cache.cpp`, `L1Cache.cpp`, `L2Cache.cpp`, `LLCache.cpp` | composition of three levels; proofs, refinement |
| `CacheLock`, `CacheLockProofs` | `LLCache.cpp:8-285`, the eviction paths of `L1Cache.cpp` and `L2Cache.cpp`, `DynamicNode.cpp:466-484` | composition of core, L1, L2 and LLC; proofs |
| `AcceleratorMemory`, `AcceleratorMemoryProofs` | `Accelerator.cpp`, `DRAM.cpp`, `Memory_helpers.cpp`, `LLCache.cpp` | composition of three tiles, proofs |
| `AddressMapping`, `DramTiming` | `AddressMapping.cpp`, `BankState.cpp`, `SystemConfiguration.h` | operators |
| `DramRank`, `DramCommandQueue` | `Rank.cpp`, `CommandQueue.cpp` | components |
| `DramController`, `DramInvariants`, `DramControllerProofs` | `MemoryController.cpp`, `MemorySystem.cpp` | composition of one channel; its inductive invariants; proofs |
| `Barrier`, `BarrierProofs` | `sim.cpp:18-47`, `Core.cpp:18-84`, `Context::process` | component, proofs |
| `MC...` | | the instances TLC checks |

Operators named `...Mutant` are the code with a plausible mistake. No behaviour
uses them; `PROJECT.json` pairs each with the property that finds it.

### DecoupledQueue

The desc_ids are numbered as `DESCQ::order` assigns them: a program is a
sequence of producers (SEND, LD_PROD, TRM_ATOMIC), each with its RECV on the
compute core, and of stores, each a STADDR on the supply core and an STVAL on
the compute core. A node is `waiting`, `queued` (issued, in `execution_set`),
`terminal` (in the buffer of terminal operations), `finishing` (in the pq) or
`completed`. Each branch of `issueDESCNode` with `insert` is an `Issue...`
action, each branch of `execute` an `Execute...` action; `MemoryReturn`,
`DrainTerminal` and `Finish...` are `handleMemoryReturn`, the drain in
`process` and `finishNode`. `RetireSupply` and `RetireCompute` are the
retirement of both windows; a window admits nothing but its first instruction
until something has retired, as `window_end` starts at 0.

The two cores run on different threads and the execution set is ordered by
pointers, so any enabled action may come next.

`DecoupledChannel` keeps three facts: the state of each entry, how many values
have been supplied and how many stores written. The refinement
(`ImplementsChannel`) says that capacity is respected, that an entry is filled
before it is taken and taken once, and that stores are written one by one after
their values.

### CoreExecution

A kernel in LLVM's single assignment form is compiled by `KernelGraph` to the
graph the simulator reads: the types of the instructions (the chain of names in
`detectFunctions`), data, PHI, address and external edges. `CoreProgram` adds
the trace: the blocks in the order they ran and the address of each access. A
DynamicNode is a pair of a context and a position.

The phases of a cycle are the loops of `Core::process`: `Retire` moves the
window over what has completed, `Visit` issues one node of the issue set in
program order (`toVisit` is what the loop has left), `Complete` is one node
that leaves pq or memory, `CreateContext` and `CreateNone` are `createContext`
and its early returns. A visit ends as `IssueWindow::canIssue`, the units or
the cache refuse (`WindowFull`, `Refused`) or as one of the branches of
`issueCompNode` and `issueMemNode`. Wakeups go through `pending`,
`pendingExt` and `extDependents`, which are set in `Context::initialize` and
counted down in `finishNode`; `Activated` is `tryActivate`. `LoadStoreQ` has the
queues and `checkSize`, `check_load_issue` and `check_store_issue`;
`BranchPredictor` the counters and the history, for all kinds of predictors.

Latencies are arbitrary: a node completes in any later cycle. `owner`
(`curr_owner`) is the youngest context of a block, to which later contexts
connect their values.

### TraceStream

`Instrumentation` says which instructions get a call of the tracer in front of
them and what it records, on the same kernels as `KernelGraph`. `TraceWriter` is
the native run: each thread fills its buffer from two ends, writes it as one
message when the next record does not fit, writes calls at once to another file,
and the main thread ends the traces when all threads have ended. `TraceStream`
adds the simulator: each of its threads reads for its cores until the next two
blocks of a core are known (`ReadDyn`, `ReadNothing`, `ReadDone`), lets them run
(`ProcessIdle`, `ProcessWork`), and meets the others (`NextCycle`). A record
has a thread; `context` is what the youngest context of a core took from its
streams, which `ContextsFollowTrace` compares with the block that ran.

### L1MissPath

A core, its L1 and its L2 run on one thread, so the interleaving is that of the
loops of `L1Cache::process`: `phase` says which one runs. Inside a loop the
elements are visited in any order; between two calls the core adds
transactions and the L2 answers. `checkMSHR`, `visited` and `mshr` are the flag
of a transaction, the progress of the loop over `to_send` and the opsets. A hit
overwrites the entry of its line (`L1Cache.cpp:220`).

A prefetch that finds no prefetch port goes to `to_prefetch` (`ListPrefetch`).
Nothing ever leaves that list: `StartProcess` puts all its elements in `pq` again
in every cycle that begins with a free store port (`L1Cache.cpp:62-67`). So
`copies` counts how often a transaction is in each queue, and all copies share
its fields and its flag. Each takes the branches any access takes: it hits,
allocates, joins, waits or is sent again. The answer of one copy deletes the
transaction while the others, and the list, still hold it; the step that next
uses it (`UseDeleted`) leads to the phase `undefined`, after which the model
claims nothing and stops.

### CacheHierarchy

`CacheSet` is a set of the functional cache with its three structures: the list
of entries in use, most recently used first, the stack of free ones, and
`addr_map`, whose keys may be absent, null (a miss leaves one behind) or lead to
an entry. `CacheHierarchy` has an L1 and an L2 per core and the LLC. `stage` is
where the one request of a core for a line is; a fill inserts the line and, if
the victim is dirty, counts a write-back in `l1Evict`, `l2Evict` or `memWrites`
of the line that `FunctionalCache::insert` reconstructs from tag and set.
The tag of a line is cut with the logarithm of the number of sets, rounded down
(`IndexedSets`), but a line is put together with the number itself (`LineOf`):
with three sets, two are used and the victim 3 is written back as line 4
(`Rebuilt`). `Addresses` are the lines of the cores and those that are made this
way. `L2Write` and `LlcWrite` are the write-backs one level up; one that misses
goes no further. Evictions from outside come as the lock and the accelerator
send them. The refinement `ImplementsLru` says that the lists of all private
sets are those of `LruSets`: the lines that were used last, each with a dirty
bit that is true exactly when it was written to since it came.

### CacheLock

One line; two cores with their L1 and L2 and the LLC. `place` follows each
access from the core through `pq`, `to_send` or a merge in the MSHR, the L2 and
the LLC, to memory and back. At the LLC an atomic asks for the lock or joins
the queue (`RequestLock`, `AcquireLock`), the new owner's request sends
evictions to all caches (`Grant`), each eviction counts itself in the counter
(`EvictL1`, `EvictL2`), and the owner is served when all have. The release is a
step of its own, as `to_release` is emptied by the LLC in a later cycle
(`LLCache.cpp:116`), and hands the lock to the head of the queue (`HandOver`).
`Replace` drops the line from a private cache at any time; an eviction left
over from an earlier lock does the same and counts in a counter of its own.

A load or an atomic in `Prefetching` may spur a prefetch, which carries its node
(`L1Cache.cpp:279`) and may reach the LLC at any time from then on, even after
that node has completed. The LLC compares nodes only, so the prefetch of an owner
passes for the owner (`ExecutePrefetch`): the first of the two that finds all
acknowledgements erases the counter, and the other reads a null pointer
(`Crash`), which ends the simulator: `status` is `crashed` and nothing moves
any more.

### AcceleratorMemory

DRAM, LLC and accelerator run in turn on one thread and count the same cycles;
`turn` walks through their loops. An invocation goes through `acc_comm`
(`queued`), the accelerator (`current`), both copies of its blocks
(`acc_memory` at the DRAM, `accelertor_mem` at the LLC), and back through
`acc_responses`. `left` is `final_cycle - cycles`. Loads of cores share the LLC
and the DRAM; `reads` counts what the DRAM serves for a line, whoever asked.
A read or an eviction counts for the first block that contains its address and
has not completed (`FirstClaim`).

Addresses are bytes. A block is asked for at its start and every `LineSize` bytes
after it (`element`), for as many whole lines as fit before its last word; it
contains every address from its start to that word (`contains`). The caches keep
lines (`cached`), the LLC asks the DRAM for a load with the address of its line
(`Base`). So a block that starts inside a line does not contain the address of
that line, and one may contain an address that another asks for. `missed` are
the lines with a null entry in `addr_map`, which `present` takes for present
(`LLCache.cpp:97`).

### DramController

One channel. `phase` walks through `MemorySystem::update`: the ranks
(`DramRank`), the bus, the choice of a command (`DramCommandQueue`, `Pop...`),
and what the controller does with it. Times are kept as the cycles that are
left (`DramTiming`). The controller has one table of bank states and each rank
another, one bus cycle behind; the checks of `Rank::receiveFromBus` that end the
program are guards, and `RanksAllow` says that no command ever meets one.
`policy` is open or closed pages, a queue per rank or per bank, and the two
orders of the round robin. An address is cut by `AddressMapping`. A packet
carries the number of its transaction, which only the properties read.

### Barrier

Each core goes through the loops of `Core::process` once a cycle, the cores in
any order and concurrently; `NextCycle` is the OpenMP barrier. `window_start`
and `window_end` are those of `IssueWindow`, with the wrap of an infinite
window (`EndOf`). Registration and release are single steps, as they run in
`omp critical`. `early` are the instructions that may leave the window at issue
(`can_exit_rob`).

## 3. Runs

| Run | Instance | States | Shows |
|---|---|---|---|
| `descq` | 3 producers, 3 stores, 4 programs; commQ 2, terminal buffer 1, SAB 2, SVB 1, supply window 4, compute window 2 | 364,664 | 5 invariants, `ImplementsChannel`, `EventuallyDone` |
| `core` | a loop and a kernel of aliased stores with an atomic, 4 contexts each; in order, out of order with and without the use of aliases, without limits; 1 ALU | 94,616 | 5 invariants (`LimitsHold` contains the types), `EventuallyDone` |
| `trace` | 9 blocks with all kinds of records; 2 or 3 threads with 1 pipe, 2 pipes that hold everything, or 2 files; buffers of 21 words | 22,540 | 2 invariants, `EventuallySimulated` |
| `trace_pipes` | 2 threads, a pipe of 1 message each | violation | native run and simulator wait for each other |
| `l1miss` | 2 loads, 1 prefetch, listed or not, up to 3 copies of it; 2 lines, 1 MSHR entry | 33,099 | 4 invariants, `EventuallyAnswered` |
| `cache` | 2 cores, 3 lines; L1 of 3 sets of 1 way, L2 and LLC of 1 set of 2 ways; 3 operations | 180,676 | `SetsSound`, `ImplementsLru`, `EventuallyAnswered` |
| `lock` | 2 cores, 3 atomics, one of which spurs a prefetch, 1 load, caches empty at first | 201,672 | 2 invariants, `EventuallyDone` |
| `lock_release` | as `lock` | violation | the lock is released under its owner |
| `accmem` | 2 invocations: a block that starts inside a line and one without elements; three blocks that overlap, one of factor 2. 2 loads, lines of 8 bytes | 235,322 | 2 invariants, `EventuallyFinished` |
| `accmem_lost` | as `accmem` | violation | a load is counted for a block and never answered |
| `dram` | 2 ranks of 2 banks of 2 rows, 3 transactions on 4 addresses, 4 combinations of policies, refresh and power down | 302,835 | 5 invariants, `EverythingServed` |
| `barrier` | 3 cores, 2 barriers each at different places, window 2, a decoupled store after the last barrier | 28,712 | 3 invariants, `EventuallyDone` |

### Bounds

* `descq`: every admission check refuses in the run. Three producers overflow a
  commQ of two and a terminal buffer of one; three stores overflow a SAB of two
  and a SVB of one. A supply window of four lets the two younger producers take
  the commQ before the oldest, and in the first program a store keeps the compute
  window of two from their RECVs. `NumProds` and `NumStores` are the only bounds;
  the invariants are proved for all. The four `Programs` have each kind of
  producer, next to each other or around a store, and stores whose value is
  forwarded to one load, to two or to none.
* `core`: a trace of four contexts (`MaxContexts`) runs the loop twice, so that
  values come from the block itself, from its last turn and from a block before
  the loop; the second kernel fills both queues, has a store whose address
  resolves late before a load of the same address, and an atomic, which the
  queue does not reserve a place for. `MaxBlock` is the length of a block,
  `MaxPorts` the accesses the cache takes in a cycle; `BranchLookahead` is 50
  in the code and only counts blocks of the trace. Proved for all: any program
  in single assignment form whose trace follows its branches (`WellFormed` in
  `CoreProgram`, which TLC evaluates on the programs of the run).
* `trace`: the buffer of 21 words takes several records of either size but not
  all of a thread's, so that a thread flushes in the middle of a block. `CallCap`
  (messages in the file of calls) holds all calls of a thread: in the code it is
  128, and a thread with more of them stops before the simulator reads them,
  even with one pipe.
* `l1miss`: three transactions on one entry give a primary miss, a merge and a
  miss that waits; two lines make the file full for one of them. `Placements`
  puts the prefetch on the line of both loads, or of one while the other waits
  for an entry. `MaxCopies` = 3 has copies of the listed prefetch in front of and
  behind each other in any two queues and one more to meet the deletion: a copy
  can miss while another is answered and a third is below. Proved for all.
* `cache`: three operations (`MaxOperations`) fill a set of two ways with two
  lines and replace one by a third, with a dirty victim; two cores miss on a
  line at the same time. Three sets in the L1, not a power of two as in some
  shipped configurations, make its dirty victim 3 the write-back of line 4,
  which is one of the three lines, so the wrong line can be in the L2 and become
  dirty. After the last operation all requests, write-backs and evictions go on
  to their end.
* `lock`: three atomics let one wait while another owns and a third is served
  without the lock, with two of them in one core so that they meet in an MSHR.
  The prefetch belongs to one of these two, so its atomic may own the lock
  before, after or while the others do.
* `accmem`: `MaxCycles` = 2 lets an invocation end before, with and after its
  reads; two invocations are the least that can overlap. With lines of 8 bytes
  the block at 12 reads lines 1 and 2, contains the addresses of 2 and 3, and
  one load is in line 1. Of the blocks at 8, 16 and 8 each contains the address
  that follows its own, so reads and evictions are counted for others and a block
  can be counted beyond its size. A size is at least 4 bytes (it wraps below).
* `dram`: three transactions (`MaxTransactions`) that arrive in any of the first
  three cycles (`Window`) give a row conflict and a row hit in one bank, or two
  banks or ranks at once, reads behind writes, and two accesses to one address.
  The timings are small but all different where the code takes a maximum; they
  satisfy `TimingAssumption`, as all 13 packaged device files do.
  `RefreshPeriod` is 28 and must be long enough to close all rows of a rank and
  refresh it (with 16, `RefreshNotLost` fails; the devices have some thousands).
  An additive latency (`AL` = 1) has been checked too. `RanksAllow`,
  `ColumnsHaveTheirRow`, `OneBurstAtATime` and `SameAddressInOrder` are proved
  for all memories, timings, policies and depths with: addresses of the memory
  there is (a bank, rank and row in range: the numbers are powers of two), a
  command queue with room for the two commands of a transaction, a refresh
  period longer than the number of ranks, and a read latency above one.
* `barrier`: three cores give a release of two others that are at different
  points of their cycle; the second round begins while the first still drains.
  `Length` is 5. Proved for all.

No state constraint is used; all instances are finite by themselves.

### Fairness

Every assumption is that a loop of the simulator goes on, or that a wait that
the hardware model bounds does end.

* `DecoupledQueue`: weak fairness of retirement and of each node.
  `DESCQ::process` and `Context::process` try every element of their sets in
  each cycle, so what stays possible happens; memory answers. Nothing prefers an
  older node to a younger one: where the younger producers fill the commQ first,
  the run says so (`RecvOutOfReach`).
* `CoreExecution`: the cycles go on (weak fairness of `Next`), each node leaves
  its unit and memory again and again, and the cache takes accesses again and
  again at the beginning of an issue loop.
* `TraceStream`: each thread of either process gets its turns (weak fairness of
  the steps of each); what a core executes completes in some cycle (strong
  fairness of `ProcessWork`).
* `L1MissPath`: weak fairness of the loops, and inside one that some element is
  visited, so each loop ends; strong fairness for each transaction of the latency
  (`ExecuteStep`), of the answer from below (`Answer`) and of the L2's ports
  (`SendStep` while the parent accepts), each of which is only possible in one
  phase of a cycle. Listed prefetches enter `pq` in any cycle or none: the loads
  must be answered against their competition for the MSHR entry.
* `CacheHierarchy`: weak fairness of some read of the memory, and for each core
  of some step of its requests.
* `CacheLock`: weak fairness of each access in each queue and of each eviction.
  The queues are walked from the front in each cycle and ports are given back.
* `AcceleratorMemory`: the cycles go on; strong fairness of what may happen in
  each cycle (a read returns, an eviction executes, a block sends).
  `LoadFairSpec` adds the same for loads, so that the load of `accmem_lost` is
  not lost for want of progress.
* `DramController`: the clock runs (`ClockRuns`). Everything else is
  deterministic but for the arrivals.
* `Barrier`: the cycles go on, and an instruction that may issue or complete in
  every cycle does so in the end (`issue_set` is in program order, latencies
  are finite).

Deadlock is checked in all runs but `descq`; where a system ends, a step that
leaves everything unchanged is allowed when all is done (`Finished`, `Quiet`, the
last cycles of a core), or when the program has crashed (`Crashed`, `Undefined`).
In `descq` the two slices may really wait for each other for ever, and
`EventuallyDone` says when.

## 4. Where the code and its comments part

With a run that finds the property violated:

1. `lock_release` (`LLCache.cpp:18`): `releaseLock` does not ask who owns the
   lock. An atomic served by a private cache releases another one's. All
   accesses still complete (`lock`, `EventuallyDone`), and the queue stays sound
   (`QueueStaysSound`).
2. `accmem_lost` (`DRAM.cpp:20`): a load that the DRAM is serving when an
   invocation of its line begins is counted as a read of the accelerator.
3. `trace_pipes` (`sim.cpp:280`, `tracer.cc:77`): with a pipe per core, the
   simulator waits for the records of one core, whose thread has not filled its
   buffer and writes it only when all threads have ended, one of which waits for
   the simulator to read its full pipe.

In the behaviours of a passing run, whose property names the case as the only
exception; without the exception TLC finds it violated:

* `DynamicNode.cpp:695` (`descq`, `RecvOutOfReach` in `EventuallyDone`): the
  test on the head of the SAB does not rule out the deadlock its comment says it
  avoids. The value of a forwarding store waits for the RECV, the RECV waits
  behind a full compute window, which waits for the next value, which waits for
  the SVB. `DESCQ.cpp:149` has another: the younger producers take the commQ,
  and the window stays at the RECV of the oldest, which then never gets a place.
  Both need a compute window that is short against the distance in the program
  between the value and its RECV, and a full queue; the shipped `core_desc.txt`
  has a window of 1 and queues of 128.
* `L1Cache.cpp:63` and `284` (`l1miss`, `Undefined` in `EventuallyAnswered`,
  `to_prefetch = {}` in the invariants): `to_prefetch` is filled but never
  cleared, so a prefetch that once found no port is executed in every later
  cycle that begins with a free store port, sent to the L2 again and again, and
  used after `L1Cache.cpp:332` has deleted it. (With `store_ports` = -1 the test
  at line 64 is never true and a listed prefetch never enters at all.) The
  packaged cores that prefetch have 8 store ports or more and fetch 2 to 8 lines
  per detected stride with 4 prefetch ports, so a few accesses of one cycle
  suffice. What holds even then is proved: no hit overwrites an entry, every
  entry has its request, and the MSHR file keeps its size.
* `LLCache.cpp:226` (`lock`, `Crashed` in `LockSound` and `EventuallyDone`): the
  prefetch of an atomic carries the node of the owner and is taken for it; one of
  the two finds the acknowledgement counter erased and reads a null pointer.
  `LockIsSound` proves that this is the only way, `NeverCrashes` that without
  prefetching atomics the pointer is never null.
* `LLCache.cpp:160` and `Memory_helpers.cpp:30` (`accmem`, `n > 0` in
  `ReadsAfterEviction`): a block that starts inside a line does not contain the
  address at which the LLC asks for that line. A load that is under way at the
  DRAM is answered, and brings the line back to the LLC while the accelerator
  reads it. `EvictedBeforeRead` proves that it is the only line.
* `LLCache.cpp:213` and `DRAM.cpp:20` (`accmem`, `StuckByOverlap` in
  `EventuallyFinished`): evictions and reads are counted for the first block that
  contains their address. Of blocks that overlap one may be counted for another,
  and then either beyond its size or not enough; it never completes, nor does its
  invocation.
* `FunctionalCache.cpp:221` (`cache`, `WrittenL2` and `WrittenLlc` in
  `SetsSound`): with a number of sets that is not a power of two (an LLC of
  27,648 sets in `sim_test.txt`) the address that is put together of a victim is
  another line's, so a line that no core has stored to becomes dirty below and
  the stored one does not. `SetsAreSound` says exactly which, and
  `OnlyStoresWrittenBack` that with powers of two only stored lines are written
  back.

Seen while modelling; each shows in the instance named:

* `LoadStoreQ.cpp:184`: a decoupled store counts as done once it has left the
  ROB, long before it writes; a younger load of its address may read memory
  first.
* `Core.cpp:57`: a barrier waits only for what is in `issueMap` and below
  `window_end`. Decoupled instructions that left at issue are not in it (`early`
  before a barrier), and with `window_size` -1 the end wraps to a position before
  the window. `Synchronised` proves that there is no third case.
* `LoadStoreQ.cpp:283`: `check_speculation` looks for loads that are older than
  the store, where the comment at its call (`DynamicNode.cpp:850`) wants the
  younger ones that read too early. A store waits for the older loads of its
  address, so the search finds nothing that has read, and nothing is ever
  replayed (`NothingIsReplayed`). Loads still keep their order without it
  (`MemoryIsOrdered`), provided that a core that forwards also speculates: with
  `mem_forward` alone, which no shipped configuration has, a load that may
  forward on a guess falls through to memory unchecked, and TLC finds
  `MemoryOrder` violated.
* `LoadStoreQ.cpp:259`: a load may take the value of a store that has not
  completed, when it is the youngest older one and its address is known.
* `Core.cpp:376`: the trimming of `cf` asks for more contexts than blocks that
  were read, and never happens.
* `Core.cpp:281`: the destination of the last block of a chunk is only known with
  the next chunk, so a branch may be predicted without it (`DestinationsKnown` of
  `TraceStream` does not hold; no run checks it).
* `Core.cpp:214`: the core of a message of an accelerator is read through a
  signed char. `parms.cpp:416`: options for all cores are applied after the
  cores have been initialised.
* `DynamicNode.cpp:147`: a PHI whose value comes from a block other than the one
  it is entered through is not waited for. `DynamicNode.cpp:887`: external
  dependents through an address are never found. Two data edges between the same
  nodes count twice and are counted down once each.
* `L2Cache.cpp:118`: a write-back that misses is dropped, and so is the dirty bit
  of a line that is evicted for a lock or an accelerator; a store that merges
  with a load in the MSHR does not make its line dirty. `FunctionalCache.cpp:66`:
  two fills of one line leave an entry in the LLC that nobody finds.
* `RecordDynamicInfo.cpp:541`: the call for a conv2d passes two values that were
  never set.

## 5. Proofs

Nearly all theorems are of the form `Spec => []P`, `Spec => [][A]_vars` or
`Spec => Abstract!Spec`, without
fairness, for any value of the constants that the `ASSUME` of the component
admits: positive sizes, finite sets, programs of the right type. Each rests on
an inductive invariant `IInv`, proved by one lemma per action.

**DecoupledQueueProofs** (`TypeCorrect`, `AtFront`, `InOrder`, `Connected`,
`Counted`). None of the invariants is inductive alone. `StoreInv` describes both
store buffers as intervals between the stores that have executed (`Written`,
`Supplied`) and those that have issued, with at most one value ahead of the
writes; this makes the STADDR whose value is complete the front of the SAB, and
the counters differences of pointers. `StageInv` says which stages of a producer
go with which memory status. `ForwardInv` connects the two maps, and needs
`Supplied` to know that the forwarding value has not left. `CountInv` has the
cardinalities.

Its second half is the refinement (`Implementation`). Every step is a step of
`DecoupledChannel` or leaves it alone: there is a lemma for each kind of step of
the channel (reserve, fill, take, supply, write) and one for the rest. `Mapped`
says what an entry of the channel is in terms of the stages; the number of
values supplied is the cardinality of the completed STVALs, so the lemmas count
with the library's facts on finite sets. A forward fills the entry when its
value completes, which is one step of both.

**CoreExecutionProofs** (`TypesAreRight`, `ParentsComeFirst`, `WakeupsReachAll`,
`MemoryIsOrdered`, `QueuesAreSound`, `LimitsAreKept`, `NothingIsReplayed`,
`PassesAgree`). `CoreInv` has a conjunct per data structure. `ContextInv` ties
the trace to the contexts that exist; `PlaceInv` puts every node in exactly one
place (not ready, in the issue set, issued, complete); `WindowInv` says what has
left the window, `QueueInv` and `UnresolvedInv` what the load/store queue and
its sets of unresolved addresses hold. `ParentInv` is the heart of the wakeups:
the two counters of a node are the numbers of its parents that have not
completed, although they are set in `Context::initialize` from parents of which
some have completed by then, and counted down in `finishNode`. It needs
`OwnerInv`, that the context a new one connects to is the youngest of its block.
`ReadyInv` (a node is ready exactly when its parents have completed) gives both
`ParentsFirst` and `NoLostWakeup`. `StoreOrder` and `LoadOrder` are the order of
accesses to one address; they need that whatever is no longer in the queue has
left the window, hence has completed, because the searches only look at the
queue. `UnitInv` counts the units in use. The program enters through
`WellFormed` alone. The hypothesis of `MemoryIsOrdered` is the one of section 4.
`PassesAgree` is a statement about two lists of names: for every opcode and
every function of the API, what `GraphGen` makes an instruction take is what
`RecordDynamicInfo` makes it record, or nothing; the assertion of
`DynamicNode.cpp:83` rests on it.

**L1MissPathProofs** (`TypeCorrect`, `HitsSafe`, `Bounded`, `NoneDropped`,
`OneRequest`). A hit never overwrites the entry of a pending miss. This is not
inductive: a miss that waits for a free entry must not see its line enter the
cache. `WaitInv` gives the reason, the order of the loops: after the visit of
`to_send` nothing waits for a line that has an entry, hence no answer that
arrives before the next visit is for a waiting line, unless the transaction it
answers has been deleted, and then no step but `UseDeleted` takes it. The
argument does not count requests, so it survives any number of copies of listed
prefetches.

`MembersInv` is about the entries. The members of one are still to be answered,
and one of them, the anchor, has a request that will not join it: either its
flag is clear, or it has copies beside the one that is to be checked (the flag
is shared, and clearing it for one copy sends the others without a check). If no
member is listed this is exact: the anchor has one request and the rest have
none. `PlaceInv` says that what the L2 has of a transaction that is still to be
answered belongs to an entry, and that a transaction that is not listed is in
one place. `DefinedInv` is what fails once a prefetch is listed: a transaction in
a queue is still to be answered.

**CacheLockProofs** (`QueueStaysSound`, `OwnerStaysAlive`, `LockIsSound`,
`NeverCrashes`). An atomic asks for the lock once, and stays at the LLC until it
owns it. `AskedInv` says so: whoever waits or owns has its flag, and the owner
has reached the LLC; hence an owner can only be released by another atomic's
release or its own, and never completes while it owns. `CounterInv` adds that
the owner at the LLC has a counter unless its prefetch has come to the LLC, and
that only what is in `Prefetching` has one. It assumes nothing about who
prefetches, so `LockIsSound` has no hypothesis, and `NeverCrashes` is its
corollary for configurations in which no atomic prefetches.

**AcceleratorMemoryProofs** (`HandedOver`, `EvictedBeforeRead`). The DRAM drops
the blocks of an invocation when its time is up, the accelerator ends it when it
has read the response and its time is over, and neither asks the other.
`HandOverInv` has the reason: blocks that have been answered survive the turn of
the DRAM only while time is left, and a response is read in the cycle after it
was sent. `EvictionInv` is about the evictions. Blocks that overlap are counted
for one another, so nothing holds of one block alone; `Accounted` is the balance
of all (counted and in the `pq` together are no more than were asked for), as
cardinalities of sets of pairs (a block and one of its elements), since a sum
would need induction. When every
block has counted all it has, the balance leaves no eviction in the `pq` and no
line that was not asked for. `Twins` says which block of the LLC belongs to which
of the DRAM, even when blocks of an earlier invocation are left at the LLC (reads
of loads, counted for them at the DRAM, can complete them there too early);
`Answers` that a load brings back no line of a block that still reads, and
contains: `Contained` is the arithmetic of bytes and lines, by which the address
of the line of an element lies in the block unless it is the first and starts
inside the line. No alignment, order or distance of blocks is assumed.
That a block is never counted beyond its size does not hold of the code where
blocks overlap, hence no theorem says so, and `EventuallyFinished` is for TLC.

**BarrierProofs** (`TypeCorrect`, `NoneLost`, `Synchronised`). The cores go
through their barriers in rounds (`RoundInv`): those in the map have issued one
barrier more than the others, since the map is emptied only when all others are
in it. `OrderInv` says that an instruction issues after all older barriers have
completed, hence the number of barriers a core has issued identifies its last
one. `Synchronised` has the hypothesis `WaitsForAll` (a window with a size, and
no instruction before a barrier that leaves at issue); under it `DrainedInv`
holds: what precedes an issued barrier has completed.

**CacheHierarchyProofs** (`SetsAreSound`, `OnlyStoresWrittenBack`,
`SetsAreLru`). The proof has three layers. Lemmas on lists say what linking,
unlinking, pushing and popping do to a list without repetition. Lemmas on a set
say that `Accessed`, `Inserted` and `Evicted` keep `SetInv` (each of the n
entries once, in the list or on the stack; a key that hits leads to its entry),
and that an insertion leaves no line twice if the line did not hit before. The
invariant of the system gives that hypothesis: `RequestsInv` says that a request
stands for a line that the caches it came through still lack, because only its
own fill brings the line in. The set counts are any: the largest power of two
within a count exists and is positive (`MaxIs`), so the set of a line is one of
the sets (`Indexed`), two lines of one set have different tags, and the line put
together of a victim is `Rebuilt` of the line in the entry (`RebuiltIs`). Dirty
bits and write-backs follow the stores through the levels that way
(`WritebacksInv`); for powers of two every line is its own `Rebuilt`, so
`WrittenL2` and `WrittenLlc` are `stored`. For the LLC, where two cores fill the
same line, the pointers are proved sound without the absence of duplicates.
`SetsAreLru` is the refinement `ImplementsLru`, on top of that invariant. `View`
turns a list of entries into what the set holds, and commutes with unlinking,
linking first and dropping the last entry. A line that hits is in the contents
at the place of its entry, and only there (`HitHeld`: the pointers are sound and
nothing in use is without its key); a full set is one whose list has all n
entries (`SetLength`). Hence an access, a fill and an eviction are a touch, a
fill and a discard of `LruSets` or change nothing (`AccessStep`, `InsertStep`,
`EvictStep`); a fill is one because the line is not there, which is
`RequestsInv` again. Each action changes at most one private set (`OneSet`).

**DramControllerProofs** (`CommandsAreAllowed`, `ColumnsAreServed`,
`BurstsAreApart`, `AddressesInOrder`), with its invariants in `DramInvariants`.
The controller decides by its own table of bank states, the rank checks by
another, which hears of a command one cycle later and never of the countdowns.
`Agree` relates the two: `View` is the rank's table with the command on the bus
already applied, and no time of it is more than one cycle beyond the
controller's; since the command arrives a cycle later, what the controller
allows, the rank allows. A state the controller still counts down (precharging,
refreshing, a closing column) is idle at the rank. Columns of other ranks are
the delicate case: the controller only spaces banks with an open row, and
`TimingAssumption` says that a row opened later is late enough. For the queues,
`Coupled` says that an activate is followed by its column command, `First` that
a bank has one column command on its own and nothing for its row before it,
`Served` that its row has been opened for it and not used; so the row is never
closed under it (`RefreshCloses`, `Closable`) and an activate dropped by
position is its own. The rest of the invariant are the counters of row accesses,
the pointers of the round robin, the pipes of data (`Pipe`: what is in one comes
out one by one) and the refresh clocks (`InTurn`: the first to expire is that of
the rank whose turn it is, so no clock passes zero).

`OneBurstAtATime` needs `BusInv` beside it: every burst is known by its sender
and by the cycle it takes the bus (`Burst`), from the command that asks for it,
through the latency of a read or a write, to the packet that leaves the bus, and
this cycle never changes. `ApartInv` keeps any two bursts `HalfBL` cycles apart,
and one more from the controller's burst to that of a rank, whose bus is served
a phase earlier. It is not inductive alone: `ClearInv` says of every bank that
may be used that a read or write at the earliest time its timers allow comes
clear of all the bursts under way. A column command renews both (`SpacingEnough`
is the arithmetic of `ReadToWrite`, `WriteToReadB` and `WriteToReadR`), and a
row that is opened is late enough by the last line of `TimingAssumption`: with a
device of shorter tRCD a bank of another rank, which was closed when the command
went out and so was not spaced, could send its data into the burst.

`SameAddressInOrder` needs `OrderInv` beside both: the controller finds the read
that an arriving datum answers by its address alone, so the answer is right only
if the first pending read of the address is the one whose data came. `TurnInv`
says that in the queues the accesses to one address stand in the order of their
numbers, ahead of the transactions not yet taken; a column command is only taken
from behind others if nothing for its bank and row stands before it (`First`,
and `Couple` for an activate before its column), so the order survives the
search of both page policies. `GoneInv` follows what has been issued: it is
older than all that was not (`Old`), the data of a write is over before its bank
takes a read (`WritesHold`: the turnaround from write to read), and the reads of
an address come back in the order of their numbers, because a read issued later
has more cycles left (`ReadsInOrder`, by the times of `BusInv`). `PendInv` says
that the pending reads are exactly the reads queued or on their way, in
ascending numbers per address. At most one datum comes back per cycle
(`OneReturns`), again by `BusInv`, so the controller does not have to choose
between two.

Left to TLC: all liveness (fairness and ENABLED are out of the prover's reach);
one invariant of `dram`, `RefreshNotLost`, which holds only for periods long
enough (how long depends on how many rows a rank may have to close first, a
bound no code states); and those of `trace`: its records are made by flattening
and read by selecting from sequences, so what a core has read is found by
induction over the trace, which the provers cannot do.

## 6. Plan

Done, in this order: the decoupled queue with its channel, the miss path, the
lock, the accelerator's memory and barriers, each with proofs; then the DRAM
channel, the core with its queue, graph and predictors, the trace from the
instrumentation to the contexts, and the caches with their replacement.

What would come next:

1. `PingPong`: the double buffers of `CommMec.hpp` with writers and a reader on
   clocks of different ratios; abstract specification: a queue that delivers each
   element once, in the next cycle.
2. Deletion of contexts (`Core.cpp:457`) and the issue of all contexts at once
   in `CoreExecution`.
3. A proof of `ContextsFollowTrace`, whose records, flattened from the blocks
and selected again by the reader, would have to become functions of positions
first.

## 7. Not modelled

* Statistics, energy, printing, configuration and the parsing of graphs: no
  protocol.
* Of DRAMSim2: power, the trace based driver, the reader of device files, the
  storage of data (built with `NO_STORAGE`), several channels at once (a channel
  shares nothing with the others), and the log of latencies.
* The accelerator performance models are closed formulas; an invocation takes
  any number of cycles up to the bound.
* Of the compiler passes: everything but types, edges and records. Pointers to
  functions as arguments of calls, the number of kernel functions and the widths
  of values are left out (`GraphGen` writes a width as the type of an increment
  of a bit vector); switches never count as conditional branches, in the code as
  in the model.
* Of the core: `outstanding` stays empty (a speculative read of memory needs a
  store of the address that is unresolved and not in the queue, which does not
  exist), `allAtOnce` is FALSE in all runs.
* Of the trace: the work of the LLC's thread; the number of files must divide
  the number of cores, as the code asks; a kernel has more than one block
  (`g.bbs.at(-1)` otherwise).
* Values of memory: no model distinguishes contents, hence lost write-backs are
  in the model but no property speaks of them.
* Caches that are ideal or have no size, ports and latencies; `CacheHierarchy`
  takes the merging of misses from `L1MissPath`. A null key in `addr_map` only
  costs the transaction of an eviction.
* Clocks of different speeds (`CommMec.hpp:80`): all tiles have one.
* Pointers: lifetimes are only modelled where an erased entry is read
  (`CacheLock`) and where a prefetch is deleted that is still listed
  (`L1MissPath`).
* Sizes of lines: one for all levels, so the different divisors of
  `LLCache.cpp:9` and `14` are not visible.
* Partial barriers run the code of barriers on a map of their own; `Barrier`
  stands for both.
