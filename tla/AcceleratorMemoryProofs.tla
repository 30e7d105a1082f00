---------------------- MODULE AcceleratorMemoryProofs -----------------------
(***************************************************************************)
(* Proofs about AcceleratorMemory, for any addresses, loads, invocations.   *)
(*                                                                         *)
(* The DRAM drops the blocks of an invocation when its time is up, and the *)
(* accelerator ends when it has read the response and its time is over.    *)
(* Both count the same cycles, and the response is read one cycle after it *)
(* was sent: so the DRAM has always had a turn in between.                 *)
(*                                                                         *)
(* Which block counts an eviction depends on how blocks overlap, so blocks *)
(* may be counted for one another.  What holds is the balance of all: no   *)
(* more are counted, or in the pq, than were asked for.  When every block  *)
(* has counted all it has, every line was asked for and none is in the pq. *)
(***************************************************************************)
EXTENDS AcceleratorMemory, SequenceTheorems, FiniteSetTheorems, TLAPS

\* The DRAM owes no response: it has answered, or has nothing to read.
Answered == finished_acc \/ acc_memory = <<>>

\* Who holds the invocation.  After the turn of the DRAM, blocks that have
\* been answered are only kept while there is time left.
HandOverInv ==
  /\ request # None =>
       /\ turn = "start" /\ current = request /\ wait_on_DRAM
       /\ acc_memory = <<>> /\ ~finished_acc /\ response = "none"
  /\ current = None => acc_memory = <<>> /\ ~finished_acc /\ response = "none"
  /\ response # "none" => wait_on_DRAM /\ Answered
  /\ ~wait_on_DRAM => Answered
  /\ turn \notin {"start", "return", "issue"} /\ finished_acc => left > 0

IInv == TypeOK /\ HandOverInv

-----------------------------------------------------------------------------
(* Blocks.                                                                 *)

SoundBlocks(blocks) == blocks \in Seq(Block) /\ \A k \in DOMAIN blocks : BlockSound(blocks[k])
WithinTotal(blocks) == \A k \in DOMAIN blocks : blocks[k].finished <= blocks[k].total

\* TypeOK by parts: the blocks, the hand-over, and what the loads use.
BlockTypes == SoundBlocks(acc_memory) /\ WithinTotal(acc_memory) /\ SoundBlocks(accelertor_mem)

HandTypes ==
  /\ turn \in Turns
  /\ state \in [Invocations -> {"new", "queued", "running", "done"}]
  /\ current \in Invocations \cup {None}
  /\ wait_on_DRAM \in BOOLEAN /\ LLC_evicted \in BOOLEAN /\ finished_acc \in BOOLEAN
  /\ left \in -1 .. MaxCycles
  /\ request \in Invocations \cup {None}
  /\ response \in {"none", "sent", "ready"}

LineTypes ==
  /\ reads \in [Addrs -> Nat] /\ evictions \in [Addrs -> Nat]
  /\ cached \in SUBSET Lines /\ missed \in SUBSET Lines
  /\ place \in [Loads -> Places]

LEMMA TypeParts == TypeOK <=> BlockTypes /\ HandTypes /\ LineTypes
BY DEF TypeOK, BlockTypes, HandTypes, LineTypes, SoundBlocks, WithinTotal

\* An address and the address of its line.
LEMMA LineAround ==
  ASSUME NEW a \in Nat
  PROVE  /\ (a \div LineSize) * LineSize \in Nat
         /\ (a \div LineSize) * LineSize <= a /\ a < (a \div LineSize) * LineSize + LineSize
         /\ a % LineSize = 0 => (a \div LineSize) * LineSize = a
<1>1. LineSize \in Nat \ {0}
  BY AcceleratorAssumption
<1>2. a \div LineSize \in Nat /\ a % LineSize \in 0 .. LineSize - 1
  BY <1>1
<1>3. a = LineSize * (a \div LineSize) + (a % LineSize)
  BY <1>1
<1> QED BY <1>1, <1>2, <1>3

\* A block contains the address of the line of each of its elements, but for
\* the first when that is in the middle of a line.
LEMMA Contained ==
  ASSUME NEW b \in Block, BlockSound(b), NEW n \in 0 .. b.nb_elem - 1, n > 0 \/ b.start % LineSize = 0
  PROVE  contains(b, Base(element(b, n)))
<1> DEFINE s == b.start  e == b.end  N == b.nb_elem  a == s + n * LineSize  base == (a \div LineSize) * LineSize
<1>1. /\ s \in Nat /\ e \in Nat /\ N \in Nat /\ n \in Nat /\ n < N /\ LineSize \in Nat \ {0}
      /\ N * LineSize <= e - s
  BY AcceleratorAssumption DEF Block, BlockSound
<1>2. s % LineSize = 0 \/ n > 0
  OBVIOUS
<1>3. element(b, n) = a /\ Base(element(b, n)) = base
  BY DEF element, Base, Line
<1> HIDE DEF s, e, N
<1>4. a \in Nat /\ n * LineSize + LineSize <= N * LineSize /\ n * LineSize \in Nat /\ N * LineSize \in Nat
  BY <1>1
<1>5. base \in Nat /\ base <= a /\ a < base + LineSize
  <2> HIDE DEF a
  <2> QED BY <1>4, LineAround
<1>6. a <= e
  BY <1>1, <1>4
<1>7. base >= s
  <2>1. CASE n > 0
    <3>1. n * LineSize >= LineSize
      BY <1>1, <2>1
    <3>2. a >= s + LineSize
      BY <1>1, <1>4, <3>1
    <3> HIDE DEF a, base
    <3> QED BY <1>1, <1>4, <1>5, <3>2
  <2>2. CASE n = 0 /\ s % LineSize = 0
    <3>1. a = s
      BY <1>1, <2>2
    <3>2. (s \div LineSize) * LineSize = s
      BY <1>1, <2>2, LineAround
    <3> QED BY <1>1, <3>1, <3>2
  <2> QED BY <1>1, <1>2, <2>1, <2>2
<1>8. base >= s /\ base <= e
  <2> HIDE DEF a, base
  <2> QED BY <1>1, <1>4, <1>5, <1>6, <1>7
<1> QED BY <1>3, <1>8 DEF contains, s, e

LEMMA EmptySound == SoundBlocks(<<>>) /\ WithinTotal(<<>>)
<1>1. <<>> \in Seq(Block) /\ DOMAIN <<>> = {}
  BY EmptySeq
<1> QED BY <1>1 DEF SoundBlocks, WithinTotal

LEMMA BlockUpdates ==
  ASSUME NEW b \in Block
  PROVE  /\ [b EXCEPT !.finished = @ + 1] \in Block
         /\ [b EXCEPT !.issued = @ + 1] \in Block
<1>1. b.total \in Nat /\ b.issued \in Nat /\ b.finished \in Nat
  BY DEF Block
<1>2. b.issued + 1 \in Nat /\ b.finished + 1 \in Nat
  BY <1>1
<1> QED BY <1>1, <1>2 DEF Block

\* A read or an eviction that is counted changes no block but its own.
LEMMA CountKeeps ==
  ASSUME NEW blocks, SoundBlocks(blocks), NEW k \in DOMAIN blocks
  PROVE  /\ SoundBlocks(Count(blocks, k)) /\ Count(blocks, k) # <<>>
         /\ WithinTotal(blocks) /\ ~completed(blocks[k]) => WithinTotal(Count(blocks, k))
<1> DEFINE b == blocks[k]
           c == [b EXCEPT !.finished = @ + 1]
<1>1. b \in Block /\ k \in 1 .. Len(blocks) /\ blocks \in Seq(Block)
  BY DEF SoundBlocks
<1>2. c \in Block /\ c.finished = b.finished + 1 /\ c.total = b.total /\ c.issued = b.issued
      /\ c.start = b.start /\ c.end = b.end /\ c.nb_elem = b.nb_elem
  BY <1>1, BlockUpdates DEF Block
<1>3. Count(blocks, k) = [blocks EXCEPT ![k] = c]
  BY DEF Count
<1>4. /\ Count(blocks, k) \in Seq(Block)
      /\ DOMAIN Count(blocks, k) = DOMAIN blocks
      /\ \A j \in DOMAIN blocks : Count(blocks, k)[j] = IF j = k THEN c ELSE blocks[j]
  <2>1. c \in Block
    BY <1>2
  <2> HIDE DEF c
  <2>2. /\ [blocks EXCEPT ![k] = c] \in Seq(Block) /\ Len([blocks EXCEPT ![k] = c]) = Len(blocks)
        /\ \A j \in 1 .. Len(blocks) : [blocks EXCEPT ![k] = c][j] = IF j = k THEN c ELSE blocks[j]
    BY <1>1, <2>1, ExceptSeq
  <2>3. DOMAIN [blocks EXCEPT ![k] = c] = DOMAIN blocks /\ DOMAIN blocks = 1 .. Len(blocks)
    BY <1>1
  <2> QED BY <1>3, <2>2, <2>3
<1>5. SoundBlocks(Count(blocks, k))
  BY <1>2, <1>4 DEF SoundBlocks, BlockSound, element
<1>6. Count(blocks, k) # <<>>
  BY <1>4
<1>7. WithinTotal(blocks) /\ ~completed(b) => c.finished <= c.total
  BY <1>1, <1>2 DEF WithinTotal, completed, Block
<1>8. WithinTotal(blocks) /\ ~completed(b) => WithinTotal(Count(blocks, k))
  BY <1>4, <1>7 DEF WithinTotal
<1> QED BY <1>5, <1>6, <1>8

\* A block asks for its next line, which is one of its own.
LEMMA SentKeeps ==
  ASSUME NEW blocks, SoundBlocks(blocks), NEW k \in DOMAIN blocks, ~completed_requesting(blocks[k])
  PROVE  /\ SoundBlocks(Sent(blocks, k)) /\ Sent(blocks, k) # <<>> /\ k \in DOMAIN Sent(blocks, k)
         /\ WithinTotal(blocks) => WithinTotal(Sent(blocks, k))
         /\ next_to_send(blocks[k]) \in Addrs
<1> DEFINE b == blocks[k]
           c == [b EXCEPT !.issued = @ + 1]
<1>1. b \in Block /\ k \in 1 .. Len(blocks) /\ blocks \in Seq(Block) /\ BlockSound(b)
  BY DEF SoundBlocks
<1>2. c \in Block /\ c.issued = b.issued + 1 /\ c.total = b.total /\ c.finished = b.finished
      /\ c.start = b.start /\ c.end = b.end /\ c.nb_elem = b.nb_elem
  BY <1>1, BlockUpdates DEF Block
<1>3. c.issued <= c.total /\ b.total > 0 /\ b.nb_elem > 0
  <2>1. b.issued \in Nat /\ b.total \in Nat
    BY <1>1 DEF Block
  <2>2. b.issued <= b.total /\ b.issued # b.total /\ (b.total > 0 => b.nb_elem > 0)
    BY <1>1 DEF completed_requesting, BlockSound
  <2> HIDE DEF b, c
  <2> QED BY <1>2, <2>1, <2>2
<1>4. Sent(blocks, k) = [blocks EXCEPT ![k] = c]
  BY DEF Sent
<1>5. /\ Sent(blocks, k) \in Seq(Block)
      /\ DOMAIN Sent(blocks, k) = DOMAIN blocks
      /\ \A j \in DOMAIN blocks : Sent(blocks, k)[j] = IF j = k THEN c ELSE blocks[j]
  <2>1. c \in Block
    BY <1>2
  <2> HIDE DEF c
  <2>2. /\ [blocks EXCEPT ![k] = c] \in Seq(Block) /\ Len([blocks EXCEPT ![k] = c]) = Len(blocks)
        /\ \A j \in 1 .. Len(blocks) : [blocks EXCEPT ![k] = c][j] = IF j = k THEN c ELSE blocks[j]
    BY <1>1, <2>1, ExceptSeq
  <2>3. DOMAIN [blocks EXCEPT ![k] = c] = DOMAIN blocks /\ DOMAIN blocks = 1 .. Len(blocks)
    BY <1>1
  <2> QED BY <1>4, <2>2, <2>3
<1>6. SoundBlocks(Sent(blocks, k))
  BY <1>2, <1>3, <1>5 DEF SoundBlocks, BlockSound, element
<1>7. WithinTotal(blocks) => WithinTotal(Sent(blocks, k))
  BY <1>2, <1>5 DEF WithinTotal
<1>8. next_to_send(b) \in Addrs
  <2>1. b.nb_elem \in Nat \ {0} /\ b.issued \in Nat
    BY <1>1, <1>3 DEF Block
  <2>2. b.issued % b.nb_elem \in 0 .. b.nb_elem - 1
    <3> HIDE DEF b
    <3> QED BY <2>1
  <2> QED BY <1>1, <2>2 DEF next_to_send, BlockSound
<1> QED BY <1>5, <1>6, <1>7, <1>8


LEMMA ConcatKeeps ==
  ASSUME NEW a, NEW b, SoundBlocks(a), SoundBlocks(b)
  PROVE  SoundBlocks(a \o b) /\ (WithinTotal(a) /\ WithinTotal(b) => WithinTotal(a \o b))
<1>1. a \in Seq(Block) /\ b \in Seq(Block)
  BY DEF SoundBlocks
<1>2. /\ a \o b \in Seq(Block) /\ DOMAIN (a \o b) = 1 .. Len(a) + Len(b)
      /\ \A k \in 1 .. Len(a) + Len(b) : (a \o b)[k] = IF k <= Len(a) THEN a[k] ELSE b[k - Len(a)]
  BY <1>1, ConcatProperties, LenProperties
<1>3. \A k \in DOMAIN (a \o b) :
        \/ k \in DOMAIN a /\ (a \o b)[k] = a[k]
        \/ k - Len(a) \in DOMAIN b /\ (a \o b)[k] = b[k - Len(a)]
  BY <1>1, <1>2
<1> QED BY <1>2, <1>3 DEF SoundBlocks, WithinTotal

\* The blocks of an invocation start with nothing issued.
LEMMA NewBlockSound ==
  ASSUME NEW b \in [start : Nat \ {0}, size : Nat, factor : Nat], b.size >= 4, NEW factor \in Nat,
         \A n \in 0 .. NewBlock(b, 1).nb_elem - 1 : element(NewBlock(b, 1), n) \in Addrs
  PROVE  /\ NewBlock(b, factor) \in Block /\ BlockSound(NewBlock(b, factor))
         /\ NewBlock(b, factor).finished <= NewBlock(b, factor).total
<1>1. b.start \in Nat /\ b.size - 4 \in Nat /\ b.start + b.size - 4 \in Nat
  <2>1. b.start \in Nat /\ b.size \in Nat /\ b.size >= 4
    OBVIOUS
  <2> QED BY <2>1
<1> DEFINE e == (b.size - 4) \div LineSize
           t == e * factor
           n == [start |-> b.start, end |-> b.start + b.size - 4, nb_elem |-> e,
                 total |-> t, issued |-> 0, finished |-> 0]
<1>2. e \in Nat
  <2> DEFINE d == b.size - 4
  <2>1. d \in Nat /\ LineSize \in Nat \ {0}
    BY <1>1, AcceleratorAssumption
  <2> HIDE DEF d
  <2>2. d \div LineSize \in Nat
    BY <2>1
  <2> QED BY <2>2 DEF d
<1>3. NewBlock(b, factor) = n /\ NewBlock(b, 1).nb_elem = e /\ NewBlock(b, 1).start = b.start
  BY DEF NewBlock
<1> HIDE DEF e
<1>4. t \in Nat /\ (t > 0 => e > 0)
  <2>1. t \in Nat
    BY <1>2
  <2>2. e = 0 => t = 0
    <3> SUFFICES ASSUME e = 0 PROVE t = 0
      OBVIOUS
    <3>1. 0 * factor = 0
      OBVIOUS
    <3> QED BY <3>1
  <2> HIDE DEF t
  <2> QED BY <1>2, <2>1, <2>2
<1> HIDE DEF t
<1>5. n \in Block
  BY <1>1, <1>2, <1>4 DEF Block
<1>6. \A m \in 0 .. e - 1 : b.start + m * LineSize \in Addrs
  BY <1>3 DEF element
<1>7. e * LineSize <= b.size - 4
  <2> DEFINE d == b.size - 4
  <2>1. (d \div LineSize) * LineSize <= d
    <3>1. d \in Nat
      BY <1>1
    <3> HIDE DEF d
    <3> QED BY <3>1, LineAround
  <2> QED BY <2>1 DEF e
<1>8. e * LineSize <= n.end - n.start
  <2>1. n.end - n.start = b.size - 4
    <3>1. b.start \in Nat /\ b.size \in Nat
      OBVIOUS
    <3> QED BY <3>1
  <2> QED BY <1>7, <2>1
<1>9. BlockSound(n) /\ n.finished <= n.total
  BY <1>4, <1>6, <1>8 DEF BlockSound, element
<1> QED BY <1>3, <1>5, <1>9

LEMMA InvocationBlocks ==
  ASSUME NEW i \in Invocations
  PROVE  LET blocks == blocksOf[i]
             atDram == [k \in DOMAIN blocks |-> NewBlock(blocks[k], blocks[k].factor)]
             atLlc == [k \in DOMAIN blocks |-> NewBlock(blocks[k], 1)]
         IN  SoundBlocks(atDram) /\ WithinTotal(atDram) /\ SoundBlocks(atLlc)
<1> DEFINE blocks == blocksOf[i]
           atDram == [k \in DOMAIN blocks |-> NewBlock(blocks[k], blocks[k].factor)]
           atLlc == [k \in DOMAIN blocks |-> NewBlock(blocks[k], 1)]
           Given == [start : Nat \ {0}, size : Nat, factor : Nat]
<1>1. blocks \in Seq(Given)
  BY AcceleratorAssumption
<1>2. /\ Len(blocks) \in Nat /\ DOMAIN blocks = 1 .. Len(blocks)
      /\ \A k \in DOMAIN blocks : blocks[k] \in Given
  <2> HIDE DEF blocks, Given
  <2> QED BY <1>1, LenProperties, ElementOfSeq
<1>3. \A k \in DOMAIN blocks :
        /\ blocks[k].factor \in Nat /\ blocks[k].size >= 4
        /\ \A n \in 0 .. NewBlock(blocks[k], 1).nb_elem - 1 : element(NewBlock(blocks[k], 1), n) \in Addrs
  BY <1>2, AcceleratorAssumption
<1>4. \A k \in DOMAIN blocks :
        /\ atDram[k] \in Block /\ BlockSound(atDram[k]) /\ atDram[k].finished <= atDram[k].total
        /\ atLlc[k] \in Block /\ BlockSound(atLlc[k])
  BY <1>2, <1>3, NewBlockSound
<1>5. DOMAIN atDram = DOMAIN blocks /\ DOMAIN atLlc = DOMAIN blocks
  OBVIOUS
<1>6. atDram \in [1 .. Len(blocks) -> Block] /\ atLlc \in [1 .. Len(blocks) -> Block]
  BY <1>2, <1>4
<1>7. atDram \in Seq(Block) /\ atLlc \in Seq(Block)
  BY <1>2, <1>6, SeqDef
<1> HIDE DEF atDram, atLlc
<1>8. SoundBlocks(atDram) /\ WithinTotal(atDram) /\ SoundBlocks(atLlc)
  BY <1>4, <1>5, <1>7 DEF SoundBlocks, WithinTotal
<1> QED BY <1>8 DEF atDram, atLlc

-----------------------------------------------------------------------------
(* The steps.                                                              *)

LEMMA InitInv == Init => IInv
<1> SUFFICES ASSUME Init PROVE IInv
  OBVIOUS
<1>1. TypeOK
  <2>1. BlockTypes
    BY EmptySound DEF Init, BlockTypes
  <2>2. -1 \in -1 .. MaxCycles
    BY AcceleratorAssumption
  <2>3. HandTypes
    BY <2>2 DEF Init, HandTypes, Turns
  <2>4. LineTypes
    BY DEF Init, LineTypes, Places
  <2> QED BY <2>1, <2>3, <2>4, TypeParts
<1>2. HandOverInv
  BY DEF Init, HandOverInv, Answered
<1> QED BY <1>1, <1>2 DEF IInv

\* A step within the turn of a component, or to its next loop, that leaves the
\* hand-over alone and the blocks sound.
LEMMA WithinTurn ==
  ASSUME IInv, UNCHANGED <<accelerator, response, finished_acc>>,
         turn # "start", turn' \in Turns,
         turn \in {"return", "issue"} \/ turn' \notin {"start", "return", "issue"},
         turn' \in {"start", "return", "issue"} \/ turn \notin {"start", "return", "issue"},
         acc_memory = <<>> <=> acc_memory' = <<>>,
         SoundBlocks(acc_memory)' /\ WithinTotal(acc_memory)' /\ SoundBlocks(accelertor_mem)',
         LLC_evicted' \in BOOLEAN, reads' \in [Addrs -> Nat], evictions' \in [Addrs -> Nat],
         cached' \in SUBSET Lines, missed' \in SUBSET Lines, place' \in [Loads -> Places]
  PROVE  IInv'
<1>1. TypeOK'
  BY DEF IInv, TypeOK, accelerator, SoundBlocks, WithinTotal
<1>2. HandOverInv'
  BY DEF IInv, HandOverInv, Answered, accelerator
<1> QED BY <1>1, <1>2 DEF IInv

\* The blocks in the invariant.
LEMMA TypeBlocks ==
  TypeOK => SoundBlocks(acc_memory) /\ WithinTotal(acc_memory) /\ SoundBlocks(accelertor_mem)
BY DEF TypeOK, SoundBlocks, WithinTotal

LEMMA DramStartInv == ASSUME IInv, DramStart PROVE IInv'
<1>1. CASE request = None
  <2>1. TypeOK'
    BY <1>1 DEF IInv, TypeOK, DramStart, Turns
  <2>2. HandOverInv'
    BY <1>1 DEF IInv, HandOverInv, Answered, DramStart
  <2> QED BY <2>1, <2>2 DEF IInv
<1>2. CASE request # None
  <2>1. request \in Invocations /\ acc_memory = <<>> /\ response = "none" /\ wait_on_DRAM /\ current # None
    BY <1>2, AcceleratorAssumption DEF IInv, TypeOK, HandOverInv
  <2>2. /\ SoundBlocks(acc_memory)' /\ WithinTotal(acc_memory)' /\ SoundBlocks(accelertor_mem)'
    BY <1>2, <2>1, TypeBlocks, InvocationBlocks, ConcatKeeps DEF IInv, DramStart
  <2>3. TypeOK'
    BY <1>2, <2>2 DEF IInv, TypeOK, DramStart, Turns, SoundBlocks, WithinTotal
  <2>4. HandOverInv'
    BY <1>2, <2>1 DEF HandOverInv, DramStart
  <2> QED BY <2>3, <2>4 DEF IInv
<1> QED BY <1>1, <1>2

LEMMA ReadCompleteInv == ASSUME IInv, NEW l \in Addrs, ReadComplete(l) PROVE IInv'
<1>1. reads' \in [Addrs -> Nat]
  BY DEF IInv, TypeOK, ReadComplete
<1>2. CASE \E k \in DOMAIN acc_memory : FirstClaim(acc_memory, k, l) /\ acc_memory' = Count(acc_memory, k) /\ UNCHANGED place
  <2>1. PICK k \in DOMAIN acc_memory :
          FirstClaim(acc_memory, k, l) /\ acc_memory' = Count(acc_memory, k) /\ UNCHANGED place
    BY <1>2
  <2>2. SoundBlocks(acc_memory)' /\ WithinTotal(acc_memory)' /\ acc_memory # <<>> /\ acc_memory' # <<>>
    BY <2>1, TypeBlocks, CountKeeps DEF IInv, FirstClaim, Claims
  <2> QED BY <1>1, <2>1, <2>2, TypeBlocks, WithinTurn DEF IInv, TypeOK, ReadComplete, llc
<1>3. CASE UNCHANGED acc_memory /\ place' \in [Loads -> Places]
  BY <1>1, <1>3, TypeBlocks, WithinTurn DEF IInv, TypeOK, ReadComplete, llc, SoundBlocks, WithinTotal
<1> QED BY <1>2, <1>3 DEF IInv, TypeOK, ReadComplete, Places

LEMMA DramIssueInv ==
  ASSUME IInv, DramIssueTurn \/ \E k \in DOMAIN acc_memory : DramIssue(k)
  PROVE  IInv'
<1>1. CASE DramIssueTurn
  BY <1>1, TypeBlocks, WithinTurn DEF IInv, TypeOK, DramIssueTurn, dram, llc, Turns, SoundBlocks, WithinTotal
<1>2. ASSUME NEW k \in DOMAIN acc_memory, DramIssue(k) PROVE IInv'
  <2>1. /\ SoundBlocks(acc_memory)' /\ WithinTotal(acc_memory)' /\ acc_memory # <<>> /\ acc_memory' # <<>>
        /\ next_to_send(acc_memory[k]) \in Addrs
    BY <1>2, TypeBlocks, SentKeeps DEF IInv, DramIssue
  <2>2. reads' \in [Addrs -> Nat]
    BY <1>2, <2>1 DEF IInv, TypeOK, DramIssue
  <2> QED BY <1>2, <2>1, <2>2, TypeBlocks, WithinTurn DEF IInv, TypeOK, DramIssue, llc
<1> QED BY <1>1, <1>2

\* The response goes out, and blocks that are answered and out of time go.
LEMMA DramFinishInv == ASSUME IInv, DramFinish PROVE IInv'
<1>1. UNCHANGED <<accelerator, reads, llc, place>> /\ turn = "issue" /\ turn' = "evict"
  BY DEF DramFinish
<1>2. request = None
  BY <1>1 DEF IInv, HandOverInv
<1> DEFINE finished == finished_acc \/ AllCompleted(acc_memory)
<1>3. CASE finished /\ TimeIsUp
  <2>1. acc_memory' = <<>> /\ finished_acc' = FALSE /\ LLC_evicted' = FALSE
        /\ response' = IF ~finished_acc THEN "sent" ELSE response
    BY <1>3 DEF DramFinish
  <2>2. TypeOK'
    <3>1. BlockTypes /\ HandTypes /\ LineTypes
      BY TypeParts DEF IInv
    <3>2. BlockTypes'
      BY <1>1, <2>1, <3>1, EmptySound DEF BlockTypes, llc
    <3>3. HandTypes'
      BY <1>1, <2>1, <3>1 DEF HandTypes, accelerator, Turns
    <3>4. LineTypes'
      BY <1>1, <3>1 DEF LineTypes, llc
    <3> QED BY <3>2, <3>3, <3>4 DEF TypeOK, BlockTypes, HandTypes, LineTypes, SoundBlocks, WithinTotal
  <2>3. ~finished_acc => wait_on_DRAM /\ current # None
    BY <1>3 DEF IInv, HandOverInv, Answered, AllCompleted
  <2>4. HandOverInv'
    BY <1>1, <1>2, <2>1, <2>3 DEF IInv, HandOverInv, Answered, accelerator
  <2> QED BY <2>2, <2>4 DEF IInv
<1>4. CASE finished /\ ~TimeIsUp
  <2>1. finished_acc' = TRUE /\ UNCHANGED <<acc_memory, LLC_evicted>>
        /\ response' = IF ~finished_acc THEN "sent" ELSE response
    BY <1>4 DEF DramFinish
  <2>2. TypeOK'
    BY <1>1, <2>1 DEF IInv, TypeOK, accelerator, llc, Turns
  <2>3. ~finished_acc => wait_on_DRAM
    BY <1>4 DEF IInv, HandOverInv, Answered, AllCompleted
  <2>4. left > 0 /\ current # None
    BY <1>4 DEF IInv, TypeOK, HandOverInv, AllCompleted, TimeIsUp
  <2>5. HandOverInv'
    BY <1>1, <1>2, <2>1, <2>3, <2>4 DEF IInv, HandOverInv, Answered, accelerator
  <2> QED BY <2>2, <2>5 DEF IInv
<1>5. CASE ~finished
  <2>1. finished_acc' = FALSE /\ finished_acc = FALSE /\ UNCHANGED <<acc_memory, LLC_evicted, response>>
    BY <1>5 DEF DramFinish, IInv, TypeOK
  <2>2. TypeOK'
    BY <1>1, <2>1 DEF IInv, TypeOK, accelerator, llc, Turns
  <2>3. HandOverInv'
    BY <1>1, <1>2, <2>1 DEF IInv, HandOverInv, Answered, accelerator
  <2> QED BY <2>2, <2>3 DEF IInv
<1> QED BY <1>3, <1>4, <1>5

\* The LLC's turn changes its own blocks, lines and loads.
LEMMA LlcInv ==
  ASSUME IInv,
         \/ LlcFillTurn \/ LlcFill \/ LlcSendTurn \/ LlcFinish
         \/ \E l \in Addrs : ExecuteEviction(l)
         \/ \E k \in DOMAIN accelertor_mem : LlcEvict(k)
         \/ \E t \in Loads : LoadArrives(t) \/ ExecuteLoad(t) \/ LlcSend(t)
  PROVE  IInv'
<1> USE TypeBlocks DEF IInv, TypeOK, dram, llc
<1>1. CASE LlcFillTurn \/ LlcSendTurn
  BY <1>1, WithinTurn DEF LlcFillTurn, LlcSendTurn, Turns, SoundBlocks, WithinTotal
<1>2. CASE LlcFill
  <2>1. cached' \in SUBSET Lines /\ missed' \in SUBSET Lines /\ place' \in [Loads -> Places]
    BY <1>2 DEF LlcFill, Places, Lines
  <2> QED BY <1>2, <2>1, WithinTurn DEF LlcFill, Turns, SoundBlocks, WithinTotal
<1>3. CASE LlcFinish
  <2>1. SoundBlocks(accelertor_mem)' /\ LLC_evicted' \in BOOLEAN
    BY <1>3, EmptySound DEF LlcFinish, SoundBlocks
  <2> QED BY <1>3, <2>1, WithinTurn DEF LlcFinish, Turns, SoundBlocks, WithinTotal
<1>4. ASSUME NEW l \in Addrs, ExecuteEviction(l) PROVE IInv'
  <2>1. SoundBlocks(accelertor_mem)'
    BY <1>4, CountKeeps DEF ExecuteEviction, SoundBlocks
  <2>2. evictions' \in [Addrs -> Nat] /\ cached' \in SUBSET Lines
    BY <1>4 DEF ExecuteEviction
  <2> QED BY <1>4, <2>1, <2>2, WithinTurn DEF ExecuteEviction, SoundBlocks, WithinTotal
<1>5. ASSUME NEW k \in DOMAIN accelertor_mem, LlcEvict(k) PROVE IInv'
  <2>1. /\ SoundBlocks(Sent(accelertor_mem, k)) /\ k \in DOMAIN Sent(accelertor_mem, k)
        /\ next_to_send(accelertor_mem[k]) \in Addrs
    BY <1>5, SentKeeps DEF LlcEvict
  <2>2. SoundBlocks(accelertor_mem)'
    BY <1>5, <2>1, CountKeeps DEF LlcEvict
  <2>3. evictions' \in [Addrs -> Nat]
    BY <1>5, <2>1 DEF LlcEvict
  <2> QED BY <1>5, <2>2, <2>3, WithinTurn DEF LlcEvict, SoundBlocks, WithinTotal
<1>6. ASSUME NEW t \in Loads, LoadArrives(t) \/ ExecuteLoad(t) \/ LlcSend(t) PROVE IInv'
  <2>1. place' \in [Loads -> Places] /\ reads' \in [Addrs -> Nat] /\ missed' \in SUBSET Lines
    <3>1. CASE LoadArrives(t)
      BY <3>1 DEF LoadArrives, Places
    <3>2. CASE ExecuteLoad(t)
      BY <3>2 DEF ExecuteLoad, Places, Lines
    <3>3. CASE LlcSend(t)
      <4>1. Base(addrOf[t]) \in Addrs
        BY AcceleratorAssumption
      <4> QED BY <3>3, <4>1 DEF LlcSend, Places
    <3> QED BY <1>6, <3>1, <3>2, <3>3
  <2> QED BY <1>6, <2>1, WithinTurn DEF LoadArrives, ExecuteLoad, LlcSend, SoundBlocks, WithinTotal
<1> QED BY <1>1, <1>2, <1>3, <1>4, <1>5, <1>6

LEMMA NextLeftType == TypeOK => NextLeft \in -1 .. MaxCycles
BY AcceleratorAssumption DEF TypeOK, NextLeft

\* The accelerator's turn.  It ends an invocation when the response has been
\* read and no time is left: the DRAM has dropped the blocks by then.
LEMMA AcceleratorInv ==
  ASSUME IInv, AccIdle \/ AccExecute \/ \E i \in Invocations : Invoke(i) \/ AccInvoke(i)
  PROVE  IInv'
<1>1. CASE AccIdle
  <2>1. TypeOK'
    <3>1. HandTypes'
      BY <1>1, TypeParts, NextLeftType DEF IInv, HandTypes, AccIdle, Turns
    <3>2. BlockTypes' /\ LineTypes'
      BY <1>1, TypeParts DEF IInv, BlockTypes, LineTypes, AccIdle, llc
    <3> QED BY <3>1, <3>2 DEF TypeOK, BlockTypes, HandTypes, LineTypes, SoundBlocks, WithinTotal
  <2>2. HandOverInv'
    BY <1>1 DEF IInv, HandOverInv, Answered, AccIdle
  <2> QED BY <2>1, <2>2 DEF IInv
<1>2. ASSUME NEW i \in Invocations, Invoke(i) PROVE IInv'
  <2>1. TypeOK'
    BY <1>2 DEF IInv, TypeOK, Invoke, dram, llc
  <2>2. HandOverInv'
    BY <1>2 DEF IInv, HandOverInv, Answered, Invoke, dram, llc
  <2> QED BY <2>1, <2>2 DEF IInv
<1>3. ASSUME NEW i \in Invocations, AccInvoke(i) PROVE IInv'
  <2>1. TypeOK'
    <3>1. left' \in -1 .. MaxCycles
      BY <1>3, AcceleratorAssumption DEF AccInvoke
    <3>2. HandTypes'
      BY <1>3, <3>1, TypeParts DEF IInv, HandTypes, AccInvoke, Turns
    <3>3. BlockTypes' /\ LineTypes'
      BY <1>3, TypeParts DEF IInv, BlockTypes, LineTypes, AccInvoke, llc
    <3> QED BY <3>2, <3>3 DEF TypeOK, BlockTypes, HandTypes, LineTypes, SoundBlocks, WithinTotal
  <2>2. HandOverInv'
    BY <1>3, AcceleratorAssumption DEF IInv, HandOverInv, Answered, AccInvoke
  <2> QED BY <2>1, <2>2 DEF IInv
<1>4. CASE AccExecute
  <2>1. /\ turn = "acc" /\ turn' = "start" /\ request = None /\ request' = None
        /\ wait_on_DRAM' = (wait_on_DRAM /\ response # "ready") /\ response' = NextResponse
        /\ left' = NextLeft
        /\ UNCHANGED <<acc_memory, finished_acc, reads, LLC_evicted, accelertor_mem, evictions, cached, missed, place>>
    BY <1>4 DEF IInv, HandOverInv, AccExecute, llc
  <2>2. TypeOK'
    <3>1. HandTypes
      BY TypeParts DEF IInv
    <3>2. state' \in [Invocations -> {"new", "queued", "running", "done"}] /\ current' \in Invocations \cup {None}
      BY <1>4, <3>1 DEF AccExecute, HandTypes
    <3>3. wait_on_DRAM' \in BOOLEAN
      BY <2>1, Zenon
    <3>4. response' \in {"none", "sent", "ready"} /\ left' \in -1 .. MaxCycles
      BY <2>1, NextLeftType DEF IInv, NextResponse
    <3>5. HandTypes'
      BY <2>1, <3>1, <3>2, <3>3, <3>4 DEF HandTypes, Turns
    <3>6. BlockTypes' /\ LineTypes'
      BY <2>1, TypeParts DEF IInv, BlockTypes, LineTypes
    <3> QED BY <3>5, <3>6 DEF TypeOK, BlockTypes, HandTypes, LineTypes, SoundBlocks, WithinTotal
  <2>3. response' # "none" => response = "sent" /\ wait_on_DRAM' /\ Answered'
    BY <2>1 DEF IInv, HandOverInv, Answered, NextResponse
  <2>4. ~wait_on_DRAM' => Answered /\ response' = "none"
    BY <2>1 DEF IInv, TypeOK, HandOverInv, NextResponse
  <2>5. CASE Busy(wait_on_DRAM')
    <3>1. current' = current /\ current # None
      BY <1>4, <2>5 DEF AccExecute
    <3> QED BY <2>1, <2>2, <2>3, <2>4, <3>1 DEF IInv, HandOverInv, Answered
  <2>6. CASE ~Busy(wait_on_DRAM')
    <3>1. ~wait_on_DRAM' /\ ~(left >= 0)
      BY <2>6 DEF Busy
    <3>2. ~finished_acc
      BY <2>1, <3>1 DEF IInv, TypeOK, HandOverInv
    <3>3. acc_memory = <<>> /\ response' = "none"
      BY <2>4, <3>1, <3>2 DEF Answered
    <3> QED BY <2>1, <2>2, <3>1, <3>2, <3>3 DEF IInv, HandOverInv, Answered
  <2> QED BY <2>5, <2>6
<1> QED BY <1>1, <1>2, <1>3, <1>4

-----------------------------------------------------------------------------
(* Evictions.  The elements of the LLC's blocks as pairs: those asked for, *)
(* those counted, and those in its pq.                                     *)

Asked(blocks) == {p \in (DOMAIN blocks) \X Nat : p[2] < blocks[p[1]].issued}
Counted(blocks) == {p \in (DOMAIN blocks) \X Nat : p[2] < blocks[p[1]].finished}
InQueue(ev) == {p \in Addrs \X Nat : p[2] < ev[p[1]]}

\* Nothing is counted that was not asked for, or is still in the pq.
Accounted(blocks, ev) ==
  /\ IsFiniteSet(Asked(blocks)) /\ IsFiniteSet(Counted(blocks)) /\ IsFiniteSet(InQueue(ev))
  /\ Cardinality(Counted(blocks)) + Cardinality(InQueue(ev)) <= Cardinality(Asked(blocks))

\* Blocks left from an earlier invocation come before those of this one.
Offset == Len(accelertor_mem) - Len(acc_memory)
Twin(k) == accelertor_mem[Offset + k]

\* Until all the LLC's blocks are evicted each of the DRAM has its twin there.
Twins ==
  acc_memory # <<>> /\ ~LLC_evicted =>
    /\ Offset >= 0
    /\ \A k \in DOMAIN acc_memory :
         Twin(k).start = acc_memory[k].start /\ Twin(k).nb_elem = acc_memory[k].nb_elem
         /\ Twin(k).total = acc_memory[k].nb_elem

\* The first m elements of a block, as far as it contains the address of their
\* line, are gone or on their way out.
Out(b, m, c, ev) ==
  \A n \in 0 .. b.nb_elem - 1 :
    n < m /\ contains(b, Base(element(b, n))) => Line(element(b, n)) \notin c \/ ev[element(b, n)] > 0

\* What a block of the DRAM will read is, as far as its twin has asked for it.
Leaving(k) ==
  LET b == acc_memory[k] IN Out(b, IF LLC_evicted THEN b.nb_elem ELSE Twin(k).issued, cached, evictions)

Leavings == \A k \in DOMAIN acc_memory : ~completed(acc_memory[k]) => Leaving(k)

\* The DRAM reads after the evictions.
Reading == \A k \in DOMAIN acc_memory : acc_memory[k].issued > 0 => LLC_evicted

\* A load that the DRAM answers brings back no line of a block that is being
\* read: a block would have counted the answer.
Answers ==
  \A t \in Loads : place[t] = "to_complete" =>
    /\ turn \in {"return", "issue", "evict", "fill"}
    /\ \A k \in DOMAIN acc_memory : contains(acc_memory[k], Base(addrOf[t])) => completed(acc_memory[k])

EvictedFirst == LLC_evicted => accelertor_mem = <<>>

EvictionInv == Accounted(accelertor_mem, evictions) /\ EvictedFirst /\ Twins /\ Leavings /\ Reading /\ Answers

\* The same blocks, further on.
SameBlock(c, b) == c.start = b.start /\ c.end = b.end /\ c.nb_elem = b.nb_elem /\ c.total = b.total

SameBlocks(new, old) ==
  /\ Len(new) = Len(old) /\ DOMAIN new = DOMAIN old
  /\ \A k \in DOMAIN old : SameBlock(new[k], old[k])

LEMMA SameElements ==
  ASSUME NEW c, NEW b, c.start = b.start
  PROVE  /\ \A n : element(c, n) = element(b, n)
         /\ c.end = b.end => \A a : contains(c, a) <=> contains(b, a)
BY DEF element, contains

\* What is out stays out when no line comes in and no eviction goes.
LEMMA SameOut ==
  ASSUME NEW c, NEW b, NEW m, NEW set, NEW ev, SameBlock(c, b)
  PROVE  Out(c, m, set, ev) <=> Out(b, m, set, ev)
<1>1. c.start = b.start /\ c.end = b.end /\ c.nb_elem = b.nb_elem
  BY DEF SameBlock
<1>2. (\A n : element(c, n) = element(b, n)) /\ (\A a : contains(c, a) <=> contains(b, a))
  BY <1>1, SameElements
<1> QED BY <1>1, <1>2 DEF Out

LEMMA CountIs ==
  ASSUME NEW blocks, SoundBlocks(blocks), NEW k \in DOMAIN blocks
  PROVE  /\ SameBlocks(Count(blocks, k), blocks)
         /\ \A j \in DOMAIN blocks :
              /\ Count(blocks, k)[j].issued = blocks[j].issued
              /\ Count(blocks, k)[j].finished = IF j = k THEN blocks[j].finished + 1 ELSE blocks[j].finished
<1> DEFINE b == blocks[k]
           c == [b EXCEPT !.finished = @ + 1]
<1>1. b \in Block /\ blocks \in Seq(Block) /\ DOMAIN blocks = 1 .. Len(blocks)
  BY DEF SoundBlocks
<1>2. /\ c.finished = b.finished + 1 /\ c.total = b.total /\ c.issued = b.issued
      /\ SameBlock(c, b)
  BY <1>1 DEF Block, SameBlock
<1>3. Count(blocks, k) = [blocks EXCEPT ![k] = c]
  BY DEF Count
<1>4. c \in Block
  BY <1>1, BlockUpdates
<1> HIDE DEF c
<1>5. /\ [blocks EXCEPT ![k] = c] \in Seq(Block) /\ Len([blocks EXCEPT ![k] = c]) = Len(blocks)
      /\ \A j \in 1 .. Len(blocks) : [blocks EXCEPT ![k] = c][j] = IF j = k THEN c ELSE blocks[j]
  BY <1>1, <1>4, ExceptSeq
<1>6. DOMAIN Count(blocks, k) = DOMAIN blocks
  BY <1>1, <1>3, <1>5
<1>7. \A j \in DOMAIN blocks : Count(blocks, k)[j] = IF j = k THEN c ELSE blocks[j]
  BY <1>1, <1>3, <1>5
<1> QED BY <1>2, <1>3, <1>5, <1>6, <1>7 DEF SameBlocks, SameBlock

LEMMA SentIs ==
  ASSUME NEW blocks, SoundBlocks(blocks), NEW k \in DOMAIN blocks
  PROVE  /\ SameBlocks(Sent(blocks, k), blocks)
         /\ \A j \in DOMAIN blocks :
              /\ Sent(blocks, k)[j].finished = blocks[j].finished
              /\ Sent(blocks, k)[j].issued = IF j = k THEN blocks[j].issued + 1 ELSE blocks[j].issued
<1> DEFINE b == blocks[k]
           c == [b EXCEPT !.issued = @ + 1]
<1>1. b \in Block /\ blocks \in Seq(Block) /\ DOMAIN blocks = 1 .. Len(blocks)
  BY DEF SoundBlocks
<1>2. /\ c.issued = b.issued + 1 /\ c.total = b.total /\ c.finished = b.finished
      /\ SameBlock(c, b)
  BY <1>1 DEF Block, SameBlock
<1>3. Sent(blocks, k) = [blocks EXCEPT ![k] = c]
  BY DEF Sent
<1>4. c \in Block
  BY <1>1, BlockUpdates
<1> HIDE DEF c
<1>5. /\ [blocks EXCEPT ![k] = c] \in Seq(Block) /\ Len([blocks EXCEPT ![k] = c]) = Len(blocks)
      /\ \A j \in 1 .. Len(blocks) : [blocks EXCEPT ![k] = c][j] = IF j = k THEN c ELSE blocks[j]
  BY <1>1, <1>4, ExceptSeq
<1>6. DOMAIN Sent(blocks, k) = DOMAIN blocks
  BY <1>1, <1>3, <1>5
<1>7. \A j \in DOMAIN blocks : Sent(blocks, k)[j] = IF j = k THEN c ELSE blocks[j]
  BY <1>1, <1>3, <1>5
<1> QED BY <1>2, <1>3, <1>5, <1>6, <1>7 DEF SameBlocks, SameBlock

LEMMA Numbers ==
  ASSUME NEW blocks, SoundBlocks(blocks), NEW k \in DOMAIN blocks
  PROVE  blocks[k].issued \in Nat /\ blocks[k].finished \in Nat /\ blocks[k].total \in Nat
         /\ blocks[k].nb_elem \in Nat /\ blocks[k].issued <= blocks[k].total
         /\ \A n \in 0 .. blocks[k].nb_elem - 1 : element(blocks[k], n) \in Addrs
<1>1. blocks[k] \in Block /\ BlockSound(blocks[k])
  BY DEF SoundBlocks
<1> QED BY <1>1 DEF Block, BlockSound

LEMMA AskedSets ==
  ASSUME NEW blocks, SoundBlocks(blocks), NEW k \in DOMAIN blocks
  PROVE  /\ Asked(Count(blocks, k)) = Asked(blocks)
         /\ Counted(Sent(blocks, k)) = Counted(blocks)
         /\ Asked(Sent(blocks, k)) = Asked(blocks) \cup {<<k, blocks[k].issued>>}
         /\ <<k, blocks[k].issued>> \notin Asked(blocks)
         /\ Counted(Count(blocks, k)) = Counted(blocks) \cup {<<k, blocks[k].finished>>}
         /\ <<k, blocks[k].finished>> \notin Counted(blocks)
<1>1. \A j \in DOMAIN blocks : blocks[j].issued \in Nat /\ blocks[j].finished \in Nat
  BY Numbers
<1>2. Asked(Count(blocks, k)) = Asked(blocks)
  BY CountIs DEF Asked, SameBlocks
<1>3. Counted(Sent(blocks, k)) = Counted(blocks)
  BY SentIs DEF Counted, SameBlocks
<1>4. Asked(Sent(blocks, k)) = Asked(blocks) \cup {<<k, blocks[k].issued>>}
  <2> DEFINE s == Sent(blocks, k)
  <2>1. DOMAIN s = DOMAIN blocks
        /\ \A j \in DOMAIN blocks : s[j].issued = IF j = k THEN blocks[j].issued + 1 ELSE blocks[j].issued
    BY SentIs DEF SameBlocks
  <2> HIDE DEF s
  <2>2. ASSUME NEW j \in DOMAIN blocks, NEW n \in Nat
        PROVE  n < s[j].issued <=> n < blocks[j].issued \/ <<j, n>> = <<k, blocks[k].issued>>
    BY <1>1, <2>1
  <2>3. Asked(s) = {p \in (DOMAIN blocks) \X Nat : p[2] < s[p[1]].issued}
    BY <2>1 DEF Asked
  <2>4. <<k, blocks[k].issued>> \in (DOMAIN blocks) \X Nat
    BY <1>1
  <2>5. Asked(s) = Asked(blocks) \cup {<<k, blocks[k].issued>>}
    BY <2>2, <2>3, <2>4 DEF Asked
  <2> QED BY <2>5 DEF s
<1>5. Counted(Count(blocks, k)) = Counted(blocks) \cup {<<k, blocks[k].finished>>}
  <2> DEFINE s == Count(blocks, k)
  <2>1. DOMAIN s = DOMAIN blocks
        /\ \A j \in DOMAIN blocks : s[j].finished = IF j = k THEN blocks[j].finished + 1 ELSE blocks[j].finished
    BY CountIs DEF SameBlocks
  <2> HIDE DEF s
  <2>2. ASSUME NEW j \in DOMAIN blocks, NEW n \in Nat
        PROVE  n < s[j].finished <=> n < blocks[j].finished \/ <<j, n>> = <<k, blocks[k].finished>>
    BY <1>1, <2>1
  <2>3. Counted(s) = {p \in (DOMAIN blocks) \X Nat : p[2] < s[p[1]].finished}
    BY <2>1 DEF Counted
  <2>4. <<k, blocks[k].finished>> \in (DOMAIN blocks) \X Nat
    BY <1>1
  <2>5. Counted(s) = Counted(blocks) \cup {<<k, blocks[k].finished>>}
    BY <2>2, <2>3, <2>4 DEF Counted
  <2> QED BY <2>5 DEF s
<1>6. <<k, blocks[k].issued>> \notin Asked(blocks) /\ <<k, blocks[k].finished>> \notin Counted(blocks)
  BY <1>1 DEF Asked, Counted
<1> QED BY <1>2, <1>3, <1>4, <1>5, <1>6

LEMMA QueueSets ==
  ASSUME NEW ev \in [Addrs -> Nat], NEW l \in Addrs
  PROVE  /\ InQueue([ev EXCEPT ![l] = @ + 1]) = InQueue(ev) \cup {<<l, ev[l]>>}
         /\ <<l, ev[l]>> \notin InQueue(ev)
         /\ ev[l] > 0 => /\ InQueue([ev EXCEPT ![l] = @ - 1]) = InQueue(ev) \ {<<l, ev[l] - 1>>}
                         /\ <<l, ev[l] - 1>> \in InQueue(ev)
<1>1. InQueue([ev EXCEPT ![l] = @ + 1]) = InQueue(ev) \cup {<<l, ev[l]>>}
  <2> DEFINE s == [ev EXCEPT ![l] = @ + 1]
  <2>1. \A m \in Addrs : s[m] = IF m = l THEN ev[m] + 1 ELSE ev[m]
    OBVIOUS
  <2> HIDE DEF s
  <2>2. ASSUME NEW m \in Addrs, NEW n \in Nat
        PROVE  n < s[m] <=> n < ev[m] \/ <<m, n>> = <<l, ev[l]>>
    <3>1. ev[m] \in Nat /\ ev[l] \in Nat
      OBVIOUS
    <3> QED BY <2>1, <3>1
  <2>3. <<l, ev[l]>> \in Addrs \X Nat
    OBVIOUS
  <2>4. InQueue(s) = InQueue(ev) \cup {<<l, ev[l]>>}
    BY <2>2, <2>3 DEF InQueue
  <2> QED BY <2>4 DEF s
<1>2. ASSUME ev[l] > 0
      PROVE  InQueue([ev EXCEPT ![l] = @ - 1]) = InQueue(ev) \ {<<l, ev[l] - 1>>}
  <2> DEFINE s == [ev EXCEPT ![l] = @ - 1]
  <2>1. \A m \in Addrs : s[m] = IF m = l THEN ev[m] - 1 ELSE ev[m]
    OBVIOUS
  <2> HIDE DEF s
  <2>2. ASSUME NEW m \in Addrs, NEW n \in Nat
        PROVE  n < s[m] <=> n < ev[m] /\ <<m, n>> # <<l, ev[l] - 1>>
    <3>1. ev[m] \in Nat /\ ev[l] \in Nat
      OBVIOUS
    <3> QED BY <1>2, <2>1, <3>1
  <2>4. InQueue(s) = InQueue(ev) \ {<<l, ev[l] - 1>>}
    BY <2>2 DEF InQueue
  <2> QED BY <2>4 DEF s
<1>3. <<l, ev[l]>> \notin InQueue(ev)
  BY DEF InQueue
<1>4. ev[l] > 0 => <<l, ev[l] - 1>> \in InQueue(ev)
  BY DEF InQueue
<1> QED BY <1>1, <1>2, <1>3, <1>4

\* The cardinalities, as numbers.
LEMMA Account ==
  ASSUME NEW blocks, NEW ev
  PROVE  Accounted(blocks, ev) =>
           /\ Cardinality(Asked(blocks)) \in Nat /\ Cardinality(Counted(blocks)) \in Nat
           /\ Cardinality(InQueue(ev)) \in Nat
BY FS_CardinalityType DEF Accounted

\* An element is asked for: its line is not there, or its eviction is in the pq.
LEMMA AskAccount ==
  ASSUME NEW blocks, SoundBlocks(blocks), NEW k \in DOMAIN blocks, NEW ev \in [Addrs -> Nat],
         NEW l \in Addrs, Accounted(blocks, ev), SoundBlocks(Sent(blocks, k)), k \in DOMAIN Sent(blocks, k)
  PROVE  /\ Accounted(Sent(blocks, k), [ev EXCEPT ![l] = @ + 1])
         /\ Accounted(Count(Sent(blocks, k), k), ev)
<1> DEFINE A == Asked(blocks)  C == Counted(blocks)  Q == InQueue(ev)
           x == <<k, blocks[k].issued>>  y == <<l, ev[l]>>  z == <<k, Sent(blocks, k)[k].finished>>
<1>1. /\ Asked(Sent(blocks, k)) = A \cup {x} /\ x \notin A
      /\ Counted(Sent(blocks, k)) = C
  BY AskedSets
<1>2. /\ Asked(Count(Sent(blocks, k), k)) = A \cup {x}
      /\ Counted(Count(Sent(blocks, k), k)) = C \cup {z} /\ z \notin C
  <2> DEFINE s == Sent(blocks, k)
  <2>1. /\ Asked(Count(s, k)) = Asked(s)
        /\ Counted(Count(s, k)) = Counted(s) \cup {<<k, s[k].finished>>}
        /\ <<k, s[k].finished>> \notin Counted(s)
    <3>1. SoundBlocks(s) /\ k \in DOMAIN s
      OBVIOUS
    <3> HIDE DEF s
    <3> QED BY <3>1, AskedSets
  <2> QED BY <1>1, <2>1
<1>3. InQueue([ev EXCEPT ![l] = @ + 1]) = Q \cup {y} /\ y \notin Q
  BY QueueSets
<1>4. /\ IsFiniteSet(A) /\ IsFiniteSet(C) /\ IsFiniteSet(Q) /\ Cardinality(C) + Cardinality(Q) <= Cardinality(A)
      /\ Cardinality(A) \in Nat /\ Cardinality(C) \in Nat /\ Cardinality(Q) \in Nat
  BY Account DEF Accounted
<1> HIDE DEF A, C, Q, x, y, z
<1>5. /\ IsFiniteSet(A \cup {x}) /\ Cardinality(A \cup {x}) = Cardinality(A) + 1
      /\ IsFiniteSet(C \cup {z}) /\ Cardinality(C \cup {z}) = Cardinality(C) + 1
      /\ IsFiniteSet(Q \cup {y}) /\ Cardinality(Q \cup {y}) = Cardinality(Q) + 1
  BY <1>1, <1>2, <1>3, <1>4, FS_AddElement
<1>6. /\ Cardinality(C) + Cardinality(Q \cup {y}) <= Cardinality(A \cup {x})
      /\ Cardinality(C \cup {z}) + Cardinality(Q) <= Cardinality(A \cup {x})
  BY <1>4, <1>5
<1>7. Accounted(Sent(blocks, k), [ev EXCEPT ![l] = @ + 1])
  BY <1>1, <1>3, <1>4, <1>5, <1>6 DEF Accounted, Q, C
<1>8. Accounted(Count(Sent(blocks, k), k), ev)
  BY <1>2, <1>4, <1>5, <1>6 DEF Accounted, Q, C
<1> QED BY <1>7, <1>8

\* An eviction leaves the pq, and is counted at most once.
LEMMA EvictAccount ==
  ASSUME NEW blocks, SoundBlocks(blocks), NEW ev \in [Addrs -> Nat], NEW l \in Addrs, ev[l] > 0,
         Accounted(blocks, ev)
  PROVE  /\ Accounted(blocks, [ev EXCEPT ![l] = @ - 1])
         /\ \A k \in DOMAIN blocks : Accounted(Count(blocks, k), [ev EXCEPT ![l] = @ - 1])
<1> DEFINE A == Asked(blocks)  C == Counted(blocks)  Q == InQueue(ev)  y == <<l, ev[l] - 1>>
<1>1. InQueue([ev EXCEPT ![l] = @ - 1]) = Q \ {y} /\ y \in Q
  BY QueueSets
<1>2. /\ IsFiniteSet(A) /\ IsFiniteSet(C) /\ IsFiniteSet(Q) /\ Cardinality(C) + Cardinality(Q) <= Cardinality(A)
      /\ Cardinality(A) \in Nat /\ Cardinality(C) \in Nat /\ Cardinality(Q) \in Nat
  BY Account DEF Accounted
<1>3. \A k \in DOMAIN blocks :
        /\ Asked(Count(blocks, k)) = A
        /\ \E z : z \notin C /\ Counted(Count(blocks, k)) = C \cup {z}
  <2> SUFFICES ASSUME NEW k \in DOMAIN blocks
               PROVE  /\ Asked(Count(blocks, k)) = A
                      /\ \E z : z \notin C /\ Counted(Count(blocks, k)) = C \cup {z}
    OBVIOUS
  <2> DEFINE y0 == <<k, blocks[k].finished>>
  <2>1. Asked(Count(blocks, k)) = A /\ y0 \notin C /\ Counted(Count(blocks, k)) = C \cup {y0}
    BY AskedSets
  <2> HIDE DEF A, C, y0
  <2> QED BY <2>1
<1> HIDE DEF A, C, Q, y
<1>4. IsFiniteSet(Q \ {y}) /\ Cardinality(Q \ {y}) = Cardinality(Q) - 1
  BY <1>1, <1>2, FS_RemoveElement
<1>5. Cardinality(C) + Cardinality(Q \ {y}) <= Cardinality(A)
  BY <1>2, <1>4
<1>6. Accounted(blocks, [ev EXCEPT ![l] = @ - 1])
  BY <1>1, <1>2, <1>4, <1>5 DEF Accounted, A, C
<1>7. ASSUME NEW k \in DOMAIN blocks PROVE Accounted(Count(blocks, k), [ev EXCEPT ![l] = @ - 1])
  <2>1. PICK z : z \notin C /\ Counted(Count(blocks, k)) = C \cup {z}
    BY <1>3
  <2>2. IsFiniteSet(C \cup {z}) /\ Cardinality(C \cup {z}) = Cardinality(C) + 1
    BY <1>2, <2>1, FS_AddElement
  <2>3. Cardinality(C \cup {z}) + Cardinality(Q \ {y}) <= Cardinality(A)
    BY <1>2, <1>4, <2>2
  <2> QED BY <1>1, <1>2, <1>3, <1>4, <2>1, <2>2, <2>3 DEF Accounted
<1> QED BY <1>6, <1>7

\* When every block has counted all its elements each was asked for, and
\* nothing is left in the pq.
LEMMA AllAccount ==
  ASSUME NEW blocks, SoundBlocks(blocks), NEW ev \in [Addrs -> Nat], Accounted(blocks, ev),
         \A k \in DOMAIN blocks : completed(blocks[k])
  PROVE  /\ \A k \in DOMAIN blocks : blocks[k].issued = blocks[k].total
         /\ InQueue(ev) = {} /\ \A l \in Addrs : ev[l] = 0
         /\ Accounted(<<>>, ev)
<1> DEFINE A == Asked(blocks)  C == Counted(blocks)  Q == InQueue(ev)
<1>1. /\ IsFiniteSet(A) /\ IsFiniteSet(C) /\ IsFiniteSet(Q) /\ Cardinality(C) + Cardinality(Q) <= Cardinality(A)
      /\ Cardinality(A) \in Nat /\ Cardinality(C) \in Nat /\ Cardinality(Q) \in Nat
  BY Account DEF Accounted
<1>2. A \subseteq C
  <2>1. \A k \in DOMAIN blocks : \A n \in Nat : n < blocks[k].issued => n < blocks[k].finished
    BY Numbers DEF completed
  <2> QED BY <2>1 DEF Asked, Counted
<1>3. Cardinality(A) <= Cardinality(C) /\ (Cardinality(C) = Cardinality(A) => C = A)
  BY <1>1, <1>2, FS_Subset
<1>4. Cardinality(Q) = 0 /\ C = A
  <2> HIDE DEF A, C, Q
  <2> QED BY <1>1, <1>3
<1>5. Q = {}
  <2> HIDE DEF Q
  <2> QED BY <1>1, <1>4, FS_EmptySet
<1>6. \A l \in Addrs : ev[l] = 0
  <2> SUFFICES ASSUME NEW l \in Addrs, ev[l] # 0 PROVE FALSE
    OBVIOUS
  <2>1. ev[l] \in Nat /\ 0 < ev[l]
    OBVIOUS
  <2>2. <<l, 0>> \in Q
    BY <2>1 DEF InQueue
  <2> QED BY <1>5, <2>2
<1>7. ASSUME NEW k \in DOMAIN blocks PROVE blocks[k].issued = blocks[k].total
  <2>1. blocks[k].issued \in Nat /\ blocks[k].total \in Nat /\ blocks[k].issued <= blocks[k].total
        /\ blocks[k].finished = blocks[k].total
    BY Numbers DEF completed
  <2> SUFFICES ASSUME blocks[k].issued < blocks[k].total PROVE FALSE
    BY <2>1
  <2>2. <<k, blocks[k].issued>> \in C
    BY <2>1 DEF Counted
  <2>3. <<k, blocks[k].issued>> \notin A
    BY AskedSets
  <2> QED BY <1>4, <2>2, <2>3
<1>8. Accounted(<<>>, ev)
  <2>1. Asked(<<>>) = {} /\ Counted(<<>>) = {}
    BY DEF Asked, Counted
  <2>2. InQueue(ev) = {}
    BY <1>5
  <2>3. IsFiniteSet({}) /\ Cardinality({}) = 0
    BY FS_EmptySet
  <2>4. Cardinality({}) + Cardinality({}) <= Cardinality({})
    BY <2>3
  <2> QED BY <2>1, <2>2, <2>3, <2>4, Zenon DEF Accounted
<1> QED BY <1>5, <1>6, <1>7, <1>8

\* A step that reads on: the DRAM's blocks change only in what they have read.
LEMMA ReadStep ==
  ASSUME TypeOK, EvictionInv, UNCHANGED <<LLC_evicted, accelertor_mem, evictions, cached>>,
         SameBlocks(acc_memory', acc_memory), acc_memory' = <<>> <=> acc_memory = <<>>,
         \A k \in DOMAIN acc_memory :
           /\ completed(acc_memory[k]) => completed(acc_memory'[k])
           /\ LLC_evicted \/ acc_memory'[k].issued = acc_memory[k].issued,
         \A t \in Loads : place'[t] = "to_complete" =>
           /\ turn' \in {"return", "issue", "evict", "fill"}
           /\ \A k \in DOMAIN acc_memory : contains(acc_memory[k], Base(addrOf[t])) => completed(acc_memory[k])
  PROVE  EvictionInv'
<1>1. Accounted(accelertor_mem, evictions)' /\ EvictedFirst'
  BY DEF EvictionInv, EvictedFirst
<1>2. DOMAIN acc_memory' = DOMAIN acc_memory /\ Offset' = Offset /\ \A k : Twin(k)' = Twin(k)
  BY DEF SameBlocks, Offset, Twin
<1>3. \A k \in DOMAIN acc_memory : SameBlock(acc_memory'[k], acc_memory[k])
  BY DEF SameBlocks
<1>4. Twins'
  BY <1>2, <1>3 DEF EvictionInv, Twins, SameBlock
<1>5. Leavings'
  <2> SUFFICES ASSUME NEW k \in DOMAIN acc_memory, ~completed(acc_memory'[k]) PROVE Leaving(k)'
    BY <1>2 DEF Leavings
  <2>1. Leaving(k)
    BY DEF EvictionInv, Leavings
  <2>2. acc_memory'[k].nb_elem = acc_memory[k].nb_elem
    BY <1>3 DEF SameBlock
  <2> QED BY <1>2, <1>3, <2>1, <2>2, SameOut DEF Leaving
<1>6. Reading'
  BY <1>2 DEF EvictionInv, Reading
<1>7. Answers'
  <2>1. \A k \in DOMAIN acc_memory : \A a : contains(acc_memory'[k], a) <=> contains(acc_memory[k], a)
    BY <1>3, SameElements DEF SameBlock
  <2> QED BY <1>2, <2>1 DEF Answers
<1> QED BY <1>1, <1>4, <1>5, <1>6, <1>7 DEF EvictionInv

LEMMA Unmoved == SameBlocks(acc_memory, acc_memory)
BY DEF SameBlocks, SameBlock

\* A step that moves no block and no line, and completes no load.
LEMMA QuietStep ==
  ASSUME TypeOK, EvictionInv, UNCHANGED <<acc_memory, LLC_evicted, accelertor_mem, evictions, cached>>,
         \A t \in Loads : place'[t] = "to_complete" => place[t] = "to_complete",
         turn \in {"return", "issue", "evict", "fill"} => turn' \in {"return", "issue", "evict", "fill"}
  PROVE  EvictionInv'
BY ReadStep, Unmoved DEF EvictionInv, Answers

LEMMA QuietActions ==
  ASSUME IInv, EvictionInv,
         \/ DramIssueTurn \/ LlcFillTurn \/ LlcSendTurn \/ AccIdle \/ AccExecute
         \/ \E t \in Loads : LoadArrives(t) \/ ExecuteLoad(t) \/ LlcSend(t)
         \/ \E i \in Invocations : Invoke(i) \/ AccInvoke(i)
  PROVE  EvictionInv'
<1>1. TypeOK /\ place \in [Loads -> Places]
  BY DEF IInv, TypeOK
<1>2. CASE DramIssueTurn \/ LlcFillTurn \/ LlcSendTurn \/ AccIdle \/ AccExecute
  BY <1>1, <1>2, QuietStep DEF DramIssueTurn, LlcFillTurn, LlcSendTurn, AccIdle, AccExecute, dram, llc,
    EvictionInv, Answers
<1>3. CASE \E t \in Loads : LoadArrives(t) \/ ExecuteLoad(t) \/ LlcSend(t)
  BY <1>1, <1>3, QuietStep DEF LoadArrives, ExecuteLoad, LlcSend, dram, llc
<1>4. CASE \E i \in Invocations : Invoke(i) \/ AccInvoke(i)
  BY <1>1, <1>4, QuietStep DEF Invoke, AccInvoke, dram, llc
<1> QED BY <1>2, <1>3, <1>4

\* An answer is counted by a block, or every block with its line has completed.
LEMMA ReadCompleteEvicts == ASSUME IInv, EvictionInv, NEW l \in Addrs, ReadComplete(l) PROVE EvictionInv'
<1>1. TypeOK /\ SoundBlocks(acc_memory) /\ turn = "return" /\ turn' = "return"
      /\ UNCHANGED <<LLC_evicted, accelertor_mem, evictions, cached>>
  BY TypeBlocks DEF IInv, ReadComplete, llc
<1>2. CASE \E k \in DOMAIN acc_memory : FirstClaim(acc_memory, k, l) /\ acc_memory' = Count(acc_memory, k) /\ UNCHANGED place
  <2>1. PICK k \in DOMAIN acc_memory :
          FirstClaim(acc_memory, k, l) /\ acc_memory' = Count(acc_memory, k) /\ UNCHANGED place
    BY <1>2
  <2>2. ~completed(acc_memory[k])
    BY <2>1 DEF FirstClaim, Claims
  <2>3. /\ SameBlocks(acc_memory', acc_memory)
        /\ \A j \in DOMAIN acc_memory :
             /\ acc_memory'[j].issued = acc_memory[j].issued
             /\ acc_memory'[j].finished = IF j = k THEN acc_memory[j].finished + 1 ELSE acc_memory[j].finished
    BY <1>1, <2>1, CountIs
  <2>4. acc_memory # <<>> /\ acc_memory' # <<>>
    BY <1>1, <2>1, CountKeeps
  <2>5. \A j \in DOMAIN acc_memory : completed(acc_memory[j]) => completed(acc_memory'[j])
    BY <2>2, <2>3 DEF completed, SameBlocks, SameBlock
  <2>6. \A t \in Loads : place'[t] = "to_complete" =>
          \A j \in DOMAIN acc_memory : contains(acc_memory[j], Base(addrOf[t])) => completed(acc_memory[j])
    BY <2>1 DEF EvictionInv, Answers
  <2> QED BY <1>1, <2>3, <2>4, <2>5, <2>6, ReadStep
<1>3. CASE /\ Unclaimed(acc_memory, l) /\ UNCHANGED acc_memory
           /\ place' = [t \in Loads |-> IF place[t] = "dram" /\ Base(addrOf[t]) = l THEN "to_complete" ELSE place[t]]
  <2>1. \A t \in Loads : place'[t] = "to_complete" => place[t] = "to_complete" \/ Base(addrOf[t]) = l
    BY <1>3
  <2>2. \A j \in DOMAIN acc_memory : contains(acc_memory[j], l) => completed(acc_memory[j])
    BY <1>3 DEF Unclaimed, Claims
  <2>3. \A t \in Loads : place'[t] = "to_complete" =>
          \A j \in DOMAIN acc_memory : contains(acc_memory[j], Base(addrOf[t])) => completed(acc_memory[j])
    BY <2>1, <2>2 DEF EvictionInv, Answers
  <2> QED BY <1>1, <1>3, <2>3, ReadStep, Unmoved
<1> QED BY <1>2, <1>3 DEF ReadComplete

LEMMA DramIssueEvicts ==
  ASSUME IInv, EvictionInv, NEW k \in DOMAIN acc_memory, DramIssue(k) PROVE EvictionInv'
<1>1. TypeOK /\ SoundBlocks(acc_memory) /\ turn' = turn /\ LLC_evicted /\ acc_memory' = Sent(acc_memory, k)
      /\ UNCHANGED <<LLC_evicted, accelertor_mem, evictions, cached, place>>
  BY TypeBlocks DEF IInv, DramIssue, llc
<1>2. SameBlocks(acc_memory', acc_memory) /\ \A j \in DOMAIN acc_memory : acc_memory'[j].finished = acc_memory[j].finished
  BY <1>1, SentIs
<1>3. acc_memory # <<>> /\ acc_memory' # <<>>
  BY <1>1, SentKeeps DEF DramIssue
<1>4. \A j \in DOMAIN acc_memory : completed(acc_memory[j]) => completed(acc_memory'[j])
  BY <1>2 DEF completed, SameBlocks, SameBlock
<1> QED BY <1>1, <1>2, <1>3, <1>4, ReadStep DEF EvictionInv, Answers

\* The blocks of the DRAM are dropped.
LEMMA DramFinishEvicts == ASSUME IInv, EvictionInv, DramFinish PROVE EvictionInv'
<1>1. TypeOK /\ turn = "issue" /\ turn' = "evict" /\ UNCHANGED <<accelertor_mem, evictions, cached, place>>
  BY DEF IInv, DramFinish, llc
<1>2. CASE UNCHANGED <<acc_memory, LLC_evicted>>
  BY <1>1, <1>2, QuietStep
<1>3. CASE acc_memory' = <<>> /\ LLC_evicted' = FALSE
  <2>1. DOMAIN acc_memory' = {}
    BY <1>3
  <2> QED BY <1>1, <1>3, <2>1 DEF EvictionInv, EvictedFirst, Twins, Leavings, Reading, Answers
<1> QED BY <1>2, <1>3 DEF DramFinish

\* A line the LLC has and a line it loses.
LEMMA LlcFillEvicts == ASSUME IInv, EvictionInv, LlcFill PROVE EvictionInv'
<1> DEFINE answered == {t \in Loads : place[t] = "to_complete"}
<1>1. /\ UNCHANGED <<acc_memory, LLC_evicted, accelertor_mem, evictions>>
      /\ \A l \in cached' : l \in cached \/ \E t \in answered : l = Line(addrOf[t])
      /\ \A t \in Loads : place'[t] # "to_complete"
  BY DEF LlcFill, dram
<1>2. Leavings'
  <2> SUFFICES ASSUME NEW k \in DOMAIN acc_memory, ~completed(acc_memory[k]) PROVE Leaving(k)'
    BY <1>1 DEF Leavings
  <2>1. Leaving(k)
    BY DEF EvictionInv, Leavings
  <2>2. \A t \in answered : ~contains(acc_memory[k], Base(addrOf[t]))
    BY DEF EvictionInv, Answers
  <2>3. \A a : contains(acc_memory[k], Base(a)) /\ Line(a) \in cached' => Line(a) \in cached
    BY <1>1, <2>2 DEF Base
  <2> QED BY <1>1, <2>1, <2>3 DEF Leaving, Out, Twin, Offset
<1>3. Accounted(accelertor_mem, evictions)' /\ EvictedFirst' /\ Twins' /\ Reading' /\ Answers'
  BY <1>1 DEF EvictionInv, EvictedFirst, Twins, Twin, Offset, Reading, Answers
<1> QED BY <1>2, <1>3 DEF EvictionInv

\* The twin of a block is a block of the LLC.
LEMMA TwinThere ==
  ASSUME TypeOK, EvictionInv, ~LLC_evicted, NEW k \in DOMAIN acc_memory
  PROVE  Offset + k \in DOMAIN accelertor_mem
<1>1. acc_memory \in Seq(Block) /\ accelertor_mem \in Seq(Block)
  BY DEF TypeOK
<1>2. /\ Len(acc_memory) \in Nat /\ Len(accelertor_mem) \in Nat
      /\ DOMAIN acc_memory = 1 .. Len(acc_memory) /\ DOMAIN accelertor_mem = 1 .. Len(accelertor_mem)
  BY <1>1, LenProperties
<1>3. acc_memory # <<>>
  OBVIOUS
<1>4. Offset >= 0 /\ Offset = Len(accelertor_mem) - Len(acc_memory)
  BY <1>3 DEF EvictionInv, Twins, Offset
<1> QED BY <1>2, <1>4

\* A step of the LLC that evicts: its blocks stay, and get on.
LEMMA EvictStep ==
  ASSUME TypeOK, EvictionInv, UNCHANGED <<acc_memory, LLC_evicted, place, turn>>,
         SameBlocks(accelertor_mem', accelertor_mem), accelertor_mem = <<>> => accelertor_mem' = <<>>,
         Accounted(accelertor_mem', evictions'), Leavings'
  PROVE  EvictionInv'
<1>1. Offset' = Offset /\ EvictedFirst' /\ Reading' /\ Answers'
  BY DEF EvictionInv, EvictedFirst, SameBlocks, Offset, Reading, Answers
<1>2. Twins'
  <2> SUFFICES ASSUME acc_memory # <<>>, ~LLC_evicted, NEW k \in DOMAIN acc_memory
               PROVE  /\ Offset >= 0 /\ Twin(k)'.start = acc_memory[k].start
                      /\ Twin(k)'.nb_elem = acc_memory[k].nb_elem /\ Twin(k)'.total = acc_memory[k].nb_elem
    BY <1>1 DEF Twins, EvictionInv
  <2>1. /\ Offset >= 0 /\ Twin(k).start = acc_memory[k].start
        /\ Twin(k).nb_elem = acc_memory[k].nb_elem /\ Twin(k).total = acc_memory[k].nb_elem
    BY DEF EvictionInv, Twins
  <2>2. Offset + k \in DOMAIN accelertor_mem
    BY TwinThere
  <2>3. SameBlock(Twin(k)', Twin(k))
    BY <1>1, <2>2 DEF Twin, SameBlocks
  <2> QED BY <2>1, <2>3 DEF SameBlock
<1> QED BY <1>1, <1>2 DEF EvictionInv

LEMMA ElementsThere ==
  ASSUME TypeOK, NEW k \in DOMAIN acc_memory
  PROVE  /\ acc_memory[k].nb_elem \in Nat
         /\ \A n \in 0 .. acc_memory[k].nb_elem - 1 : element(acc_memory[k], n) \in Addrs
BY TypeBlocks, Numbers

\* What is out stays out while evictions only join the pq.
LEMMA StaysOut ==
  ASSUME NEW b, NEW m, NEW set, NEW ev \in [Addrs -> Nat], NEW ev2 \in [Addrs -> Nat],
         \A n \in 0 .. b.nb_elem - 1 : element(b, n) \in Addrs,
         \A a \in Addrs : ev2[a] >= ev[a],
         Out(b, m, set, ev)
  PROVE  Out(b, m, set, ev2)
<1> SUFFICES ASSUME NEW n \in 0 .. b.nb_elem - 1, n < m, contains(b, Base(element(b, n)))
             PROVE  Line(element(b, n)) \notin set \/ ev2[element(b, n)] > 0
  BY DEF Out
<1> DEFINE a == element(b, n)
<1>1. Line(a) \notin set \/ ev[a] > 0
  BY DEF Out
<1>2. a \in Addrs
  OBVIOUS
<1> HIDE DEF a
<1>3. ev[a] \in Nat /\ ev2[a] \in Nat /\ ev2[a] >= ev[a]
  BY <1>2
<1>4. Line(a) \notin set \/ ev2[a] > 0
  BY <1>1, <1>3
<1> QED BY <1>4 DEF a

LEMMA LlcEvictEvicts ==
  ASSUME IInv, EvictionInv, NEW e \in DOMAIN accelertor_mem, LlcEvict(e) PROVE EvictionInv'
<1> DEFINE b == accelertor_mem[e]
           l == next_to_send(b)
<1>1. /\ TypeOK /\ SoundBlocks(accelertor_mem) /\ ~completed_requesting(b)
      /\ UNCHANGED <<acc_memory, LLC_evicted, place, turn, cached>> /\ evictions \in [Addrs -> Nat]
  BY TypeBlocks DEF IInv, TypeOK, LlcEvict, dram
<1>2. /\ SoundBlocks(Sent(accelertor_mem, e)) /\ e \in DOMAIN Sent(accelertor_mem, e) /\ l \in Addrs
  BY <1>1, SentKeeps
<1>3. \/ /\ evictions' = [evictions EXCEPT ![l] = @ + 1]
         /\ accelertor_mem' = Sent(accelertor_mem, e)
      \/ /\ Line(l) \notin cached /\ evictions' = evictions
         /\ accelertor_mem' = Count(Sent(accelertor_mem, e), e)
  BY DEF LlcEvict, NextPresent
<1>4. ~LLC_evicted /\ accelertor_mem # <<>>
  BY DEF EvictionInv, EvictedFirst
<1>5. Accounted(accelertor_mem', evictions')
  <2>1. Accounted(accelertor_mem, evictions)
    BY DEF EvictionInv
  <2> DEFINE more == [evictions EXCEPT ![l] = @ + 1]
             asked == Sent(accelertor_mem, e)
  <2>2. Accounted(asked, more) /\ Accounted(Count(asked, e), evictions)
    BY <1>1, <1>2, <2>1, AskAccount
  <2>3. \/ evictions' = more /\ accelertor_mem' = asked
        \/ evictions' = evictions /\ accelertor_mem' = Count(asked, e)
    BY <1>3
  <2> HIDE DEF more, asked
  <2> QED BY <2>2, <2>3
<1>6. /\ SameBlocks(Sent(accelertor_mem, e), accelertor_mem)
      /\ \A j \in DOMAIN accelertor_mem :
           Sent(accelertor_mem, e)[j].issued = IF j = e THEN b.issued + 1 ELSE accelertor_mem[j].issued
  BY <1>1, SentIs
<1>7. /\ SameBlocks(Count(Sent(accelertor_mem, e), e), Sent(accelertor_mem, e))
      /\ \A j \in DOMAIN Sent(accelertor_mem, e) :
           Count(Sent(accelertor_mem, e), e)[j].issued = Sent(accelertor_mem, e)[j].issued
  BY <1>2, CountIs
<1>8. /\ SameBlocks(accelertor_mem', accelertor_mem)
      /\ \A j \in DOMAIN accelertor_mem :
           accelertor_mem'[j].issued = IF j = e THEN b.issued + 1 ELSE accelertor_mem[j].issued
  <2>1. CASE accelertor_mem' = Sent(accelertor_mem, e)
    BY <1>6, <2>1
  <2>2. CASE accelertor_mem' = Count(Sent(accelertor_mem, e), e)
    BY <1>6, <1>7, <2>2 DEF SameBlocks, SameBlock
  <2> QED BY <1>3, <2>1, <2>2
<1>9. /\ evictions' \in [Addrs -> Nat] /\ \A a \in Addrs : evictions'[a] >= evictions[a]
      /\ Line(l) \in cached => evictions'[l] > 0
  BY <1>1, <1>2, <1>3
<1>10. Offset' = Offset
  BY <1>1, <1>8 DEF Offset, SameBlocks
<1>11. ASSUME NEW k \in DOMAIN acc_memory, ~completed(acc_memory[k]) PROVE Leaving(k)'
  <2> DEFINE i == Offset + k
             d == acc_memory[k]
  <2>1. i \in DOMAIN accelertor_mem
    BY <1>1, <1>4, TwinThere
  <2>2. Out(d, accelertor_mem[i].issued, cached, evictions)
    BY <1>4, <1>11 DEF EvictionInv, Leavings, Leaving, Twin
  <2>3. accelertor_mem[i].start = d.start /\ accelertor_mem[i].nb_elem = d.nb_elem
        /\ accelertor_mem[i].total = d.nb_elem
    <3>1. acc_memory # <<>>
      OBVIOUS
    <3> QED BY <1>4, <3>1 DEF EvictionInv, Twins, Twin
  <2>4. Twin(k)' = accelertor_mem'[i]
    BY <1>10 DEF Twin
  <2>5. d.nb_elem \in Nat /\ \A n \in 0 .. d.nb_elem - 1 : element(d, n) \in Addrs
    BY <1>1, ElementsThere
  <2>6. Out(d, accelertor_mem[i].issued, cached, evictions')
    <3> HIDE DEF d
    <3> QED BY <1>1, <1>9, <2>2, <2>5, StaysOut
  <2>7. Out(d, accelertor_mem'[i].issued, cached, evictions')
    <3>1. CASE i # e
      BY <1>8, <2>1, <2>6, <3>1
    <3>2. CASE i = e
      <4>1. accelertor_mem'[i].issued = b.issued + 1 /\ accelertor_mem[i].issued = b.issued
        BY <1>8, <2>1, <3>2
      <4>2. b.issued \in Nat /\ b.issued < b.nb_elem /\ b.nb_elem = d.nb_elem
        <5>1. b.issued \in Nat /\ b.total \in Nat /\ b.issued <= b.total
          BY <1>1, Numbers
        <5>2. b.issued # b.total /\ b.total = b.nb_elem /\ b.nb_elem = d.nb_elem
          BY <1>1, <2>3, <3>2 DEF completed_requesting
        <5> HIDE DEF b, d
        <5> QED BY <5>1, <5>2
      <4>3. l = element(d, b.issued)
        <5>1. b.issued % b.nb_elem = b.issued
          <6> HIDE DEF b, d
          <6> QED BY <2>5, <4>2
        <5>2. element(b, b.issued) = element(d, b.issued)
          BY <2>3, <3>2, SameElements
        <5> QED BY <5>1, <5>2 DEF next_to_send
      <4>4. ASSUME NEW n \in 0 .. d.nb_elem - 1, n < b.issued + 1, contains(d, Base(element(d, n)))
            PROVE  Line(element(d, n)) \notin cached \/ evictions'[element(d, n)] > 0
        <5>1. n < b.issued \/ n = b.issued
          <6> HIDE DEF b, d
          <6> QED BY <2>5, <4>2, <4>4
        <5>2. CASE n < b.issued
          BY <2>6, <4>1, <4>4, <5>2 DEF Out
        <5>3. CASE n = b.issued
          <6>1. element(d, n) = l
            BY <4>3, <5>3
          <6> HIDE DEF l, d
          <6> QED BY <1>9, <6>1
        <5> QED BY <5>1, <5>2, <5>3
      <4>5. Out(d, b.issued + 1, cached, evictions')
        <5> HIDE DEF b, d
        <5> QED BY <4>4 DEF Out
      <4> QED BY <4>1, <4>5
    <3> QED BY <3>1, <3>2
  <2> QED BY <1>1, <1>4, <2>4, <2>7 DEF Leaving
<1>12. Leavings'
  BY <1>1, <1>11 DEF Leavings
<1> QED BY <1>1, <1>4, <1>5, <1>8, <1>12, EvictStep

LEMMA ExecuteEvictionEvicts ==
  ASSUME IInv, EvictionInv, NEW l \in Addrs, ExecuteEviction(l) PROVE EvictionInv'
<1>1. /\ TypeOK /\ SoundBlocks(accelertor_mem) /\ evictions[l] > 0
      /\ evictions' = [evictions EXCEPT ![l] = @ - 1] /\ cached' = cached \ {Line(l)}
      /\ UNCHANGED <<acc_memory, LLC_evicted, place, turn>> /\ evictions \in [Addrs -> Nat]
  BY TypeBlocks DEF IInv, TypeOK, ExecuteEviction, dram
<1>2. accelertor_mem' = accelertor_mem \/ \E k \in DOMAIN accelertor_mem : accelertor_mem' = Count(accelertor_mem, k)
  BY DEF ExecuteEviction
<1>3. Accounted(accelertor_mem', evictions')
  <2>1. Accounted(accelertor_mem, evictions)
    BY DEF EvictionInv
  <2> DEFINE less == [evictions EXCEPT ![l] = @ - 1]
  <2>2. Accounted(accelertor_mem, less) /\ \A k \in DOMAIN accelertor_mem : Accounted(Count(accelertor_mem, k), less)
    BY <1>1, <2>1, EvictAccount
  <2>3. evictions' = less
    BY <1>1
  <2> HIDE DEF less
  <2> QED BY <1>2, <2>2, <2>3
<1>4. /\ SameBlocks(accelertor_mem', accelertor_mem)
      /\ \A j \in DOMAIN accelertor_mem : accelertor_mem'[j].issued = accelertor_mem[j].issued
      /\ accelertor_mem = <<>> => accelertor_mem' = <<>>
  <2>1. CASE accelertor_mem' = accelertor_mem
    BY <2>1 DEF SameBlocks, SameBlock
  <2>2. ASSUME NEW k \in DOMAIN accelertor_mem, accelertor_mem' = Count(accelertor_mem, k)
        PROVE  /\ SameBlocks(accelertor_mem', accelertor_mem)
               /\ \A j \in DOMAIN accelertor_mem : accelertor_mem'[j].issued = accelertor_mem[j].issued
               /\ accelertor_mem # <<>>
    BY <1>1, <2>2, CountIs
  <2> QED BY <1>2, <2>1, <2>2
<1>5. ASSUME NEW k \in DOMAIN acc_memory, ~completed(acc_memory[k]) PROVE Leaving(k)'
  <2>1. Offset' = Offset
    BY <1>1, <1>4 DEF Offset, SameBlocks
  <2>2. LLC_evicted \/ Twin(k)'.issued = Twin(k).issued
    <3>1. ~LLC_evicted => Offset + k \in DOMAIN accelertor_mem
      BY <1>1, TwinThere
    <3> QED BY <1>4, <2>1, <3>1 DEF Twin
  <2>3. Leaving(k)
    BY <1>5 DEF EvictionInv, Leavings
  <2> DEFINE d == acc_memory[k]
  <2>4. \A n \in 0 .. d.nb_elem - 1 : element(d, n) \in Addrs
    BY <1>1, ElementsThere
  <2>5. \A a \in Addrs : Line(a) \notin cached \/ evictions[a] > 0 => Line(a) \notin cached' \/ evictions'[a] > 0
    BY <1>1
  <2>6. \A m : Out(d, m, cached, evictions) => Out(d, m, cached', evictions')
    <3> HIDE DEF d
    <3> QED BY <2>4, <2>5 DEF Out
  <2> QED BY <1>1, <2>2, <2>3, <2>6 DEF Leaving
<1>6. Leavings'
  BY <1>1, <1>5 DEF Leavings
<1> QED BY <1>1, <1>3, <1>4, <1>6, EvictStep

\* All the blocks have been evicted, so every line of every block has.
LEMMA LlcFinishEvicts == ASSUME IInv, EvictionInv, LlcFinish PROVE EvictionInv'
<1>1. /\ TypeOK /\ SoundBlocks(accelertor_mem) /\ evictions \in [Addrs -> Nat] /\ turn = "send" /\ turn' = "acc"
      /\ UNCHANGED <<acc_memory, evictions, cached, place>>
  BY TypeBlocks DEF IInv, TypeOK, LlcFinish, dram
<1>2. CASE ~LlcFinished
  <2>1. UNCHANGED <<accelertor_mem, LLC_evicted>>
    BY <1>2 DEF LlcFinish
  <2> QED BY <1>1, <2>1, QuietStep
<1>3. CASE LlcFinished
  <2>1. accelertor_mem' = <<>> /\ LLC_evicted' = TRUE /\ ~LLC_evicted
        /\ \A k \in DOMAIN accelertor_mem : completed(accelertor_mem[k])
    BY <1>3 DEF LlcFinish, LlcFinished, AllCompleted, EvictionInv, EvictedFirst
  <2>2. /\ \A k \in DOMAIN accelertor_mem : accelertor_mem[k].issued = accelertor_mem[k].total
        /\ \A l \in Addrs : evictions[l] = 0
        /\ Accounted(<<>>, evictions)
    <3>1. Accounted(accelertor_mem, evictions)
      BY DEF EvictionInv
    <3> QED BY <1>1, <2>1, <3>1, AllAccount
  <2>3. ASSUME NEW k \in DOMAIN acc_memory, ~completed(acc_memory[k]) PROVE Leaving(k)'
    <3>1. Offset + k \in DOMAIN accelertor_mem
      BY <1>1, <2>1, TwinThere
    <3>2. Twin(k).issued = acc_memory[k].nb_elem
      <4>1. acc_memory # <<>>
        OBVIOUS
      <4> QED BY <2>1, <2>2, <3>1, <4>1 DEF EvictionInv, Twins, Twin
    <3>3. Leaving(k)
      BY <2>3 DEF EvictionInv, Leavings
    <3> QED BY <1>1, <2>1, <3>2, <3>3 DEF Leaving
  <2>4. Leavings'
    BY <1>1, <2>3 DEF Leavings
  <2>5. Accounted(accelertor_mem', evictions')
    BY <1>1, <2>1, <2>2
  <2>6. EvictedFirst' /\ Twins' /\ Reading' /\ Answers'
    BY <1>1, <2>1 DEF EvictionInv, EvictedFirst, Twins, Reading, Answers
  <2> QED BY <2>4, <2>5, <2>6 DEF EvictionInv
<1> QED BY <1>2, <1>3

\* New blocks: nothing is asked for or counted.
LEMMA JoinAccount ==
  ASSUME NEW old, NEW new, SoundBlocks(old), SoundBlocks(new), NEW ev, Accounted(old, ev),
         \A k \in DOMAIN new : new[k].issued = 0 /\ new[k].finished = 0
  PROVE  Accounted(old \o new, ev)
<1> DEFINE s == old \o new
<1>1. old \in Seq(Block) /\ new \in Seq(Block)
  BY DEF SoundBlocks
<1>2. /\ DOMAIN s = 1 .. Len(old) + Len(new) /\ DOMAIN old = 1 .. Len(old) /\ DOMAIN new = 1 .. Len(new)
      /\ Len(old) \in Nat /\ Len(new) \in Nat
      /\ \A j \in 1 .. Len(old) + Len(new) : s[j] = IF j <= Len(old) THEN old[j] ELSE new[j - Len(old)]
  BY <1>1, ConcatProperties, LenProperties
<1> HIDE DEF s
<1>3. /\ DOMAIN old \subseteq DOMAIN s /\ \A j \in DOMAIN old : s[j] = old[j]
      /\ \A j \in DOMAIN s \ DOMAIN old : s[j].issued = 0 /\ s[j].finished = 0
  <2>1. ASSUME NEW j \in DOMAIN s \ DOMAIN old PROVE s[j] = new[j - Len(old)] /\ j - Len(old) \in DOMAIN new
    BY <1>2, <2>1
  <2> QED BY <1>2, <2>1
<1>4. Asked(s) = Asked(old) /\ Counted(s) = Counted(old)
  BY <1>3 DEF Asked, Counted
<1> QED BY <1>4 DEF Accounted, s

LEMMA DramStartEvicts == ASSUME IInv, EvictionInv, DramStart PROVE EvictionInv'
<1>1. /\ TypeOK /\ SoundBlocks(accelertor_mem) /\ turn = "start" /\ turn' = "return"
      /\ UNCHANGED <<evictions, cached, place>> /\ \A t \in Loads : place[t] # "to_complete"
  BY TypeBlocks DEF IInv, DramStart, EvictionInv, Answers
<1>2. CASE request = None
  BY <1>1, <1>2, QuietStep DEF DramStart
<1>3. CASE request # None
  <2> DEFINE blocks == blocksOf[request]
             atDram == [k \in DOMAIN blocks |-> NewBlock(blocks[k], blocks[k].factor)]
             atLlc == [k \in DOMAIN blocks |-> NewBlock(blocks[k], 1)]
  <2>1. request \in Invocations /\ acc_memory = <<>>
    BY <1>3 DEF IInv, TypeOK, HandOverInv
  <2>2. SoundBlocks(atDram) /\ SoundBlocks(atLlc)
    BY <2>1, InvocationBlocks
  <2>3. acc_memory' = <<>> \o atDram /\ accelertor_mem' = accelertor_mem \o atLlc /\ LLC_evicted' = FALSE
    BY <1>3, <2>1 DEF DramStart
  <2>4. /\ DOMAIN atDram = DOMAIN blocks /\ DOMAIN atLlc = DOMAIN blocks
        /\ \A k \in DOMAIN blocks :
             /\ atDram[k].issued = 0 /\ atLlc[k].issued = 0 /\ atLlc[k].finished = 0
             /\ atLlc[k].start = atDram[k].start /\ atLlc[k].nb_elem = atDram[k].nb_elem
             /\ atLlc[k].total = atDram[k].nb_elem * 1
    BY DEF NewBlock
  <2>5. \A k \in DOMAIN blocks : atDram[k].nb_elem \in Nat
    BY <2>2, <2>4, Numbers
  <2>6. Len(atDram) = Len(atLlc) /\ atDram \in Seq(Block) /\ atLlc \in Seq(Block) /\ accelertor_mem \in Seq(Block)
    <3>1. atDram \in Seq(Block) /\ atLlc \in Seq(Block) /\ accelertor_mem \in Seq(Block)
      BY <1>1, <2>2 DEF SoundBlocks
    <3>2. Len(atDram) \in Nat /\ Len(atLlc) \in Nat /\ 1 .. Len(atDram) = 1 .. Len(atLlc)
      BY <2>4, <3>1, LenProperties
    <3>3. Len(atDram) = Len(atLlc)
      <4> HIDE DEF atDram, atLlc
      <4> QED BY <3>2
    <3> QED BY <3>1, <3>3
  <2>7. \A k \in DOMAIN blocks : k \in 1 .. Len(atLlc)
    BY <2>4, <2>6, LenProperties
  <2> HIDE DEF atDram, atLlc, blocks
  <2>8. acc_memory' = atDram
    BY <2>3, <2>6
  <2>9. /\ Len(accelertor_mem') = Len(accelertor_mem) + Len(atLlc)
        /\ Len(accelertor_mem) \in Nat /\ Len(atLlc) \in Nat
        /\ \A k \in 1 .. Len(atLlc) : accelertor_mem'[Len(accelertor_mem) + k] = atLlc[k]
    <3>1. /\ Len(accelertor_mem') = Len(accelertor_mem) + Len(atLlc)
          /\ Len(accelertor_mem) \in Nat /\ Len(atLlc) \in Nat
          /\ \A j \in 1 .. Len(accelertor_mem) + Len(atLlc) :
               accelertor_mem'[j] = IF j <= Len(accelertor_mem) THEN accelertor_mem[j] ELSE atLlc[j - Len(accelertor_mem)]
      BY <2>3, <2>6, ConcatProperties, LenProperties
    <3>2. ASSUME NEW k \in 1 .. Len(atLlc) PROVE accelertor_mem'[Len(accelertor_mem) + k] = atLlc[k]
      <4>1. /\ Len(accelertor_mem) + k \in 1 .. Len(accelertor_mem) + Len(atLlc)
            /\ ~(Len(accelertor_mem) + k <= Len(accelertor_mem))
            /\ Len(accelertor_mem) + k - Len(accelertor_mem) = k
        BY <3>1
      <4> QED BY <3>1, <4>1
    <3> QED BY <3>1, <3>2
  <2>10. Offset' = Len(accelertor_mem)
    <3>1. Len(acc_memory') = Len(atLlc)
      BY <2>6, <2>8
    <3>2. Offset' = Len(accelertor_mem') - Len(acc_memory')
      BY DEF Offset
    <3> QED BY <2>9, <3>1, <3>2
  <2>11. \A k \in DOMAIN blocks : Twin(k)' = atLlc[k]
    BY <2>7, <2>9, <2>10 DEF Twin
  <2>12. Accounted(accelertor_mem', evictions')
    BY <1>1, <2>2, <2>3, <2>4, JoinAccount DEF EvictionInv
  <2>13. EvictedFirst' /\ Answers'
    BY <1>1, <2>3 DEF EvictedFirst, Answers
  <2>14. Twins'
    <3> SUFFICES ASSUME NEW k \in DOMAIN blocks
                 PROVE  /\ Offset' >= 0 /\ Twin(k)'.start = acc_memory'[k].start
                        /\ Twin(k)'.nb_elem = acc_memory'[k].nb_elem
                        /\ Twin(k)'.total = acc_memory'[k].nb_elem
      BY <2>4, <2>8, <2>9, <2>10 DEF Twins
    <3>1. atDram[k].nb_elem * 1 = atDram[k].nb_elem
      BY <2>5
    <3> QED BY <2>4, <2>8, <2>9, <2>10, <2>11, <3>1
  <2>15. Leavings'
    <3>1. ASSUME NEW k \in DOMAIN blocks PROVE Leaving(k)'
      <4>1. \A n \in 0 .. acc_memory'[k].nb_elem - 1 : ~(n < 0)
        BY <2>5, <2>8
      <4>2. Twin(k)'.issued = 0
        BY <2>4, <2>11
      <4> QED BY <2>3, <4>1, <4>2 DEF Leaving, Out
    <3> QED BY <2>4, <2>8, <3>1 DEF Leavings
  <2>16. Reading'
    BY <2>4, <2>8 DEF Reading
  <2> QED BY <2>12, <2>13, <2>14, <2>15, <2>16 DEF EvictionInv
<1> QED BY <1>2, <1>3

LEMMA InitEvicts == Init => EvictionInv
<1> SUFFICES ASSUME Init PROVE EvictionInv
  OBVIOUS
<1>1. /\ acc_memory = <<>> /\ accelertor_mem = <<>> /\ LLC_evicted = FALSE
      /\ evictions = [a \in Addrs |-> 0] /\ place = [t \in Loads |-> "new"]
  BY DEF Init
<1>2. Asked(accelertor_mem) = {} /\ Counted(accelertor_mem) = {} /\ InQueue(evictions) = {}
  <2>1. DOMAIN accelertor_mem = {}
    BY <1>1
  <2>2. \A p \in Addrs \X Nat : ~(p[2] < evictions[p[1]])
    BY <1>1
  <2> QED BY <2>1, <2>2 DEF Asked, Counted, InQueue
<1>3. Cardinality({}) + Cardinality({}) <= Cardinality({}) /\ IsFiniteSet({})
  BY FS_EmptySet
<1>4. Accounted(accelertor_mem, evictions)
  BY <1>2, <1>3, Zenon DEF Accounted
<1>5. DOMAIN acc_memory = {}
  BY <1>1
<1> QED BY <1>1, <1>4, <1>5 DEF EvictionInv, EvictedFirst, Twins, Leavings, Reading, Answers

-----------------------------------------------------------------------------
(* The theorems.                                                           *)

\* The invariant of the hand-over holds in every run.
THEOREM Invariance == Spec => []IInv
<1>1. IInv /\ [Next]_vars => IInv'
  <2> SUFFICES ASSUME IInv, [Next]_vars PROVE IInv'
    OBVIOUS
  <2>1. CASE Next
    BY <2>1, DramStartInv, ReadCompleteInv, DramIssueInv, DramFinishInv, LlcInv, AcceleratorInv DEF Next
  <2>2. CASE UNCHANGED vars
    BY <2>2 DEF vars, accelerator, IInv, TypeOK, HandOverInv, Answered
  <2> QED BY <2>1, <2>2
<1> QED BY <1>1, InitInv, PTL DEF Spec

\* The accelerator never starts an invocation while the DRAM still has blocks
\* of the one before, whatever they read and however long they compute
\* (Accelerator.cpp:68, DRAM.cpp:189).
THEOREM HandedOver == Spec => []OneInvocationAtATime
<1>1. IInv => OneInvocationAtATime
  BY DEF IInv, HandOverInv, OneInvocationAtATime
<1> QED BY <1>1, Invariance, PTL

\* The invariant of the evictions holds in every run.
THEOREM EvictionInvariance == Spec => []EvictionInv
<1>1. IInv /\ EvictionInv /\ [Next]_vars => EvictionInv'
  <2> SUFFICES ASSUME IInv, EvictionInv, [Next]_vars PROVE EvictionInv'
    OBVIOUS
  <2>1. CASE Next
    BY <2>1, QuietActions, ReadCompleteEvicts, DramIssueEvicts, DramFinishEvicts, DramStartEvicts,
      LlcFillEvicts, LlcFinishEvicts, LlcEvictEvicts, ExecuteEvictionEvicts DEF Next
  <2>2. CASE UNCHANGED vars
    <3>1. TypeOK
      BY DEF IInv
    <3> QED BY <2>2, <3>1, QuietStep DEF vars
  <2> QED BY <2>1, <2>2
<1> QED BY <1>1, InitEvicts, Invariance, PTL DEF Spec

\* The accelerator reads no line that the LLC still holds or is writing back,
\* but for the line in the middle of which a block starts, whichever blocks
\* overlap and whatever loads were under way, and the LLC leaves no eviction
\* behind (DRAM.cpp:149, LLCache.cpp:193).
THEOREM EvictedBeforeRead == Spec => []ReadsAfterEviction
<1>1. IInv /\ EvictionInv => ReadsAfterEviction
  <2> SUFFICES ASSUME IInv, EvictionInv PROVE ReadsAfterEviction
    OBVIOUS
  <2>1. accelertor_mem = <<>> => \A a \in Addrs : evictions[a] = 0
    <3> SUFFICES ASSUME accelertor_mem = <<>> PROVE \A a \in Addrs : evictions[a] = 0
      OBVIOUS
    <3>1. SoundBlocks(<<>>) /\ Accounted(<<>>, evictions) /\ evictions \in [Addrs -> Nat]
      BY EmptySound DEF IInv, TypeOK, EvictionInv
    <3>2. \A k \in DOMAIN <<>> : completed(<<>>[k])
      OBVIOUS
    <3> QED BY <3>1, <3>2, AllAccount
  <2>2. ASSUME NEW k \in DOMAIN acc_memory, acc_memory[k].issued > 0, ~completed(acc_memory[k])
        PROVE  /\ accelertor_mem = <<>>
               /\ \A n \in 0 .. acc_memory[k].nb_elem - 1 :
                    n > 0 \/ acc_memory[k].start % LineSize = 0 =>
                      Line(element(acc_memory[k], n)) \notin cached
    <3> DEFINE d == acc_memory[k]
    <3>1. LLC_evicted /\ accelertor_mem = <<>> /\ Out(d, d.nb_elem, cached, evictions)
      BY <2>2 DEF EvictionInv, Reading, EvictedFirst, Leavings, Leaving
    <3>2. d.nb_elem \in Nat /\ \A n \in 0 .. d.nb_elem - 1 : element(d, n) \in Addrs
      BY ElementsThere DEF IInv
    <3>3. \A a \in Addrs : ~(evictions[a] > 0)
      BY <2>1, <3>1
    <3> HIDE DEF d
    <3>4. \A n \in 0 .. d.nb_elem - 1 : contains(d, Base(element(d, n))) => Line(element(d, n)) \notin cached
      BY <3>1, <3>2, <3>3 DEF Out
    <3>5. \A n \in 0 .. d.nb_elem - 1 : n > 0 \/ d.start % LineSize = 0 => contains(d, Base(element(d, n)))
      <4>1. d \in Block /\ BlockSound(d)
        BY TypeBlocks DEF IInv, SoundBlocks, d
      <4> QED BY <4>1, Contained
    <3> QED BY <3>1, <3>4, <3>5 DEF d
  <2> QED BY <2>1, <2>2 DEF ReadsAfterEviction
<1> QED BY <1>1, Invariance, EvictionInvariance, PTL
=============================================================================
