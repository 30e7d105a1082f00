-------------------------- MODULE DramCommandQueue --------------------------
(***************************************************************************)
(* CommandQueue of DRAMSim2 (CommandQueue.cpp): the queues of commands per *)
(* rank, or per rank and bank, and the choice of the command to issue in a *)
(* cycle: first whatever lets a waiting refresh proceed, then the first    *)
(* issuable command in round robin, then, with open pages, the closing of  *)
(* a row nobody wants.                                                     *)
(*                                                                         *)
(* The operators Pop... are the ways pop() can end; each gives the packet  *)
(* that pop() returns.  The controller conjoins them with what it does     *)
(* with the packet.                                                        *)
(***************************************************************************)
EXTENDS DramTiming, FiniteSetsExt, SequencesExt

CONSTANTS CmdQueueDepth, TotalRowAccesses

VARIABLES
  policy,            \* rowBufferPolicy, queuingStructure and schedulingPolicy
  bankStates,        \* the controller's view of every bank
  queues,            \* the commands per rank and queue
  next,              \* <<nextRank, nextBank>>
  nextPRE,           \* <<nextRankPRE, nextBankPRE>>
  refreshRank, refreshWaiting,
  rowAccessCounters,
  tFAWCountdown,
  sendAct

cqVars == <<queues, next, nextPRE, refreshRank, refreshWaiting, rowAccessCounters, tFAWCountdown, sendAct>>

OpenPage == policy.rows = "OpenPage"
PerRank == policy.structure = "PerRank"

Slots == Ranks \X (IF PerRank THEN {0} ELSE Banks)
AllBanks == Ranks \X Banks

CommandQueueInit ==
  /\ bankStates = [r \in Ranks |-> [b \in Banks |-> FreshBank]]
  /\ queues = [s \in Slots |-> <<>>]
  /\ next = <<0, 0>> /\ nextPRE = <<0, 0>>
  /\ refreshRank = 0 /\ refreshWaiting = FALSE
  /\ rowAccessCounters = [rb \in AllBanks |-> 0]
  /\ tFAWCountdown = [r \in Ranks |-> <<>>]
  /\ sendAct = TRUE

\* getCommandQueue: with one queue per rank the bank is ignored.
SlotOf(r, b) == <<r, IF PerRank THEN 0 ELSE b>>

BankOf(p) == bankStates[p.rank][p.bank]

\* pop() decrements the counters of the four-activate window before anything
\* else; the oldest leaves when it reaches 0.
WindowOf(r) ==
  LET aged == [i \in DOMAIN tFAWCountdown[r] |-> tFAWCountdown[r][i] - 1]
  IN  IF aged # <<>> /\ Head(aged) = 0 THEN Tail(aged) ELSE aged

ColumnAllowed(p, left) ==
  /\ BankOf(p).state = "RowActive"
  /\ left = 0
  /\ p.row = BankOf(p).row
  /\ rowAccessCounters[<<p.rank, p.bank>>] < TotalRowAccesses

isIssuable(p) ==
  \/ /\ p.type = "ACTIVATE"
     /\ BankOf(p).state \in {"Idle", "Refreshing"}
     /\ BankOf(p).nextActivate = 0
     /\ Len(WindowOf(p.rank)) < 4
  \/ p.type \in Writes /\ ColumnAllowed(p, BankOf(p).nextWrite)
  \/ p.type \in Reads /\ ColumnAllowed(p, BankOf(p).nextRead)

\* hasRoomFor and enqueue, for the two commands of a transaction.
\* Mutant: room for one is enough.
HasRoomForPairMutant(r, b) == CmdQueueDepth - Len(queues[SlotOf(r, b)]) >= 1

HasRoomForPair(r, b) == CmdQueueDepth - Len(queues[SlotOf(r, b)]) >= 2
Enqueued(p1, p2) ==
  [queues EXCEPT ![SlotOf(p1.rank, p1.bank)] = @ \o <<p1, p2>>]

isEmpty(held, r) == \A s \in Slots : s[1] = r => held[s] = <<>>

----------------------------------------------------------------------------
(* Round robin.                                                            *)

nextRankAndBank(rb) ==
  LET r == (rb[1] + 1) % NumRanks
      b == (rb[2] + 1) % NumBanks
  IN  IF policy.scheduling = "RankThenBank"
      THEN <<r, IF r = 0 THEN b ELSE rb[2]>>
      ELSE <<IF b = 0 THEN r ELSE rb[1], b>>

\* The queue visited after this one: with one queue per rank, the next rank.
NextQueue(rb) ==
  IF PerRank THEN <<(rb[1] + 1) % NumRanks, rb[2]>> ELSE nextRankAndBank(rb)

\* The n-th position of a tour.
Tour(start, n, succ) ==
  LET at[k \in 0..n] == IF k = 0 THEN start ELSE succ[at[k - 1]] IN at[n]

QueueTour(n) == Tour(next, n, [rb \in AllBanks |-> NextQueue(rb)])
BankTour(n) == Tour(nextPRE, n, [rb \in AllBanks |-> nextRankAndBank(rb)])

----------------------------------------------------------------------------
(* What a queue has to offer.                                              *)

Paired(q, i) == i > 1 /\ q[i - 1].type = "ACTIVATE"

\* Mutant: only the activates are kept behind.
DependentMutant(q, i) ==
  q[i].type = "ACTIVATE" /\ \E j \in 1..(i - 1) :
    q[j].type # "ACTIVATE" /\ q[j].bank = q[i].bank /\ q[j].row = q[i].row

\* Open page: not before an earlier column command of the same row.
Dependent(q, i) ==
  \E j \in 1..(i - 1) :
    q[j].type # "ACTIVATE" /\ q[j].bank = q[i].bank /\ q[j].row = q[i].row

\* The commands of a queue that may go now.
Eligible(q) ==
  IF OpenPage THEN {i \in DOMAIN q : isIssuable(q[i]) /\ ~Dependent(q, i)}
  ELSE IF PerRank THEN
    {i \in DOMAIN q : isIssuable(q[i]) /\ ~(Paired(q, i) /\ q[i - 1].addr = q[i].addr)}
  ELSE {i \in DOMAIN q : i = 1 /\ isIssuable(q[i])}

\* Nothing goes to a rank that waits for its refresh.
Offers(rb) ==
  IF rb[1] = refreshRank /\ refreshWaiting THEN {} ELSE Eligible(queues[SlotOf(rb[1], rb[2])])

Stops == {n \in 0..(IF PerRank THEN NumRanks - 1 ELSE NumRanks * NumBanks - 1) : Offers(QueueTour(n)) # {}}

\* Mutant: whether the row is wanted is not asked.
ClosableMutant(rb) ==
  LET bank == bankStates[rb[1]][rb[2]]
  IN  bank.state = "RowActive" /\ bank.nextPrecharge = 0

\* Open page: a bank whose row nothing in the queue wants, or whose row has
\* been used often enough.
Closable(rb) ==
  LET bank == bankStates[rb[1]][rb[2]]
      q == queues[SlotOf(rb[1], rb[2])]
  IN  /\ bank.state = "RowActive"
      /\ \/ ~\E i \in DOMAIN q : q[i].bank = rb[2] /\ q[i].row = bank.row
         \/ rowAccessCounters[rb] = TotalRowAccesses
      /\ bank.nextPrecharge = 0

Closings == {n \in 0..(NumRanks * NumBanks - 1) : Closable(BankTour(n))}

----------------------------------------------------------------------------
(* The ways pop() ends.                                                    *)

\* The common end: the pointers move, except after the activate of a posted
\* column command, and an activate enters the window.
Popped(p, at) ==
  /\ IF AL > 0 /\ sendAct
     THEN sendAct' = FALSE /\ next' = at
     ELSE sendAct' = TRUE /\ next' = nextRankAndBank(at)
  /\ tFAWCountdown' = [r \in Ranks |->
       IF p.type = "ACTIVATE" /\ r = p.rank THEN Append(WindowOf(r), tFAW) ELSE WindowOf(r)]

\* The bank that holds up the refresh: the first one that is open or too early.
InTheWay == {b \in Banks : \/ bankStates[refreshRank][b].state = "RowActive"
                           \/ bankStates[refreshRank][b].nextActivate > 0}
Blocker == Min(InTheWay)
Blocking == bankStates[refreshRank][Blocker]

\* Where the queue first mentions the open row of that bank.
Mentions == LET q == queues[SlotOf(refreshRank, Blocker)]
            IN  {i \in DOMAIN q : q[i].bank = Blocker /\ q[i].row = Blocking.row}
RowWanted == Mentions # {} /\ queues[SlotOf(refreshRank, Blocker)][Min(Mentions)].type # "ACTIVATE"
ServesOpenRow ==
  RowWanted /\ isIssuable(queues[SlotOf(refreshRank, Blocker)][Min(Mentions)])

RefreshReady == InTheWay = {} /\ bankStates[refreshRank][0].state # "PowerDown"
RefreshServes == InTheWay # {} /\ Blocking.state = "RowActive" /\ ServesOpenRow
\* Mutant: an activate for the open row keeps it open.
RefreshClosesMutant ==
  /\ OpenPage /\ InTheWay # {} /\ Blocking.state = "RowActive"
  /\ Mentions = {} /\ Blocking.nextPrecharge = 0

RefreshCloses ==
  /\ OpenPage /\ InTheWay # {} /\ Blocking.state = "RowActive"
  /\ ~RowWanted /\ Blocking.nextPrecharge = 0

\* The refresh itself.
PopRefresh(p) ==
  /\ refreshWaiting /\ RefreshReady
  /\ p = Bare("REFRESH", refreshRank, 0)
  /\ refreshRank' = -1 /\ refreshWaiting' = FALSE
  /\ Popped(p, next)
  /\ UNCHANGED <<queues, nextPRE, rowAccessCounters>>

\* The column command the open row is still waiting for.
PopForRefresh(p) ==
  /\ refreshWaiting /\ RefreshServes
  /\ LET s == SlotOf(refreshRank, Blocker)
     IN  /\ p = queues[s][Min(Mentions)]
         /\ queues' = [queues EXCEPT ![s] = RemoveAt(@, Min(Mentions))]
  /\ Popped(p, next)
  /\ UNCHANGED <<nextPRE, refreshRank, refreshWaiting, rowAccessCounters>>

\* The precharge of a row that stands in the way of the refresh.
PopCloseForRefresh(p) ==
  /\ refreshWaiting /\ RefreshCloses
  /\ p = Bare("PRECHARGE", refreshRank, Blocker)
  /\ rowAccessCounters' = [rowAccessCounters EXCEPT ![<<refreshRank, Blocker>>] = 0]
  /\ Popped(p, next)
  /\ UNCHANGED <<queues, nextPRE, refreshRank, refreshWaiting>>

NoRefreshStep == ~(refreshWaiting /\ (RefreshReady \/ RefreshServes \/ RefreshCloses))

\* The first issuable command.  With open pages a column command whose row is
\* already open takes its activate with it.
PopFromQueue(p) ==
  /\ NoRefreshStep /\ Stops # {}
  /\ LET at == QueueTour(Min(Stops))
         s == SlotOf(at[1], at[2])
         i == Min(Offers(at))
         both == OpenPage /\ Paired(queues[s], i)
     IN  /\ p = queues[s][i]
         /\ queues' = [queues EXCEPT ![s] = IF both THEN RemoveAt(RemoveAt(@, i), i - 1) ELSE RemoveAt(@, i)]
         /\ rowAccessCounters' = [rowAccessCounters EXCEPT ![<<p.rank, p.bank>>] = IF both THEN @ + 1 ELSE @]
         /\ Popped(p, at)
  /\ UNCHANGED <<nextPRE, refreshRank, refreshWaiting>>

\* Mutant: the accesses of the closed row are still counted.
PopCloseMutant(p) ==
  /\ NoRefreshStep /\ Stops = {} /\ OpenPage /\ Closings # {}
  /\ LET rb == BankTour(Min(Closings)) IN p = Bare("PRECHARGE", rb[1], rb[2]) /\ nextPRE' = rb
  /\ Popped(p, next)
  /\ UNCHANGED <<queues, refreshRank, refreshWaiting, rowAccessCounters>>

\* Nothing to issue: close a row.
PopClose(p) ==
  /\ NoRefreshStep /\ Stops = {} /\ OpenPage /\ Closings # {}
  /\ LET rb == BankTour(Min(Closings))
     IN  /\ p = Bare("PRECHARGE", rb[1], rb[2])
         /\ nextPRE' = rb
         /\ rowAccessCounters' = [rowAccessCounters EXCEPT ![rb] = 0]
  /\ Popped(p, next)
  /\ UNCHANGED <<queues, refreshRank, refreshWaiting>>

\* pop() returns false.
PopNothing ==
  /\ NoRefreshStep /\ Stops = {} /\ ~(OpenPage /\ Closings # {})
  /\ tFAWCountdown' = [r \in Ranks |-> WindowOf(r)]
  /\ UNCHANGED <<queues, next, nextPRE, refreshRank, refreshWaiting, rowAccessCounters, sendAct>>
=============================================================================
