--------------------------- MODULE DramInvariants ---------------------------
(***************************************************************************)
(* The inductive invariants of DramController, for DramControllerProofs.   *)
(*                                                                         *)
(* TablesInv: the controller's table of a bank and what the rank makes of  *)
(* the same commands agree (Agree), although the rank hears of a command,  *)
(* and of the cycle that passes, one cycle later: View is the rank's table *)
(* with the command on the bus applied to it.  QueueInv: an activate is    *)
(* followed by its column command, and a column command on its own has an  *)
(* open row that nothing before it in the queue wants, so none closes it.  *)
(* CounterInv and RoundInv are about the counts of row accesses and the    *)
(* pointers of the round robin; PipeInv says that the data on its way      *)
(* comes out one by one, RefreshInv that the refreshes of the ranks come   *)
(* due in turn.  Together they are Inv.                                    *)
(*                                                                         *)
(* BusInv keeps the bursts on the data bus apart: it knows every burst by  *)
(* the cycle it takes the bus, from its command on, and what the times of  *)
(* each bank in use have to do with it.                                    *)
(*                                                                         *)
(* OrderInv follows the accesses to one address by the numbers of their    *)
(* transactions.  TurnInv: in the queues they stand in their order, ahead  *)
(* of the transactions not yet taken.  GoneInv: what was issued is older   *)
(* than what was not; the data of a write is over before the bank takes a  *)
(* read (WritesHold), so a read on its way is older than a write whose     *)
(* data still moves; and data comes back in the order of the reads.        *)
(* PendInv: the pending reads are the reads in the queues and on the way.  *)
(***************************************************************************)
EXTENDS DramController
----------------------------------------------------------------------------
(* The two tables of banks.                                                *)

Autopre == {"READ_P", "WRITE_P"}

\* A bank the controller sees open is open in the rank, unless it closes by
\* itself.
SameState(own, view) ==
  /\ own.state \in {"Idle", "Precharging", "Refreshing"} => view.state = "Idle"
  /\ own.state = "PowerDown" => view.state = "PowerDown"
  /\ own.state = "RowActive" =>
       IF own.last \in Autopre THEN view.state = "Idle" /\ own.countdown > 0
       ELSE view.state = "RowActive" /\ view.row = own.row

\* What the countdown of a bank is for.
Settling(own) ==
  /\ own.state = "RowActive" => own.last \notin {"PRECHARGE", "REFRESH"}
  /\ own.state \in {"Idle", "PowerDown"} => own.countdown = 0
  /\ own.state = "Precharging" => own.last = "PRECHARGE"
  /\ own.state = "Refreshing" => own.last = "REFRESH"

\* The rank hears of a command one cycle later.
Later1(own, view) ==
  /\ view.nextActivate <= own.nextActivate + 1
  /\ view.nextPrecharge <= own.nextPrecharge + 1
  /\ view.state = "RowActive" => view.nextRead <= own.nextRead + 1 /\ view.nextWrite <= own.nextWrite + 1
  /\ view.nextPowerUp = own.nextPowerUp

Agree(own, view) == SameState(own, view) /\ Settling(own) /\ Later1(own, view)

\* At the end of a cycle the clock is about to tick on both tables.
Clocked(bank) == IF phase = "finish" THEN TickedBank(bank) ELSE bank
Own(r, b) == Clocked(bankStates[r][b])
Seen(r, b) == Clocked(rankBanks[r][b])

\* What the rank will see once it has the command on the bus.
View(r, b) ==
  IF cmdBus # <<>> /\ cmdBus[1].rank = r THEN AfterCommand(cmdBus[1], Seen(r, b), b) ELSE Seen(r, b)

Table == [Ranks -> [Banks -> BankTable]]

BankInv ==
  /\ bankStates \in Table /\ rankBanks \in Table
  /\ \A r \in Ranks, b \in Banks : Agree(Own(r, b), View(r, b))

Busy == {"RowActive", "Precharging", "Refreshing"}

CommandInv ==
  /\ phase \in Phases
  /\ cmdBus \in Seq(Packets) /\ Len(cmdBus) <= 1
  /\ phase = "issue" => cmdBus = <<>>
  /\ cmdBus # <<>> =>
       /\ Allows([b \in Banks |-> Seen(cmdBus[1].rank, b)], cmdBus[1])
       /\ phase = "finish" => bankStates[cmdBus[1].rank][cmdBus[1].bank].state \in Busy

PowerInv ==
  /\ powerDown \in [Ranks -> BOOLEAN] /\ isPowerDown \in [Ranks -> BOOLEAN]
  /\ \A r \in Ranks : isPowerDown[r] = powerDown[r]
  /\ \A r \in Ranks, b \in Banks :
       /\ powerDown[r] <=> bankStates[r][b].state = "PowerDown"
       /\ bankStates[r][b].nextPowerUp = bankStates[r][0].nextPowerUp
       /\ rankBanks[r][b].nextPowerUp = bankStates[r][b].nextPowerUp

TablesInv == BankInv /\ CommandInv /\ PowerInv

----------------------------------------------------------------------------
(* The queues of commands.                                                 *)

\* A column command whose activate has been issued.
Lone(q, i) == i \in 1..Len(q) /\ q[i].type \in Columns /\ ~Paired(q, i)

Couple(p1, p2) ==
  /\ p1.type = "ACTIVATE" /\ p2.type \in Columns
  /\ p2.id = p1.id /\ p2.addr = p1.addr /\ p2.rank = p1.rank /\ p2.bank = p1.bank /\ p2.row = p1.row

\* An activate is followed by its column command.
Coupled(q) == \A i \in 1..Len(q) : q[i].type = "ACTIVATE" => i + 1 \in 1..Len(q) /\ Couple(q[i], q[i + 1])

Alike(p1, p2) == p1.bank = p2.bank /\ p1.row = p2.row

\* A bank has one column command without its activate, and that is the first
\* for its row.
First(q) ==
  \A i \in 1..Len(q) : Lone(q, i) =>
     /\ \A j \in 1..Len(q) : Lone(q, j) /\ q[j].bank = q[i].bank => i = j
     /\ \A j \in 1..(i - 1) : ~Alike(q[j], q[i])

CommandTypes == {"ACTIVATE"} \cup (IF OpenPage THEN {"READ", "WRITE"} ELSE Autopre)

\* The commands of a queue belong there, and stand in order.
Shaped(q, s) ==
  /\ q \in Seq(Packets) /\ Len(q) <= CmdQueueDepth
  /\ \A i \in 1..Len(q) : s = SlotOf(q[i].rank, q[i].bank) /\ q[i].type \in CommandTypes
  /\ Coupled(q) /\ First(q)

\* A row that has just been opened for p, in a table of banks and with the
\* counters of the accesses to their rows.
RowOpen(table, counters, p) ==
  /\ table[p.rank][p.bank].state = "RowActive" /\ table[p.rank][p.bank].last = "ACTIVATE"
  /\ table[p.rank][p.bank].row = p.row /\ counters[<<p.rank, p.bank>>] = 0

Served(q, table, counters) == \A i \in 1..Len(q) : Lone(q, i) => RowOpen(table, counters, q[i])

QueueInv ==
  /\ queues \in [Slots -> Seq(Packets)]
  /\ \A s \in Slots : Shaped(queues[s], s)
  /\ \A s \in Slots : Served(queues[s], bankStates, rowAccessCounters)

CounterInv ==
  /\ rowAccessCounters \in [AllBanks -> 0..TotalRowAccesses]
  /\ \A r \in Ranks, b \in Banks : bankStates[r][b].state # "RowActive" => rowAccessCounters[<<r, b>>] = 0
  /\ OpenPage => \A r \in Ranks, b \in Banks : bankStates[r][b].last \notin Autopre
  /\ ~OpenPage => \A r \in Ranks, b \in Banks : rowAccessCounters[<<r, b>>] = 0

RoundInv ==
  /\ policy \in Policies
  /\ next \in AllBanks /\ nextPRE \in AllBanks
  /\ refreshRank \in Ranks \cup {-1} /\ refreshWaiting \in BOOLEAN /\ sendAct \in BOOLEAN
  /\ refreshWaiting => refreshRank \in Ranks
  /\ tFAWCountdown \in [Ranks -> Seq(Int)] /\ \A r \in Ranks : Len(tFAWCountdown[r]) <= 4

\* What a step of Issue keeps.
CoreInv == TablesInv /\ QueueInv /\ CounterInv /\ RoundInv

----------------------------------------------------------------------------
(* The pipes of data, the refreshes and the transactions.                  *)

Pipe(q, n) ==
  /\ q \in Seq([pkt : Packets, left : 1..n])
  /\ \A i, j \in 1..Len(q) : i < j => q[i].left < q[j].left

PipeInv ==
  /\ readReturn \in [Ranks -> Seq(Timed(RL))] /\ rankOut \in [Ranks -> Seq(Timed(HalfBL))]
  /\ \A r \in Ranks : Pipe(readReturn[r], IF phase = "bus" THEN RL - 1 ELSE RL)
  /\ \A r \in Ranks : Pipe(rankOut[r], HalfBL) /\ Len(rankOut[r]) <= 1
  /\ Pipe(writeData, IF phase = "issue" THEN WL - 1 ELSE WL)
  /\ Pipe(dataBus, HalfBL) /\ Len(dataBus) <= 1

InTurn(clock, due) ==
  \A i, j \in Ranks : i < j => IF i < due /\ due <= j THEN clock[j] < clock[i] ELSE clock[i] < clock[j]

RefreshInv ==
  /\ dueRank \in Ranks /\ refreshCountdown \in [Ranks -> 0..RefreshPeriod]
  /\ InTurn(refreshCountdown, dueRank)
  /\ \A i \in Ranks : refreshCountdown[i] - refreshCountdown[dueRank] < RefreshPeriod
  /\ phase \in {"issue", "finish"} => refreshCountdown[dueRank] > 0
  /\ rankWaiting \in [Ranks -> BOOLEAN]

TrafficInv ==
  /\ transactionQueue \in Seq(Transactions) /\ Len(transactionQueue) <= TransQueueDepth
  /\ pendingReads \in Seq(Transactions)
  /\ returns \in Seq(Packets)
  /\ accepted \in 0..MaxTransactions

Inv == CoreInv /\ TrafficInv /\ PipeInv /\ RefreshInv

----------------------------------------------------------------------------
(* The bursts on the data bus.                                             *)

\* The packets of a pipe, by the cycles until each takes the bus.
Starts(q, passed, x) == \E i \in 1..Len(q) : x = q[i].left - passed

\* The ranks send what was read, the controller what is written.
Writer == -1
Users == Ranks \cup {Writer}

\* The clock of the reads and of the writes ticks when the command has been
\* issued; the pipes move later.
Before == IF phase \in {"finish", "ranks"} THEN 1 ELSE 0
BeforeBus == IF phase = "issue" THEN 0 ELSE 1

Burst(w, x) ==
  \/ w \in Ranks /\ Starts(readReturn[w], Before, x)
  \/ w \in Ranks /\ Starts(rankOut[w], Before + HalfBL, x)
  \/ w \in Ranks /\ cmdBus # <<>> /\ cmdBus[1].rank = w /\ cmdBus[1].type \in Reads /\ x = RL
  \/ w = Writer /\ Starts(writeData, BeforeBus, x)
  \/ w = Writer /\ Starts(dataBus, BeforeBus + HalfBL, x)

\* The data of a rank crosses the bus one cycle after that of the controller.
Behind(v, w) == IF v = Writer /\ w # Writer THEN 1 ELSE 0
Apart(v, x, w, y) == x + HalfBL + Behind(v, w) <= y

\* A bank that may take a column command, and one that takes none before the
\* bus is free again.
Usable(bank) == bank.state = "RowActive" /\ bank.last \notin Autopre

Clear(w, x, bank) ==
  /\ x + HalfBL + (IF w = Writer THEN 1 ELSE 0) <= bank.nextRead + RL + 1
  /\ x + HalfBL <= bank.nextWrite + WL

ApartInv ==
  \A v, w \in Users, x, y \in Int : Burst(v, x) /\ Burst(w, y) =>
    (v = w /\ x = y) \/ Apart(v, x, w, y) \/ Apart(w, y, v, x)

ClearInv ==
  \A w \in Users, x \in Int : Burst(w, x) =>
    \A r \in Ranks, b \in Banks : Usable(bankStates[r][b]) => Clear(w, x, Own(r, b))
BusInv == ApartInv /\ ClearInv

----------------------------------------------------------------------------
(* The order of the accesses to one address.                               *)

\* Commands for one address stand in the order of their transactions.
Rising(q) ==
  \A i, j \in 1..Len(q) : i < j /\ q[i].addr = q[j].addr =>
    q[i].id <= q[j].id /\ (q[i].type # "ACTIVATE" => q[i].id < q[j].id)

\* The numbers of what stands in a sequence grow.
Numbered(q) == \A i, j \in 1..Len(q) : i < j => q[i].id < q[j].id

\* A command is for the bank and the row of its address.
Placed(p) ==
  /\ p.addr \in Addresses
  /\ p.rank = Location[p.addr].rank /\ p.bank = Location[p.addr].bank /\ p.row = Location[p.addr].row

\* What waits, by address and number.
WaitsFor(a, n) ==
  \/ \E s \in Slots : \E i \in 1..Len(queues[s]) : a = queues[s][i].addr /\ n = queues[s][i].id
  \/ \E i \in 1..Len(transactionQueue) : a = transactionQueue[i].addr /\ n = transactionQueue[i].id

\* A command that has its turn before the transactions of its address, and
\* one that has had its turn.
Ahead(p, tq, n) ==
  /\ Placed(p) /\ p.id <= n
  /\ \A k \in 1..Len(tq) : p.addr = tq[k].addr => p.id < tq[k].id
AllAhead(q, tq, n) == \A i \in 1..Len(q) : Ahead(q[i], tq, n)
Old(p) == Placed(p) /\ p.id <= accepted /\ \A n \in Nat : WaitsFor(p.addr, n) => p.id < n

TransInv == Numbered(transactionQueue) /\ \A i \in 1..Len(transactionQueue) : transactionQueue[i].id <= accepted

TurnInv ==
  /\ TransInv
  /\ \A s \in Slots : Rising(queues[s])
  /\ \A s \in Slots : AllAhead(queues[s], transactionQueue, accepted)

\* The packets of a pipe, each with the cycles it still takes.
Holds(q, p, x) == \E i \in 1..Len(q) : p = q[i].pkt /\ x = q[i].left

\* The reads whose data is still to come, and the writes whose data is, each
\* with the cycles that it takes.
OnTheWay(p, x) ==
  \/ x = 0 /\ returns # <<>> /\ p = returns[1]
  \/ \E r \in Ranks : Holds(rankOut[r], p, x) \/ Holds(readReturn[r], p, x - HalfBL)
  \/ /\ cmdBus # <<>> /\ p = cmdBus[1] /\ p.type \in Reads
     /\ x = HalfBL + RL + (IF phase = "bus" THEN 0 ELSE 1)
OnTheBus(w, x) == Holds(dataBus, w, x) \/ Holds(writeData, w, x - HalfBL)
Slack == IF phase \in {"ranks", "bus"} THEN 1 ELSE 0

\* What has gone is older than what waits, a read is behind every write to
\* its address, and data comes back in the order it was asked for.
ReadsGone == \A p : \A x \in Int : OnTheWay(p, x) => p.type \in Reads /\ Old(p)
WritesGone == \A w : \A x \in Int : OnTheBus(w, x) => w.type \in Writes /\ Old(w)

WritesHold ==
  \A w : \A x \in Int : OnTheBus(w, x) => \A b \in Banks : x <= bankStates[w.rank][b].nextRead + Slack

ReadsBefore ==
  \A p, w : \A x, y \in Int : OnTheWay(p, x) /\ OnTheBus(w, y) /\ p.addr = w.addr => p.id < w.id

ReadsInOrder ==
  \A p, q : \A x, y \in Int : OnTheWay(p, x) /\ OnTheWay(q, y) /\ p.addr = q.addr /\ x < y => p.id < q.id
OneReturns == Len(returns) <= 1 /\ (phase = "ranks" => returns = <<>>)
GoneInv == ReadsGone /\ WritesGone /\ WritesHold /\ ReadsBefore /\ ReadsInOrder /\ OneReturns

\* The pending reads are those that have been accepted as commands and whose
\* data is still to come; those of one address stand in their order.
Wanted(a, n) ==
  \/ \E s \in Slots : \E i \in 1..Len(queues[s]) :
       queues[s][i].type \in Reads /\ a = queues[s][i].addr /\ n = queues[s][i].id
  \/ \E p : \E x \in Int : OnTheWay(p, x) /\ a = p.addr /\ n = p.id
Listed(q, a, n) == \E i \in 1..Len(q) : a = q[i].addr /\ n = q[i].id
Climbing(q) == \A i, j \in 1..Len(q) : i < j /\ q[i].addr = q[j].addr => q[i].id < q[j].id
PendInv == (\A a, n : Wanted(a, n) <=> Listed(pendingReads, a, n)) /\ Climbing(pendingReads)

OrderInv == TurnInv /\ GoneInv /\ PendInv
=============================================================================
