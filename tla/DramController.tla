--------------------------- MODULE DramController ---------------------------
(***************************************************************************)
(* One channel of DRAMSim2: MemorySystem::update drives the ranks and the  *)
(* MemoryController (MemoryController.cpp) once per cycle, in the order of *)
(* the phases below.  The controller keeps its own table of bank states    *)
(* (DramCommandQueue), from which it decides what it may send; the ranks   *)
(* keep theirs (DramRank), one command bus cycle behind, and end the       *)
(* program when a command comes too early.                                 *)
(*                                                                         *)
(* A packet carries the number of its transaction, which the code does not *)
(* have; only the properties read it.  Power and latency statistics are    *)
(* left out.                                                               *)
(***************************************************************************)
EXTENDS DramCommandQueue, DramRank

CONSTANTS
  Policies,             \* the combinations of policies an instance is checked with
  Scheme,
  Addresses,
  TransQueueDepth,
  RefreshPeriod,        \* REFRESH_PERIOD/tCK
  UseLowPower,
  MaxTransactions,      \* bound on the transactions
  Window                \* bound: the cycles in which they arrive

\* The addresses are those of the memory there is.
ASSUME ControllerAssumption ==
  /\ {TransQueueDepth, CmdQueueDepth, TotalRowAccesses, RefreshPeriod} \subseteq Nat \ {0}
  /\ CmdQueueDepth > 1 /\ RefreshPeriod > NumRanks
  /\ Addresses \subseteq Nat
  /\ \A a \in Addresses :
       /\ Mapped(Scheme, a).rank \in Ranks /\ Mapped(Scheme, a).bank \in Banks
       /\ Mapped(Scheme, a).row \in 0..(NumRows - 1)
  /\ UseLowPower \in BOOLEAN
  /\ MaxTransactions \in Nat /\ Window \in Nat

VARIABLES
  phase,
  transactionQueue,
  pendingReads,         \* pendingReadTransactions
  returns,              \* returnTransaction
  cmdBus, dataBus,      \* outgoingCmdPacket, outgoingDataPacket: sequences of at most one
  writeData,            \* writeDataToSend with writeDataCountdown
  powerDown,
  dueRank,              \* refreshRank of the controller
  refreshCountdown,
  accepted,             \* transactions so far
  window                \* cycles left in which one may arrive

traffic == <<transactionQueue, pendingReads, returns>>
buses == <<cmdBus, dataBus, writeData>>
refreshes == <<dueRank, refreshCountdown>>
bound == <<accepted, window>>
vars == <<policy, bankStates, cqVars, rankVars, phase, traffic, buses, powerDown, refreshes, bound>>

Phases == {"ranks", "bus", "issue", "finish"}

Init ==
  /\ policy \in Policies
  /\ CommandQueueInit /\ RankInit
  /\ phase = "ranks"
  /\ transactionQueue = <<>> /\ pendingReads = <<>> /\ returns = <<>>
  /\ cmdBus = <<>> /\ dataBus = <<>> /\ writeData = <<>>
  /\ powerDown = [r \in Ranks |-> FALSE]
  /\ dueRank = 0
  \* staggered
  /\ refreshCountdown = [r \in Ranks |-> (RefreshPeriod \div NumRanks) * (r + 1)]
  /\ accepted = 0 /\ window = Window

----------------------------------------------------------------------------
\* WillAcceptTransaction and addTransaction; the callers ask first.
WillAccept == Len(transactionQueue) < TransQueueDepth

AddTransaction(type, a) ==
  /\ phase = "ranks" /\ WillAccept
  /\ window > 0 /\ accepted < MaxTransactions
  /\ transactionQueue' = Append(transactionQueue, [type |-> type, addr |-> a, id |-> accepted + 1])
  /\ accepted' = accepted + 1
  /\ UNCHANGED <<policy, bankStates, cqVars, rankVars, phase, pendingReads, returns, buses,
                 powerDown, refreshes, window>>

\* Every rank updates; data that has crossed the bus reaches the controller.
\* The ranks come in order.
UpdateRanks ==
  /\ phase = "ranks" /\ phase' = "bus"
  /\ RanksSend
  /\ returns' = returns \o FlattenSeq([n \in 1..NumRanks |-> Arrived(n - 1)])
  /\ UNCHANGED <<policy, bankStates, cqVars, rankBanks, isPowerDown, rankWaiting, transactionQueue,
                 pendingReads, buses, powerDown, refreshes, bound>>

\* The implicit state changes of a bank.
CountedDown(b) ==
  IF b.countdown # 1 THEN [b EXCEPT !.countdown = Ticked(@)]
  ELSE IF b.last \in {"READ_P", "WRITE_P"}
       THEN [b EXCEPT !.state = "Precharging", !.last = "PRECHARGE", !.countdown = tRP]
  ELSE IF b.last \in {"REFRESH", "PRECHARGE"}
       THEN [b EXCEPT !.state = "Idle", !.countdown = 0]
  ELSE [b EXCEPT !.countdown = 0]

\* The data that leaves for the bus in this cycle, and the bus once it is free.
WriteReady == writeData # <<>> /\ writeData[1].left = 1
DataBusAfter ==
  IF dataBus # <<>> /\ dataBus[1].left = 1 THEN <<>>
  ELSE [i \in DOMAIN dataBus |-> [dataBus[i] EXCEPT !.left = @ - 1]]

RefreshDue == refreshCountdown[dueRank] = 0

\* The first part of MemoryController::update: bank states, the two buses,
\* the write data, and the refresh that has come due.
UpdateBuses ==
  /\ phase = "bus" /\ phase' = "issue"
  /\ bankStates' = [r \in Ranks |-> [b \in Banks |-> CountedDown(bankStates[r][b])]]
  /\ IF cmdBus # <<>> THEN RankReceives(cmdBus[1]) ELSE UNCHANGED <<rankBanks, readReturn>>
  /\ cmdBus' = <<>>
  /\ WriteReady => DataBusAfter = <<>>
  /\ dataBus' = IF WriteReady THEN <<[pkt |-> writeData[1].pkt, left |-> HalfBL]>> ELSE DataBusAfter
  /\ LET aged == [i \in DOMAIN writeData |-> [writeData[i] EXCEPT !.left = @ - 1]]
     IN  writeData' = IF WriteReady THEN Tail(aged) ELSE aged
  /\ LET refreshed == cmdBus # <<>> /\ cmdBus[1].type = "REFRESH"
         wake == powerDown[dueRank] /\ refreshCountdown[dueRank] <= tXP
     IN  rankWaiting' = [r \in Ranks |->
           \/ r = dueRank /\ (RefreshDue \/ wake)
           \/ rankWaiting[r] /\ ~(refreshed /\ r = cmdBus[1].rank)]
  /\ IF RefreshDue
     THEN /\ refreshWaiting' = TRUE /\ refreshRank' = dueRank
          /\ refreshCountdown' = [refreshCountdown EXCEPT ![dueRank] = RefreshPeriod]
          /\ dueRank' = (dueRank + 1) % NumRanks
     ELSE UNCHANGED <<refreshWaiting, refreshRank, refreshCountdown, dueRank>>
  /\ UNCHANGED <<policy, queues, next, nextPRE, rowAccessCounters, tFAWCountdown, sendAct,
                 isPowerDown, rankOut, traffic, powerDown, bound>>

----------------------------------------------------------------------------
(* What a command does to the controller's view of the banks.              *)

\* Mutant: a read does not hold up the writes of its rank.
ColumnTurnMutant(p, r, b) ==
  LET bank == bankStates[r][b]
      near == Larger(tCCD, HalfBL)
      toRead == IF p.type \in Reads THEN near ELSE WriteToReadB
      timed == [bank EXCEPT !.nextRead = Later(toRead, @), !.nextWrite = Later(near, @)]
  IN  IF r # p.rank THEN bank
      ELSE IF b # p.bank THEN timed
      ELSE [timed EXCEPT !.nextPrecharge = Later(IF p.type \in Reads THEN ReadToPre ELSE WriteToPre, @),
                         !.last = p.type]

\* Mutant: the other ranks are forgotten.
ColumnRankMutant(p, r, b) ==
  LET bank == bankStates[r][b]
      near == Larger(tCCD, HalfBL)
      toRead == IF p.type \in Reads THEN near ELSE WriteToReadB
      toWrite == IF p.type \in Reads THEN ReadToWrite ELSE near
      timed == [bank EXCEPT !.nextRead = Later(toRead, @), !.nextWrite = Later(toWrite, @)]
      toPre == IF p.type \in Reads THEN ReadToPre ELSE WriteToPre
      reopen == Later(IF p.type = "READ_P" THEN ReadAutopre ELSE WriteAutopre, bank.nextActivate)
  IN  IF r # p.rank THEN bank
      ELSE IF b # p.bank THEN timed
      ELSE IF p.type \in {"READ", "WRITE"}
           THEN [timed EXCEPT !.nextPrecharge = Later(toPre, @), !.last = p.type]
      ELSE [timed EXCEPT !.nextActivate = reopen, !.nextRead = reopen, !.nextWrite = reopen,
                         !.last = p.type, !.countdown = toPre]

Column(p, r, b) ==
  LET bank == bankStates[r][b]
      near == Larger(tCCD, HalfBL)
      far == HalfBL + tRTRS
      toRead == IF p.type \in Reads THEN (IF r = p.rank THEN near ELSE far)
                ELSE (IF r = p.rank THEN WriteToReadB ELSE WriteToReadR)
      toWrite == IF p.type \in Reads THEN ReadToWrite ELSE (IF r = p.rank THEN near ELSE far)
      timed == [bank EXCEPT !.nextRead = Later(toRead, @), !.nextWrite = Later(toWrite, @)]
      toPre == IF p.type \in Reads THEN ReadToPre ELSE WriteToPre
      reopen == Later(IF p.type = "READ_P" THEN ReadAutopre ELSE WriteAutopre, bank.nextActivate)
  IN  IF r # p.rank THEN (IF bank.state = "RowActive" THEN timed ELSE bank)
      ELSE IF b # p.bank THEN timed
      ELSE IF p.type \in {"READ", "WRITE"}
           THEN [timed EXCEPT !.nextPrecharge = Later(toPre, @), !.last = p.type]
      ELSE [timed EXCEPT !.nextActivate = reopen, !.nextRead = reopen, !.nextWrite = reopen,
                         !.last = p.type, !.countdown = toPre]

Activate(p, r, b) ==
  LET bank == bankStates[r][b]
  IN  IF r # p.rank THEN bank
      ELSE IF b # p.bank THEN [bank EXCEPT !.nextActivate = Later(tRRD, @)]
      ELSE [bank EXCEPT !.state = "RowActive", !.last = "ACTIVATE", !.row = p.row,
                        !.nextActivate = Later(tRC, @), !.nextPrecharge = Later(tRAS, @),
                        !.nextRead = Later(tRCD - AL, @), !.nextWrite = Later(tRCD - AL, @)]

Precharge(p, r, b) ==
  LET bank == bankStates[r][b]
  IN  IF <<r, b>> # <<p.rank, p.bank>> THEN bank
      ELSE [bank EXCEPT !.state = "Precharging", !.last = "PRECHARGE", !.countdown = tRP,
                        !.nextActivate = Later(tRP, @)]

Refresh(p, r, b) ==
  LET bank == bankStates[r][b]
  IN  IF r # p.rank THEN bank
      ELSE [bank EXCEPT !.state = "Refreshing", !.last = "REFRESH", !.countdown = tRFC,
                        !.nextActivate = tRFC]

Updated(p, Change(_, _, _)) == [r \in Ranks |-> [b \in Banks |-> Change(p, r, b)]]

\* The popped packet goes on the command bus, which must be free.
Sent(p) ==
  /\ phase = "issue" /\ phase' = "finish"
  /\ cmdBus = <<>>
  /\ cmdBus' = <<p>>
  /\ writeData' = IF p.type \in Writes THEN Append(writeData, [pkt |-> p, left |-> WL]) ELSE writeData
  /\ UNCHANGED <<policy, dataBus, rankVars, traffic, powerDown, refreshes, bound>>

IssueRefresh == \E p \in {Bare("REFRESH", refreshRank, 0)} :
  PopRefresh(p) /\ Sent(p) /\ bankStates' = Updated(p, Refresh)

Queued == UNION {Range(queues[s]) : s \in Slots}

IssueColumnForRefresh == \E p \in Queued :
  PopForRefresh(p) /\ Sent(p) /\ bankStates' = Updated(p, Column)

IssueColumn == \E p \in Queued :
  p.type \in Columns /\ PopFromQueue(p) /\ Sent(p) /\ bankStates' = Updated(p, Column)

IssueActivate == \E p \in Queued :
  p.type = "ACTIVATE" /\ PopFromQueue(p) /\ Sent(p) /\ bankStates' = Updated(p, Activate)

Precharges == {Bare("PRECHARGE", r, b) : r \in Ranks, b \in Banks}

IssuePrechargeForRefresh == \E p \in Precharges :
  PopCloseForRefresh(p) /\ Sent(p) /\ bankStates' = Updated(p, Precharge)

IssuePrecharge == \E p \in Precharges :
  PopClose(p) /\ Sent(p) /\ bankStates' = Updated(p, Precharge)

IssueNothing ==
  /\ phase = "issue" /\ phase' = "finish"
  /\ PopNothing
  /\ UNCHANGED <<policy, bankStates, buses, rankVars, traffic, powerDown, refreshes, bound>>

----------------------------------------------------------------------------
(* The last part of update: one transaction becomes commands, the ranks    *)
(* are powered down or up, one read is answered, the counters go down.     *)

Location == [a \in Addresses |-> Mapped(Scheme, a)]
MapOf(t) == Location[t.addr]
Command(type, t) ==
  [type |-> type, id |-> t.id, addr |-> t.addr, rank |-> MapOf(t).rank, bank |-> MapOf(t).bank,
   row |-> MapOf(t).row]

\* getBusPacketType
ColumnType(type) ==
  IF OpenPage THEN type ELSE IF type = "READ" THEN "READ_P" ELSE "WRITE_P"

\* The transactions whose queue has room; the first of them is taken.
Fitting == {i \in DOMAIN transactionQueue :
              HasRoomForPair(MapOf(transactionQueue[i]).rank, MapOf(transactionQueue[i]).bank)}

Taken == transactionQueue[Min(Fitting)]
QueuesAfter ==
  IF Fitting = {} THEN queues
  ELSE Enqueued(Command("ACTIVATE", Taken), Command(ColumnType(Taken.type), Taken))

TakeTransaction ==
  /\ queues' = QueuesAfter
  /\ transactionQueue' = IF Fitting = {} THEN transactionQueue ELSE RemoveAt(transactionQueue, Min(Fitting))

\* By the queues after the transaction was taken.
GoesDown(r) ==
  /\ UseLowPower /\ isEmpty(QueuesAfter, r) /\ ~rankWaiting[r]
  /\ \A b \in Banks : bankStates[r][b].state = "Idle"

GoesUp(r) ==
  /\ UseLowPower /\ (~isEmpty(QueuesAfter, r) \/ rankWaiting[r])
  /\ powerDown[r] /\ bankStates[r][0].nextPowerUp = 0

\* The clock ticks on both tables.
Powered(table) == [r \in Ranks |-> [b \in Banks |-> TickedBank(
   IF GoesDown(r) THEN PoweredDown(table[r][b])
   ELSE IF GoesUp(r) THEN PoweredUp(table[r][b]) ELSE table[r][b])]]

Power ==
  /\ \A r \in Ranks : (GoesDown(r) => MayPowerDown(r)) /\ (GoesUp(r) => MayPowerUp(r))
  /\ powerDown' = [r \in Ranks |-> GoesDown(r) \/ (powerDown[r] /\ ~GoesUp(r))]
  /\ isPowerDown' = [r \in Ranks |-> GoesDown(r) \/ (isPowerDown[r] /\ ~GoesUp(r))]
  /\ bankStates' = Powered(bankStates)
  /\ rankBanks' = Powered(rankBanks)

\* The reads that wait for data, with the one taken in this cycle.
Pending ==
  IF Fitting # {} /\ Taken.type = "READ" THEN Append(pendingReads, Taken) ELSE pendingReads

\* Data goes to the first pending read of its address; it ends the program
\* when there is none.
Matching == {i \in DOMAIN Pending : Pending[i].addr = returns[1].addr}

Answer ==
  IF returns = <<>> THEN pendingReads' = Pending /\ UNCHANGED returns
  ELSE /\ Matching # {}
       /\ pendingReads' = RemoveAt(Pending, Min(Matching))
       /\ returns' = Tail(returns)

Finish ==
  /\ phase = "finish" /\ phase' = "ranks"
  /\ UNCHANGED <<policy, next, nextPRE, refreshRank, refreshWaiting, rowAccessCounters, tFAWCountdown,
                 sendAct, rankWaiting, readReturn, rankOut, buses, dueRank, accepted>>
  /\ TakeTransaction
  /\ Power
  /\ Answer
  /\ refreshCountdown' = [r \in Ranks |-> refreshCountdown[r] - 1]
  /\ window' = Ticked(window)

Issue ==
  \/ IssueRefresh \/ IssueColumnForRefresh \/ IssuePrechargeForRefresh
  \/ IssueColumn \/ IssueActivate \/ IssuePrecharge \/ IssueNothing

Next ==
  \/ \E type \in {"READ", "WRITE"}, a \in Addresses : AddTransaction(type, a)
  \/ UpdateRanks \/ UpdateBuses \/ Issue \/ Finish

Spec == Init /\ [][Next]_vars

\* The simulator calls MemorySystem::update in every cycle of the memory
\* clock for as long as it runs.  (Update can always go on: RanksAllow and
\* OneBurstAtATime say that no check ends the program.)
ClockRuns == []<><<phase' # phase>>_phase
FairSpec == Spec /\ ClockRuns

----------------------------------------------------------------------------
Packets == [type : Commands, id : Nat, addr : Nat, rank : Ranks, bank : Banks, row : Nat]
Transactions == [type : {"READ", "WRITE"}, addr : Addresses, id : 1..MaxTransactions]
Timed(n) == [pkt : Packets, left : 0..n]
Timers == 0..(RL + HalfBL + tWR + tRP + tRC + tRFC + tXP + tCKE + tRTRS + tWTR + tRCD + tRRD + tCCD + tRTP)
BankTable == [state : BankStates, row : Nat, nextRead : Timers, nextWrite : Timers, nextActivate : Timers,
              nextPrecharge : Timers, nextPowerUp : Timers, last : Commands, countdown : Timers]

\* Types, and the capacities of the two queues.
TypeOK ==
  /\ policy \in Policies /\ phase \in Phases
  /\ \A r \in Ranks, b \in Banks : bankStates[r][b] \in BankTable /\ rankBanks[r][b] \in BankTable
  /\ queues \in [Slots -> Seq(Packets)] /\ \A s \in Slots : Len(queues[s]) <= CmdQueueDepth
  /\ {next, nextPRE} \subseteq AllBanks
  /\ refreshRank \in Ranks \cup {-1} /\ refreshWaiting \in BOOLEAN
  /\ rowAccessCounters \in [AllBanks -> 0..TotalRowAccesses]
  /\ sendAct \in BOOLEAN
  /\ {isPowerDown, powerDown, rankWaiting} \subseteq [Ranks -> BOOLEAN]
  /\ transactionQueue \in Seq(Transactions) /\ Len(transactionQueue) <= TransQueueDepth
  /\ pendingReads \in Seq(Transactions)
  /\ \A q \in {returns, cmdBus} : q \in Seq(Packets)
  /\ \A q \in {dataBus, writeData} : q \in Seq(Timed(RL + HalfBL))
  /\ \A r \in Ranks : readReturn[r] \in Seq(Timed(RL)) /\ rankOut[r] \in Seq(Timed(HalfBL))
  /\ \A r \in Ranks : Len(tFAWCountdown[r]) <= 4
  /\ dueRank \in Ranks /\ refreshCountdown \in [Ranks -> 0..RefreshPeriod]

\* The controller's table is never more permissive than the table of the
\* rank: every command that reaches a rank is one the rank allows, and the
\* rank is powered down only with all its banks idle and up only in time.
\* Otherwise the program ends with "received a ... when not allowed".
RanksAllow ==
  /\ phase = "bus" /\ cmdBus # <<>> => RankAllows(cmdBus[1])
  /\ \A r \in Ranks : isPowerDown[r] = powerDown[r]
  /\ \A r \in Ranks : (\A b \in Banks : bankStates[r][b].state = "Idle") =>
       cmdBus # <<>> \/ MayPowerDown(r)
  /\ \A r \in Ranks : powerDown[r] /\ bankStates[r][0].nextPowerUp = 0 => MayPowerUp(r)

\* One packet at a time: the data bus of the channel carries the data of one
\* rank, or of one write, and a packet leaves it before the next one enters
\* (a second read would overwrite outgoingDataPacket of the rank and be lost).
Senders == {r \in Ranks : rankOut[r] # <<>>}
OneBurstAtATime ==
  /\ Cardinality(Senders) + Len(dataBus) <= 1
  /\ phase = "bus" /\ WriteReady => DataBusAfter = <<>> /\ Senders = {}
  /\ \A r \in Ranks : phase = "ranks" /\ Ready(r) /\ rankOut[r] # <<>> => rankOut[r][1].left = 1

\* A column command in the queue stands right behind the activate of its
\* transaction, or its row is open for it and not used up.  The policy with
\* open pages throws away "the activate before it" by position, and a column
\* command on its own whose row were closed would wait for ever.  No queue
\* or pipe holds more than it has room for.
ColumnsHaveTheirRow ==
  /\ TypeOK
  /\ phase = "ranks" => \A s \in Slots : \A i \in DOMAIN queues[s] :
       LET p == queues[s][i]
       IN  IF p.type = "ACTIVATE" THEN i < Len(queues[s]) /\ queues[s][i + 1].id = p.id
           ELSE \/ Paired(queues[s], i) /\ queues[s][i - 1].id = p.id
                \/ /\ BankOf(p).state = "RowActive" /\ BankOf(p).row = p.row
                   /\ rowAccessCounters[<<p.rank, p.bank>>] < TotalRowAccesses

\* Accesses to one address keep their order: what has been issued is older
\* than what has not, and a read is with its rank only after the data of
\* every earlier write has arrived.  Data that comes back, matched by address
\* only, answers the read that fetched it (none to match ends the program).
Waiting == Queued \cup Range(transactionQueue)
InFlightWrites == {e.pkt : e \in Range(writeData)} \cup {e.pkt : e \in Range(dataBus)}
ReadsUnderWay ==
  Range(returns) \cup UNION {{e.pkt : e \in Range(readReturn[r])} \cup {e.pkt : e \in Range(rankOut[r])} : r \in Ranks}
SameAddressInOrder ==
  /\ \A p \in InFlightWrites \cup ReadsUnderWay, q \in Waiting :
       p.addr = q.addr => p.id <= q.id
  /\ \A p \in ReadsUnderWay, w \in InFlightWrites : p.addr = w.addr => p.id < w.id
  /\ phase = "finish" /\ returns # <<>> =>
       Matching # {} /\ Pending[Min(Matching)].id = returns[1].id

\* A refresh that comes due finds the one before it issued: needRefresh has
\* one flag and one rank for all ranks, and would drop the earlier request.
RefreshNotLost == phase = "bus" /\ RefreshDue => ~refreshWaiting

\* Every read is answered and every command issued, and a rank that is told
\* to refresh does: neither starves the other.
Drained == transactionQueue = <<>> /\ pendingReads = <<>> /\ \A s \in Slots : queues[s] = <<>>
EverythingServed ==
  /\ (accepted > 0) ~> Drained
  /\ \A r \in Ranks : (refreshWaiting /\ refreshRank = r) ~> ~rankWaiting[r]
=============================================================================
