------------------------------ MODULE DramRank ------------------------------
(***************************************************************************)
(* Rank of DRAMSim2 (Rank.cpp): the rank's own table of bank states, which *)
(* checks every command the controller sends, and the return path of the   *)
(* data that was read.  A check that fails ends the program, so a command  *)
(* that is not allowed has no successor.                                   *)
(*                                                                         *)
(* Built with NO_STORAGE, as the Makefile does: no contents are kept.      *)
(***************************************************************************)
EXTENDS DramTiming, Sequences

VARIABLES
  rankBanks,       \* the bankStates of each rank
  isPowerDown,
  rankWaiting,     \* refreshWaiting of each rank
  readReturn,      \* readReturnPacket with readReturnCountdown
  rankOut          \* outgoingDataPacket with dataCyclesLeft, as a sequence of at most one

rankVars == <<rankBanks, isPowerDown, rankWaiting, readReturn, rankOut>>

RankInit ==
  /\ rankBanks = [r \in Ranks |-> [b \in Banks |-> FreshBank]]
  /\ isPowerDown = [r \in Ranks |-> FALSE]
  /\ rankWaiting = [r \in Ranks |-> FALSE]
  /\ readReturn = [r \in Ranks |-> <<>>]
  /\ rankOut = [r \in Ranks |-> <<>>]

\* The checks at the head of every case of receiveFromBus, on the banks of
\* the rank.
Allows(banks, p) ==
  LET bank == banks[p.bank]
      OpenFor(left) == bank.state = "RowActive" /\ left = 0 /\ p.row = bank.row
  IN  \/ p.type \in Reads /\ OpenFor(bank.nextRead)
      \/ p.type \in Writes /\ OpenFor(bank.nextWrite)
      \/ p.type = "ACTIVATE" /\ bank.state = "Idle" /\ bank.nextActivate = 0
      \/ p.type = "PRECHARGE" /\ bank.state = "RowActive" /\ bank.nextPrecharge = 0
      \/ p.type = "REFRESH" /\ \A b \in Banks : banks[b].state = "Idle"

RankAllows(p) == Allows(rankBanks[p.rank], p)

\* What becomes of bank b of the rank.
AfterColumn(p, own, b) ==
  LET timed == IF p.type \in Reads
               THEN [own EXCEPT !.nextRead = Later(Larger(tCCD, HalfBL), @), !.nextWrite = Later(ReadToWrite, @)]
               ELSE [own EXCEPT !.nextRead = Later(WriteToReadB, @), !.nextWrite = Later(Larger(tCCD, HalfBL), @)]
      toPre == IF p.type = "READ" THEN ReadToPre ELSE WriteToPre
      toActivate == IF p.type = "READ_P" THEN ReadAutopre ELSE WriteAutopre
  IN  IF b # p.bank THEN timed
      ELSE IF p.type \in {"READ", "WRITE"} THEN [timed EXCEPT !.nextPrecharge = Later(toPre, @)]
      ELSE [timed EXCEPT !.state = "Idle", !.nextActivate = Later(toActivate, @)]

AfterActivate(p, own, b) ==
  IF b # p.bank THEN [own EXCEPT !.nextActivate = Later(tRRD, @)]
  ELSE [own EXCEPT !.state = "RowActive", !.row = p.row, !.nextActivate = tRC,
                   !.nextRead = tRCD - AL, !.nextWrite = tRCD - AL, !.nextPrecharge = tRAS]

AfterPrecharge(p, own, b) ==
  IF b # p.bank THEN own ELSE [own EXCEPT !.state = "Idle", !.nextActivate = Later(tRP, @)]

AfterCommand(p, own, b) ==
  CASE p.type \in Columns -> AfterColumn(p, own, b)
    [] p.type = "ACTIVATE" -> AfterActivate(p, own, b)
    [] p.type = "PRECHARGE" -> AfterPrecharge(p, own, b)
    [] p.type = "REFRESH" -> [own EXCEPT !.nextActivate = tRFC]

\* receiveFromBus of a command.
RankReceives(p) ==
  /\ RankAllows(p)
  /\ rankBanks' = [rankBanks EXCEPT ![p.rank] = [b \in Banks |-> AfterCommand(p, @[b], b)]]
  /\ readReturn' = [readReturn EXCEPT ![p.rank] =
       IF p.type \in Reads THEN Append(@, [pkt |-> p, left |-> RL]) ELSE @]

\* Rank::update: the packet on the data bus moves on, then the oldest read
\* whose latency has passed takes the bus.
Aged(r) == [i \in DOMAIN readReturn[r] |-> [readReturn[r][i] EXCEPT !.left = @ - 1]]
Ready(r) == readReturn[r] # <<>> /\ readReturn[r][1].left = 1
Arrived(r) == IF rankOut[r] # <<>> /\ rankOut[r][1].left = 1 THEN <<rankOut[r][1].pkt>> ELSE <<>>

RanksSend ==
  /\ readReturn' = [r \in Ranks |-> IF Ready(r) THEN Tail(Aged(r)) ELSE Aged(r)]
  /\ rankOut' = [r \in Ranks |->
       IF Ready(r) THEN <<[pkt |-> readReturn[r][1].pkt, left |-> HalfBL]>>
       ELSE IF Arrived(r) # <<>> THEN <<>>
       ELSE [i \in DOMAIN rankOut[r] |-> [rankOut[r][i] EXCEPT !.left = @ - 1]]]

\* powerDown and powerUp, with their checks.
MayPowerDown(r) == \A b \in Banks : rankBanks[r][b].state = "Idle"
MayPowerUp(r) == isPowerDown[r] /\ \A b \in Banks : rankBanks[r][b].nextPowerUp = 0

PoweredDown(bank) == [bank EXCEPT !.state = "PowerDown", !.nextPowerUp = tCKE]
PoweredUp(bank) == [bank EXCEPT !.state = "Idle", !.nextActivate = tXP]
=============================================================================
