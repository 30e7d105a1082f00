----------------------------- MODULE DramTiming -----------------------------
(***************************************************************************)
(* The timing parameters of DRAMSim2 (SystemConfiguration.h), what a bank  *)
(* remembers (BankState) and the packets of the buses (BusPacket).         *)
(*                                                                         *)
(* A time "next..." is kept as the cycles that are left until it, 0 once   *)
(* it has passed: currentClockCycle >= next is next = 0, max(now + d,      *)
(* next) is Later(d, next), and the clock takes one off every timer.       *)
(***************************************************************************)
EXTENDS AddressMapping, Integers, FiniteSets

CONSTANTS
  CL, AL,        \* read latency is their sum
  HalfBL,        \* BL/2, the cycles a burst occupies the data bus
  tRAS, tRCD, tRRD, tRC, tRP, tCCD, tRTP, tWTR, tWR, tRTRS, tRFC, tFAW, tCKE, tXP, tCMD

Larger(a, b) == IF a > b THEN a ELSE b
Later(d, left) == Larger(d, left)
Ticked(left) == IF left = 0 THEN 0 ELSE left - 1

RL == CL + AL
WL == RL - 1

ReadToPre    == AL + HalfBL + Larger(tRTP, tCCD) - tCCD
WriteToPre   == WL + HalfBL + tWR
ReadToWrite  == RL + HalfBL + tRTRS - WL
ReadAutopre  == AL + tRTP + tRP
WriteAutopre == WL + HalfBL + tWR + tRP
WriteToReadB == WL + HalfBL + tWTR
WriteToReadR == WL + HalfBL + tRTRS - RL

\* What the packaged device files satisfy (all but the last two lines are
\* what "unsigned" needs): a row stays open as long as tRC says, and a bank
\* of another rank can only be read or written once a burst and the switch
\* of ranks have passed since its row was opened.
ASSUME TimingAssumption ==
  /\ {CL, HalfBL, tRAS, tRRD, tRC, tRP, tCCD, tRTP, tWTR, tWR, tRTRS, tRFC, tFAW, tCKE, tXP, tCMD}
       \subseteq Nat \ {0}
  /\ AL \in Nat /\ CL + AL > 1 /\ tRCD \in Nat /\ tRCD > AL
  /\ tCMD = 1
  /\ WriteToReadR > 0
  /\ tRC = tRAS + tRP
  /\ tRCD - AL >= HalfBL + tRTRS

Ranks == 0..(NumRanks - 1)
Banks == 0..(NumBanks - 1)

BankStates == {"Idle", "RowActive", "Precharging", "Refreshing", "PowerDown"}
Reads  == {"READ", "READ_P"}
Writes == {"WRITE", "WRITE_P"}
Columns == Reads \cup Writes
Commands == Columns \cup {"ACTIVATE", "PRECHARGE", "REFRESH"}

\* BankState::BankState: all banks start precharged.
FreshBank ==
  [state |-> "Idle", row |-> 0, nextRead |-> 0, nextWrite |-> 0, nextActivate |-> 0,
   nextPrecharge |-> 0, nextPowerUp |-> 0, last |-> "READ", countdown |-> 0]

\* One cycle later (the countdown to a state change is decremented elsewhere).
TickedBank(b) ==
  [b EXCEPT !.nextRead = Ticked(@), !.nextWrite = Ticked(@), !.nextActivate = Ticked(@),
            !.nextPrecharge = Ticked(@), !.nextPowerUp = Ticked(@)]

\* A command without a transaction: PRECHARGE and REFRESH carry address 0.
Bare(type, r, b) == [type |-> type, id |-> 0, addr |-> 0, rank |-> r, bank |-> b, row |-> 0]
=============================================================================
