------------------------ MODULE DramControllerProofs ------------------------
(***************************************************************************)
(* Proofs about DramController, for all memories, timings, policies and    *)
(* capacities its assumptions admit.                                       *)
(*                                                                         *)
(* Inv, BusInv and OrderInv (DramInvariants) are inductive, each with the  *)
(* help of those before it.                                                *)
(*                                                                         *)
(* The module goes from times and tables, with one lemma per action, over  *)
(* sequences and queues to the choice of a command, the pipes, the         *)
(* refreshes and the first theorems; then come the bursts, and the order   *)
(* of the accesses to one address.                                         *)
(***************************************************************************)
EXTENDS DramInvariants, FiniteSetTheorems, WellFoundedInduction, SequenceTheorems, TLAPS

-----------------------------------------------------------------------------
(* Times.                                                                  *)

Delays == {tRRD, tRC, tRP, tRAS, tRFC, tXP, tCKE, tRCD - AL, Larger(tCCD, HalfBL), HalfBL + tRTRS,
           ReadToPre, WriteToPre, ReadToWrite, ReadAutopre, WriteAutopre, WriteToReadB, WriteToReadR}

LEMMA DelaysFit ==
  /\ Delays \subseteq Timers /\ 0 \in Timers /\ Timers \subseteq Nat
  /\ ReadToPre > 0 /\ WriteToPre > 0
  /\ \E n \in Nat : Timers = 0..n
<1>1. CL \in Nat \ {0} /\ HalfBL \in Nat \ {0} /\ tRAS \in Nat \ {0} /\ tRRD \in Nat \ {0}
      /\ tRC \in Nat \ {0} /\ tRP \in Nat \ {0} /\ tCCD \in Nat \ {0} /\ tRTP \in Nat \ {0}
      /\ tWTR \in Nat \ {0} /\ tWR \in Nat \ {0} /\ tRTRS \in Nat \ {0} /\ tRFC \in Nat \ {0}
      /\ tCKE \in Nat \ {0} /\ tXP \in Nat \ {0} /\ AL \in Nat /\ tRCD \in Nat /\ tRCD > AL
  BY TimingAssumption
<1>2. tRC = tRAS + tRP /\ WriteToReadR > 0
  BY TimingAssumption
<1>3. \A d \in Delays : d \in Timers
  BY <1>1, <1>2 DEF Delays, Timers, Larger, ReadToPre, WriteToPre, ReadToWrite, ReadAutopre,
                    WriteAutopre, WriteToReadB, WriteToReadR, RL, WL
<1>4. 0 \in Timers /\ Timers \subseteq Nat /\ ReadToPre > 0 /\ WriteToPre > 0
  BY <1>1 DEF Timers, ReadToPre, WriteToPre, Larger, RL, WL
<1>5. \E n \in Nat : Timers = 0..n
  BY <1>1 DEF Timers, RL
<1> QED BY <1>3, <1>4, <1>5

LEMMA TimerArithmetic ==
  /\ \A d, x \in Timers : /\ Later(d, x) \in Timers /\ Ticked(x) \in Timers
                          /\ Later(d, x) >= d /\ Later(d, x) >= x
                          /\ Later(d, x) = d \/ Later(d, x) = x
  /\ \A d, x, y \in Timers : x <= y + 1 => Later(d, Ticked(x)) <= Ticked(Later(d, y)) + 1
  /\ \A x, y \in Timers : x <= y + 1 => Ticked(x) <= Ticked(y) + 1 /\ Ticked(x) <= y
<1>1. Timers \subseteq Nat
  BY DelaysFit
<1>2. \A d, x \in Timers : /\ Later(d, x) = d \/ Later(d, x) = x
                           /\ Later(d, x) >= d /\ Later(d, x) >= x
  BY <1>1 DEF Later, Larger
<1>3. \A x \in Timers : Ticked(x) \in Timers
  <2>1. ASSUME NEW x \in Timers, x # 0 PROVE x - 1 \in Timers
    BY <2>1, DelaysFit
  <2> QED BY <2>1 DEF Ticked
<1>4. \A x, y \in Timers : x <= y + 1 => Ticked(x) <= Ticked(y) + 1 /\ Ticked(x) <= y
  BY <1>1 DEF Ticked
<1>5. \A d, x, y \in Timers : x <= y + 1 => Later(d, Ticked(x)) <= Ticked(Later(d, y)) + 1
  BY <1>1 DEF Ticked, Later, Larger
<1> QED BY <1>2, <1>3, <1>4, <1>5

-----------------------------------------------------------------------------
(* Two views of a bank: the controller's and that of its rank.             *)

\* Ordinary facts on the records of banks.
LEMMA BankFields ==
  ASSUME NEW bank \in BankTable
  PROVE  /\ bank.state \in BankStates /\ bank.row \in Nat /\ bank.last \in Commands
         /\ bank.nextRead \in Timers /\ bank.nextWrite \in Timers /\ bank.nextActivate \in Timers
         /\ bank.nextPrecharge \in Timers /\ bank.nextPowerUp \in Timers /\ bank.countdown \in Timers
BY DEF BankTable

LEMMA TickedFields ==
  ASSUME NEW bank \in BankTable
  PROVE  /\ TickedBank(bank) \in BankTable
         /\ TickedBank(bank).state = bank.state /\ TickedBank(bank).row = bank.row
         /\ TickedBank(bank).last = bank.last /\ TickedBank(bank).countdown = bank.countdown
         /\ TickedBank(bank).nextRead = Ticked(bank.nextRead)
         /\ TickedBank(bank).nextWrite = Ticked(bank.nextWrite)
         /\ TickedBank(bank).nextActivate = Ticked(bank.nextActivate)
         /\ TickedBank(bank).nextPrecharge = Ticked(bank.nextPrecharge)
         /\ TickedBank(bank).nextPowerUp = Ticked(bank.nextPowerUp)
BY TimerArithmetic, BankFields DEF TickedBank, BankTable

LEMMA TickedAgree ==
  ASSUME NEW own \in BankTable, NEW view \in BankTable, Agree(own, view)
  PROVE  Agree(TickedBank(own), TickedBank(view))
<1>1. SameState(TickedBank(own), TickedBank(view)) /\ Settling(TickedBank(own))
  BY TickedFields DEF Agree, SameState, Settling
<1>2. \A f, g \in Timers : f <= g + 1 => Ticked(f) <= Ticked(g) + 1
  BY TimerArithmetic
<1>3. Later1(TickedBank(own), TickedBank(view))
  <2>1. view.nextActivate <= own.nextActivate + 1 =>
          TickedBank(view).nextActivate <= TickedBank(own).nextActivate + 1
    BY <1>2, TickedFields, BankFields
  <2>2. view.nextPrecharge <= own.nextPrecharge + 1 =>
          TickedBank(view).nextPrecharge <= TickedBank(own).nextPrecharge + 1
    BY <1>2, TickedFields, BankFields
  <2>3. view.nextRead <= own.nextRead + 1 =>
          TickedBank(view).nextRead <= TickedBank(own).nextRead + 1
    BY <1>2, TickedFields, BankFields
  <2>4. view.nextWrite <= own.nextWrite + 1 =>
          TickedBank(view).nextWrite <= TickedBank(own).nextWrite + 1
    BY <1>2, TickedFields, BankFields
  <2>5. TickedBank(view).nextPowerUp = TickedBank(own).nextPowerUp /\ TickedBank(view).state = view.state
    BY TickedFields DEF Agree, Later1
  <2> QED BY <2>1, <2>2, <2>3, <2>4, <2>5 DEF Agree, Later1
<1> QED BY <1>1, <1>3 DEF Agree

LEMMA CountedFields ==
  ASSUME NEW bank \in BankTable
  PROVE  /\ CountedDown(bank) \in BankTable
         /\ CountedDown(bank).row = bank.row
         /\ CountedDown(bank).nextRead = bank.nextRead /\ CountedDown(bank).nextWrite = bank.nextWrite
         /\ CountedDown(bank).nextActivate = bank.nextActivate
         /\ CountedDown(bank).nextPrecharge = bank.nextPrecharge
         /\ CountedDown(bank).nextPowerUp = bank.nextPowerUp
         /\ bank.countdown # 1 => /\ CountedDown(bank).state = bank.state /\ CountedDown(bank).last = bank.last
                                  /\ CountedDown(bank).countdown = Ticked(bank.countdown)
         /\ bank.countdown = 1 /\ bank.last \in Autopre =>
              /\ CountedDown(bank).state = "Precharging" /\ CountedDown(bank).last = "PRECHARGE"
         /\ bank.countdown = 1 /\ bank.last \in {"REFRESH", "PRECHARGE"} =>
              CountedDown(bank).state = "Idle" /\ CountedDown(bank).countdown = 0
         /\ bank.countdown = 1 /\ bank.last \notin Autopre \cup {"REFRESH", "PRECHARGE"} =>
              /\ CountedDown(bank).state = bank.state /\ CountedDown(bank).last = bank.last
              /\ CountedDown(bank).countdown = 0
<1>1. tRP \in Timers /\ 0 \in Timers /\ Ticked(bank.countdown) \in Timers
  BY DelaysFit, TimerArithmetic, BankFields DEF Delays
<1>2. CASE bank.countdown # 1
  BY <1>1, <1>2 DEF CountedDown, BankTable
<1>3. CASE bank.countdown = 1 /\ bank.last \in Autopre
  BY <1>1, <1>3 DEF CountedDown, BankTable, Autopre, BankStates, Commands
<1>4. CASE bank.countdown = 1 /\ bank.last \in {"REFRESH", "PRECHARGE"}
  BY <1>1, <1>4 DEF CountedDown, BankTable, Autopre, BankStates
<1>5. CASE bank.countdown = 1 /\ bank.last \notin Autopre \cup {"REFRESH", "PRECHARGE"}
  BY <1>1, <1>5 DEF CountedDown, BankTable, Autopre, BankStates
<1> QED BY <1>2, <1>3, <1>4, <1>5

LEMMA CountedAgree ==
  ASSUME NEW own \in BankTable, NEW view \in BankTable, Agree(own, view)
  PROVE  Agree(CountedDown(own), view)
<1> DEFINE after == CountedDown(own)
<1>1. /\ after.row = own.row /\ after.nextRead = own.nextRead /\ after.nextWrite = own.nextWrite
      /\ after.nextActivate = own.nextActivate /\ after.nextPrecharge = own.nextPrecharge
      /\ after.nextPowerUp = own.nextPowerUp
  BY CountedFields
<1>2. own.countdown # 1 =>
        after.state = own.state /\ after.last = own.last /\ after.countdown = Ticked(own.countdown)
  BY CountedFields
<1>3. own.countdown = 1 /\ own.last \in Autopre => after.state = "Precharging" /\ after.last = "PRECHARGE"
  BY CountedFields
<1>4. own.countdown = 1 /\ own.last \in {"REFRESH", "PRECHARGE"} => after.state = "Idle" /\ after.countdown = 0
  BY CountedFields
<1>5. own.countdown = 1 /\ own.last \notin Autopre \cup {"REFRESH", "PRECHARGE"} =>
        after.state = own.state /\ after.last = own.last /\ after.countdown = 0
  BY CountedFields
<1>6. own.countdown \in Nat /\ own.state \in BankStates
  BY BankFields, DelaysFit
<1> HIDE DEF after
<1>7. Later1(after, view)
  BY <1>1 DEF Agree, Later1
<1>8. CASE own.countdown # 1
  <2>1. own.countdown > 0 => after.countdown > 0
    BY <1>2, <1>6, <1>8 DEF Ticked
  <2>2. own.countdown = 0 => after.countdown = 0
    BY <1>2, <1>8 DEF Ticked
  <2>3. SameState(after, view)
    BY <1>1, <1>2, <1>8, <2>1 DEF Agree, SameState
  <2>4. Settling(after)
    BY <1>2, <1>8, <2>2 DEF Agree, Settling
  <2> QED BY <1>7, <2>3, <2>4 DEF Agree, after
<1>9. CASE own.countdown = 1 /\ own.last \in Autopre
  <2>1. own.state = "RowActive"
    BY <1>6, <1>9 DEF Agree, Settling, Autopre, BankStates
  <2>2. SameState(after, view) /\ Settling(after)
    BY <1>3, <1>9, <2>1 DEF Agree, SameState, Settling
  <2> QED BY <1>7, <2>2 DEF Agree, after
<1>10. CASE own.countdown = 1 /\ own.last \in {"REFRESH", "PRECHARGE"}
  <2>1. own.state \in {"Precharging", "Refreshing"}
    BY <1>6, <1>10 DEF Agree, Settling, BankStates
  <2>2. SameState(after, view) /\ Settling(after)
    BY <1>4, <1>10, <2>1 DEF Agree, SameState, Settling
  <2> QED BY <1>7, <2>2 DEF Agree, after
<1>11. CASE own.countdown = 1 /\ own.last \notin Autopre \cup {"REFRESH", "PRECHARGE"}
  <2>1. SameState(after, view)
    BY <1>1, <1>5, <1>11 DEF Agree, SameState
  <2>2. Settling(after)
    BY <1>5, <1>11 DEF Agree, Settling
  <2> QED BY <1>7, <2>1, <2>2 DEF Agree, after
<1> QED BY <1>8, <1>9, <1>10, <1>11

-----------------------------------------------------------------------------
(* A command takes the two views along.                                    *)

\* The effects of a column command on a bank of its rank.
ReadAfter(p)  == IF p.type \in Reads THEN Larger(tCCD, HalfBL) ELSE WriteToReadB
WriteAfter(p) == IF p.type \in Reads THEN ReadToWrite ELSE Larger(tCCD, HalfBL)
PreAfter(p)   == IF p.type \in Reads THEN ReadToPre ELSE WriteToPre
ActAfter(p)   == IF p.type = "READ_P" THEN ReadAutopre ELSE WriteAutopre
Spaced(p, bank) ==
  [bank EXCEPT !.nextRead = Later(ReadAfter(p), @), !.nextWrite = Later(WriteAfter(p), @)]

LEMMA AfterFits ==
  ASSUME NEW p
  PROVE  /\ ReadAfter(p) \in Timers /\ WriteAfter(p) \in Timers
         /\ PreAfter(p) \in Timers /\ PreAfter(p) > 0 /\ ActAfter(p) \in Timers
BY DelaysFit DEF Delays, ReadAfter, WriteAfter, PreAfter, ActAfter

LEMMA SpacedFields ==
  ASSUME NEW p, NEW bank \in BankTable
  PROVE  /\ Spaced(p, bank) \in BankTable
         /\ Spaced(p, bank).state = bank.state /\ Spaced(p, bank).row = bank.row
         /\ Spaced(p, bank).last = bank.last /\ Spaced(p, bank).countdown = bank.countdown
         /\ Spaced(p, bank).nextRead = Later(ReadAfter(p), bank.nextRead)
         /\ Spaced(p, bank).nextWrite = Later(WriteAfter(p), bank.nextWrite)
         /\ Spaced(p, bank).nextActivate = bank.nextActivate
         /\ Spaced(p, bank).nextPrecharge = bank.nextPrecharge
         /\ Spaced(p, bank).nextPowerUp = bank.nextPowerUp
<1>1. Later(ReadAfter(p), bank.nextRead) \in Timers /\ Later(WriteAfter(p), bank.nextWrite) \in Timers
  BY AfterFits, BankFields, TimerArithmetic
<1> QED BY <1>1 DEF Spaced, BankTable

LEMMA ColumnCloses ==
  ASSUME NEW p, p.type \in Columns, p.type \in Autopre, NEW reopen,
         reopen = Later(ActAfter(p), bankStates[p.rank][p.bank].nextActivate)
  PROVE  Column(p, p.rank, p.bank) =
           [Spaced(p, bankStates[p.rank][p.bank]) EXCEPT
              !.nextActivate = reopen, !.nextRead = reopen, !.nextWrite = reopen,
              !.last = p.type, !.countdown = PreAfter(p)]
<1>1. p.type \in Reads => p.type \notin Writes
  BY DEF Reads, Writes
<1>2. p.type \notin {"READ", "WRITE"}
  BY DEF Autopre
<1> QED BY <1>1, <1>2 DEF Column, Spaced, ReadAfter, WriteAfter, PreAfter, ActAfter

LEMMA ColumnCases ==
  ASSUME NEW p, NEW b, p.type \in Columns
  PROVE  /\ b # p.bank => Column(p, p.rank, b) = Spaced(p, bankStates[p.rank][b])
         /\ b = p.bank /\ p.type \notin Autopre =>
              Column(p, p.rank, b) =
                [Spaced(p, bankStates[p.rank][b]) EXCEPT !.nextPrecharge = Later(PreAfter(p), @), !.last = p.type]
         /\ b = p.bank /\ p.type \in Autopre =>
              Column(p, p.rank, b) =
                [Spaced(p, bankStates[p.rank][b]) EXCEPT
                   !.nextActivate = Later(ActAfter(p), bankStates[p.rank][b].nextActivate),
                   !.nextRead = Later(ActAfter(p), bankStates[p.rank][b].nextActivate),
                   !.nextWrite = Later(ActAfter(p), bankStates[p.rank][b].nextActivate),
                   !.last = p.type, !.countdown = PreAfter(p)]
<1>1. p.type \in Reads => p.type \notin Writes
  BY DEF Reads, Writes
<1>2. p.type \notin Autopre => p.type \in {"READ", "WRITE"}
  BY DEF Columns, Reads, Writes, Autopre
<1>3. CASE b # p.bank
  BY <1>3 DEF Column, Spaced, ReadAfter, WriteAfter
<1>4. CASE b = p.bank /\ p.type \notin Autopre
  BY <1>2, <1>4 DEF Column, Spaced, ReadAfter, WriteAfter, PreAfter
<1>5. CASE b = p.bank /\ p.type \in Autopre
  BY <1>5, ColumnCloses
<1> QED BY <1>3, <1>4, <1>5

LEMMA AfterColumnCases ==
  ASSUME NEW p, NEW view, NEW b, p.type \in Columns
  PROVE  /\ b # p.bank => AfterCommand(p, view, b) = Spaced(p, view)
         /\ b = p.bank /\ p.type \notin Autopre =>
              AfterCommand(p, view, b) = [Spaced(p, view) EXCEPT !.nextPrecharge = Later(PreAfter(p), @)]
         /\ b = p.bank /\ p.type \in Autopre =>
              AfterCommand(p, view, b) =
                [Spaced(p, view) EXCEPT !.state = "Idle", !.nextActivate = Later(ActAfter(p), @)]
<1>1. p.type \in {"READ", "WRITE", "READ_P", "WRITE_P"}
  BY DEF Columns, Reads, Writes
<1>2. p.type \notin Autopre => p.type \in {"READ", "WRITE"} /\ (p.type \in Reads <=> p.type = "READ")
  BY <1>1 DEF Autopre, Reads
<1>3. p.type \in Autopre => p.type \notin {"READ", "WRITE"}
  BY DEF Autopre
<1>4. AfterCommand(p, view, b) = AfterColumn(p, view, b)
  BY <1>1 DEF AfterCommand
<1>5. Spaced(p, view) =
        IF p.type \in Reads
        THEN [view EXCEPT !.nextRead = Later(Larger(tCCD, HalfBL), @), !.nextWrite = Later(ReadToWrite, @)]
        ELSE [view EXCEPT !.nextRead = Later(WriteToReadB, @), !.nextWrite = Later(Larger(tCCD, HalfBL), @)]
  BY DEF Spaced, ReadAfter, WriteAfter
<1>6. CASE b # p.bank
  BY <1>4, <1>5, <1>6 DEF AfterColumn
<1>7. CASE b = p.bank /\ p.type \notin Autopre
  BY <1>2, <1>4, <1>5, <1>7 DEF AfterColumn, PreAfter
<1>8. CASE b = p.bank /\ p.type \in Autopre
  BY <1>3, <1>4, <1>5, <1>8 DEF AfterColumn, ActAfter
<1> QED BY <1>6, <1>7, <1>8

LEMMA AfterColumnCloses ==
  ASSUME NEW p, NEW view, NEW b, p.type \in Columns, b = p.bank, p.type \in Autopre
  PROVE  AfterCommand(p, view, b) =
           [Spaced(p, view) EXCEPT !.state = "Idle", !.nextActivate = Later(ActAfter(p), @)]
BY AfterColumnCases

\* The rank gets the command one cycle after the controller has issued it.
LEMMA LaterLater ==
  ASSUME NEW d \in Timers, NEW x \in Timers, NEW y \in Timers, x <= y + 1
  PROVE  Later(d, Ticked(x)) <= Ticked(Later(d, y)) + 1
BY TimerArithmetic

LEMMA SpacedAgree ==
  ASSUME NEW p, NEW own \in BankTable, NEW view \in BankTable, Agree(own, view)
  PROVE  Agree(TickedBank(Spaced(p, own)), Spaced(p, TickedBank(view)))
<1> DEFINE o == TickedBank(Spaced(p, own))
           v == Spaced(p, TickedBank(view))
<1>1. Spaced(p, own) \in BankTable /\ TickedBank(view) \in BankTable
  BY SpacedFields, TickedFields
<1>2. /\ o.state = own.state /\ o.row = own.row /\ o.last = own.last /\ o.countdown = own.countdown
      /\ o.nextActivate = Ticked(own.nextActivate) /\ o.nextPrecharge = Ticked(own.nextPrecharge)
      /\ o.nextPowerUp = Ticked(own.nextPowerUp)
      /\ o.nextRead = Ticked(Later(ReadAfter(p), own.nextRead))
      /\ o.nextWrite = Ticked(Later(WriteAfter(p), own.nextWrite))
  BY <1>1, SpacedFields, TickedFields
<1>3. /\ v.state = view.state /\ v.row = view.row
      /\ v.nextActivate = Ticked(view.nextActivate) /\ v.nextPrecharge = Ticked(view.nextPrecharge)
      /\ v.nextPowerUp = Ticked(view.nextPowerUp)
      /\ v.nextRead = Later(ReadAfter(p), Ticked(view.nextRead))
      /\ v.nextWrite = Later(WriteAfter(p), Ticked(view.nextWrite))
  BY <1>1, SpacedFields, TickedFields
<1>4. ReadAfter(p) \in Timers /\ WriteAfter(p) \in Timers
  BY AfterFits
<1>5. view.nextRead <= own.nextRead + 1 => v.nextRead <= o.nextRead + 1
  BY <1>2, <1>3, <1>4, LaterLater, BankFields
<1>6. view.nextWrite <= own.nextWrite + 1 => v.nextWrite <= o.nextWrite + 1
  BY <1>2, <1>3, <1>4, LaterLater, BankFields
<1>7. Agree(TickedBank(own), TickedBank(view))
  BY TickedAgree
<1>8. v.nextActivate <= o.nextActivate + 1 /\ v.nextPrecharge <= o.nextPrecharge + 1
      /\ v.nextPowerUp = o.nextPowerUp
  BY <1>2, <1>3, <1>7, TickedFields DEF Agree, Later1
<1> HIDE DEF o, v
<1>9. Later1(o, v)
  BY <1>3, <1>5, <1>6, <1>8 DEF Agree, Later1
<1>10. SameState(o, v) /\ Settling(o)
  BY <1>2, <1>3 DEF Agree, SameState, Settling
<1> QED BY <1>9, <1>10 DEF Agree, o, v

LEMMA ColumnAgree ==
  ASSUME NEW p, NEW b, NEW view \in BankTable, p.type \in Columns,
         bankStates[p.rank][b] \in BankTable, Agree(bankStates[p.rank][b], view),
         b = p.bank => bankStates[p.rank][b].state = "RowActive" /\ bankStates[p.rank][b].last \notin Autopre
  PROVE  /\ Column(p, p.rank, b) \in BankTable
         /\ Agree(TickedBank(Column(p, p.rank, b)), AfterCommand(p, TickedBank(view), b))
<1> DEFINE own == bankStates[p.rank][b]
           new == Column(p, p.rank, b)
           o == TickedBank(new)
           s == TickedBank(Spaced(p, own))
           w == Spaced(p, TickedBank(view))
           v == AfterCommand(p, TickedBank(view), b)
<1>1. Spaced(p, own) \in BankTable /\ TickedBank(view) \in BankTable /\ w \in BankTable
  BY SpacedFields, TickedFields
<1>2. Agree(s, w)
  BY SpacedAgree
<1>3. PreAfter(p) \in Timers /\ PreAfter(p) > 0 /\ ActAfter(p) \in Timers
  BY AfterFits
<1>4. CASE b # p.bank
  <2>1. new = Spaced(p, own) /\ v = w
    BY <1>4, ColumnCases, AfterColumnCases
  <2> QED BY <1>1, <1>2, <2>1
<1>5. CASE b = p.bank /\ p.type \notin Autopre
  <2>1. new = [Spaced(p, own) EXCEPT !.nextPrecharge = Later(PreAfter(p), @), !.last = p.type]
    BY <1>5, ColumnCases
  <2>2. v = [w EXCEPT !.nextPrecharge = Later(PreAfter(p), @)]
    BY <1>5, AfterColumnCases
  <2>3. own.nextPrecharge \in Timers /\ Later(PreAfter(p), own.nextPrecharge) \in Timers
    BY <1>3, BankFields, TimerArithmetic
  <2>4. Spaced(p, own).nextPrecharge = own.nextPrecharge /\ w.nextPrecharge = Ticked(view.nextPrecharge)
    BY <1>1, SpacedFields, TickedFields
  <2>5. p.type \in Commands /\ p.type \notin {"PRECHARGE", "REFRESH"}
    BY DEF Commands, Columns, Reads, Writes
  <2>6. new \in BankTable /\ new.nextPrecharge = Later(PreAfter(p), own.nextPrecharge) /\ new.last = p.type
        /\ new.state = Spaced(p, own).state /\ new.row = Spaced(p, own).row
        /\ new.countdown = Spaced(p, own).countdown /\ new.nextRead = Spaced(p, own).nextRead
        /\ new.nextWrite = Spaced(p, own).nextWrite /\ new.nextActivate = Spaced(p, own).nextActivate
        /\ new.nextPowerUp = Spaced(p, own).nextPowerUp
    <3> HIDE DEF new
    <3> QED BY <1>1, <2>1, <2>3, <2>4, <2>5 DEF BankTable
  <2>7. v.nextPrecharge = Later(PreAfter(p), Ticked(view.nextPrecharge))
        /\ v.state = w.state /\ v.row = w.row /\ v.nextRead = w.nextRead /\ v.nextWrite = w.nextWrite
        /\ v.nextActivate = w.nextActivate /\ v.nextPowerUp = w.nextPowerUp
    <3> HIDE DEF v, w
    <3> QED BY <1>1, <2>2, <2>4 DEF BankTable
  <2>8. o.nextPrecharge = Ticked(Later(PreAfter(p), own.nextPrecharge)) /\ o.last = p.type
        /\ o.state = s.state /\ o.row = s.row /\ o.countdown = s.countdown /\ o.nextRead = s.nextRead
        /\ o.nextWrite = s.nextWrite /\ o.nextActivate = s.nextActivate /\ o.nextPowerUp = s.nextPowerUp
    <3> HIDE DEF new
    <3> QED BY <1>1, <2>6, TickedFields
  <2>9. v.nextPrecharge <= o.nextPrecharge + 1
    <3>1. view.nextPrecharge <= own.nextPrecharge + 1
      BY DEF Agree, Later1
    <3> QED BY <1>3, <2>7, <2>8, <3>1, LaterLater, BankFields
  <2>10. s.state = "RowActive" /\ s.last \notin Autopre
    BY <1>1, <1>5, SpacedFields, TickedFields
  <2>11. new \in BankTable
    BY <2>6
  <2> HIDE DEF o, v, s, w, new
  <2>12. Later1(o, v)
    BY <1>2, <2>7, <2>8, <2>9 DEF Agree, Later1
  <2>13. SameState(o, v) /\ Settling(o)
    BY <1>2, <1>5, <2>5, <2>7, <2>8, <2>10 DEF Agree, SameState, Settling
  <2> QED BY <2>11, <2>12, <2>13 DEF Agree, o, v, new
<1>6. CASE b = p.bank /\ p.type \in Autopre
  <2> DEFINE reopen == Later(ActAfter(p), own.nextActivate)
  <2>1. new = [Spaced(p, own) EXCEPT !.nextActivate = reopen, !.nextRead = reopen, !.nextWrite = reopen,
                                     !.last = p.type, !.countdown = PreAfter(p)]
    <3>1. reopen = Later(ActAfter(p), bankStates[p.rank][p.bank].nextActivate)
      BY <1>6
    <3> HIDE DEF reopen
    <3> QED BY <1>6, <3>1, ColumnCloses
  <2>2. v = [w EXCEPT !.state = "Idle", !.nextActivate = Later(ActAfter(p), @)]
    BY <1>6, AfterColumnCloses
  <2>3. own.nextActivate \in Timers /\ reopen \in Timers
    BY <1>3, BankFields, TimerArithmetic
  <2>4. w.nextActivate = Ticked(view.nextActivate)
    BY <1>1, SpacedFields, TickedFields
  <2>5. p.type \in Commands
    BY DEF Commands, Columns
  <2>6. /\ new \in BankTable /\ new.nextActivate = reopen /\ new.last = p.type
        /\ new.countdown = PreAfter(p)
        /\ new.state = Spaced(p, own).state /\ new.nextPrecharge = Spaced(p, own).nextPrecharge
        /\ new.nextPowerUp = Spaced(p, own).nextPowerUp
    <3> HIDE DEF new, reopen
    <3> QED BY <1>1, <1>3, <2>1, <2>3, <2>5 DEF BankTable
  <2>7. /\ v.state = "Idle" /\ v.nextActivate = Later(ActAfter(p), Ticked(view.nextActivate))
        /\ v.nextPrecharge = w.nextPrecharge /\ v.nextPowerUp = w.nextPowerUp
    <3> HIDE DEF v, w
    <3> QED BY <1>1, <2>2, <2>4 DEF BankTable
  <2>8. /\ o.nextActivate = Ticked(reopen) /\ o.last = p.type /\ o.countdown = PreAfter(p)
        /\ o.state = s.state /\ o.nextPrecharge = s.nextPrecharge /\ o.nextPowerUp = s.nextPowerUp
    <3> HIDE DEF new
    <3> QED BY <1>1, <2>6, TickedFields
  <2>9. v.nextActivate <= o.nextActivate + 1
    <3>1. view.nextActivate <= own.nextActivate + 1
      BY DEF Agree, Later1
    <3> QED BY <1>3, <2>7, <2>8, <3>1, LaterLater, BankFields
  <2>10. s.state = "RowActive"
    BY <1>1, <1>6, SpacedFields, TickedFields
  <2>11. new \in BankTable
    BY <2>6
  <2> HIDE DEF o, v, s, w, new, reopen
  <2>12. Later1(o, v)
    BY <1>2, <2>7, <2>8, <2>9 DEF Agree, Later1
  <2>13. SameState(o, v) /\ Settling(o)
    BY <1>3, <1>6, <2>7, <2>8, <2>10 DEF SameState, Settling, Autopre
  <2> QED BY <2>11, <2>12, <2>13 DEF Agree, o, v, new
<1> QED BY <1>4, <1>5, <1>6

LEMMA SetLater ==
  ASSUME NEW d \in Timers, NEW y \in Timers
  PROVE  d <= Ticked(Later(d, y)) + 1 /\ d <= Ticked(d) + 1
BY DelaysFit DEF Ticked, Later, Larger

\* What the fields of a bank show is all there is to it.
LEMMA AgreeFields ==
  ASSUME NEW o, NEW v, NEW own, NEW view, Agree(own, view),
         o.state = own.state, o.row = own.row, o.last = own.last, o.countdown = own.countdown,
         v.state = view.state, v.row = view.row,
         v.nextActivate <= o.nextActivate + 1, v.nextPrecharge <= o.nextPrecharge + 1,
         view.state = "RowActive" => v.nextRead <= o.nextRead + 1 /\ v.nextWrite <= o.nextWrite + 1,
         v.nextPowerUp = o.nextPowerUp
  PROVE  Agree(o, v)
<1>1. SameState(o, v) /\ Settling(o)
  BY DEF Agree, SameState, Settling
<1>2. Later1(o, v)
  BY DEF Later1
<1> QED BY <1>1, <1>2 DEF Agree

LEMMA ActivateAgree ==
  ASSUME NEW p, NEW b, NEW view \in BankTable, p.type = "ACTIVATE", p.row \in Nat,
         bankStates[p.rank][b] \in BankTable, Agree(bankStates[p.rank][b], view),
         b = p.bank => bankStates[p.rank][b].state \in {"Idle", "Refreshing"}
  PROVE  /\ Activate(p, p.rank, b) \in BankTable
         /\ Agree(TickedBank(Activate(p, p.rank, b)), AfterCommand(p, TickedBank(view), b))
<1> DEFINE own == bankStates[p.rank][b]
           new == Activate(p, p.rank, b)
           o == TickedBank(new)
           v == AfterCommand(p, TickedBank(view), b)
           w == TickedBank(view)
<1>1. w \in BankTable /\ w.nextActivate = Ticked(view.nextActivate) /\ w.state = view.state
      /\ w.nextPowerUp = Ticked(view.nextPowerUp)
  BY TickedFields
<1>2. v = AfterActivate(p, w, b)
  BY DEF AfterCommand, Columns, Reads, Writes
<1>3. tRRD \in Timers /\ tRC \in Timers /\ tRAS \in Timers /\ tRCD - AL \in Timers
  BY DelaysFit DEF Delays
<1>4. /\ own.nextActivate \in Timers /\ own.nextPrecharge \in Timers /\ own.nextRead \in Timers
      /\ own.nextWrite \in Timers /\ view.nextActivate \in Timers
  BY BankFields
<1>5. Agree(TickedBank(own), w)
  BY TickedAgree
<1>6. CASE b # p.bank
  <2>1. new = [own EXCEPT !.nextActivate = Later(tRRD, @)]
    BY <1>6 DEF Activate
  <2>2. v = [w EXCEPT !.nextActivate = Later(tRRD, @)]
    BY <1>2, <1>6 DEF AfterActivate
  <2>3. Later(tRRD, own.nextActivate) \in Timers
    BY <1>3, <1>4, TimerArithmetic
  <2>4. /\ new \in BankTable /\ new.nextActivate = Later(tRRD, own.nextActivate)
        /\ new.state = own.state /\ new.row = own.row /\ new.last = own.last /\ new.countdown = own.countdown
        /\ new.nextRead = own.nextRead /\ new.nextWrite = own.nextWrite
        /\ new.nextPrecharge = own.nextPrecharge /\ new.nextPowerUp = own.nextPowerUp
    <3> HIDE DEF new
    <3> QED BY <2>1, <2>3 DEF BankTable
  <2>5. /\ v.nextActivate = Later(tRRD, Ticked(view.nextActivate))
        /\ v.state = w.state /\ v.row = w.row /\ v.nextRead = w.nextRead /\ v.nextWrite = w.nextWrite
        /\ v.nextPrecharge = w.nextPrecharge /\ v.nextPowerUp = w.nextPowerUp
    <3> HIDE DEF v, w
    <3> QED BY <1>1, <2>2 DEF BankTable
  <2>6. /\ o.nextActivate = Ticked(Later(tRRD, own.nextActivate))
        /\ o.state = TickedBank(own).state /\ o.row = TickedBank(own).row /\ o.last = TickedBank(own).last
        /\ o.countdown = TickedBank(own).countdown
        /\ o.nextRead = TickedBank(own).nextRead /\ o.nextWrite = TickedBank(own).nextWrite
        /\ o.nextPrecharge = TickedBank(own).nextPrecharge /\ o.nextPowerUp = TickedBank(own).nextPowerUp
    <3> HIDE DEF new
    <3> QED BY <2>4, TickedFields
  <2>7. v.nextActivate <= o.nextActivate + 1
    <3>1. view.nextActivate <= own.nextActivate + 1
      BY DEF Agree, Later1
    <3> QED BY <1>3, <1>4, <2>5, <2>6, <3>1, LaterLater
  <2>8. new \in BankTable
    BY <2>4
  <2> DEFINE t == TickedBank(own)
  <2>9. Agree(t, w) /\ t = TickedBank(own)
    BY <1>5
  <2> HIDE DEF o, v, w, new, t
  <2>10. Agree(o, v)
    BY <2>5, <2>6, <2>7, <2>9, AgreeFields DEF Agree, Later1
  <2> QED BY <2>8, <2>10 DEF o, v, new
<1>7. CASE b = p.bank
  <2>1. new = [own EXCEPT !.state = "RowActive", !.last = "ACTIVATE", !.row = p.row,
                          !.nextActivate = Later(tRC, @), !.nextPrecharge = Later(tRAS, @),
                          !.nextRead = Later(tRCD - AL, @), !.nextWrite = Later(tRCD - AL, @)]
    BY <1>7 DEF Activate
  <2>2. v = [w EXCEPT !.state = "RowActive", !.row = p.row, !.nextActivate = tRC,
                      !.nextRead = tRCD - AL, !.nextWrite = tRCD - AL, !.nextPrecharge = tRAS]
    BY <1>2, <1>7 DEF AfterActivate
  <2>3. /\ Later(tRC, own.nextActivate) \in Timers /\ Later(tRAS, own.nextPrecharge) \in Timers
        /\ Later(tRCD - AL, own.nextRead) \in Timers /\ Later(tRCD - AL, own.nextWrite) \in Timers
    BY <1>3, <1>4, TimerArithmetic
  <2>4. "RowActive" \in BankStates /\ "ACTIVATE" \in Commands
    BY DEF BankStates, Commands
  <2>5. /\ new \in BankTable /\ new.state = "RowActive" /\ new.last = "ACTIVATE" /\ new.row = p.row
        /\ new.nextActivate = Later(tRC, own.nextActivate)
        /\ new.nextPrecharge = Later(tRAS, own.nextPrecharge)
        /\ new.nextRead = Later(tRCD - AL, own.nextRead)
        /\ new.nextWrite = Later(tRCD - AL, own.nextWrite)
        /\ new.nextPowerUp = own.nextPowerUp
    <3> HIDE DEF new
    <3> QED BY <2>1, <2>3, <2>4 DEF BankTable
  <2>6. /\ v.state = "RowActive" /\ v.row = p.row /\ v.nextActivate = tRC /\ v.nextPrecharge = tRAS
        /\ v.nextRead = tRCD - AL /\ v.nextWrite = tRCD - AL /\ v.nextPowerUp = Ticked(view.nextPowerUp)
    <3> HIDE DEF v, w
    <3> QED BY <1>1, <2>2 DEF BankTable
  <2>7. /\ o.state = "RowActive" /\ o.last = "ACTIVATE" /\ o.row = p.row
        /\ o.nextActivate = Ticked(Later(tRC, own.nextActivate))
        /\ o.nextPrecharge = Ticked(Later(tRAS, own.nextPrecharge))
        /\ o.nextRead = Ticked(Later(tRCD - AL, own.nextRead))
        /\ o.nextWrite = Ticked(Later(tRCD - AL, own.nextWrite))
        /\ o.nextPowerUp = Ticked(own.nextPowerUp)
    <3> HIDE DEF new
    <3> QED BY <2>5, TickedFields
  <2>8. own.nextPowerUp = view.nextPowerUp
    BY DEF Agree, Later1
  <2>9. /\ tRC <= Ticked(Later(tRC, own.nextActivate)) + 1
        /\ tRAS <= Ticked(Later(tRAS, own.nextPrecharge)) + 1
        /\ tRCD - AL <= Ticked(Later(tRCD - AL, own.nextRead)) + 1
        /\ tRCD - AL <= Ticked(Later(tRCD - AL, own.nextWrite)) + 1
    BY <1>3, <1>4, SetLater
  <2>10. new \in BankTable
    BY <2>5
  <2> HIDE DEF o, v, w, new, own
  <2>11. Later1(o, v)
    BY <2>6, <2>7, <2>8, <2>9 DEF Later1
  <2>12. SameState(o, v) /\ Settling(o)
    BY <2>6, <2>7 DEF SameState, Settling, Autopre
  <2> QED BY <2>10, <2>11, <2>12 DEF Agree, o, v, new
<1> QED BY <1>6, <1>7

LEMMA PrechargeAgree ==
  ASSUME NEW p, NEW b, NEW view \in BankTable, p.type = "PRECHARGE",
         bankStates[p.rank][b] \in BankTable, Agree(bankStates[p.rank][b], view),
         b = p.bank => bankStates[p.rank][b].state = "RowActive"
  PROVE  /\ Precharge(p, p.rank, b) \in BankTable
         /\ Agree(TickedBank(Precharge(p, p.rank, b)), AfterCommand(p, TickedBank(view), b))
<1> DEFINE own == bankStates[p.rank][b]
           new == Precharge(p, p.rank, b)
           o == TickedBank(new)
           v == AfterCommand(p, TickedBank(view), b)
           w == TickedBank(view)
<1>1. w \in BankTable /\ w.nextActivate = Ticked(view.nextActivate)
      /\ w.nextPrecharge = Ticked(view.nextPrecharge) /\ w.nextPowerUp = Ticked(view.nextPowerUp)
  BY TickedFields
<1>2. v = AfterPrecharge(p, w, b)
  BY DEF AfterCommand, Columns, Reads, Writes
<1>3. Agree(TickedBank(own), w)
  BY TickedAgree
<1>4. CASE b # p.bank
  <2>1. new = own
    BY <1>4 DEF Precharge
  <2>2. v = w
    BY <1>2, <1>4 DEF AfterPrecharge
  <2> QED BY <1>3, <2>1, <2>2
<1>5. CASE b = p.bank
  <2>1. new = [own EXCEPT !.state = "Precharging", !.last = "PRECHARGE", !.countdown = tRP,
                          !.nextActivate = Later(tRP, @)]
    BY <1>5 DEF Precharge
  <2>2. v = [w EXCEPT !.state = "Idle", !.nextActivate = Later(tRP, @)]
    BY <1>2, <1>5 DEF AfterPrecharge
  <2>3. tRP \in Timers /\ own.nextActivate \in Timers /\ view.nextActivate \in Timers
        /\ own.nextPrecharge \in Timers /\ view.nextPrecharge \in Timers
    BY DelaysFit, BankFields DEF Delays
  <2>4. Later(tRP, own.nextActivate) \in Timers
    BY <2>3, TimerArithmetic
  <2>5. "Precharging" \in BankStates /\ "PRECHARGE" \in Commands
    BY DEF BankStates, Commands
  <2>6. /\ new \in BankTable /\ new.state = "Precharging" /\ new.last = "PRECHARGE"
        /\ new.nextActivate = Later(tRP, own.nextActivate)
        /\ new.nextPrecharge = own.nextPrecharge /\ new.nextPowerUp = own.nextPowerUp
    <3> HIDE DEF new
    <3> QED BY <2>1, <2>3, <2>4, <2>5 DEF BankTable
  <2>7. /\ v.state = "Idle" /\ v.nextActivate = Later(tRP, Ticked(view.nextActivate))
        /\ v.nextPrecharge = Ticked(view.nextPrecharge) /\ v.nextPowerUp = Ticked(view.nextPowerUp)
    <3> HIDE DEF v, w
    <3> QED BY <1>1, <2>2 DEF BankTable
  <2>8. /\ o.state = "Precharging" /\ o.last = "PRECHARGE"
        /\ o.nextActivate = Ticked(Later(tRP, own.nextActivate))
        /\ o.nextPrecharge = Ticked(own.nextPrecharge) /\ o.nextPowerUp = Ticked(own.nextPowerUp)
    <3> HIDE DEF new
    <3> QED BY <2>6, TickedFields
  <2>9. /\ view.nextActivate <= own.nextActivate + 1 /\ view.nextPrecharge <= own.nextPrecharge + 1
        /\ view.nextPowerUp = own.nextPowerUp
    BY DEF Agree, Later1
  <2>10. v.nextActivate <= o.nextActivate + 1
    BY <2>3, <2>7, <2>8, <2>9, LaterLater
  <2>11. v.nextPrecharge <= o.nextPrecharge + 1
    BY <2>3, <2>7, <2>8, <2>9, TimerArithmetic
  <2>12. new \in BankTable
    BY <2>6
  <2> HIDE DEF o, v, w, new, own
  <2>13. Later1(o, v)
    BY <2>7, <2>8, <2>9, <2>10, <2>11 DEF Later1
  <2>14. SameState(o, v) /\ Settling(o)
    BY <2>7, <2>8 DEF SameState, Settling
  <2> QED BY <2>12, <2>13, <2>14 DEF Agree, o, v, new
<1> QED BY <1>4, <1>5

LEMMA RefreshAgree ==
  ASSUME NEW p, NEW b, NEW view \in BankTable, p.type = "REFRESH",
         bankStates[p.rank][b] \in BankTable, Agree(bankStates[p.rank][b], view),
         bankStates[p.rank][b].state \notin {"RowActive", "PowerDown"}
  PROVE  /\ Refresh(p, p.rank, b) \in BankTable
         /\ Agree(TickedBank(Refresh(p, p.rank, b)), AfterCommand(p, TickedBank(view), b))
<1> DEFINE own == bankStates[p.rank][b]
           new == Refresh(p, p.rank, b)
           o == TickedBank(new)
           v == AfterCommand(p, TickedBank(view), b)
           w == TickedBank(view)
<1>1. w \in BankTable /\ w.state = view.state
      /\ w.nextPrecharge = Ticked(view.nextPrecharge) /\ w.nextPowerUp = Ticked(view.nextPowerUp)
  BY TickedFields
<1>2. v = [w EXCEPT !.nextActivate = tRFC]
  BY DEF AfterCommand, Columns, Reads, Writes
<1>3. new = [own EXCEPT !.state = "Refreshing", !.last = "REFRESH", !.countdown = tRFC, !.nextActivate = tRFC]
  BY DEF Refresh
<1>4. tRFC \in Timers /\ own.nextPrecharge \in Timers /\ view.nextPrecharge \in Timers
  BY DelaysFit, BankFields DEF Delays
<1>5. "Refreshing" \in BankStates /\ "REFRESH" \in Commands /\ own.state \in BankStates
  BY BankFields DEF BankStates, Commands
<1>6. /\ new \in BankTable /\ new.state = "Refreshing" /\ new.last = "REFRESH" /\ new.nextActivate = tRFC
      /\ new.nextPrecharge = own.nextPrecharge /\ new.nextPowerUp = own.nextPowerUp
  <2> HIDE DEF new
  <2> QED BY <1>3, <1>4, <1>5 DEF BankTable
<1>7. /\ v.state = view.state /\ v.nextActivate = tRFC
      /\ v.nextPrecharge = Ticked(view.nextPrecharge) /\ v.nextPowerUp = Ticked(view.nextPowerUp)
  <2> HIDE DEF v, w
  <2> QED BY <1>1, <1>2 DEF BankTable
<1>8. /\ o.state = "Refreshing" /\ o.last = "REFRESH" /\ o.nextActivate = Ticked(tRFC)
      /\ o.nextPrecharge = Ticked(own.nextPrecharge) /\ o.nextPowerUp = Ticked(own.nextPowerUp)
  <2> HIDE DEF new
  <2> QED BY <1>6, TickedFields
<1>9. view.state = "Idle"
  BY <1>5 DEF Agree, SameState, BankStates
<1>10. view.nextPrecharge <= own.nextPrecharge + 1 /\ view.nextPowerUp = own.nextPowerUp
  BY DEF Agree, Later1
<1>11. v.nextPrecharge <= o.nextPrecharge + 1
  BY <1>4, <1>7, <1>8, <1>10, TimerArithmetic
<1>12. v.nextActivate <= o.nextActivate + 1
  BY <1>4, <1>7, <1>8, SetLater
<1>13. new \in BankTable
  BY <1>6
<1> HIDE DEF o, v, w, new, own
<1>14. Later1(o, v)
  BY <1>7, <1>8, <1>9, <1>10, <1>11, <1>12 DEF Later1
<1>15. SameState(o, v) /\ Settling(o)
  BY <1>7, <1>8, <1>9 DEF SameState, Settling
<1> QED BY <1>13, <1>14, <1>15 DEF Agree, o, v, new

-----------------------------------------------------------------------------
(* Sequences.                                                              *)

Below == OpToRel(<, Nat)

LEMMA Least ==
  ASSUME NEW S \in SUBSET Nat, S # {}
  PROVE  Min(S) \in S /\ \A k \in S : Min(S) <= k
<1>1. IsWellFoundedOn(Below, Nat)
  BY NatLessThanWellFounded DEF Below
<1>2. PICK m \in S : \A k \in S : ~(<<k, m>> \in Below)
  BY <1>1, WFMin
<1>3. \A x, y \in Nat : x < y => <<x, y>> \in Below
  BY Zenon DEF Below, OpToRel
<1>4. \A k \in S : ~(k < m)
  BY <1>2, <1>3
<1>5. \E x \in S : \A y \in S : x <= y
  BY <1>4
<1> QED BY <1>5, Zenon DEF Min

LEMMA RemovedAt ==
  ASSUME NEW S, NEW q \in Seq(S), NEW i \in 1..Len(q)
  PROVE  /\ RemoveAt(q, i) \in Seq(S)
         /\ Len(RemoveAt(q, i)) = Len(q) - 1
         /\ \A j \in 1..(Len(q) - 1) : RemoveAt(q, i)[j] = IF j < i THEN q[j] ELSE q[j + 1]
<1> DEFINE head == SubSeq(q, 1, i - 1)
           tail == SubSeq(q, i + 1, Len(q))
<1>1. Len(q) \in Nat /\ \A j \in 1..Len(q) : q[j] \in S
  BY LenProperties, ElementOfSeq
<1>2. /\ head \in Seq(S) /\ Len(head) = i - 1
      /\ \A j \in 1..(i - 1) : head[j] = q[j]
  <2>1. head \in Seq(S) /\ Len(head) = (IF 1 <= i - 1 THEN i - 1 - 1 + 1 ELSE 0)
        /\ \A j \in 1..(i - 1 - 1 + 1) : head[j] = q[1 + j - 1]
    BY <1>1, SubSeqProperties
  <2> QED BY <1>1, <2>1
<1>3. /\ tail \in Seq(S) /\ Len(tail) = Len(q) - i
      /\ \A j \in 1..(Len(q) - i) : tail[j] = q[i + j]
  <2>1. tail \in Seq(S) /\ Len(tail) = (IF i + 1 <= Len(q) THEN Len(q) - (i + 1) + 1 ELSE 0)
        /\ \A j \in 1..(Len(q) - (i + 1) + 1) : tail[j] = q[i + 1 + j - 1]
    BY <1>1, SubSeqProperties
  <2> QED BY <1>1, <2>1
<1> HIDE DEF head, tail
<1>4. /\ head \o tail \in Seq(S) /\ Len(head \o tail) = Len(head) + Len(tail)
      /\ \A j \in 1..(Len(head) + Len(tail)) :
           (head \o tail)[j] = IF j <= Len(head) THEN head[j] ELSE tail[j - Len(head)]
  BY <1>2, <1>3, ConcatProperties
<1>5. \A j \in 1..(Len(q) - 1) : (head \o tail)[j] = IF j < i THEN q[j] ELSE q[j + 1]
  <2> TAKE j \in 1..(Len(q) - 1)
  <2>1. CASE j < i
    BY <1>1, <1>2, <1>3, <1>4, <2>1
  <2>2. CASE ~(j < i)
    <3>1. j - (i - 1) \in 1..(Len(q) - i) /\ i + (j - (i - 1)) = j + 1
      BY <1>1, <2>2
    <3>2. (head \o tail)[j] = tail[j - (i - 1)]
      BY <1>1, <1>2, <1>3, <1>4, <2>2
    <3> QED BY <1>3, <2>2, <3>1, <3>2
  <2> QED BY <2>1, <2>2
<1>6. RemoveAt(q, i) = head \o tail
  BY DEF RemoveAt, head, tail
<1>7. Len(head) + Len(tail) = Len(q) - 1
  BY <1>1, <1>2, <1>3
<1>8. Len(head \o tail) = Len(q) - 1
  BY <1>4, <1>7
<1> QED BY <1>4, <1>5, <1>6, <1>8

\* The positions of a tour are banks.
LEMMA TourStays ==
  ASSUME NEW S, NEW start \in S, NEW succ \in [S -> S], NEW n \in Nat
  PROVE  Tour(start, n, succ) \in S
<1> DEFINE Is(f, k) == f = [j \in 0..k |-> IF j = 0 THEN start ELSE succ[f[j - 1]]]
           Bad == {k \in Nat : ~\E f : Is(f, k)}
<1>1. Bad = {}
  <2> SUFFICES ASSUME Bad # {} PROVE FALSE
    OBVIOUS
  <2> DEFINE k == Min(Bad)
  <2>1. k \in Bad /\ \A j \in Bad : k <= j
    BY Least
  <2> HIDE DEF k
  <2>2. CASE k = 0
    <3> DEFINE f == [j \in 0..0 |-> start]
    <3>1. Is(f, 0)
      OBVIOUS
    <3> QED BY <2>1, <2>2, <3>1
  <2>3. CASE k > 0
    <3>1. k - 1 \in Nat /\ k - 1 \notin Bad
      BY <2>1, <2>3
    <3>2. PICK g : Is(g, k - 1)
      BY <3>1
    <3> DEFINE f == [j \in 0..k |-> IF j = k THEN succ[g[k - 1]] ELSE g[j]]
    <3>3. \A j \in 0..(k - 1) : f[j] = g[j]
      BY <2>1, <2>3
    <3>4. \A j \in 0..k : f[j] = IF j = 0 THEN start ELSE succ[f[j - 1]]
      <4> TAKE j \in 0..k
      <4>1. CASE j = k
        BY <2>1, <2>3, <3>3, <4>1
      <4>2. CASE j # k
        <5>1. j \in 0..(k - 1) /\ g[j] = IF j = 0 THEN start ELSE succ[g[j - 1]]
          BY <2>1, <3>2, <4>2
        <5>2. j # 0 => j - 1 \in 0..(k - 1)
          BY <2>1, <4>2
        <5> QED BY <3>3, <5>1, <5>2
      <4> QED BY <4>1, <4>2
    <3>5. Is(f, k)
      <4>1. f = [j \in 0..k |-> f[j]]
        OBVIOUS
      <4> HIDE DEF f
      <4> QED BY <3>4, <4>1
    <3> QED BY <2>1, <3>5
  <2> QED BY <2>1, <2>2, <2>3
<1>2. PICK f : Is(f, n)
  BY <1>1
<1> DEFINE at == CHOOSE f2 : Is(f2, n)
<1>3. Is(at, n)
  BY <1>2
<1>4. Tour(start, n, succ) = at[n]
  BY DEF Tour
<1> DEFINE Off == {j \in 0..n : at[j] \notin S}
<1> HIDE DEF at
<1>5. \A j \in 0..n : at[j] = IF j = 0 THEN start ELSE succ[at[j - 1]]
  BY <1>3
<1>6. Off = {}
  <2> SUFFICES ASSUME Off # {} PROVE FALSE
    OBVIOUS
  <2>1. Off \in SUBSET Nat
    OBVIOUS
  <2>2. Min(Off) \in Off /\ \A j \in Off : Min(Off) <= j
    BY <2>1, Least
  <2> DEFINE k == Min(Off)
  <2> HIDE DEF k
  <2>3. k \in 0..n /\ at[k] \notin S /\ \A j \in 0..n : at[j] \notin S => k <= j
    BY <2>2 DEF k
  <2>4. CASE k = 0
    BY <1>5, <2>3, <2>4
  <2>5. CASE k # 0
    <3>1. k - 1 \in 0..n /\ ~(k <= k - 1)
      BY <2>3, <2>5
    <3>2. at[k - 1] \in S
      BY <2>3, <3>1
    <3> QED BY <1>5, <2>3, <2>5, <3>2
  <2> QED BY <2>4, <2>5
<1> QED BY <1>4, <1>6

Chained(flat, seqs, n) == \A j \in 1..n : flat[j] = IF j = 1 THEN seqs[j] ELSE flat[j - 1] \o seqs[j]

\* The library's definition, unfolded: one sequence after the other is added.
LEMMA FlattenSeqIs ==
  ASSUME NEW S, NEW n \in Nat \ {0}, NEW seqs \in [1..n -> Seq(S)]
  PROVE  \E flat : FlattenSeq(seqs) = flat[n] /\ Chained(flat, seqs, n)
<1> DEFINE Is(f, k) == f = [j \in 1..k |-> IF j = 1 THEN seqs[j] ELSE f[j - 1] \o seqs[j]]
           Bad == {k \in 1..n : ~\E f : Is(f, k)}
<1>1. Bad = {}
  <2> SUFFICES ASSUME Bad # {} PROVE FALSE
    OBVIOUS
  <2> DEFINE k == Min(Bad)
  <2>0. Bad \in SUBSET Nat
    <3> HIDE DEF Is
    <3> QED OBVIOUS
  <2>1. k \in Bad /\ \A j \in Bad : k <= j
    <3> HIDE DEF Bad
    <3> QED BY <2>0, Least
  <2> HIDE DEF k
  <2>4. k \in 1..n /\ seqs[k] \in Seq(S)
    BY <2>1
  <2>2. CASE k = 1
    <3> DEFINE f == [j \in 1..1 |-> seqs[j]]
    <3>1. Is(f, 1)
      OBVIOUS
    <3> QED BY <2>1, <2>2, <3>1
  <2>3. CASE k > 1
    <3>1. k - 1 \in 1..n /\ k - 1 \notin Bad
      <4>1. k - 1 \in 1..n /\ ~(k <= k - 1)
        BY <2>3, <2>4
      <4> QED BY <2>1, <4>1
    <3>2. PICK g : Is(g, k - 1)
      BY <3>1
    <3> DEFINE f == [j \in 1..k |-> IF j = k THEN g[k - 1] \o seqs[k] ELSE g[j]]
    <3>3. \A j \in 1..(k - 1) : f[j] = g[j]
      BY <2>1, <2>3
    <3>4. \A j \in 1..k : f[j] = IF j = 1 THEN seqs[j] ELSE f[j - 1] \o seqs[j]
      <4> TAKE j \in 1..k
      <4>1. CASE j = k
        <5>1. f[k] = g[k - 1] \o seqs[k] /\ f[k - 1] = g[k - 1] /\ k # 1
          BY <2>3, <2>4, <3>3
        <5> QED BY <4>1, <5>1
      <4>2. CASE j # k
        <5>3. j \in 1..(k - 1)
          BY <2>4, <4>2
        <5>1. g[j] = IF j = 1 THEN seqs[j] ELSE g[j - 1] \o seqs[j]
          BY <3>2, <5>3
        <5>2. j # 1 => j - 1 \in 1..(k - 1)
          BY <2>1, <4>2
        <5> QED BY <3>3, <5>1, <5>2, <5>3
      <4> QED BY <4>1, <4>2
    <3>5. Is(f, k)
      <4>1. f = [j \in 1..k |-> f[j]]
        OBVIOUS
      <4> HIDE DEF f
      <4> QED BY <3>4, <4>1
    <3> QED BY <2>1, <3>5
  <2> QED BY <2>1, <2>2, <2>3
<1>2. PICK f : Is(f, n)
  <2>1. n \in 1..n /\ n \notin Bad
    <3> HIDE DEF Bad
    <3> QED BY <1>1
  <2> HIDE DEF Is
  <2> QED BY <2>1
<1> DEFINE flat == CHOOSE f2 : Is(f2, n)
<1>3. Is(flat, n)
  BY <1>2
<1>4. Len(seqs) = n
  OBVIOUS
<1>5. FlattenSeq(seqs) = flat[n]
  BY <1>4 DEF FlattenSeq
<1> HIDE DEF flat
<1>6. \A j \in 1..n : flat[j] = IF j = 1 THEN seqs[j] ELSE flat[j - 1] \o seqs[j]
  BY <1>3
<1> QED BY <1>5, <1>6 DEF Chained

LEMMA FlattenSeqKeeps ==
  ASSUME NEW S, NEW n \in Nat \ {0}, NEW seqs \in [1..n -> Seq(S)]
  PROVE  FlattenSeq(seqs) \in Seq(S)
<1>1. PICK flat : FlattenSeq(seqs) = flat[n] /\ Chained(flat, seqs, n)
  BY FlattenSeqIs
<1>6. \A j \in 1..n : flat[j] = IF j = 1 THEN seqs[j] ELSE flat[j - 1] \o seqs[j]
  BY <1>1 DEF Chained
<1> DEFINE Off == {j \in 1..n : flat[j] \notin Seq(S)}
<1>7. Off = {}
  <2> SUFFICES ASSUME Off # {} PROVE FALSE
    OBVIOUS
  <2>1. Off \in SUBSET Nat
    OBVIOUS
  <2>2. Min(Off) \in Off /\ \A j \in Off : Min(Off) <= j
    BY <2>1, Least
  <2> DEFINE k == Min(Off)
  <2> HIDE DEF k
  <2>3. k \in 1..n /\ flat[k] \notin Seq(S) /\ \A j \in 1..n : flat[j] \notin Seq(S) => k <= j
    BY <2>2 DEF k
  <2>4. CASE k = 1
    BY <1>6, <2>3, <2>4
  <2>5. CASE k # 1
    <3>1. k - 1 \in 1..n /\ ~(k <= k - 1)
      BY <2>3, <2>5
    <3>2. flat[k - 1] \in Seq(S)
      BY <2>3, <3>1
    <3>3. flat[k - 1] \o seqs[k] \in Seq(S)
      BY <2>3, <3>2, ConcatProperties
    <3> QED BY <1>6, <2>3, <2>5, <3>3
  <2> QED BY <2>4, <2>5
<1> QED BY <1>1, <1>7

\* When all but one of the sequences are empty, that one is the result.
OnlyAt(seqs, n, r) == \A j \in 1..n : j # r => seqs[j] = <<>>

LEMMA FlattenSeqOne ==
  ASSUME NEW S, NEW n \in Nat \ {0}, NEW seqs \in [1..n -> Seq(S)], NEW r \in 1..n, OnlyAt(seqs, n, r)
  PROVE  FlattenSeq(seqs) = seqs[r]
<1>0. \A j \in 1..n : j # r => seqs[j] = <<>>
  BY DEF OnlyAt
<1>1. PICK flat : FlattenSeq(seqs) = flat[n] /\ Chained(flat, seqs, n)
  BY FlattenSeqIs
<1>2. \A j \in 1..n : flat[j] = IF j = 1 THEN seqs[j] ELSE flat[j - 1] \o seqs[j]
  BY <1>1 DEF Chained
<1> DEFINE upTo(j) == IF j < r THEN <<>> ELSE seqs[r]
           Off == {j \in 1..n : flat[j] # upTo(j)}
<1>3. Off = {}
  <2> SUFFICES ASSUME Off # {} PROVE FALSE
    OBVIOUS
  <2>1. Off \in SUBSET Nat
    <3> HIDE DEF upTo
    <3> QED OBVIOUS
  <2> DEFINE k == Min(Off)
  <2>2. k \in Off /\ \A j \in Off : k <= j
    <3> HIDE DEF Off
    <3> QED BY <2>1, Least
  <2> HIDE DEF k
  <2>3. k \in 1..n /\ flat[k] # upTo(k) /\ \A j \in 1..n : flat[j] # upTo(j) => k <= j
    <3> HIDE DEF upTo
    <3> QED BY <2>2
  <2>4. seqs[r] \in Seq(S) /\ seqs[k] \in Seq(S)
    BY <2>3
  <2>5. CASE k = 1
    BY <1>0, <1>2, <2>3, <2>5
  <2>6. CASE k # 1
    <3>1. k - 1 \in 1..n /\ ~(k <= k - 1)
      BY <2>3, <2>6
    <3>2. flat[k - 1] = upTo(k - 1)
      BY <2>3, <3>1
    <3>3. flat[k] = upTo(k - 1) \o seqs[k]
      BY <1>2, <2>3, <2>6, <3>2
    <3>4. CASE k < r
      BY <1>0, <2>3, <2>4, <3>3, <3>4
    <3>5. CASE k = r
      <4>1. k - 1 < r
        BY <2>3, <3>5
      <4>2. <<>> \o seqs[k] = seqs[k]
        BY <2>4
      <4> QED BY <2>3, <3>3, <3>5, <4>1, <4>2
    <3>6. CASE k > r
      <4>1. ~(k - 1 < r) /\ k # r
        BY <2>3, <3>6
      <4>2. seqs[r] \o <<>> = seqs[r] /\ seqs[k] = <<>>
        BY <1>0, <2>3, <2>4, <4>1
      <4> QED BY <2>3, <3>3, <3>6, <4>1, <4>2
    <3> QED BY <2>3, <3>4, <3>5, <3>6
  <2> QED BY <2>5, <2>6
<1>4. n \in 1..n /\ ~(n < r)
  OBVIOUS
<1> QED BY <1>1, <1>3, <1>4

\* What a command leaves of a bank but its times.
SameRow(new, own) ==
  /\ new.state = own.state /\ new.row = own.row /\ new.last = own.last
  /\ new.nextPowerUp = own.nextPowerUp

LEMMA ColumnElsewhere ==
  ASSUME NEW p, NEW r, NEW b, NEW view \in BankTable, r # p.rank,
         bankStates[r][b] \in BankTable, Agree(bankStates[r][b], view)
  PROVE  /\ Column(p, r, b) \in BankTable /\ SameRow(Column(p, r, b), bankStates[r][b])
         /\ Agree(TickedBank(Column(p, r, b)), TickedBank(view))
<1> DEFINE own == bankStates[r][b]
           new == Column(p, r, b)
           o == TickedBank(new)
           v == TickedBank(view)
           t == TickedBank(own)
           toRead == IF p.type \in Reads THEN HalfBL + tRTRS ELSE WriteToReadR
           toWrite == IF p.type \in Reads THEN ReadToWrite ELSE HalfBL + tRTRS
<1>1. Agree(t, v)
  BY TickedAgree
<1>2. CASE own.state # "RowActive"
  <2>1. new = own
    BY <1>2 DEF Column
  <2> QED BY <1>1, <2>1 DEF SameRow
<1>3. CASE own.state = "RowActive"
  <2>1. new = [own EXCEPT !.nextRead = Later(toRead, @), !.nextWrite = Later(toWrite, @)]
    BY <1>3 DEF Column
  <2>2. toRead \in Timers /\ toWrite \in Timers
    BY DelaysFit DEF Delays
  <2>3. own.nextRead \in Timers /\ own.nextWrite \in Timers
    BY BankFields
  <2>4. Later(toRead, own.nextRead) \in Timers /\ Later(toWrite, own.nextWrite) \in Timers
    BY <2>2, <2>3, TimerArithmetic
  <2>5. /\ new \in BankTable /\ new.state = own.state /\ new.row = own.row /\ new.last = own.last
        /\ new.countdown = own.countdown /\ new.nextActivate = own.nextActivate
        /\ new.nextPrecharge = own.nextPrecharge /\ new.nextPowerUp = own.nextPowerUp
        /\ new.nextRead = Later(toRead, own.nextRead) /\ new.nextWrite = Later(toWrite, own.nextWrite)
    <3> HIDE DEF new, toRead, toWrite
    <3> QED BY <2>1, <2>4 DEF BankTable
  <2>6. /\ o.state = t.state /\ o.row = t.row /\ o.last = t.last /\ o.countdown = t.countdown
        /\ o.nextActivate = t.nextActivate /\ o.nextPrecharge = t.nextPrecharge
        /\ o.nextPowerUp = t.nextPowerUp
        /\ o.nextRead = Ticked(Later(toRead, own.nextRead)) /\ t.nextRead = Ticked(own.nextRead)
        /\ o.nextWrite = Ticked(Later(toWrite, own.nextWrite)) /\ t.nextWrite = Ticked(own.nextWrite)
    <3> HIDE DEF new
    <3> QED BY <2>5, TickedFields
  <2>7. \A d, x \in Timers : Ticked(x) <= Ticked(Later(d, x)) /\ Ticked(x) \in Nat /\ Ticked(Later(d, x)) \in Nat
    BY DelaysFit DEF Ticked, Later, Larger
  <2>8. o.nextRead >= t.nextRead /\ o.nextWrite >= t.nextWrite
        /\ o.nextRead \in Nat /\ o.nextWrite \in Nat /\ t.nextRead \in Nat /\ t.nextWrite \in Nat
    <3> HIDE DEF o, t, new, own, toRead, toWrite
    <3> QED BY <2>2, <2>3, <2>6, <2>7
  <2>9. v.nextRead \in Nat /\ v.nextWrite \in Nat
    BY TickedFields, BankFields, DelaysFit
  <2>10. new \in BankTable /\ SameRow(new, own)
    BY <2>5 DEF SameRow
  <2> HIDE DEF o, v, t, new, own
  <2>11. /\ v.nextActivate <= o.nextActivate + 1 /\ v.nextPrecharge <= o.nextPrecharge + 1
         /\ v.nextPowerUp = o.nextPowerUp
         /\ v.state = "RowActive" => v.nextRead <= t.nextRead + 1 /\ v.nextWrite <= t.nextWrite + 1
    BY <1>1, <2>6 DEF Agree, Later1
  <2>12. v.state = "RowActive" => v.nextRead <= o.nextRead + 1 /\ v.nextWrite <= o.nextWrite + 1
    BY <2>8, <2>9, <2>11
  <2>13. Agree(o, v)
    BY <1>1, <2>6, <2>11, <2>12, AgreeFields
  <2> QED BY <2>10, <2>13 DEF o, v, new, own
<1> QED BY <1>2, <1>3

LEMMA ColumnKeepsRow ==
  ASSUME NEW p, NEW b, p.type \in Columns, bankStates[p.rank][b] \in BankTable
  PROVE  /\ Column(p, p.rank, b).state = bankStates[p.rank][b].state
         /\ Column(p, p.rank, b).row = bankStates[p.rank][b].row
         /\ Column(p, p.rank, b).nextPowerUp = bankStates[p.rank][b].nextPowerUp
         /\ Column(p, p.rank, b).last = IF b = p.bank THEN p.type ELSE bankStates[p.rank][b].last
<1> DEFINE own == bankStates[p.rank][b]
           new == Column(p, p.rank, b)
           s == Spaced(p, own)
<1>1. /\ s \in BankTable /\ s.state = own.state /\ s.row = own.row /\ s.last = own.last
      /\ s.nextPowerUp = own.nextPowerUp
  BY SpacedFields
<1>2. CASE b # p.bank
  <2>1. new = s
    BY <1>2, ColumnCases
  <2> HIDE DEF new, s
  <2> QED BY <1>1, <1>2, <2>1 DEF new
<1>3. CASE b = p.bank /\ p.type \notin Autopre
  <2>1. new = [s EXCEPT !.nextPrecharge = Later(PreAfter(p), @), !.last = p.type]
    BY <1>3, ColumnCases
  <2> HIDE DEF new, s
  <2>2. /\ new.state = s.state /\ new.row = s.row /\ new.last = p.type /\ new.nextPowerUp = s.nextPowerUp
    BY <1>1, <2>1 DEF BankTable
  <2> QED BY <1>1, <1>3, <2>2 DEF new
<1>4. CASE b = p.bank /\ p.type \in Autopre
  <2> DEFINE reopen == Later(ActAfter(p), own.nextActivate)
  <2>1. new = [s EXCEPT !.nextActivate = reopen, !.nextRead = reopen, !.nextWrite = reopen,
                        !.last = p.type, !.countdown = PreAfter(p)]
    BY <1>4, ColumnCases
  <2> HIDE DEF new, s, reopen
  <2>2. /\ new.state = s.state /\ new.row = s.row /\ new.last = p.type /\ new.nextPowerUp = s.nextPowerUp
    BY <1>1, <2>1 DEF BankTable
  <2> QED BY <1>1, <1>4, <2>2 DEF new
<1> QED BY <1>2, <1>3, <1>4

LEMMA ActivateOpens ==
  ASSUME NEW p, NEW r, NEW b, bankStates[r][b] \in BankTable
  PROVE  /\ ~(r = p.rank /\ b = p.bank) => SameRow(Activate(p, r, b), bankStates[r][b])
         /\ r = p.rank /\ b = p.bank =>
              /\ Activate(p, r, b).state = "RowActive" /\ Activate(p, r, b).row = p.row
              /\ Activate(p, r, b).last = "ACTIVATE"
              /\ Activate(p, r, b).nextPowerUp = bankStates[r][b].nextPowerUp
<1> DEFINE own == bankStates[r][b]
           new == Activate(p, r, b)
<1>1. CASE r # p.rank
  BY <1>1 DEF Activate, SameRow
<1>2. CASE r = p.rank /\ b # p.bank
  <2>1. new = [own EXCEPT !.nextActivate = Later(tRRD, @)]
    BY <1>2 DEF Activate
  <2>2. new.state = own.state /\ new.row = own.row /\ new.last = own.last /\ new.nextPowerUp = own.nextPowerUp
    <3> HIDE DEF new, own
    <3> QED BY <2>1 DEF BankTable, own
  <2> QED BY <1>2, <2>2 DEF SameRow
<1>3. CASE r = p.rank /\ b = p.bank
  <2>1. new = [own EXCEPT !.state = "RowActive", !.last = "ACTIVATE", !.row = p.row,
                          !.nextActivate = Later(tRC, @), !.nextPrecharge = Later(tRAS, @),
                          !.nextRead = Later(tRCD - AL, @), !.nextWrite = Later(tRCD - AL, @)]
    BY <1>3 DEF Activate
  <2>2. new.state = "RowActive" /\ new.row = p.row /\ new.last = "ACTIVATE" /\ new.nextPowerUp = own.nextPowerUp
    <3> HIDE DEF new
    <3> QED BY <2>1 DEF BankTable
  <2> QED BY <1>3, <2>2
<1> QED BY <1>1, <1>2, <1>3

LEMMA PrechargeCloses ==
  ASSUME NEW p, NEW r, NEW b, bankStates[r][b] \in BankTable
  PROVE  /\ ~(r = p.rank /\ b = p.bank) => Precharge(p, r, b) = bankStates[r][b]
         /\ r = p.rank /\ b = p.bank =>
              /\ Precharge(p, r, b).state = "Precharging" /\ Precharge(p, r, b).last = "PRECHARGE"
              /\ Precharge(p, r, b).nextPowerUp = bankStates[r][b].nextPowerUp
<1> DEFINE own == bankStates[r][b]
           new == Precharge(p, r, b)
<1>1. CASE ~(r = p.rank /\ b = p.bank)
  <2>1. <<r, b>> # <<p.rank, p.bank>>
    BY <1>1
  <2> QED BY <1>1, <2>1 DEF Precharge
<1>2. CASE r = p.rank /\ b = p.bank
  <2>1. new = [own EXCEPT !.state = "Precharging", !.last = "PRECHARGE", !.countdown = tRP,
                          !.nextActivate = Later(tRP, @)]
    BY <1>2 DEF Precharge
  <2>2. new.state = "Precharging" /\ new.last = "PRECHARGE" /\ new.nextPowerUp = own.nextPowerUp
    <3> HIDE DEF new
    <3> QED BY <2>1 DEF BankTable
  <2> QED BY <1>2, <2>2
<1> QED BY <1>1, <1>2

LEMMA RefreshFills ==
  ASSUME NEW p, NEW r, NEW b, bankStates[r][b] \in BankTable
  PROVE  /\ r # p.rank => Refresh(p, r, b) = bankStates[r][b]
         /\ r = p.rank =>
              /\ Refresh(p, r, b).state = "Refreshing" /\ Refresh(p, r, b).last = "REFRESH"
              /\ Refresh(p, r, b).nextPowerUp = bankStates[r][b].nextPowerUp
<1> DEFINE own == bankStates[r][b]
           new == Refresh(p, r, b)
<1>1. CASE r # p.rank
  BY <1>1 DEF Refresh
<1>2. CASE r = p.rank
  <2>1. new = [own EXCEPT !.state = "Refreshing", !.last = "REFRESH", !.countdown = tRFC,
                          !.nextActivate = tRFC]
    BY <1>2 DEF Refresh
  <2>2. new.state = "Refreshing" /\ new.last = "REFRESH" /\ new.nextPowerUp = own.nextPowerUp
    <3> HIDE DEF new
    <3> QED BY <2>1 DEF BankTable
  <2> QED BY <1>2, <2>2
<1> QED BY <1>1, <1>2

LEMMA AfterTyped ==
  ASSUME NEW p, NEW view \in BankTable, NEW b, p.type \in Commands, p.row \in Nat
  PROVE  /\ AfterCommand(p, view, b) \in BankTable
         /\ AfterCommand(p, view, b).nextPowerUp = view.nextPowerUp
<1> DEFINE v == AfterCommand(p, view, b)
           s == Spaced(p, view)
<1>1. s \in BankTable /\ s.nextPowerUp = view.nextPowerUp
      /\ s.nextPrecharge \in Timers /\ s.nextActivate \in Timers
  BY SpacedFields, BankFields
<1>2. PreAfter(p) \in Timers /\ ActAfter(p) \in Timers
  BY AfterFits
<1>3. {tRRD, tRC, tRP, tRAS, tRFC, tRCD - AL} \subseteq Timers
  BY DelaysFit DEF Delays
<1>4. view.nextActivate \in Timers
  BY BankFields
<1>5. "Idle" \in BankStates /\ "RowActive" \in BankStates
  BY DEF BankStates
<1>6. CASE p.type \in Columns
  <2>1. CASE b # p.bank
    <3>1. v = s
      BY <1>6, <2>1, AfterColumnCases
    <3>2. s \in BankTable /\ s.nextPowerUp = view.nextPowerUp
      BY <1>1
    <3> HIDE DEF v, s
    <3>3. v \in BankTable /\ v.nextPowerUp = view.nextPowerUp
      BY <3>1, <3>2
    <3> QED BY <3>3 DEF v
  <2>2. CASE b = p.bank /\ p.type \notin Autopre
    <3>1. v = [s EXCEPT !.nextPrecharge = Later(PreAfter(p), @)]
      BY <1>6, <2>2, AfterColumnCases
    <3>2. Later(PreAfter(p), s.nextPrecharge) \in Timers
      BY <1>1, <1>2, TimerArithmetic
    <3> HIDE DEF v, s
    <3>3. v \in BankTable /\ v.nextPowerUp = s.nextPowerUp
      BY <1>1, <3>1, <3>2 DEF BankTable
    <3> QED BY <1>1, <3>3 DEF v
  <2>3. CASE b = p.bank /\ p.type \in Autopre
    <3>1. v = [s EXCEPT !.state = "Idle", !.nextActivate = Later(ActAfter(p), @)]
      BY <1>6, <2>3, AfterColumnCases
    <3>2. Later(ActAfter(p), s.nextActivate) \in Timers
      BY <1>1, <1>2, TimerArithmetic
    <3> HIDE DEF v, s
    <3>3. v \in BankTable /\ v.nextPowerUp = s.nextPowerUp
      BY <1>1, <1>5, <3>1, <3>2 DEF BankTable
    <3> QED BY <1>1, <3>3 DEF v
  <2> QED BY <2>1, <2>2, <2>3
<1>7. CASE p.type = "ACTIVATE"
  <2>1. v = AfterActivate(p, view, b)
    BY <1>7 DEF AfterCommand, Columns, Reads, Writes
  <2>2. CASE b # p.bank
    <3>1. v = [view EXCEPT !.nextActivate = Later(tRRD, @)]
      BY <2>1, <2>2 DEF AfterActivate
    <3>2. Later(tRRD, view.nextActivate) \in Timers
      BY <1>3, <1>4, TimerArithmetic
    <3> HIDE DEF v
    <3>3. v \in BankTable /\ v.nextPowerUp = view.nextPowerUp
      BY <3>1, <3>2 DEF BankTable
    <3> QED BY <3>3 DEF v
  <2>3. CASE b = p.bank
    <3>1. v = [view EXCEPT !.state = "RowActive", !.row = p.row, !.nextActivate = tRC,
                           !.nextRead = tRCD - AL, !.nextWrite = tRCD - AL, !.nextPrecharge = tRAS]
      BY <2>1, <2>3 DEF AfterActivate
    <3> HIDE DEF v
    <3>2. v \in BankTable /\ v.nextPowerUp = view.nextPowerUp
      BY <1>3, <1>5, <3>1 DEF BankTable
    <3> QED BY <3>2 DEF v
  <2> QED BY <2>2, <2>3
<1>8. CASE p.type = "PRECHARGE"
  <2>1. v = AfterPrecharge(p, view, b)
    BY <1>8 DEF AfterCommand, Columns, Reads, Writes
  <2>2. CASE b # p.bank
    BY <2>1, <2>2 DEF AfterPrecharge
  <2>3. CASE b = p.bank
    <3>1. v = [view EXCEPT !.state = "Idle", !.nextActivate = Later(tRP, @)]
      BY <2>1, <2>3 DEF AfterPrecharge
    <3>2. Later(tRP, view.nextActivate) \in Timers
      BY <1>3, <1>4, TimerArithmetic
    <3> HIDE DEF v
    <3>3. v \in BankTable /\ v.nextPowerUp = view.nextPowerUp
      BY <1>5, <3>1, <3>2 DEF BankTable
    <3> QED BY <3>3 DEF v
  <2> QED BY <2>2, <2>3
<1>9. CASE p.type = "REFRESH"
  <2>1. v = [view EXCEPT !.nextActivate = tRFC]
    BY <1>9 DEF AfterCommand, Columns, Reads, Writes
  <2> HIDE DEF v
  <2>2. v \in BankTable /\ v.nextPowerUp = view.nextPowerUp
    BY <1>3, <2>1 DEF BankTable
  <2> QED BY <2>2 DEF v
<1>10. p.type \in Columns \/ p.type = "ACTIVATE" \/ p.type = "PRECHARGE" \/ p.type = "REFRESH"
  BY DEF Commands
<1> QED BY <1>6, <1>7, <1>8, <1>9, <1>10

\* Powering down and up, on both tables alike.
LEMMA DownAgrees ==
  ASSUME NEW own \in BankTable, NEW view \in BankTable, own.state = "Idle",
         Agree(TickedBank(own), TickedBank(view))
  PROVE  /\ PoweredDown(own) \in BankTable /\ PoweredDown(view) \in BankTable
         /\ Agree(TickedBank(PoweredDown(own)), TickedBank(PoweredDown(view)))
         /\ PoweredDown(own).state = "PowerDown" /\ PoweredDown(own).nextPowerUp = tCKE
         /\ PoweredDown(view).nextPowerUp = tCKE
<1> DEFINE o == PoweredDown(own)
           v == PoweredDown(view)
           to == TickedBank(o)
           tv == TickedBank(v)
           io == TickedBank(own)
           iv == TickedBank(view)
<1>1. tCKE \in Timers /\ "PowerDown" \in BankStates
  BY DelaysFit DEF Delays, BankStates
<1>2. /\ o \in BankTable /\ o.state = "PowerDown" /\ o.nextPowerUp = tCKE /\ o.last = own.last
      /\ o.countdown = own.countdown
      /\ o.nextActivate = own.nextActivate /\ o.nextPrecharge = own.nextPrecharge
  BY <1>1 DEF PoweredDown, BankTable
<1>3. /\ v \in BankTable /\ v.state = "PowerDown" /\ v.nextPowerUp = tCKE
      /\ v.nextActivate = view.nextActivate /\ v.nextPrecharge = view.nextPrecharge
  BY <1>1 DEF PoweredDown, BankTable
<1>4. /\ to.state = "PowerDown" /\ to.nextPowerUp = Ticked(tCKE) /\ to.last = io.last
      /\ to.countdown = io.countdown
      /\ to.nextActivate = io.nextActivate /\ to.nextPrecharge = io.nextPrecharge
      /\ io.state = "Idle"
  <2> HIDE DEF o
  <2> QED BY <1>2, TickedFields
<1>5. /\ tv.state = "PowerDown" /\ tv.nextPowerUp = Ticked(tCKE)
      /\ tv.nextActivate = iv.nextActivate /\ tv.nextPrecharge = iv.nextPrecharge
  <2> HIDE DEF v
  <2> QED BY <1>3, TickedFields
<1>6. Agree(io, iv)
  OBVIOUS
<1> HIDE DEF o, v, to, tv, io, iv
<1>7. Later1(to, tv)
  BY <1>4, <1>5, <1>6 DEF Agree, Later1
<1>8. SameState(to, tv) /\ Settling(to)
  BY <1>4, <1>5, <1>6 DEF Agree, SameState, Settling
<1>9. Agree(to, tv)
  BY <1>7, <1>8 DEF Agree
<1> QED BY <1>2, <1>3, <1>9 DEF o, v, to, tv

LEMMA UpAgrees ==
  ASSUME NEW own \in BankTable, NEW view \in BankTable, own.state = "PowerDown",
         Agree(TickedBank(own), TickedBank(view)), own.nextPowerUp = view.nextPowerUp
  PROVE  /\ PoweredUp(own) \in BankTable /\ PoweredUp(view) \in BankTable
         /\ Agree(TickedBank(PoweredUp(own)), TickedBank(PoweredUp(view)))
         /\ PoweredUp(own).state = "Idle" /\ PoweredUp(own).nextPowerUp = own.nextPowerUp
         /\ PoweredUp(view).nextPowerUp = own.nextPowerUp
<1> DEFINE o == PoweredUp(own)
           v == PoweredUp(view)
           to == TickedBank(o)
           tv == TickedBank(v)
           io == TickedBank(own)
           iv == TickedBank(view)
<1>1. tXP \in Timers /\ "Idle" \in BankStates
  BY DelaysFit DEF Delays, BankStates
<1>2. /\ o \in BankTable /\ o.state = "Idle" /\ o.nextPowerUp = own.nextPowerUp /\ o.last = own.last
      /\ o.countdown = own.countdown /\ o.nextActivate = tXP /\ o.nextPrecharge = own.nextPrecharge
  BY <1>1 DEF PoweredUp, BankTable
<1>3. /\ v \in BankTable /\ v.state = "Idle" /\ v.nextPowerUp = view.nextPowerUp
      /\ v.nextActivate = tXP /\ v.nextPrecharge = view.nextPrecharge
  BY <1>1 DEF PoweredUp, BankTable
<1>4. /\ to.state = "Idle" /\ to.nextPowerUp = io.nextPowerUp /\ to.last = io.last
      /\ to.countdown = io.countdown
      /\ to.nextActivate = Ticked(tXP) /\ to.nextPrecharge = io.nextPrecharge
      /\ io.state = "PowerDown"
  <2> HIDE DEF o
  <2> QED BY <1>2, TickedFields
<1>5. /\ tv.state = "Idle" /\ tv.nextPowerUp = iv.nextPowerUp
      /\ tv.nextActivate = Ticked(tXP) /\ tv.nextPrecharge = iv.nextPrecharge
  <2> HIDE DEF v
  <2> QED BY <1>3, TickedFields
<1>6. Agree(io, iv)
  OBVIOUS
<1>7. Ticked(tXP) \in Nat
  BY <1>1, DelaysFit, TimerArithmetic
<1> HIDE DEF o, v, to, tv, io, iv
<1>8. Later1(to, tv)
  BY <1>4, <1>5, <1>6, <1>7 DEF Agree, Later1
<1>9. SameState(to, tv) /\ Settling(to)
  BY <1>4, <1>5, <1>6 DEF Agree, SameState, Settling
<1>10. Agree(to, tv)
  BY <1>8, <1>9 DEF Agree
<1> QED BY <1>2, <1>3, <1>10 DEF o, v, to, tv

-----------------------------------------------------------------------------
(* A queue of commands.                                                    *)

\* A new queue has some of the commands of the old one, in their order;
\* fresh is the column command that has lost its activate.
Thinned(new, q, f, fresh) ==
  /\ f \in [1..Len(new) -> 1..Len(q)]
  /\ \A j, k \in 1..Len(new) : j < k => f[j] < f[k]
  /\ \A j \in 1..Len(new) : new[j] = q[f[j]]
  /\ \A j \in 1..Len(new) : Lone(new, j) => Lone(q, f[j]) \/ j = fresh
  /\ \A j \in 1..Len(new) : new[j].type = "ACTIVATE" => j + 1 \in 1..Len(new) /\ f[j + 1] = f[j] + 1
  /\ \A j \in 1..Len(new) : j = fresh =>
       /\ \A k \in 1..Len(q) : Lone(q, k) => q[k].bank # new[j].bank
       /\ \A k \in 1..(j - 1) : ~Alike(new[k], new[j])

LEMMA ThinnedKeeps ==
  ASSUME NEW q \in Seq(Packets), NEW new \in Seq(Packets), NEW f, NEW fresh,
         Thinned(new, q, f, fresh), Coupled(q), First(q)
  PROVE  Coupled(new) /\ First(new)
<1>1. Len(q) \in Nat /\ Len(new) \in Nat
  OBVIOUS
<1>2. \A j \in 1..Len(new) : f[j] \in 1..Len(q) /\ new[j] = q[f[j]]
  BY DEF Thinned
<1>3. Coupled(new)
  <2> SUFFICES ASSUME NEW j \in 1..Len(new), new[j].type = "ACTIVATE"
               PROVE  j + 1 \in 1..Len(new) /\ Couple(new[j], new[j + 1])
    BY DEF Coupled
  <2>1. j + 1 \in 1..Len(new) /\ f[j + 1] = f[j] + 1
    BY DEF Thinned
  <2>2. Couple(q[f[j]], q[f[j] + 1])
    BY <1>2 DEF Coupled
  <2> QED BY <1>2, <2>1, <2>2
<1>4. First(new)
  <2> SUFFICES ASSUME NEW i \in 1..Len(new), Lone(new, i)
               PROVE  /\ \A j \in 1..Len(new) : Lone(new, j) /\ new[j].bank = new[i].bank => i = j
                      /\ \A j \in 1..(i - 1) : ~Alike(new[j], new[i])
    BY DEF First
  <2>1. \A j \in 1..Len(new) : Lone(new, j) => Lone(q, f[j]) \/ j = fresh
    BY DEF Thinned
  <2>2. \A j, k \in 1..Len(new) : j < k => f[j] < f[k]
    BY DEF Thinned
  <2>3. CASE i = fresh
    <3>1. \A k \in 1..Len(q) : Lone(q, k) => q[k].bank # new[i].bank
      BY <2>3 DEF Thinned
    <3>2. \A k \in 1..(i - 1) : ~Alike(new[k], new[i])
      BY <2>3 DEF Thinned
    <3>3. ASSUME NEW j \in 1..Len(new), Lone(new, j), new[j].bank = new[i].bank
          PROVE  i = j
      BY <1>2, <2>1, <2>3, <3>1, <3>3
    <3> QED BY <3>2, <3>3
  <2>4. CASE i # fresh
    <3>1. Lone(q, f[i])
      BY <2>1, <2>4
    <3>2. ASSUME NEW j \in 1..Len(new), Lone(new, j), new[j].bank = new[i].bank
          PROVE  i = j
      <4>1. j # fresh
        BY <1>2, <3>1, <3>2 DEF Thinned
      <4>2. Lone(q, f[j])
        BY <2>1, <3>2, <4>1
      <4>3. f[i] = f[j]
        BY <1>2, <3>1, <3>2, <4>2 DEF First
      <4>4. ~(i < j) /\ ~(j < i)
        BY <1>1, <1>2, <2>2, <4>3
      <4> QED BY <1>1, <4>4
    <3>3. ASSUME NEW j \in 1..(i - 1)
          PROVE  ~Alike(new[j], new[i])
      <4>1. j \in 1..Len(new) /\ j < i
        BY <1>1
      <4>2. f[j] < f[i]
        BY <2>2, <4>1
      <4>3. f[j] \in 1..(f[i] - 1)
        BY <1>2, <4>1, <4>2
      <4>4. ~Alike(q[f[j]], q[f[i]])
        BY <1>2, <3>1, <3>3, <4>3 DEF First
      <4> QED BY <1>2, <4>1, <4>4
    <3> QED BY <3>2, <3>3
  <2> QED BY <2>3, <2>4
<1> QED BY <1>3, <1>4

\* The commands of a new queue are those of the old one, and so are the
\* column commands on their own, but for the one at place gone.
From(new, q, gone) ==
  /\ \A j \in 1..Len(new) : \E k \in 1..Len(q) : new[j] = q[k]
  /\ \A j \in 1..Len(new) : Lone(new, j) => \E k \in 1..Len(q) : Lone(q, k) /\ k # gone /\ new[j] = q[k]

LEMMA DropLone ==
  ASSUME NEW q \in Seq(Packets), Coupled(q), First(q), NEW i \in 1..Len(q), Lone(q, i)
  PROVE  /\ RemoveAt(q, i) \in Seq(Packets) /\ Len(RemoveAt(q, i)) <= Len(q)
         /\ Coupled(RemoveAt(q, i)) /\ First(RemoveAt(q, i)) /\ From(RemoveAt(q, i), q, i)
<1> DEFINE new == RemoveAt(q, i)
           f == [j \in 1..Len(new) |-> IF j < i THEN j ELSE j + 1]
<1>1. Len(q) \in Nat
  OBVIOUS
<1>2. /\ new \in Seq(Packets) /\ Len(new) = Len(q) - 1
      /\ \A j \in 1..(Len(q) - 1) : new[j] = IF j < i THEN q[j] ELSE q[j + 1]
  BY RemovedAt
<1>3. Len(new) \in Nat /\ Len(new) <= Len(q)
  BY <1>1, <1>2
<1> HIDE DEF new
<1>4. f \in [1..Len(new) -> 1..Len(q)]
  BY <1>1, <1>2, <1>3
<1>5. \A j \in 1..Len(new) : f[j] = (IF j < i THEN j ELSE j + 1) /\ new[j] = q[f[j]]
  BY <1>1, <1>2, <1>3
<1> HIDE DEF f
<1>6. q[i].type # "ACTIVATE"
  BY DEF Lone, Columns, Reads, Writes
<1>7. ASSUME NEW j \in 1..Len(new), Lone(new, j) PROVE Lone(q, f[j]) /\ f[j] # i
  <2>1. f[j] \in 1..Len(q) /\ q[f[j]].type \in Columns /\ f[j] # i
    BY <1>1, <1>4, <1>5, <1>7 DEF Lone
  <2>2. ~Paired(new, j)
    BY <1>7 DEF Lone
  <2>3. ~Paired(q, f[j])
    <3>1. CASE j = i
      BY <1>1, <1>5, <1>6, <3>1 DEF Paired
    <3>2. CASE j # i
      <4>1. j > 1 => j - 1 \in 1..Len(new) /\ f[j - 1] = f[j] - 1 /\ new[j - 1] = q[f[j - 1]]
        BY <1>1, <1>3, <1>5, <3>2
      <4>2. j = 1 => f[j] = 1
        BY <1>5, <3>2
      <4> QED BY <1>3, <2>2, <4>1, <4>2 DEF Paired
    <3> QED BY <3>1, <3>2
  <2> QED BY <2>1, <2>3 DEF Lone
<1>8. ASSUME NEW j \in 1..Len(new), new[j].type = "ACTIVATE"
      PROVE  j + 1 \in 1..Len(new) /\ f[j + 1] = f[j] + 1
  <2>1. f[j] \in 1..Len(q) /\ q[f[j]].type = "ACTIVATE"
    BY <1>4, <1>5, <1>8
  <2>2. f[j] + 1 \in 1..Len(q)
    BY <2>1 DEF Coupled
  <2>3. f[j] + 1 # i
    BY <1>1, <2>1 DEF Lone, Paired
  <2>4. j + 1 \in 1..Len(new)
    BY <1>1, <1>2, <1>3, <1>5, <2>2, <2>3
  <2>5. f[j + 1] = f[j] + 1
    BY <1>1, <1>3, <1>5, <2>3, <2>4
  <2> QED BY <2>4, <2>5
<1>9. Thinned(new, q, f, 0)
  <2>1. \A j, k \in 1..Len(new) : j < k => f[j] < f[k]
    BY <1>1, <1>3, <1>5
  <2>2. \A j \in 1..Len(new) : j # 0
    BY <1>3
  <2> QED BY <1>4, <1>5, <1>7, <1>8, <2>1, <2>2 DEF Thinned
<1>10. From(new, q, i)
  BY <1>4, <1>5, <1>7 DEF From
<1>11. Coupled(new) /\ First(new)
  BY <1>2, <1>9, ThinnedKeeps
<1> QED BY <1>2, <1>3, <1>10, <1>11 DEF new

LEMMA DropPair ==
  ASSUME NEW q \in Seq(Packets), Coupled(q), First(q), NEW i \in 1..Len(q), Paired(q, i)
  PROVE  /\ RemoveAt(RemoveAt(q, i), i - 1) \in Seq(Packets) /\ Len(RemoveAt(RemoveAt(q, i), i - 1)) <= Len(q)
         /\ Coupled(RemoveAt(RemoveAt(q, i), i - 1)) /\ First(RemoveAt(RemoveAt(q, i), i - 1))
         /\ From(RemoveAt(RemoveAt(q, i), i - 1), q, i)
<1> DEFINE half == RemoveAt(q, i)
           new == RemoveAt(half, i - 1)
           f == [j \in 1..Len(new) |-> IF j < i - 1 THEN j ELSE j + 2]
<1>1. Len(q) \in Nat /\ i > 1 /\ i - 1 \in 1..Len(q) /\ q[i - 1].type = "ACTIVATE"
  BY DEF Paired
<1>2. /\ half \in Seq(Packets) /\ Len(half) = Len(q) - 1
      /\ \A j \in 1..(Len(q) - 1) : half[j] = IF j < i THEN q[j] ELSE q[j + 1]
  BY RemovedAt
<1> HIDE DEF half
<1>3. i - 1 \in 1..Len(half)
  BY <1>1, <1>2
<1>4. /\ new \in Seq(Packets) /\ Len(new) = Len(half) - 1
      /\ \A j \in 1..(Len(half) - 1) : new[j] = IF j < i - 1 THEN half[j] ELSE half[j + 1]
  BY <1>2, <1>3, RemovedAt
<1>5. Len(new) \in Nat /\ Len(new) = Len(q) - 2 /\ Len(new) <= Len(q)
  BY <1>1, <1>2, <1>3, <1>4
<1> HIDE DEF new
<1>6. f \in [1..Len(new) -> 1..Len(q)]
  BY <1>1, <1>5
<1>7. \A j \in 1..Len(new) : f[j] = (IF j < i - 1 THEN j ELSE j + 2)
  OBVIOUS
<1> HIDE DEF f
<1>8. \A j \in 1..Len(new) : new[j] = q[f[j]]
  <2> TAKE j \in 1..Len(new)
  <2>1. j \in 1..(Len(half) - 1) /\ j \in 1..(Len(q) - 1) /\ j + 1 \in 1..(Len(q) - 1)
    BY <1>1, <1>2, <1>5
  <2>2. CASE j < i - 1
    BY <1>1, <1>2, <1>4, <1>7, <2>1, <2>2
  <2>3. CASE ~(j < i - 1)
    BY <1>1, <1>2, <1>4, <1>7, <2>1, <2>3
  <2> QED BY <2>2, <2>3
<1>9. q[i].type \in Columns /\ q[i].type # "ACTIVATE"
  <2>1. i = (i - 1) + 1
    BY <1>1
  <2>2. Couple(q[i - 1], q[i])
    BY <1>1, <2>1 DEF Coupled
  <2> QED BY <2>2 DEF Couple, Columns, Reads, Writes
<1>10. i - 2 \in 1..Len(q) => q[i - 2].type # "ACTIVATE"
  <2>1. ASSUME i - 2 \in 1..Len(q), q[i - 2].type = "ACTIVATE" PROVE FALSE
    <3>1. i - 1 = (i - 2) + 1
      BY <1>1
    <3>2. Couple(q[i - 2], q[(i - 2) + 1])
      BY <2>1 DEF Coupled
    <3>3. q[i - 1].type \in Columns
      BY <3>1, <3>2 DEF Couple
    <3> QED BY <1>1, <3>3 DEF Columns, Reads, Writes
  <2> QED BY <2>1
<1>11. ASSUME NEW j \in 1..Len(new), Lone(new, j) PROVE Lone(q, f[j]) /\ f[j] # i
  <2>1. f[j] \in 1..Len(q) /\ q[f[j]].type \in Columns /\ f[j] # i
    <3>1. f[j] \in 1..Len(q) /\ new[j] = q[f[j]] /\ new[j].type \in Columns
      BY <1>6, <1>8, <1>11 DEF Lone
    <3>2. f[j] # i
      BY <1>1, <1>7
    <3> QED BY <3>1, <3>2
  <2>2. ~Paired(new, j)
    BY <1>11 DEF Lone
  <2>3. ~Paired(q, f[j])
    <3>1. CASE j = i - 1
      <4>1. f[j] - 1 = i
        BY <1>1, <1>7, <3>1
      <4> QED BY <1>9, <4>1 DEF Paired
    <3>2. CASE j # i - 1
      <4>1. j > 1 => j - 1 \in 1..Len(new) /\ f[j - 1] = f[j] - 1
        BY <1>1, <1>5, <1>7, <3>2
      <4>2. j = 1 => f[j] = 1
        BY <1>1, <1>7, <3>2
      <4>3. j > 1 => new[j - 1] = q[f[j] - 1]
        BY <1>8, <4>1
      <4> QED BY <1>5, <2>2, <4>2, <4>3 DEF Paired
    <3> QED BY <3>1, <3>2
  <2> QED BY <2>1, <2>3 DEF Lone
<1>12. ASSUME NEW j \in 1..Len(new), new[j].type = "ACTIVATE"
      PROVE  j + 1 \in 1..Len(new) /\ f[j + 1] = f[j] + 1
  <2>1. f[j] \in 1..Len(q) /\ q[f[j]].type = "ACTIVATE"
    BY <1>6, <1>8, <1>12
  <2>2. f[j] + 1 \in 1..Len(q)
    BY <2>1 DEF Coupled
  <2>3. f[j] # i - 2
    BY <1>1, <1>10, <2>1
  <2>4. f[j] = IF j < i - 1 THEN j ELSE j + 2
    BY <1>7
  <2>5. i \in Int /\ j \in Int /\ Len(q) \in Nat
    BY <1>1
  <2>6. j + 1 \in 1..Len(new)
    <3>1. CASE j < i - 1
      <4>1. j # i - 2
        BY <2>3, <2>4, <3>1
      <4>2. 1 <= j /\ j < i - 2 /\ i <= Len(q) /\ Len(new) = Len(q) - 2
        BY <1>1, <1>5, <2>5, <3>1, <4>1
      <4> QED BY <2>5, <4>2
    <3>2. CASE ~(j < i - 1)
      BY <1>5, <2>2, <2>4, <2>5, <3>2
    <3> QED BY <3>1, <3>2
  <2>7. f[j + 1] = IF j + 1 < i - 1 THEN j + 1 ELSE j + 3
    BY <1>7, <2>5, <2>6
  <2>8. f[j + 1] = f[j] + 1
    BY <2>3, <2>4, <2>5, <2>7
  <2> QED BY <2>6, <2>8
<1>13. Thinned(new, q, f, 0)
  <2>1. ASSUME NEW j \in 1..Len(new), NEW k \in 1..Len(new), j < k PROVE f[j] < f[k]
    <3>1. j \in Int /\ k \in Int /\ i \in Int
      BY <1>1, <1>5
    <3>2. f[j] = (IF j < i - 1 THEN j ELSE j + 2) /\ f[k] = (IF k < i - 1 THEN k ELSE k + 2)
      BY <1>7
    <3> QED BY <2>1, <3>1, <3>2
  <2>2. \A j \in 1..Len(new) : j # 0
    BY <1>5
  <2> QED BY <1>6, <1>8, <1>11, <1>12, <2>1, <2>2 DEF Thinned
<1>14. From(new, q, i)
  BY <1>6, <1>8, <1>11 DEF From
<1>15. Coupled(new) /\ First(new)
  BY <1>4, <1>13, ThinnedKeeps
<1> QED BY <1>4, <1>5, <1>14, <1>15 DEF new, half

\* The column command of an activate that is issued is on its own.
LEMMA DropActivate ==
  ASSUME NEW q \in Seq(Packets), Coupled(q), First(q), NEW i \in 1..Len(q), q[i].type = "ACTIVATE",
         \A k \in 1..Len(q) : Lone(q, k) => q[k].bank # q[i].bank,
         ~Dependent(q, i)
  PROVE  /\ RemoveAt(q, i) \in Seq(Packets) /\ Len(RemoveAt(q, i)) <= Len(q)
         /\ Coupled(RemoveAt(q, i)) /\ First(RemoveAt(q, i))
         /\ \A j \in 1..Len(RemoveAt(q, i)) : \E k \in 1..Len(q) : RemoveAt(q, i)[j] = q[k]
         /\ \A j \in 1..Len(RemoveAt(q, i)) : Lone(RemoveAt(q, i), j) =>
              \/ \E k \in 1..Len(q) : Lone(q, k) /\ RemoveAt(q, i)[j] = q[k]
              \/ Couple(q[i], RemoveAt(q, i)[j])
<1> DEFINE new == RemoveAt(q, i)
           f == [j \in 1..Len(new) |-> IF j < i THEN j ELSE j + 1]
<1>1. Len(q) \in Nat
  OBVIOUS
<1>2. /\ new \in Seq(Packets) /\ Len(new) = Len(q) - 1
      /\ \A j \in 1..(Len(q) - 1) : new[j] = IF j < i THEN q[j] ELSE q[j + 1]
  BY RemovedAt
<1>3. Len(new) \in Nat /\ Len(new) <= Len(q)
  BY <1>1, <1>2
<1> HIDE DEF new
<1>4. f \in [1..Len(new) -> 1..Len(q)]
  BY <1>1, <1>2, <1>3
<1>5. \A j \in 1..Len(new) : f[j] = (IF j < i THEN j ELSE j + 1) /\ new[j] = q[f[j]]
  BY <1>1, <1>2, <1>3
<1> HIDE DEF f
<1>6. i + 1 \in 1..Len(q) /\ Couple(q[i], q[i + 1])
  BY DEF Coupled
<1>7. ASSUME NEW j \in 1..Len(new), Lone(new, j), j # i PROVE Lone(q, f[j])
  <2>1. f[j] \in 1..Len(q) /\ q[f[j]].type \in Columns
    BY <1>4, <1>5, <1>7 DEF Lone
  <2>2. ~Paired(new, j)
    BY <1>7 DEF Lone
  <2>3. j > 1 => j - 1 \in 1..Len(new) /\ f[j - 1] = f[j] - 1 /\ new[j - 1] = q[f[j - 1]]
    BY <1>1, <1>3, <1>5, <1>7
  <2>4. j = 1 => f[j] = 1
    BY <1>5, <1>7
  <2>5. ~Paired(q, f[j])
    BY <1>3, <2>2, <2>3, <2>4 DEF Paired
  <2> QED BY <2>1, <2>5 DEF Lone
<1>8. ASSUME NEW j \in 1..Len(new), new[j].type = "ACTIVATE"
      PROVE  j + 1 \in 1..Len(new) /\ f[j + 1] = f[j] + 1
  <2>1. f[j] \in 1..Len(q) /\ q[f[j]].type = "ACTIVATE"
    BY <1>4, <1>5, <1>8
  <2>2. f[j] + 1 \in 1..Len(q) /\ Couple(q[f[j]], q[f[j] + 1])
    BY <2>1 DEF Coupled
  <2>3. f[j] + 1 # i
    BY <2>2 DEF Couple, Columns, Reads, Writes
  <2>4. j + 1 \in 1..Len(new)
    BY <1>1, <1>2, <1>3, <1>5, <2>2, <2>3
  <2>5. f[j + 1] = f[j] + 1
    BY <1>1, <1>3, <1>5, <2>3, <2>4
  <2> QED BY <2>4, <2>5
<1>9. i \in 1..Len(new) /\ f[i] = i + 1 /\ new[i] = q[i + 1]
  BY <1>1, <1>2, <1>3, <1>5, <1>6
<1>10. new[i].bank = q[i].bank /\ new[i].row = q[i].row
  BY <1>6, <1>9 DEF Couple
<1>11. ASSUME NEW k \in 1..(i - 1) PROVE ~Alike(new[k], new[i])
  <2>0. k \in Int /\ 1 <= k /\ k < i /\ i \in 1..Len(new)
    BY <1>9, <1>11
  <2>1. k \in 1..Len(new) /\ k \in 1..Len(q) /\ new[k] = q[k]
    <3>1. k \in 1..Len(new) /\ k \in 1..Len(q)
      BY <1>1, <1>3, <2>0
    <3> QED BY <1>5, <2>0, <3>1
  <2>2. CASE q[k].type # "ACTIVATE"
    BY <1>10, <1>11, <2>1, <2>2 DEF Dependent, Alike
  <2>3. CASE q[k].type = "ACTIVATE"
    <3>1. k + 1 \in 1..Len(q) /\ Couple(q[k], q[k + 1])
      BY <2>1, <2>3 DEF Coupled
    <3>2. k + 1 # i
      BY <3>1 DEF Couple, Columns, Reads, Writes
    <3>3. k + 1 \in 1..(i - 1) /\ q[k + 1].type # "ACTIVATE"
      BY <1>1, <3>1, <3>2 DEF Couple, Columns, Reads, Writes
    <3>4. ~(q[k + 1].bank = q[i].bank /\ q[k + 1].row = q[i].row)
      BY <1>11, <3>3 DEF Dependent
    <3> QED BY <1>10, <2>1, <3>1, <3>4 DEF Couple, Alike
  <2> QED BY <2>2, <2>3
<1>12. Thinned(new, q, f, i)
  <2>1. \A j, k \in 1..Len(new) : j < k => f[j] < f[k]
    BY <1>1, <1>3, <1>5
  <2>2. \A k \in 1..Len(q) : Lone(q, k) => q[k].bank # new[i].bank
    BY <1>10
  <2> QED BY <1>4, <1>5, <1>7, <1>8, <1>11, <2>1, <2>2 DEF Thinned
<1>13. Coupled(new) /\ First(new)
  BY <1>2, <1>12, ThinnedKeeps
<1>14. \A j \in 1..Len(new) : \E k \in 1..Len(q) : new[j] = q[k]
  BY <1>4, <1>5
<1>15. ASSUME NEW j \in 1..Len(new), Lone(new, j)
       PROVE  \/ \E k \in 1..Len(q) : Lone(q, k) /\ new[j] = q[k]
              \/ Couple(q[i], new[j])
  <2>1. CASE j = i
    BY <1>6, <1>9, <2>1
  <2>2. CASE j # i
    BY <1>4, <1>5, <1>7, <1>15, <2>2
  <2> QED BY <2>1, <2>2
<1> QED BY <1>2, <1>3, <1>13, <1>14, <1>15 DEF new

LEMMA AddPair ==
  ASSUME NEW q \in Seq(Packets), Coupled(q), First(q), NEW p1 \in Packets, NEW p2 \in Packets, Couple(p1, p2)
  PROVE  /\ q \o <<p1, p2>> \in Seq(Packets) /\ Len(q \o <<p1, p2>>) = Len(q) + 2
         /\ Coupled(q \o <<p1, p2>>) /\ First(q \o <<p1, p2>>)
         /\ \A j \in 1..Len(q \o <<p1, p2>>) : (q \o <<p1, p2>>)[j] \in {p1, p2} \/ \E k \in 1..Len(q) : (q \o <<p1, p2>>)[j] = q[k]
         /\ \A j \in 1..Len(q \o <<p1, p2>>) : Lone(q \o <<p1, p2>>, j) => Lone(q, j) /\ (q \o <<p1, p2>>)[j] = q[j]
<1> DEFINE new == q \o <<p1, p2>>
<1>1. Len(q) \in Nat /\ <<p1, p2>> \in Seq(Packets) /\ Len(<<p1, p2>>) = 2
  OBVIOUS
<1>2. /\ new \in Seq(Packets) /\ Len(new) = Len(q) + 2
      /\ \A j \in 1..(Len(q) + 2) : new[j] = IF j <= Len(q) THEN q[j] ELSE <<p1, p2>>[j - Len(q)]
  BY <1>1, ConcatProperties
<1>3. new[Len(q) + 1] = p1 /\ new[Len(q) + 2] = p2 /\ \A j \in 1..Len(q) : new[j] = q[j]
  BY <1>1, <1>2
<1>4. \A j \in 1..Len(new) : j \in 1..Len(q) \/ j = Len(q) + 1 \/ j = Len(q) + 2
  BY <1>1, <1>2
<1> HIDE DEF new
<1>5. ASSUME NEW j \in 1..Len(new), Lone(new, j) PROVE Lone(q, j) /\ new[j] = q[j]
  <2>1. j # Len(q) + 1
    BY <1>3, <1>5 DEF Lone, Couple, Columns, Reads, Writes
  <2>2. j # Len(q) + 2
    <3>1. Len(q) + 2 > 1 /\ Len(q) + 2 - 1 = Len(q) + 1
      BY <1>1
    <3> QED BY <1>3, <1>5, <3>1 DEF Lone, Couple, Paired
  <2>3. j \in 1..Len(q)
    BY <1>4, <2>1, <2>2
  <2>4. j > 1 => j - 1 \in 1..Len(q)
    BY <1>1, <2>3
  <2> QED BY <1>3, <1>5, <2>3, <2>4 DEF Lone, Paired
<1>6. Coupled(new)
  <2> SUFFICES ASSUME NEW j \in 1..Len(new), new[j].type = "ACTIVATE"
               PROVE  j + 1 \in 1..Len(new) /\ Couple(new[j], new[j + 1])
    BY DEF Coupled
  <2>1. CASE j \in 1..Len(q)
    <3>1. j + 1 \in 1..Len(q) /\ Couple(q[j], q[j + 1])
      BY <1>3, <2>1 DEF Coupled
    <3>2. j + 1 \in 1..Len(new)
      BY <1>1, <1>2, <3>1
    <3> QED BY <1>3, <2>1, <3>1, <3>2
  <2>2. CASE j = Len(q) + 1
    <3>1. j + 1 = Len(q) + 2 /\ j + 1 \in 1..Len(new)
      BY <1>1, <1>2, <2>2
    <3> QED BY <1>3, <2>2, <3>1
  <2>3. j # Len(q) + 2
    BY <1>3 DEF Couple, Columns, Reads, Writes
  <2> QED BY <1>4, <2>1, <2>2, <2>3
<1>7. First(new)
  <2> SUFFICES ASSUME NEW i \in 1..Len(new), Lone(new, i)
               PROVE  /\ \A j \in 1..Len(new) : Lone(new, j) /\ new[j].bank = new[i].bank => i = j
                      /\ \A j \in 1..(i - 1) : ~Alike(new[j], new[i])
    BY DEF First
  <2>1. Lone(q, i) /\ new[i] = q[i] /\ i \in 1..Len(q)
    BY <1>5 DEF Lone
  <2>2. ASSUME NEW j \in 1..Len(new), Lone(new, j), new[j].bank = new[i].bank PROVE i = j
    <3>1. Lone(q, j) /\ new[j] = q[j] /\ j \in 1..Len(q)
      BY <1>5, <2>2 DEF Lone
    <3> QED BY <2>1, <2>2, <3>1 DEF First
  <2>3. ASSUME NEW j \in 1..(i - 1) PROVE ~Alike(new[j], new[i])
    <3>1. j \in 1..Len(q) /\ new[j] = q[j]
      BY <1>1, <1>3, <2>1
    <3> QED BY <2>1, <2>3, <3>1 DEF First
  <2> QED BY <2>2, <2>3
<1>8. ASSUME NEW j \in 1..Len(new) PROVE new[j] \in {p1, p2} \/ \E k \in 1..Len(q) : new[j] = q[k]
  BY <1>3, <1>4
<1> QED BY <1>2, <1>5, <1>6, <1>7, <1>8 DEF new

-----------------------------------------------------------------------------
(* The actions on the two tables.                                          *)

LEMMA FirstBank == 0 \in Banks /\ 0 \in Ranks
BY MappingAssumption DEF Banks, Ranks

\* What the rank sees of its banks when p gets there.
Arriving(p) == [b \in Banks |-> TickedBank(rankBanks[p.rank][b])]

\* The controller's banks, one cycle on, agree with the rank's once p has arrived.
AgreeAfter(p, banks) ==
  \A r \in Ranks, b \in Banks :
    Agree(TickedBank(banks[r][b]),
          IF r = p.rank THEN AfterCommand(p, TickedBank(rankBanks[r][b]), b) ELSE TickedBank(rankBanks[r][b]))

\* A command neither puts a bank to sleep nor wakes it up.
SleepKept(banks) ==
  \A r \in Ranks, b \in Banks :
    /\ banks[r][b].state = "PowerDown" <=> bankStates[r][b].state = "PowerDown"
    /\ banks[r][b].nextPowerUp = bankStates[r][b].nextPowerUp

\* A command takes both tables along.
LEMMA IssueTables ==
  ASSUME NEW p \in Packets, TablesInv, Sent(p), bankStates' \in Table, AgreeAfter(p, bankStates'),
         Allows(Arriving(p), p), bankStates'[p.rank][p.bank].state \in Busy, SleepKept(bankStates')
  PROVE  TablesInv'
<1>1. /\ phase' = "finish" /\ cmdBus' = <<p>> /\ rankBanks' = rankBanks
      /\ isPowerDown' = isPowerDown /\ powerDown' = powerDown
  BY DEF Sent, rankVars
<1>2. cmdBus' # <<>> /\ cmdBus'[1] = p /\ cmdBus' \in Seq(Packets) /\ Len(cmdBus') = 1
  BY <1>1
<1>3. \A r \in Ranks, b \in Banks :
        /\ Own(r, b)' = TickedBank(bankStates'[r][b])
        /\ Seen(r, b)' = TickedBank(rankBanks[r][b])
  BY <1>1 DEF Own, Seen, Clocked
<1>4. \A r \in Ranks, b \in Banks :
        View(r, b)' = IF r = p.rank THEN AfterCommand(p, TickedBank(rankBanks[r][b]), b) ELSE TickedBank(rankBanks[r][b])
  BY <1>2, <1>3 DEF View
<1>5. BankInv'
  <2>1. bankStates' \in Table /\ rankBanks' \in Table
    BY <1>1 DEF TablesInv, BankInv
  <2>2. ASSUME NEW r \in Ranks, NEW b \in Banks PROVE Agree(Own(r, b), View(r, b))'
    <3>1. /\ Own(r, b)' = TickedBank(bankStates'[r][b])
          /\ View(r, b)' = IF r = p.rank THEN AfterCommand(p, TickedBank(rankBanks[r][b]), b)
                           ELSE TickedBank(rankBanks[r][b])
      BY <1>3, <1>4
    <3>2. Agree(Own(r, b)', View(r, b)')
      BY <3>1 DEF AgreeAfter
    <3> QED BY <3>2 DEF Agree, SameState, Settling, Later1
  <2> QED BY <2>1, <2>2 DEF BankInv
<1>6. p.rank \in Ranks
  BY DEF Packets
<1>7. [b \in Banks |-> Seen(p.rank, b)'] = Arriving(p)
  BY <1>3, <1>6 DEF Arriving
<1>8. CommandInv'
  <2>1. Allows([b \in Banks |-> Seen(cmdBus[1].rank, b)], cmdBus[1])'
    <3> DEFINE sight == [b \in Banks |-> Seen(cmdBus[1].rank, b)]
               top == cmdBus[1]
    <3>1. top' = p
      BY <1>2
    <3>2. sight' = Arriving(p)
      BY <1>1, <1>2 DEF Seen, Clocked, Arriving
    <3> HIDE DEF sight, top
    <3>3. Allows(sight', top')
      BY <3>1, <3>2
    <3>4. Allows(sight, top)'
      BY <3>3 DEF Allows
    <3> QED BY <3>4 DEF sight, top
  <2>2. phase' \in Phases /\ phase' # "issue"
    BY <1>1 DEF Phases
  <2> QED BY <1>2, <2>1, <2>2 DEF CommandInv
<1>9. PowerInv'
  BY <1>1, FirstBank DEF TablesInv, PowerInv, SleepKept
<1> QED BY <1>5, <1>8, <1>9 DEF TablesInv

LEMMA AtIssue ==
  ASSUME TablesInv, phase = "issue"
  PROVE  \A r \in Ranks, b \in Banks :
           /\ bankStates[r][b] \in BankTable /\ rankBanks[r][b] \in BankTable
           /\ Agree(bankStates[r][b], rankBanks[r][b])
<1>1. cmdBus = <<>>
  BY DEF TablesInv, CommandInv
<1>2. \A r \in Ranks, b \in Banks : Own(r, b) = bankStates[r][b] /\ View(r, b) = rankBanks[r][b]
  BY <1>1 DEF Own, View, Seen, Clocked
<1> QED BY <1>2 DEF TablesInv, BankInv, Table

LEMMA ColumnTables ==
  ASSUME NEW p \in Packets, TablesInv, Sent(p), bankStates' = Updated(p, Column), p.type \in Columns,
         isIssuable(p), BankOf(p).last \notin Autopre
  PROVE  TablesInv'
<1>1. phase = "issue" /\ p.rank \in Ranks /\ p.bank \in Banks
  BY DEF Sent, Packets
<1>2. \A r \in Ranks, b \in Banks : bankStates'[r][b] = Column(p, r, b)
  BY DEF Updated
<1>3. \A r \in Ranks, b \in Banks :
        /\ bankStates[r][b] \in BankTable /\ rankBanks[r][b] \in BankTable
        /\ Agree(bankStates[r][b], rankBanks[r][b])
  BY <1>1, AtIssue
<1>4. /\ BankOf(p).state = "RowActive" /\ p.row = BankOf(p).row
      /\ p.type \in Reads => BankOf(p).nextRead = 0
      /\ p.type \in Writes => BankOf(p).nextWrite = 0
  BY DEF isIssuable, ColumnAllowed, Columns, Reads, Writes
<1>5. ASSUME NEW r \in Ranks, NEW b \in Banks
      PROVE  /\ Column(p, r, b) \in BankTable
             /\ Agree(TickedBank(Column(p, r, b)),
                      IF r = p.rank THEN AfterCommand(p, TickedBank(rankBanks[r][b]), b) ELSE TickedBank(rankBanks[r][b]))
             /\ Column(p, r, b).state = bankStates[r][b].state
             /\ Column(p, r, b).nextPowerUp = bankStates[r][b].nextPowerUp
  <2>1. bankStates[r][b] \in BankTable /\ rankBanks[r][b] \in BankTable /\ Agree(bankStates[r][b], rankBanks[r][b])
    BY <1>3
  <2>2. CASE r # p.rank
    <3>1. /\ Column(p, r, b) \in BankTable /\ SameRow(Column(p, r, b), bankStates[r][b])
          /\ Agree(TickedBank(Column(p, r, b)), TickedBank(rankBanks[r][b]))
      BY <2>1, <2>2, ColumnElsewhere
    <3> QED BY <2>2, <3>1 DEF SameRow
  <2>3. CASE r = p.rank
    <3>1. b = p.bank => bankStates[p.rank][b].state = "RowActive" /\ bankStates[p.rank][b].last \notin Autopre
      BY <1>4 DEF BankOf
    <3>2. /\ Column(p, p.rank, b) \in BankTable
          /\ Agree(TickedBank(Column(p, p.rank, b)), AfterCommand(p, TickedBank(rankBanks[r][b]), b))
      BY <2>1, <2>3, <3>1, ColumnAgree
    <3>3. /\ Column(p, p.rank, b).state = bankStates[p.rank][b].state
          /\ Column(p, p.rank, b).nextPowerUp = bankStates[p.rank][b].nextPowerUp
      BY <2>1, <2>3, ColumnKeepsRow
    <3> QED BY <2>3, <3>2, <3>3
  <2> QED BY <2>2, <2>3
<1>6. bankStates' \in Table
  BY <1>5 DEF Updated, Table
<1>7. Allows(Arriving(p), p)
  <2> DEFINE own == BankOf(p)
             view == rankBanks[p.rank][p.bank]
  <2>1. own \in BankTable /\ view \in BankTable /\ Agree(own, view)
    BY <1>1, <1>3 DEF BankOf
  <2>2. /\ own.nextRead \in Nat /\ own.nextWrite \in Nat /\ view.nextRead \in Timers /\ view.nextWrite \in Timers
    BY <2>1, BankFields, DelaysFit
  <2>3. /\ TickedBank(view).state = view.state /\ TickedBank(view).row = view.row
        /\ TickedBank(view).nextRead = Ticked(view.nextRead)
        /\ TickedBank(view).nextWrite = Ticked(view.nextWrite)
    BY <2>1, TickedFields
  <2>4. Arriving(p)[p.bank] = TickedBank(view)
    BY <1>1 DEF Arriving
  <2>5. view.state = "RowActive" /\ view.row = own.row
    BY <1>4, <2>1 DEF Agree, SameState
  <2>6. view.nextRead <= own.nextRead + 1 /\ view.nextWrite <= own.nextWrite + 1
    BY <2>1, <2>5 DEF Agree, Later1
  <2> HIDE DEF own, view
  <2>7. \A x \in Timers : x <= 0 + 1 => Ticked(x) = 0
    BY DelaysFit DEF Ticked
  <2>8. p.type \in Reads => Ticked(view.nextRead) = 0
    BY <1>4, <2>2, <2>6, <2>7 DEF own
  <2>9. p.type \in Writes => Ticked(view.nextWrite) = 0
    BY <1>4, <2>2, <2>6, <2>7 DEF own
  <2> QED BY <1>4, <2>3, <2>4, <2>5, <2>8, <2>9 DEF Allows, Columns, own
<1>8. bankStates'[p.rank][p.bank].state \in Busy
  BY <1>1, <1>2, <1>4, <1>5 DEF Busy, BankOf
<1>9. SleepKept(bankStates')
  <2> SUFFICES ASSUME NEW r \in Ranks, NEW b \in Banks
               PROVE  /\ bankStates'[r][b].state = "PowerDown" <=> bankStates[r][b].state = "PowerDown"
                      /\ bankStates'[r][b].nextPowerUp = bankStates[r][b].nextPowerUp
    BY DEF SleepKept
  <2>1. bankStates'[r][b] = Column(p, r, b)
    BY <1>2
  <2>2. Column(p, r, b).nextPowerUp = bankStates[r][b].nextPowerUp
    BY <1>5
  <2>3. Column(p, r, b).state = "PowerDown" <=> bankStates[r][b].state = "PowerDown"
    BY <1>5
  <2> QED BY <2>1, <2>2, <2>3
<1>10. AgreeAfter(p, bankStates')
  <2> SUFFICES ASSUME NEW r \in Ranks, NEW b \in Banks
               PROVE  Agree(TickedBank(bankStates'[r][b]),
                            IF r = p.rank THEN AfterCommand(p, TickedBank(rankBanks[r][b]), b)
                            ELSE TickedBank(rankBanks[r][b]))
    BY DEF AgreeAfter
  <2>1. bankStates'[r][b] = Column(p, r, b)
    BY <1>2
  <2> QED BY <1>5, <2>1
<1> QED BY <1>6, <1>7, <1>8, <1>9, <1>10, IssueTables

LEMMA ActivateTables ==
  ASSUME NEW p \in Packets, TablesInv, Sent(p), bankStates' = Updated(p, Activate), p.type = "ACTIVATE",
         isIssuable(p)
  PROVE  TablesInv'
<1>1. phase = "issue" /\ p.rank \in Ranks /\ p.bank \in Banks /\ p.row \in Nat
  BY DEF Sent, Packets
<1>2. \A r \in Ranks, b \in Banks : bankStates'[r][b] = Activate(p, r, b)
  BY DEF Updated
<1>3. \A r \in Ranks, b \in Banks :
        /\ bankStates[r][b] \in BankTable /\ rankBanks[r][b] \in BankTable
        /\ Agree(bankStates[r][b], rankBanks[r][b])
  BY <1>1, AtIssue
<1>4. BankOf(p).state \in {"Idle", "Refreshing"} /\ BankOf(p).nextActivate = 0
  BY DEF isIssuable, Reads, Writes
<1>5. ASSUME NEW r \in Ranks, NEW b \in Banks
      PROVE  /\ Activate(p, r, b) \in BankTable
             /\ Agree(TickedBank(Activate(p, r, b)),
                      IF r = p.rank THEN AfterCommand(p, TickedBank(rankBanks[r][b]), b) ELSE TickedBank(rankBanks[r][b]))
             /\ Activate(p, r, b).state = "PowerDown" <=> bankStates[r][b].state = "PowerDown"
             /\ Activate(p, r, b).nextPowerUp = bankStates[r][b].nextPowerUp
  <2>1. bankStates[r][b] \in BankTable /\ rankBanks[r][b] \in BankTable /\ Agree(bankStates[r][b], rankBanks[r][b])
    BY <1>3
  <2>2. /\ ~(r = p.rank /\ b = p.bank) => SameRow(Activate(p, r, b), bankStates[r][b])
        /\ r = p.rank /\ b = p.bank =>
             /\ Activate(p, r, b).state = "RowActive"
             /\ Activate(p, r, b).nextPowerUp = bankStates[r][b].nextPowerUp
    BY <2>1, ActivateOpens
  <2>3. r = p.rank /\ b = p.bank => bankStates[r][b].state # "PowerDown"
    BY <1>4 DEF BankOf
  <2>4. /\ Activate(p, r, b).state = "PowerDown" <=> bankStates[r][b].state = "PowerDown"
        /\ Activate(p, r, b).nextPowerUp = bankStates[r][b].nextPowerUp
    BY <2>2, <2>3 DEF SameRow
  <2>5. CASE r # p.rank
    <3>1. Activate(p, r, b) = bankStates[r][b]
      BY <2>5 DEF Activate
    <3>2. Agree(TickedBank(bankStates[r][b]), TickedBank(rankBanks[r][b]))
      BY <2>1, TickedAgree
    <3> QED BY <2>1, <2>4, <2>5, <3>1, <3>2
  <2>6. CASE r = p.rank
    <3>1. b = p.bank => bankStates[p.rank][b].state \in {"Idle", "Refreshing"}
      BY <1>4 DEF BankOf
    <3>2. /\ Activate(p, p.rank, b) \in BankTable
          /\ Agree(TickedBank(Activate(p, p.rank, b)), AfterCommand(p, TickedBank(rankBanks[r][b]), b))
      BY <1>1, <2>1, <2>6, <3>1, ActivateAgree
    <3> QED BY <2>4, <2>6, <3>2
  <2> QED BY <2>5, <2>6
<1>6. bankStates' \in Table
  BY <1>5 DEF Updated, Table
<1>7. Allows(Arriving(p), p)
  <2> DEFINE own == BankOf(p)
             view == rankBanks[p.rank][p.bank]
  <2>1. own \in BankTable /\ view \in BankTable /\ Agree(own, view)
    BY <1>1, <1>3 DEF BankOf
  <2>2. own.nextActivate = 0 /\ view.nextActivate \in Timers
    BY <1>4, <2>1, BankFields
  <2>3. TickedBank(view).state = view.state /\ TickedBank(view).nextActivate = Ticked(view.nextActivate)
    BY <2>1, TickedFields
  <2>4. Arriving(p)[p.bank] = TickedBank(view)
    BY <1>1 DEF Arriving
  <2>5. view.state = "Idle"
    BY <1>4, <2>1 DEF Agree, SameState
  <2>6. view.nextActivate <= own.nextActivate + 1
    BY <2>1 DEF Agree, Later1
  <2> HIDE DEF own, view
  <2>7. \A x \in Timers : x <= 0 + 1 => Ticked(x) = 0
    BY DelaysFit DEF Ticked
  <2>8. Ticked(view.nextActivate) = 0
    BY <2>2, <2>6, <2>7
  <2> QED BY <2>3, <2>4, <2>5, <2>8 DEF Allows
<1>8. bankStates'[p.rank][p.bank].state \in Busy
  <2>1. bankStates[p.rank][p.bank] \in BankTable
    BY <1>1, <1>3
  <2>2. Activate(p, p.rank, p.bank).state = "RowActive"
    BY <2>1, ActivateOpens
  <2> QED BY <1>1, <1>2, <2>2 DEF Busy
<1>9. SleepKept(bankStates')
  <2> SUFFICES ASSUME NEW r \in Ranks, NEW b \in Banks
               PROVE  /\ bankStates'[r][b].state = "PowerDown" <=> bankStates[r][b].state = "PowerDown"
                      /\ bankStates'[r][b].nextPowerUp = bankStates[r][b].nextPowerUp
    BY DEF SleepKept
  <2>1. bankStates'[r][b] = Activate(p, r, b)
    BY <1>2
  <2>2. Activate(p, r, b).nextPowerUp = bankStates[r][b].nextPowerUp
    BY <1>5
  <2>3. Activate(p, r, b).state = "PowerDown" <=> bankStates[r][b].state = "PowerDown"
    BY <1>5
  <2> QED BY <2>1, <2>2, <2>3
<1>10. AgreeAfter(p, bankStates')
  <2> SUFFICES ASSUME NEW r \in Ranks, NEW b \in Banks
               PROVE  Agree(TickedBank(bankStates'[r][b]),
                            IF r = p.rank THEN AfterCommand(p, TickedBank(rankBanks[r][b]), b)
                            ELSE TickedBank(rankBanks[r][b]))
    BY DEF AgreeAfter
  <2>1. bankStates'[r][b] = Activate(p, r, b)
    BY <1>2
  <2> QED BY <1>5, <2>1
<1> QED BY <1>6, <1>7, <1>8, <1>9, <1>10, IssueTables

LEMMA BareTyped ==
  ASSUME NEW type \in Commands, NEW r \in Ranks, NEW b \in Banks
  PROVE  /\ Bare(type, r, b) \in Packets /\ Bare(type, r, b).type = type
         /\ Bare(type, r, b).rank = r /\ Bare(type, r, b).bank = b
BY DEF Bare, Packets

LEMMA PrechargeTables ==
  ASSUME NEW r0 \in Ranks, NEW b0 \in Banks, NEW p, p = Bare("PRECHARGE", r0, b0),
         TablesInv, Sent(p), bankStates' = Updated(p, Precharge),
         bankStates[r0][b0].state = "RowActive", bankStates[r0][b0].nextPrecharge = 0,
         bankStates[r0][b0].last \notin Autopre
  PROVE  TablesInv'
<1>1. p \in Packets /\ p.type = "PRECHARGE" /\ p.rank = r0 /\ p.bank = b0 /\ phase = "issue"
  <2>1. "PRECHARGE" \in Commands
    BY DEF Commands
  <2>2. /\ Bare("PRECHARGE", r0, b0) \in Packets /\ Bare("PRECHARGE", r0, b0).type = "PRECHARGE"
        /\ Bare("PRECHARGE", r0, b0).rank = r0 /\ Bare("PRECHARGE", r0, b0).bank = b0
    BY <2>1, BareTyped
  <2> QED BY <2>2 DEF Sent
<1>2. \A r \in Ranks, b \in Banks : bankStates'[r][b] = Precharge(p, r, b)
  BY DEF Updated
<1>3. \A r \in Ranks, b \in Banks :
        /\ bankStates[r][b] \in BankTable /\ rankBanks[r][b] \in BankTable
        /\ Agree(bankStates[r][b], rankBanks[r][b])
  BY <1>1, AtIssue
<1>5. ASSUME NEW r \in Ranks, NEW b \in Banks
      PROVE  /\ Precharge(p, r, b) \in BankTable
             /\ Agree(TickedBank(Precharge(p, r, b)),
                      IF r = p.rank THEN AfterCommand(p, TickedBank(rankBanks[r][b]), b) ELSE TickedBank(rankBanks[r][b]))
             /\ Precharge(p, r, b).state = "PowerDown" <=> bankStates[r][b].state = "PowerDown"
             /\ Precharge(p, r, b).nextPowerUp = bankStates[r][b].nextPowerUp
  <2>1. bankStates[r][b] \in BankTable /\ rankBanks[r][b] \in BankTable /\ Agree(bankStates[r][b], rankBanks[r][b])
    BY <1>3
  <2>2. /\ ~(r = p.rank /\ b = p.bank) => Precharge(p, r, b) = bankStates[r][b]
        /\ r = p.rank /\ b = p.bank =>
             /\ Precharge(p, r, b).state = "Precharging"
             /\ Precharge(p, r, b).nextPowerUp = bankStates[r][b].nextPowerUp
    BY <2>1, PrechargeCloses
  <2>4. /\ Precharge(p, r, b).state = "PowerDown" <=> bankStates[r][b].state = "PowerDown"
        /\ Precharge(p, r, b).nextPowerUp = bankStates[r][b].nextPowerUp
    BY <1>1, <2>2
  <2>5. CASE r # p.rank
    <3>1. Agree(TickedBank(bankStates[r][b]), TickedBank(rankBanks[r][b]))
      BY <2>1, TickedAgree
    <3> QED BY <2>1, <2>2, <2>4, <2>5, <3>1
  <2>6. CASE r = p.rank
    <3>1. b = p.bank => bankStates[p.rank][b].state = "RowActive"
      BY <1>1
    <3>2. /\ Precharge(p, p.rank, b) \in BankTable
          /\ Agree(TickedBank(Precharge(p, p.rank, b)), AfterCommand(p, TickedBank(rankBanks[r][b]), b))
      BY <1>1, <2>1, <2>6, <3>1, PrechargeAgree
    <3> QED BY <2>4, <2>6, <3>2
  <2> QED BY <2>5, <2>6
<1>6. bankStates' \in Table
  BY <1>5 DEF Updated, Table
<1>7. Allows(Arriving(p), p)
  <2> DEFINE own == bankStates[r0][b0]
             view == rankBanks[r0][b0]
  <2>1. own \in BankTable /\ view \in BankTable /\ Agree(own, view)
    BY <1>3
  <2>2. own.nextPrecharge = 0 /\ view.nextPrecharge \in Timers
    BY <2>1, BankFields
  <2>3. TickedBank(view).state = view.state /\ TickedBank(view).nextPrecharge = Ticked(view.nextPrecharge)
    BY <2>1, TickedFields
  <2>4. Arriving(p)[p.bank] = TickedBank(view)
    BY <1>1 DEF Arriving
  <2>5. view.state = "RowActive"
    BY <2>1 DEF Agree, SameState
  <2>6. view.nextPrecharge <= own.nextPrecharge + 1
    BY <2>1 DEF Agree, Later1
  <2> HIDE DEF own, view
  <2>7. \A x \in Timers : x <= 0 + 1 => Ticked(x) = 0
    BY DelaysFit DEF Ticked
  <2>8. Ticked(view.nextPrecharge) = 0
    BY <2>2, <2>6, <2>7
  <2> QED BY <1>1, <2>3, <2>4, <2>5, <2>8 DEF Allows
<1>8. bankStates'[p.rank][p.bank].state \in Busy
  <2>1. bankStates[p.rank][p.bank] \in BankTable
    BY <1>1, <1>3
  <2>2. Precharge(p, p.rank, p.bank).state = "Precharging"
    BY <2>1, PrechargeCloses
  <2> QED BY <1>1, <1>2, <2>2 DEF Busy
<1>9. SleepKept(bankStates')
  <2> SUFFICES ASSUME NEW r \in Ranks, NEW b \in Banks
               PROVE  /\ bankStates'[r][b].state = "PowerDown" <=> bankStates[r][b].state = "PowerDown"
                      /\ bankStates'[r][b].nextPowerUp = bankStates[r][b].nextPowerUp
    BY DEF SleepKept
  <2>1. bankStates'[r][b] = Precharge(p, r, b)
    BY <1>2
  <2>2. Precharge(p, r, b).nextPowerUp = bankStates[r][b].nextPowerUp
    BY <1>5
  <2>3. Precharge(p, r, b).state = "PowerDown" <=> bankStates[r][b].state = "PowerDown"
    BY <1>5
  <2> QED BY <2>1, <2>2, <2>3
<1>10. AgreeAfter(p, bankStates')
  <2> SUFFICES ASSUME NEW r \in Ranks, NEW b \in Banks
               PROVE  Agree(TickedBank(bankStates'[r][b]),
                            IF r = p.rank THEN AfterCommand(p, TickedBank(rankBanks[r][b]), b)
                            ELSE TickedBank(rankBanks[r][b]))
    BY DEF AgreeAfter
  <2>1. bankStates'[r][b] = Precharge(p, r, b)
    BY <1>2
  <2> QED BY <1>5, <2>1
<1> QED BY <1>1, <1>6, <1>7, <1>8, <1>9, <1>10, IssueTables

LEMMA RefreshTables ==
  ASSUME NEW r0 \in Ranks, NEW p, p = Bare("REFRESH", r0, 0),
         TablesInv, Sent(p), bankStates' = Updated(p, Refresh),
         \A b \in Banks : bankStates[r0][b].state \notin {"RowActive", "PowerDown"}
  PROVE  TablesInv'
<1>1. p \in Packets /\ p.type = "REFRESH" /\ p.rank = r0 /\ p.bank = 0 /\ phase = "issue" /\ p.bank \in Banks
  <2>1. "REFRESH" \in Commands /\ 0 \in Banks
    BY FirstBank DEF Commands
  <2>2. /\ Bare("REFRESH", r0, 0) \in Packets /\ Bare("REFRESH", r0, 0).type = "REFRESH"
        /\ Bare("REFRESH", r0, 0).rank = r0 /\ Bare("REFRESH", r0, 0).bank = 0
    BY <2>1, BareTyped
  <2> QED BY <2>1, <2>2 DEF Sent
<1>2. \A r \in Ranks, b \in Banks : bankStates'[r][b] = Refresh(p, r, b)
  BY DEF Updated
<1>3. \A r \in Ranks, b \in Banks :
        /\ bankStates[r][b] \in BankTable /\ rankBanks[r][b] \in BankTable
        /\ Agree(bankStates[r][b], rankBanks[r][b])
  BY <1>1, AtIssue
<1>5. ASSUME NEW r \in Ranks, NEW b \in Banks
      PROVE  /\ Refresh(p, r, b) \in BankTable
             /\ Agree(TickedBank(Refresh(p, r, b)),
                      IF r = p.rank THEN AfterCommand(p, TickedBank(rankBanks[r][b]), b) ELSE TickedBank(rankBanks[r][b]))
             /\ Refresh(p, r, b).state = "PowerDown" <=> bankStates[r][b].state = "PowerDown"
             /\ Refresh(p, r, b).nextPowerUp = bankStates[r][b].nextPowerUp
  <2>1. bankStates[r][b] \in BankTable /\ rankBanks[r][b] \in BankTable /\ Agree(bankStates[r][b], rankBanks[r][b])
    BY <1>3
  <2>2. /\ r # p.rank => Refresh(p, r, b) = bankStates[r][b]
        /\ r = p.rank =>
             /\ Refresh(p, r, b).state = "Refreshing"
             /\ Refresh(p, r, b).nextPowerUp = bankStates[r][b].nextPowerUp
    BY <2>1, RefreshFills
  <2>4. /\ Refresh(p, r, b).state = "PowerDown" <=> bankStates[r][b].state = "PowerDown"
        /\ Refresh(p, r, b).nextPowerUp = bankStates[r][b].nextPowerUp
    BY <1>1, <2>2
  <2>5. CASE r # p.rank
    <3>1. Agree(TickedBank(bankStates[r][b]), TickedBank(rankBanks[r][b]))
      BY <2>1, TickedAgree
    <3> QED BY <2>1, <2>2, <2>4, <2>5, <3>1
  <2>6. CASE r = p.rank
    <3>1. bankStates[p.rank][b].state \notin {"RowActive", "PowerDown"}
      BY <1>1
    <3>2. /\ Refresh(p, p.rank, b) \in BankTable
          /\ Agree(TickedBank(Refresh(p, p.rank, b)), AfterCommand(p, TickedBank(rankBanks[r][b]), b))
      BY <1>1, <2>1, <2>6, <3>1, RefreshAgree
    <3> QED BY <2>4, <2>6, <3>2
  <2> QED BY <2>5, <2>6
<1>6. bankStates' \in Table
  BY <1>5 DEF Updated, Table
<1>7. Allows(Arriving(p), p)
  <2>1. ASSUME NEW b \in Banks PROVE TickedBank(rankBanks[r0][b]).state = "Idle"
    <3>1. bankStates[r0][b].state \in BankStates
      BY <1>3, BankFields
    <3>2. rankBanks[r0][b].state = "Idle"
      BY <1>3, <3>1 DEF Agree, SameState, BankStates
    <3> QED BY <1>3, <3>2, TickedFields
  <2>2. \A b \in Banks : Arriving(p)[b].state = "Idle"
    BY <1>1, <2>1 DEF Arriving
  <2> QED BY <1>1, <2>2 DEF Allows
<1>8. bankStates'[p.rank][p.bank].state \in Busy
  <2>1. bankStates[p.rank][p.bank] \in BankTable
    BY <1>1, <1>3
  <2>2. Refresh(p, p.rank, p.bank).state = "Refreshing"
    BY <2>1, RefreshFills
  <2> QED BY <1>1, <1>2, <2>2 DEF Busy
<1>9. SleepKept(bankStates')
  <2> SUFFICES ASSUME NEW r \in Ranks, NEW b \in Banks
               PROVE  /\ bankStates'[r][b].state = "PowerDown" <=> bankStates[r][b].state = "PowerDown"
                      /\ bankStates'[r][b].nextPowerUp = bankStates[r][b].nextPowerUp
    BY DEF SleepKept
  <2>1. bankStates'[r][b] = Refresh(p, r, b)
    BY <1>2
  <2>2. Refresh(p, r, b).nextPowerUp = bankStates[r][b].nextPowerUp
    BY <1>5
  <2>3. Refresh(p, r, b).state = "PowerDown" <=> bankStates[r][b].state = "PowerDown"
    BY <1>5
  <2> QED BY <2>1, <2>2, <2>3
<1>10. AgreeAfter(p, bankStates')
  <2> SUFFICES ASSUME NEW r \in Ranks, NEW b \in Banks
               PROVE  Agree(TickedBank(bankStates'[r][b]),
                            IF r = p.rank THEN AfterCommand(p, TickedBank(rankBanks[r][b]), b)
                            ELSE TickedBank(rankBanks[r][b]))
    BY DEF AgreeAfter
  <2>1. bankStates'[r][b] = Refresh(p, r, b)
    BY <1>2
  <2> QED BY <1>5, <2>1
<1> QED BY <1>1, <1>6, <1>7, <1>8, <1>9, <1>10, IssueTables

-----------------------------------------------------------------------------
(* The other steps on the tables.                                          *)

LEMMA InitTables ==
  ASSUME Init
  PROVE  TablesInv
<1>1. /\ phase = "ranks" /\ cmdBus = <<>> /\ powerDown = [r \in Ranks |-> FALSE]
      /\ isPowerDown = [r \in Ranks |-> FALSE]
      /\ bankStates = [r \in Ranks |-> [b \in Banks |-> FreshBank]]
      /\ rankBanks = [r \in Ranks |-> [b \in Banks |-> FreshBank]]
  BY DEF Init, CommandQueueInit, RankInit
<1>2. FreshBank \in BankTable
  BY DelaysFit DEF FreshBank, BankTable, BankStates, Commands, Columns, Reads, Writes
<1>3. Agree(FreshBank, FreshBank)
  BY DEF FreshBank, Agree, SameState, Settling, Later1
<1>4. \A r \in Ranks, b \in Banks : bankStates[r][b] = FreshBank /\ rankBanks[r][b] = FreshBank
  BY <1>1
<1>5. \A r \in Ranks, b \in Banks : Own(r, b) = FreshBank /\ View(r, b) = FreshBank
  BY <1>1, <1>4 DEF Own, View, Seen, Clocked
<1>6. BankInv
  BY <1>1, <1>2, <1>3, <1>5 DEF BankInv, Table
<1>7. CommandInv
  BY <1>1 DEF CommandInv, Phases
<1>8. FreshBank.state # "PowerDown" /\ 0 \in Banks
  BY FirstBank DEF FreshBank
<1>9. PowerInv
  BY <1>1, <1>4, <1>8 DEF PowerInv
<1> QED BY <1>6, <1>7, <1>9 DEF TablesInv

LEMMA StillTables ==
  ASSUME TablesInv, UNCHANGED <<bankStates, rankBanks, cmdBus, powerDown, isPowerDown>>,
         phase' = phase \/ (phase = "ranks" /\ phase' = "bus")
  PROVE  TablesInv'
<1>1. (phase' = "finish") <=> (phase = "finish")
  BY DEF TablesInv, CommandInv, Phases
<1>2. phase' \in Phases /\ (phase' = "issue" => phase = "issue")
  BY DEF TablesInv, CommandInv, Phases
<1>3. \A r, b : Own(r, b)' = Own(r, b) /\ Seen(r, b)' = Seen(r, b)
  BY <1>1 DEF Own, Seen, Clocked
<1>4. \A r, b : View(r, b)' = View(r, b)
  BY <1>3 DEF View
<1>5. BankInv'
  BY <1>3, <1>4 DEF TablesInv, BankInv
<1>6. CommandInv'
  BY <1>1, <1>2, <1>3 DEF TablesInv, CommandInv, Allows
<1>7. PowerInv'
  BY DEF TablesInv, PowerInv
<1> QED BY <1>5, <1>6, <1>7 DEF TablesInv

LEMMA IssueNothingTables ==
  ASSUME TablesInv, IssueNothing
  PROVE  TablesInv'
<1>1. /\ phase = "issue" /\ phase' = "finish" /\ bankStates' = bankStates /\ rankBanks' = rankBanks
      /\ cmdBus' = cmdBus /\ powerDown' = powerDown /\ isPowerDown' = isPowerDown
  BY DEF IssueNothing, buses, rankVars
<1>2. cmdBus = <<>> /\ phase' \in Phases /\ phase' # "issue"
  BY <1>1 DEF TablesInv, CommandInv, Phases
<1>3. \A r \in Ranks, b \in Banks :
        Own(r, b)' = TickedBank(bankStates[r][b]) /\ View(r, b)' = TickedBank(rankBanks[r][b])
  BY <1>1, <1>2 DEF Own, View, Seen, Clocked
<1>4. BankInv'
  <2>1. \A r \in Ranks, b \in Banks : Agree(TickedBank(bankStates[r][b]), TickedBank(rankBanks[r][b]))
    BY <1>1, AtIssue, TickedAgree
  <2> QED BY <1>1, <1>3, <2>1 DEF TablesInv, BankInv
<1>5. CommandInv'
  BY <1>1, <1>2 DEF TablesInv, CommandInv
<1>6. PowerInv'
  BY <1>1 DEF TablesInv, PowerInv
<1> QED BY <1>4, <1>5, <1>6 DEF TablesInv

LEMMA UpdateBusesTables ==
  ASSUME TablesInv, UpdateBuses
  PROVE  TablesInv'
<1>1. /\ phase = "bus" /\ phase' = "issue" /\ cmdBus' = <<>>
      /\ bankStates' = [r \in Ranks |-> [b \in Banks |-> CountedDown(bankStates[r][b])]]
      /\ powerDown' = powerDown /\ isPowerDown' = isPowerDown
  BY DEF UpdateBuses
<1>2. cmdBus # <<>> =>
        /\ cmdBus[1] \in Packets
        /\ rankBanks' = [rankBanks EXCEPT ![cmdBus[1].rank] =
                           [b \in Banks |-> AfterCommand(cmdBus[1], rankBanks[cmdBus[1].rank][b], b)]]
  <2>1. ASSUME cmdBus # <<>> PROVE cmdBus[1] \in Packets
    <3>1. Len(cmdBus) >= 1
      BY <2>1 DEF TablesInv, CommandInv
    <3> QED BY <3>1 DEF TablesInv, CommandInv
  <2> QED BY <2>1 DEF UpdateBuses, RankReceives
<1>3. cmdBus = <<>> => rankBanks' = rankBanks
  BY DEF UpdateBuses
<1>4. \A r \in Ranks, b \in Banks :
        /\ Own(r, b) = bankStates[r][b] /\ Seen(r, b) = rankBanks[r][b]
        /\ Own(r, b)' = CountedDown(bankStates[r][b]) /\ View(r, b)' = rankBanks'[r][b]
  BY <1>1 DEF Own, View, Seen, Clocked
<1>5. rankBanks \in Table /\ bankStates \in Table
  BY DEF TablesInv, BankInv
<1>6. \A r \in Ranks, b \in Banks : rankBanks'[r][b] = View(r, b)
  <2> TAKE r \in Ranks, b \in Banks
  <2>1. CASE cmdBus = <<>>
    BY <1>3, <1>4, <2>1 DEF View
  <2>2. CASE cmdBus # <<>> /\ cmdBus[1].rank = r
    BY <1>2, <1>4, <1>5, <2>2 DEF View, Table
  <2>3. CASE cmdBus # <<>> /\ cmdBus[1].rank # r
    BY <1>2, <1>4, <1>5, <2>3 DEF View, Table
  <2> QED BY <2>1, <2>2, <2>3
<1>7. \A r \in Ranks, b \in Banks :
        bankStates[r][b] \in BankTable /\ rankBanks[r][b] \in BankTable /\ Agree(bankStates[r][b], View(r, b))
  BY <1>4, <1>5 DEF TablesInv, BankInv, Table
<1>8. \A r \in Ranks, b \in Banks :
        View(r, b) \in BankTable /\ View(r, b).nextPowerUp = rankBanks[r][b].nextPowerUp
  <2> TAKE r \in Ranks, b \in Banks
  <2>1. CASE cmdBus # <<>> /\ cmdBus[1].rank = r
    <3>1. cmdBus[1].type \in Commands /\ cmdBus[1].row \in Nat
      BY <1>2, <2>1 DEF Packets
    <3>2. rankBanks[r][b] \in BankTable
      BY <1>7
    <3>3. View(r, b) = AfterCommand(cmdBus[1], rankBanks[r][b], b)
      BY <1>4, <2>1 DEF View
    <3> QED BY <3>1, <3>2, <3>3, AfterTyped
  <2>2. CASE ~(cmdBus # <<>> /\ cmdBus[1].rank = r)
    BY <1>4, <1>7, <2>2 DEF View
  <2> QED BY <2>1, <2>2
<1>9. \A r \in Ranks, b \in Banks :
        /\ CountedDown(bankStates[r][b]) \in BankTable
        /\ CountedDown(bankStates[r][b]).nextPowerUp = bankStates[r][b].nextPowerUp
  BY <1>7, CountedFields
<1>10. BankInv'
  <2>1. bankStates' \in Table
    BY <1>1, <1>9 DEF Table
  <2>2. rankBanks' \in Table
    <3>1. CASE cmdBus = <<>>
      BY <1>3, <1>5, <3>1
    <3>2. CASE cmdBus # <<>>
      <4>1. cmdBus[1].rank \in Ranks
        BY <1>2, <3>2 DEF Packets
      <4>2. \A b \in Banks : AfterCommand(cmdBus[1], rankBanks[cmdBus[1].rank][b], b) \in BankTable
        <5> TAKE b \in Banks
        <5>1. View(cmdBus[1].rank, b) = AfterCommand(cmdBus[1], rankBanks[cmdBus[1].rank][b], b)
          BY <1>4, <3>2, <4>1 DEF View
        <5> QED BY <1>8, <4>1, <5>1
      <4>3. [b \in Banks |-> AfterCommand(cmdBus[1], rankBanks[cmdBus[1].rank][b], b)] \in [Banks -> BankTable]
        BY <4>2
      <4> QED BY <1>2, <1>5, <3>2, <4>1, <4>3 DEF Table
    <3> QED BY <3>1, <3>2
  <2>3. \A r \in Ranks, b \in Banks : Agree(CountedDown(bankStates[r][b]), View(r, b))
    BY <1>7, <1>8, CountedAgree
  <2>4. \A r \in Ranks, b \in Banks : Agree(Own(r, b)', View(r, b)')
    BY <1>4, <1>6, <2>3
  <2> QED BY <2>1, <2>2, <2>4 DEF BankInv
<1>11. CommandInv'
  BY <1>1 DEF CommandInv, Phases
<1>12. ASSUME NEW r \in Ranks, NEW b \in Banks
       PROVE  CountedDown(bankStates[r][b]).state = "PowerDown" <=> bankStates[r][b].state = "PowerDown"
  <2> DEFINE own == bankStates[r][b]
             after == CountedDown(own)
  <2>1. own \in BankTable /\ Settling(own)
    BY <1>7 DEF Agree
  <2>2. own.countdown # 1 => after.state = own.state
    BY <2>1, CountedFields
  <2>3. own.countdown = 1 /\ own.last \in Autopre => after.state = "Precharging"
    BY <2>1, CountedFields
  <2>4. own.countdown = 1 /\ own.last \in {"REFRESH", "PRECHARGE"} => after.state = "Idle"
    BY <2>1, CountedFields
  <2>5. own.countdown = 1 /\ own.last \notin Autopre \cup {"REFRESH", "PRECHARGE"} => after.state = own.state
    BY <2>1, CountedFields
  <2>6. own.state = "PowerDown" => own.countdown = 0
    BY <2>1 DEF Settling
  <2> HIDE DEF own, after
  <2>7. after.state = "PowerDown" <=> own.state = "PowerDown"
    BY <2>2, <2>3, <2>4, <2>5, <2>6
  <2> QED BY <2>7 DEF own, after
<1>13. PowerInv'
  <2>1. \A r \in Ranks, b \in Banks : bankStates'[r][b] = CountedDown(bankStates[r][b])
    BY <1>1
  <2>2. \A r \in Ranks, b \in Banks : powerDown'[r] <=> bankStates'[r][b].state = "PowerDown"
    <3> TAKE r \in Ranks, b \in Banks
    <3>1. powerDown[r] <=> bankStates[r][b].state = "PowerDown"
      BY DEF TablesInv, PowerInv
    <3>2. bankStates'[r][b].state = "PowerDown" <=> bankStates[r][b].state = "PowerDown"
      BY <1>12, <2>1
    <3> QED BY <1>1, <3>1, <3>2
  <2>3. \A r \in Ranks, b \in Banks :
          /\ bankStates'[r][b].nextPowerUp = bankStates'[r][0].nextPowerUp
          /\ rankBanks'[r][b].nextPowerUp = bankStates'[r][b].nextPowerUp
    <3>1. \A r \in Ranks, b \in Banks : bankStates'[r][b].nextPowerUp = bankStates[r][b].nextPowerUp
      BY <1>9, <2>1
    <3>2. \A r \in Ranks, b \in Banks : rankBanks'[r][b].nextPowerUp = rankBanks[r][b].nextPowerUp
      BY <1>6, <1>8
    <3>3. \A r \in Ranks, b \in Banks :
            /\ bankStates[r][b].nextPowerUp = bankStates[r][0].nextPowerUp
            /\ rankBanks[r][b].nextPowerUp = bankStates[r][b].nextPowerUp
      BY DEF TablesInv, PowerInv
    <3> QED BY <3>1, <3>2, <3>3, FirstBank
  <2>4. powerDown' \in [Ranks -> BOOLEAN] /\ isPowerDown' \in [Ranks -> BOOLEAN]
        /\ \A r \in Ranks : isPowerDown'[r] = powerDown'[r]
    BY <1>1 DEF TablesInv, PowerInv
  <2> QED BY <2>2, <2>3, <2>4 DEF PowerInv
<1> QED BY <1>10, <1>11, <1>13 DEF TablesInv

LEMMA FinishTables ==
  ASSUME TablesInv, Finish
  PROVE  TablesInv'
<1>1. phase = "finish" /\ phase' = "ranks" /\ cmdBus' = cmdBus /\ Power
  BY DEF Finish, buses
<1> DEFINE Powers(r, bank) == IF GoesDown(r) THEN PoweredDown(bank) ELSE IF GoesUp(r) THEN PoweredUp(bank) ELSE bank
<1>2. \A r \in Ranks, b \in Banks :
        /\ bankStates'[r][b] = TickedBank(Powers(r, bankStates[r][b]))
        /\ rankBanks'[r][b] = TickedBank(Powers(r, rankBanks[r][b]))
  BY <1>1 DEF Power, Powered
<1>3. \A r \in Ranks, b \in Banks :
        /\ Own(r, b) = TickedBank(bankStates[r][b]) /\ Seen(r, b) = TickedBank(rankBanks[r][b])
        /\ Own(r, b)' = bankStates'[r][b] /\ Seen(r, b)' = rankBanks'[r][b]
  BY <1>1 DEF Own, Seen, Clocked
<1>4. \A r \in Ranks, b \in Banks :
        bankStates[r][b] \in BankTable /\ rankBanks[r][b] \in BankTable /\ Agree(Own(r, b), View(r, b))
  BY DEF TablesInv, BankInv, Table
<1>5. cmdBus # <<>> => cmdBus[1] \in Packets
  <2>1. ASSUME cmdBus # <<>> PROVE cmdBus[1] \in Packets
    <3>1. Len(cmdBus) >= 1
      BY <2>1 DEF TablesInv, CommandInv
    <3> QED BY <3>1 DEF TablesInv, CommandInv
  <2> QED BY <2>1
<1>6. \A r \in Ranks : (GoesDown(r) => \A b \in Banks : bankStates[r][b].state = "Idle")
  BY DEF GoesDown
<1>7. \A r \in Ranks : GoesUp(r) => \A b \in Banks : bankStates[r][b].state = "PowerDown"
  BY DEF GoesUp, TablesInv, PowerInv
\* A rank that goes down or up has no command coming.
<1>8. ASSUME NEW r \in Ranks, GoesDown(r) \/ GoesUp(r)
      PROVE  ~(cmdBus # <<>> /\ cmdBus[1].rank = r)
  <2> SUFFICES ASSUME cmdBus # <<>>, cmdBus[1].rank = r PROVE FALSE
    OBVIOUS
  <2>1. bankStates[cmdBus[1].rank][cmdBus[1].bank].state \in Busy
    BY <1>1 DEF TablesInv, CommandInv
  <2>2. cmdBus[1].bank \in Banks
    BY <1>5 DEF Packets
  <2> QED BY <1>6, <1>7, <1>8, <2>1, <2>2 DEF Busy
<1>9. \A r \in Ranks : ~(GoesDown(r) /\ GoesUp(r))
  BY <1>6, <1>7, FirstBank
<1>10. \A r \in Ranks, b \in Banks :
         /\ bankStates[r][b].nextPowerUp = bankStates[r][0].nextPowerUp
         /\ rankBanks[r][b].nextPowerUp = bankStates[r][b].nextPowerUp
  BY DEF TablesInv, PowerInv
<1>11. ASSUME NEW r \in Ranks, NEW b \in Banks
       PROVE  /\ bankStates'[r][b] \in BankTable /\ rankBanks'[r][b] \in BankTable
              /\ Agree(Own(r, b)', View(r, b)')
              /\ powerDown'[r] <=> bankStates'[r][b].state = "PowerDown"
              /\ bankStates'[r][b].nextPowerUp =
                   Ticked(IF GoesDown(r) THEN tCKE ELSE bankStates[r][0].nextPowerUp)
              /\ rankBanks'[r][b].nextPowerUp = bankStates'[r][b].nextPowerUp
  <2> DEFINE own == bankStates[r][b]
             bank == rankBanks[r][b]
             Shown == Agree(Own(r, b)', View(r, b)')
  <2>1. own \in BankTable /\ bank \in BankTable
    BY <1>4
  <2>2. powerDown'[r] <=> GoesDown(r) \/ (powerDown[r] /\ ~GoesUp(r))
    BY <1>1 DEF Power
  <2>3. powerDown[r] <=> own.state = "PowerDown"
    BY DEF TablesInv, PowerInv
  <2>4. own.nextPowerUp = bankStates[r][0].nextPowerUp /\ bank.nextPowerUp = own.nextPowerUp
    BY <1>10
  <2>5. CASE GoesDown(r)
    <3>1. own.state = "Idle" /\ ~GoesUp(r) /\ ~(cmdBus # <<>> /\ cmdBus[1].rank = r)
      BY <1>6, <1>8, <1>9, <2>5
    <3>2. Agree(TickedBank(own), TickedBank(bank))
      BY <1>3, <1>4, <3>1 DEF View
    <3>3. /\ PoweredDown(own) \in BankTable /\ PoweredDown(bank) \in BankTable
          /\ Agree(TickedBank(PoweredDown(own)), TickedBank(PoweredDown(bank)))
          /\ PoweredDown(own).state = "PowerDown" /\ PoweredDown(own).nextPowerUp = tCKE
          /\ PoweredDown(bank).nextPowerUp = tCKE
      BY <2>1, <3>1, <3>2, DownAgrees
    <3>4. bankStates'[r][b] = TickedBank(PoweredDown(own)) /\ rankBanks'[r][b] = TickedBank(PoweredDown(bank))
      BY <1>2, <2>5
    <3>5. View(r, b)' = rankBanks'[r][b]
      BY <1>1, <1>3, <3>1 DEF View
    <3>6. Shown
      BY <1>3, <3>3, <3>4, <3>5
    <3>7. /\ TickedBank(PoweredDown(own)) \in BankTable /\ TickedBank(PoweredDown(bank)) \in BankTable
          /\ TickedBank(PoweredDown(own)).state = "PowerDown"
          /\ TickedBank(PoweredDown(own)).nextPowerUp = Ticked(tCKE)
          /\ TickedBank(PoweredDown(bank)).nextPowerUp = Ticked(tCKE)
      BY <3>3, TickedFields
    <3> QED BY <2>2, <2>5, <3>4, <3>6, <3>7
  <2>6. CASE ~GoesDown(r) /\ GoesUp(r)
    <3>1. own.state = "PowerDown" /\ ~(cmdBus # <<>> /\ cmdBus[1].rank = r)
      BY <1>7, <1>8, <2>6
    <3>2. Agree(TickedBank(own), TickedBank(bank))
      BY <1>3, <1>4, <3>1 DEF View
    <3>3. /\ PoweredUp(own) \in BankTable /\ PoweredUp(bank) \in BankTable
          /\ Agree(TickedBank(PoweredUp(own)), TickedBank(PoweredUp(bank)))
          /\ PoweredUp(own).state = "Idle" /\ PoweredUp(own).nextPowerUp = own.nextPowerUp
          /\ PoweredUp(bank).nextPowerUp = own.nextPowerUp
      BY <2>1, <2>4, <3>1, <3>2, UpAgrees
    <3>4. bankStates'[r][b] = TickedBank(PoweredUp(own)) /\ rankBanks'[r][b] = TickedBank(PoweredUp(bank))
      BY <1>2, <2>6
    <3>5. View(r, b)' = rankBanks'[r][b]
      BY <1>1, <1>3, <3>1 DEF View
    <3>6. Shown
      BY <1>3, <3>3, <3>4, <3>5
    <3>7. /\ TickedBank(PoweredUp(own)) \in BankTable /\ TickedBank(PoweredUp(bank)) \in BankTable
          /\ TickedBank(PoweredUp(own)).state = "Idle"
          /\ TickedBank(PoweredUp(own)).nextPowerUp = Ticked(own.nextPowerUp)
          /\ TickedBank(PoweredUp(bank)).nextPowerUp = Ticked(own.nextPowerUp)
      BY <3>3, TickedFields
    <3> QED BY <2>2, <2>4, <2>6, <3>4, <3>6, <3>7
  <2>7. CASE ~GoesDown(r) /\ ~GoesUp(r)
    <3>1. bankStates'[r][b] = TickedBank(own) /\ rankBanks'[r][b] = TickedBank(bank)
      BY <1>2, <2>7
    <3>2. Own(r, b)' = Own(r, b) /\ Seen(r, b)' = Seen(r, b)
      BY <1>3, <3>1
    <3>3. View(r, b)' = View(r, b)
      BY <1>1, <3>2 DEF View
    <3>4. Shown
      BY <1>4, <3>2, <3>3
    <3>5. /\ TickedBank(own) \in BankTable /\ TickedBank(bank) \in BankTable
          /\ TickedBank(own).state = own.state /\ TickedBank(own).nextPowerUp = Ticked(own.nextPowerUp)
          /\ TickedBank(bank).nextPowerUp = Ticked(bank.nextPowerUp)
      BY <2>1, TickedFields
    <3> HIDE DEF own, bank, Shown
    <3> QED BY <2>2, <2>3, <2>4, <2>7, <3>1, <3>4, <3>5 DEF Shown, own
  <2> QED BY <2>5, <2>6, <2>7
<1>12. BankInv'
  <2>1. bankStates' \in Table
    <3>1. bankStates' = [r \in Ranks |-> [b \in Banks |-> TickedBank(Powers(r, bankStates[r][b]))]]
      BY <1>1 DEF Power, Powered
    <3> HIDE DEF Powers
    <3>2. \A r \in Ranks, b \in Banks : TickedBank(Powers(r, bankStates[r][b])) \in BankTable
      BY <1>2, <1>11
    <3> QED BY <3>1, <3>2 DEF Table
  <2>2. rankBanks' \in Table
    <3>1. rankBanks' = [r \in Ranks |-> [b \in Banks |-> TickedBank(Powers(r, rankBanks[r][b]))]]
      BY <1>1 DEF Power, Powered
    <3> HIDE DEF Powers
    <3>2. \A r \in Ranks, b \in Banks : TickedBank(Powers(r, rankBanks[r][b])) \in BankTable
      BY <1>2, <1>11
    <3> QED BY <3>1, <3>2 DEF Table
  <2> QED BY <1>11, <2>1, <2>2 DEF BankInv
<1>13. CommandInv'
  <2>1. CASE cmdBus = <<>>
    BY <1>1, <2>1 DEF TablesInv, CommandInv, Phases
  <2>2. CASE cmdBus # <<>>
    <3>1. cmdBus[1].rank \in Ranks
      BY <1>5, <2>2 DEF Packets
    <3>2. ~GoesDown(cmdBus[1].rank) /\ ~GoesUp(cmdBus[1].rank)
      BY <1>8, <2>2, <3>1
    <3>3. \A b \in Banks : Seen(cmdBus[1].rank, b)' = Seen(cmdBus[1].rank, b)
      BY <1>1, <1>2, <1>3, <3>1, <3>2
    <3>4. [b \in Banks |-> Seen(cmdBus[1].rank, b)'] = [b \in Banks |-> Seen(cmdBus[1].rank, b)]
      BY <3>3
    <3>5. Allows([b \in Banks |-> Seen(cmdBus[1].rank, b)], cmdBus[1])
      BY <2>2 DEF TablesInv, CommandInv
    <3>6. Allows([b \in Banks |-> Seen(cmdBus[1].rank, b)'], cmdBus'[1])
      BY <1>1, <3>4, <3>5
    <3>7. Allows([b \in Banks |-> Seen(cmdBus[1].rank, b)], cmdBus[1])'
      BY <1>1, <3>6 DEF Allows
    <3> QED BY <1>1, <3>7 DEF TablesInv, CommandInv, Phases
  <2> QED BY <2>1, <2>2
<1>14. PowerInv'
  <2>1. powerDown' \in [Ranks -> BOOLEAN] /\ isPowerDown' \in [Ranks -> BOOLEAN]
        /\ \A r \in Ranks : isPowerDown'[r] = powerDown'[r]
    BY <1>1 DEF Power, TablesInv, PowerInv
  <2>2. \A r \in Ranks, b \in Banks : powerDown'[r] <=> bankStates'[r][b].state = "PowerDown"
    BY <1>11
  <2>3. \A r \in Ranks, b \in Banks :
          /\ bankStates'[r][b].nextPowerUp = bankStates'[r][0].nextPowerUp
          /\ rankBanks'[r][b].nextPowerUp = bankStates'[r][b].nextPowerUp
    BY <1>11, FirstBank
  <2> QED BY <2>1, <2>2, <2>3 DEF PowerInv
<1> QED BY <1>12, <1>13, <1>14 DEF TablesInv

-----------------------------------------------------------------------------
(* The queues and the rows they wait for.                                  *)

LEMMA SlotFacts ==
  ASSUME NEW r \in Ranks, NEW b \in Banks
  PROVE  SlotOf(r, b) \in Slots /\ <<r, b>> \in AllBanks /\ SlotOf(r, b)[1] = r
BY FirstBank DEF SlotOf, Slots, AllBanks

\* What the policy decides stays.
LEMMA SamePolicy ==
  ASSUME policy' = policy
  PROVE  /\ OpenPage' = OpenPage /\ PerRank' = PerRank /\ Slots' = Slots /\ CommandTypes' = CommandTypes
         /\ \A r, b : SlotOf(r, b)' = SlotOf(r, b)
<1>1. OpenPage' = OpenPage /\ PerRank' = PerRank
  BY DEF OpenPage, PerRank
<1>2. Slots' = Slots /\ CommandTypes' = CommandTypes /\ \A r, b : SlotOf(r, b)' = SlotOf(r, b)
  BY <1>1 DEF Slots, CommandTypes, SlotOf
<1> QED BY <1>1, <1>2

LEMMA QueuesKept ==
  ASSUME policy' = policy, queues' \in [Slots -> Seq(Packets)],
         \A s \in Slots : Shaped(queues'[s], s),
         \A s \in Slots : Served(queues'[s], bankStates', rowAccessCounters')
  PROVE  QueueInv'
<1>1. OpenPage' = OpenPage /\ Slots' = Slots /\ CommandTypes' = CommandTypes
  BY SamePolicy
<1>2. \A r, b : SlotOf(r, b)' = SlotOf(r, b)
  BY SamePolicy
<1>3. ASSUME NEW s \in Slots PROVE Shaped(queues[s], s)'
  <2>1. /\ queues'[s] \in Seq(Packets) /\ Len(queues'[s]) <= CmdQueueDepth
        /\ \A i \in 1..Len(queues'[s]) : /\ s = SlotOf(queues'[s][i].rank, queues'[s][i].bank)
                                         /\ queues'[s][i].type \in CommandTypes
        /\ Coupled(queues'[s])
    BY DEF Shaped
  <2>2. First(queues'[s])
    BY DEF Shaped
  <2>3. First(queues[s])'
    BY <1>1, <2>2 DEF First
  <2>4. \A i \in 1..Len(queues'[s]) : s = SlotOf(queues[s][i].rank, queues[s][i].bank)'
    BY <2>1, SamePolicy DEF SlotOf
  <2> QED BY <1>1, <2>1, <2>3, <2>4 DEF Shaped
<1>4. \A s \in Slots : Served(queues[s], bankStates, rowAccessCounters)'
  OBVIOUS
<1> QED BY <1>1, <1>3, <1>4 DEF QueueInv

\* What a column command on its own needs of its bank stays.
Quiet(r, b) ==
  /\ SameRow(bankStates'[r][b], bankStates[r][b])
  /\ rowAccessCounters'[<<r, b>>] = rowAccessCounters[<<r, b>>]

LEMMA QuietKeeps ==
  ASSUME NEW p, Quiet(p.rank, p.bank), RowOpen(bankStates, rowAccessCounters, p)
  PROVE  RowOpen(bankStates', rowAccessCounters', p)
BY DEF Quiet, SameRow, RowOpen

\* A command for one bank disturbs no other, and leaves no column command
\* on its own for that bank but with an open row.
QuietBut(r0, b0) == \A r \in Ranks, b \in Banks : r # r0 \/ b # b0 => Quiet(r, b)

Remains(new, q, b0) ==
  \A j \in 1..Len(new) : Lone(new, j) =>
    \/ RowOpen(bankStates', rowAccessCounters', new[j])
    \/ \E k \in 1..Len(q) : Lone(q, k) /\ new[j] = q[k] /\ q[k].bank # b0

LEMMA OneBankStep ==
  ASSUME QueueInv, policy' = policy, NEW r0 \in Ranks, NEW b0 \in Banks, NEW s0, s0 = SlotOf(r0, b0), NEW new,
         queues' = [queues EXCEPT ![s0] = new], Shaped(new, s0), QuietBut(r0, b0), Remains(new, queues[s0], b0)
  PROVE  QueueInv'
<1>1. s0 \in Slots /\ queues \in [Slots -> Seq(Packets)] /\ new \in Seq(Packets)
  BY SlotFacts DEF QueueInv, Shaped
<1>2. queues' \in [Slots -> Seq(Packets)] /\ queues'[s0] = new
      /\ \A s \in Slots : s # s0 => queues'[s] = queues[s]
  BY <1>1
<1>3. ASSUME NEW s \in Slots, NEW k \in 1..Len(queues[s])
      PROVE  /\ queues[s][k].rank \in Ranks /\ queues[s][k].bank \in Banks
             /\ s = SlotOf(queues[s][k].rank, queues[s][k].bank)
  <2>1. queues[s][k] \in Packets
    BY <1>1, ElementOfSeq
  <2> QED BY <2>1 DEF QueueInv, Shaped, Packets
<1>4. \A s \in Slots : Shaped(queues'[s], s)
  BY <1>2 DEF QueueInv
<1>5. ASSUME NEW s \in Slots PROVE Served(queues'[s], bankStates', rowAccessCounters')
  <2>1. CASE s # s0
    <3> SUFFICES ASSUME NEW i \in 1..Len(queues[s]), Lone(queues[s], i)
                 PROVE  RowOpen(bankStates', rowAccessCounters', queues[s][i])
      BY <1>2, <2>1 DEF Served
    <3>1. queues[s][i].rank # r0 \/ queues[s][i].bank # b0
      BY <1>3, <2>1
    <3>2. Quiet(queues[s][i].rank, queues[s][i].bank)
      BY <1>3, <3>1 DEF QuietBut
    <3>3. RowOpen(bankStates, rowAccessCounters, queues[s][i])
      BY DEF QueueInv, Served
    <3> QED BY <3>2, <3>3, QuietKeeps
  <2>2. CASE s = s0
    <3> SUFFICES ASSUME NEW j \in 1..Len(new), Lone(new, j)
                 PROVE  RowOpen(bankStates', rowAccessCounters', new[j])
      BY <1>2, <2>2 DEF Served
    <3>1. CASE RowOpen(bankStates', rowAccessCounters', new[j])
      BY <3>1
    <3>2. CASE \E k \in 1..Len(queues[s0]) :
                 Lone(queues[s0], k) /\ new[j] = queues[s0][k] /\ queues[s0][k].bank # b0
      <4>1. PICK k \in 1..Len(queues[s0]) :
                 Lone(queues[s0], k) /\ new[j] = queues[s0][k] /\ queues[s0][k].bank # b0
        BY <3>2
      <4>2. Quiet(queues[s0][k].rank, queues[s0][k].bank)
        BY <1>1, <1>3, <4>1 DEF QuietBut
      <4>3. RowOpen(bankStates, rowAccessCounters, queues[s0][k])
        BY <1>1, <4>1 DEF QueueInv, Served
      <4> QED BY <4>1, <4>2, <4>3, QuietKeeps
    <3> QED BY <3>1, <3>2 DEF Remains
  <2> QED BY <2>1, <2>2
<1> QED BY <1>2, <1>4, <1>5, QueuesKept

\* No step touches the queues.
LEMMA QuietStep ==
  ASSUME QueueInv, policy' = policy, queues' = queues,
         \A s \in Slots : \A i \in 1..Len(queues[s]) : Lone(queues[s], i) =>
           Quiet(queues[s][i].rank, queues[s][i].bank)
  PROVE  QueueInv'
<1>1. \A s \in Slots : Served(queues'[s], bankStates', rowAccessCounters')
  <2> SUFFICES ASSUME NEW s \in Slots, NEW i \in 1..Len(queues[s]), Lone(queues[s], i)
               PROVE  RowOpen(bankStates', rowAccessCounters', queues[s][i])
    BY DEF Served
  <2>1. RowOpen(bankStates, rowAccessCounters, queues[s][i])
    BY DEF QueueInv, Served
  <2> QED BY <2>1, QuietKeeps
<1>2. queues' \in [Slots -> Seq(Packets)] /\ \A s \in Slots : Shaped(queues'[s], s)
  BY DEF QueueInv
<1> QED BY <1>1, <1>2, QueuesKept

-----------------------------------------------------------------------------
(* What a command makes of the queues.                                     *)

LEMMA HeldFacts ==
  ASSUME QueueInv, NEW s \in Slots
  PROVE  /\ queues[s] \in Seq(Packets) /\ Len(queues[s]) \in Nat /\ Len(queues[s]) <= CmdQueueDepth
         /\ Coupled(queues[s]) /\ First(queues[s])
         /\ \A i \in 1..Len(queues[s]) :
              /\ queues[s][i] \in Packets /\ s = SlotOf(queues[s][i].rank, queues[s][i].bank)
              /\ queues[s][i].type \in CommandTypes /\ queues[s][i].type \in {"ACTIVATE"} \cup Columns
              /\ queues[s][i].rank \in Ranks /\ queues[s][i].bank \in Banks /\ queues[s][i].row \in Nat
         /\ \A i \in 1..Len(queues[s]) : Lone(queues[s], i) => RowOpen(bankStates, rowAccessCounters, queues[s][i])
<1>1. queues[s] \in Seq(Packets) /\ Shaped(queues[s], s) /\ Served(queues[s], bankStates, rowAccessCounters)
  BY DEF QueueInv
<1>2. \A i \in 1..Len(queues[s]) : queues[s][i] \in Packets
  BY <1>1, ElementOfSeq
<1>3. CommandTypes \subseteq {"ACTIVATE"} \cup Columns
  BY DEF CommandTypes, Columns, Reads, Writes, Autopre
<1>4. \A p \in Packets : p.rank \in Ranks /\ p.bank \in Banks /\ p.row \in Nat
  BY DEF Packets
<1>5. Len(queues[s]) \in Nat
  BY <1>1, LenProperties
<1> QED BY <1>1, <1>2, <1>3, <1>4, <1>5 DEF Shaped, Served

LEMMA ColumnQuiet ==
  ASSUME TablesInv, phase = "issue", NEW p \in Packets, p.type \in Columns, bankStates' = Updated(p, Column)
  PROVE  \A r \in Ranks, b \in Banks :
           /\ bankStates'[r][b].state = bankStates[r][b].state
           /\ r # p.rank \/ b # p.bank => SameRow(bankStates'[r][b], bankStates[r][b])
           /\ r = p.rank /\ b = p.bank => bankStates'[r][b].last = p.type
<1> SUFFICES ASSUME NEW r \in Ranks, NEW b \in Banks
             PROVE  /\ bankStates'[r][b].state = bankStates[r][b].state
                    /\ r # p.rank \/ b # p.bank => SameRow(bankStates'[r][b], bankStates[r][b])
                    /\ r = p.rank /\ b = p.bank => bankStates'[r][b].last = p.type
  OBVIOUS
<1>1. bankStates'[r][b] = Column(p, r, b)
  BY DEF Updated
<1>2. bankStates[r][b] \in BankTable /\ rankBanks[r][b] \in BankTable /\ Agree(bankStates[r][b], rankBanks[r][b])
  BY AtIssue
<1>3. CASE r # p.rank
  <2>1. SameRow(Column(p, r, b), bankStates[r][b])
    BY <1>2, <1>3, ColumnElsewhere
  <2> QED BY <1>1, <1>3, <2>1 DEF SameRow
<1>4. CASE r = p.rank
  <2>1. bankStates[p.rank][b] \in BankTable
    BY <1>2, <1>4
  <2>2. /\ Column(p, p.rank, b).state = bankStates[p.rank][b].state
        /\ Column(p, p.rank, b).row = bankStates[p.rank][b].row
        /\ Column(p, p.rank, b).nextPowerUp = bankStates[p.rank][b].nextPowerUp
        /\ Column(p, p.rank, b).last = IF b = p.bank THEN p.type ELSE bankStates[p.rank][b].last
    BY <2>1, ColumnKeepsRow
  <2> QED BY <1>1, <1>4, <2>2 DEF SameRow
<1> QED BY <1>3, <1>4

LEMMA CountersKept ==
  ASSUME policy' = policy, rowAccessCounters' \in [AllBanks -> 0..TotalRowAccesses],
         \A r \in Ranks, b \in Banks : bankStates'[r][b].state # "RowActive" => rowAccessCounters'[<<r, b>>] = 0,
         OpenPage => \A r \in Ranks, b \in Banks : bankStates'[r][b].last \notin Autopre,
         ~OpenPage => \A r \in Ranks, b \in Banks : rowAccessCounters'[<<r, b>>] = 0
  PROVE  CounterInv'
BY SamePolicy DEF CounterInv

\* A column command on its own leaves.
LEMMA LoneGoes ==
  ASSUME TablesInv, QueueInv, CounterInv, policy' = policy, phase = "issue",
         NEW s \in Slots, NEW i \in 1..Len(queues[s]), Lone(queues[s], i),
         queues' = [queues EXCEPT ![s] = RemoveAt(@, i)], rowAccessCounters' = rowAccessCounters,
         bankStates' = Updated(queues[s][i], Column)
  PROVE  QueueInv' /\ CounterInv' /\ BankOf(queues[s][i]).last \notin Autopre
<1> DEFINE q == queues[s]
           p == queues[s][i]
           new == RemoveAt(q, i)
<1>1. /\ q \in Seq(Packets) /\ Len(q) <= CmdQueueDepth /\ Len(q) \in Nat /\ Coupled(q) /\ First(q)
      /\ p \in Packets /\ s = SlotOf(p.rank, p.bank) /\ p.rank \in Ranks /\ p.bank \in Banks
      /\ p.type \in CommandTypes
      /\ \A k \in 1..Len(q) : s = SlotOf(q[k].rank, q[k].bank) /\ q[k].type \in CommandTypes
  BY HeldFacts
<1>2. p.type \in Columns
  BY DEF Lone
<1>3. RowOpen(bankStates, rowAccessCounters, p)
  BY HeldFacts
<1>4. /\ new \in Seq(Packets) /\ Len(new) <= Len(q) /\ Coupled(new) /\ First(new) /\ From(new, q, i)
  BY <1>1, DropLone
<1>5. \A r \in Ranks, b \in Banks :
        /\ bankStates'[r][b].state = bankStates[r][b].state
        /\ r # p.rank \/ b # p.bank => SameRow(bankStates'[r][b], bankStates[r][b])
        /\ r = p.rank /\ b = p.bank => bankStates'[r][b].last = p.type
  BY <1>1, <1>2, ColumnQuiet
<1>6. queues' = [queues EXCEPT ![s] = new]
  BY <1>1
<1>7. Lone(q, i)
  OBVIOUS
<1>8. bankStates[p.rank][p.bank].last \notin Autopre
  BY <1>3 DEF RowOpen, Autopre
<1> HIDE DEF new, p, q
<1>9. Len(new) \in Nat /\ Len(new) <= CmdQueueDepth
  BY <1>1, <1>4, LenProperties, ControllerAssumption
<1>10. Shaped(new, s)
  <2>1. \A j \in 1..Len(new) : s = SlotOf(new[j].rank, new[j].bank) /\ new[j].type \in CommandTypes
    BY <1>1, <1>4 DEF From
  <2> QED BY <1>1, <1>4, <1>9, <2>1 DEF Shaped
<1>11. Remains(new, q, p.bank)
  <2> SUFFICES ASSUME NEW j \in 1..Len(new), Lone(new, j)
               PROVE  \E k \in 1..Len(q) : Lone(q, k) /\ new[j] = q[k] /\ q[k].bank # p.bank
    BY DEF Remains
  <2>1. PICK k \in 1..Len(q) : Lone(q, k) /\ k # i /\ new[j] = q[k]
    BY <1>4 DEF From
  <2>2. q[k].bank # p.bank
    BY <1>1, <1>7, <2>1 DEF First, p, q
  <2> QED BY <2>1, <2>2
<1>12. QuietBut(p.rank, p.bank)
  BY <1>5 DEF QuietBut, Quiet
<1>13. QueueInv'
  BY <1>1, <1>6, <1>10, <1>11, <1>12, OneBankStep DEF q
<1>14. CounterInv'
  <2>1. OpenPage => p.type \notin Autopre
    BY <1>1, <1>2 DEF CommandTypes, Autopre, Columns, Reads, Writes
  <2>2. OpenPage => \A r \in Ranks, b \in Banks : bankStates'[r][b].last \notin Autopre
    BY <1>5, <2>1 DEF CounterInv, SameRow
  <2> QED BY <1>5, <2>2, CountersKept DEF CounterInv
<1> QED BY <1>8, <1>13, <1>14 DEF BankOf, p

\* A column command whose row is already open takes its activate with it.
LEMMA PairGoes ==
  ASSUME TablesInv, QueueInv, CounterInv, policy' = policy, phase = "issue", OpenPage,
         NEW s \in Slots, NEW i \in 1..Len(queues[s]), Paired(queues[s], i), queues[s][i].type \in Columns,
         isIssuable(queues[s][i]), ~Dependent(queues[s], i),
         queues' = [queues EXCEPT ![s] = RemoveAt(RemoveAt(@, i), i - 1)],
         rowAccessCounters' = [rowAccessCounters EXCEPT ![<<queues[s][i].rank, queues[s][i].bank>>] = @ + 1],
         bankStates' = Updated(queues[s][i], Column)
  PROVE  QueueInv' /\ CounterInv' /\ BankOf(queues[s][i]).last \notin Autopre
<1> DEFINE q == queues[s]
           p == queues[s][i]
           new == RemoveAt(RemoveAt(q, i), i - 1)
<1>1. /\ q \in Seq(Packets) /\ Len(q) <= CmdQueueDepth /\ Len(q) \in Nat /\ Coupled(q) /\ First(q)
      /\ p \in Packets /\ s = SlotOf(p.rank, p.bank) /\ p.rank \in Ranks /\ p.bank \in Banks
      /\ p.type \in CommandTypes
      /\ \A k \in 1..Len(q) : /\ s = SlotOf(q[k].rank, q[k].bank) /\ q[k].type \in CommandTypes
                              /\ q[k].rank \in Ranks
  BY HeldFacts
<1>2. p.type \in Columns
  OBVIOUS
<1>3. /\ BankOf(p).state = "RowActive" /\ p.row = BankOf(p).row
      /\ rowAccessCounters[<<p.rank, p.bank>>] < TotalRowAccesses
  BY DEF isIssuable, ColumnAllowed, Columns, Reads, Writes
<1>4. /\ new \in Seq(Packets) /\ Len(new) <= Len(q) /\ Coupled(new) /\ First(new) /\ From(new, q, i)
  BY <1>1, DropPair
<1>5. \A r \in Ranks, b \in Banks :
        /\ bankStates'[r][b].state = bankStates[r][b].state
        /\ r # p.rank \/ b # p.bank => SameRow(bankStates'[r][b], bankStates[r][b])
        /\ r = p.rank /\ b = p.bank => bankStates'[r][b].last = p.type
  BY <1>1, <1>2, ColumnQuiet
<1>6. queues' = [queues EXCEPT ![s] = new]
  BY <1>1
<1>7. ASSUME NEW k \in 1..Len(q), Lone(q, k) PROVE q[k].bank # p.bank
  <2> SUFFICES ASSUME q[k].bank = p.bank PROVE FALSE
    OBVIOUS
  <2>1. RowOpen(bankStates, rowAccessCounters, q[k])
    BY <1>7, HeldFacts
  <2>2. q[k].rank = p.rank
    BY <1>1 DEF SlotOf
  <2>3. q[k].row = p.row
    BY <1>3, <2>1, <2>2 DEF RowOpen, BankOf
  <2>4. k # i /\ q[k].type # "ACTIVATE"
    BY <1>7 DEF Lone, Columns, Reads, Writes
  <2>5. CASE k < i
    <3>1. k \in 1..(i - 1)
      BY <1>1, <2>5
    <3> QED BY <2>3, <2>4, <3>1 DEF Dependent
  <2>6. CASE i < k
    <3>1. i \in 1..(k - 1)
      BY <1>1, <2>6
    <3>2. ~Alike(q[i], q[k])
      BY <1>1, <1>7, <3>1 DEF First
    <3> QED BY <2>3, <3>2 DEF Alike
  <2> QED BY <1>1, <2>4, <2>5, <2>6
<1>8. bankStates[p.rank][p.bank].last \notin Autopre
  BY <1>1 DEF CounterInv
<1>9. rowAccessCounters' = [rowAccessCounters EXCEPT ![<<p.rank, p.bank>>] = @ + 1]
  OBVIOUS
<1> HIDE DEF new, p, q
<1>10. Len(new) \in Nat /\ Len(new) <= CmdQueueDepth
  BY <1>1, <1>4, LenProperties, ControllerAssumption
<1>11. Shaped(new, s)
  <2>1. \A j \in 1..Len(new) : s = SlotOf(new[j].rank, new[j].bank) /\ new[j].type \in CommandTypes
    BY <1>1, <1>4 DEF From
  <2> QED BY <1>1, <1>4, <1>10, <2>1 DEF Shaped
<1>12. Remains(new, q, p.bank)
  BY <1>4, <1>7 DEF From, Remains
<1>13. \A r \in Ranks, b \in Banks : r # p.rank \/ b # p.bank =>
         rowAccessCounters'[<<r, b>>] = rowAccessCounters[<<r, b>>]
  BY <1>9 DEF CounterInv, AllBanks
<1>14. QuietBut(p.rank, p.bank)
  BY <1>5, <1>13 DEF QuietBut, Quiet
<1>15. QueueInv'
  BY <1>1, <1>6, <1>11, <1>12, <1>14, OneBankStep DEF q
<1>16. CounterInv'
  <2>1. OpenPage => p.type \notin Autopre
    BY <1>1, <1>2 DEF CommandTypes, Autopre, Columns, Reads, Writes
  <2>2. OpenPage => \A r \in Ranks, b \in Banks : bankStates'[r][b].last \notin Autopre
    BY <1>5, <2>1 DEF CounterInv, SameRow
  <2>3. <<p.rank, p.bank>> \in AllBanks /\ rowAccessCounters \in [AllBanks -> 0..TotalRowAccesses]
    BY <1>1, SlotFacts DEF CounterInv
  <2>4. rowAccessCounters[<<p.rank, p.bank>>] + 1 \in 0..TotalRowAccesses
    BY <1>3, <2>3, ControllerAssumption
  <2>5. rowAccessCounters' \in [AllBanks -> 0..TotalRowAccesses]
    BY <1>9, <2>3, <2>4
  <2>6. \A r \in Ranks, b \in Banks : bankStates'[r][b].state # "RowActive" => rowAccessCounters'[<<r, b>>] = 0
    <3> TAKE r \in Ranks, b \in Banks
    <3>1. CASE r = p.rank /\ b = p.bank
      BY <1>3, <1>5, <3>1 DEF BankOf
    <3>2. CASE r # p.rank \/ b # p.bank
      BY <1>5, <1>13, <3>2 DEF CounterInv
    <3> QED BY <3>1, <3>2
  <2> QED BY <2>2, <2>5, <2>6, CountersKept
<1> QED BY <1>8, <1>15, <1>16 DEF BankOf, p

\* An activate leaves its column command behind, for the row it opens.
LEMMA ActivateGoes ==
  ASSUME TablesInv, QueueInv, CounterInv, policy' = policy, phase = "issue",
         NEW s \in Slots, NEW i \in 1..Len(queues[s]), queues[s][i].type = "ACTIVATE",
         isIssuable(queues[s][i]), ~Dependent(queues[s], i),
         queues' = [queues EXCEPT ![s] = RemoveAt(@, i)], rowAccessCounters' = rowAccessCounters,
         bankStates' = Updated(queues[s][i], Activate)
  PROVE  QueueInv' /\ CounterInv'
<1> DEFINE q == queues[s]
           p == queues[s][i]
           new == RemoveAt(q, i)
<1>1. /\ q \in Seq(Packets) /\ Len(q) <= CmdQueueDepth /\ Len(q) \in Nat /\ Coupled(q) /\ First(q)
      /\ p \in Packets /\ s = SlotOf(p.rank, p.bank) /\ p.rank \in Ranks /\ p.bank \in Banks
      /\ \A k \in 1..Len(q) : /\ s = SlotOf(q[k].rank, q[k].bank) /\ q[k].type \in CommandTypes
                              /\ q[k].rank \in Ranks
  BY HeldFacts
<1>2. BankOf(p).state \in {"Idle", "Refreshing"}
  BY DEF isIssuable, Reads, Writes
<1>3. ASSUME NEW k \in 1..Len(q), Lone(q, k) PROVE q[k].bank # p.bank
  <2>1. RowOpen(bankStates, rowAccessCounters, q[k])
    BY <1>3, HeldFacts
  <2>2. q[k].rank = p.rank
    BY <1>1 DEF SlotOf
  <2> QED BY <1>2, <2>1, <2>2 DEF RowOpen, BankOf
<1>4. /\ new \in Seq(Packets) /\ Len(new) <= Len(q) /\ Coupled(new) /\ First(new)
      /\ \A j \in 1..Len(new) : \E k \in 1..Len(q) : new[j] = q[k]
      /\ \A j \in 1..Len(new) : Lone(new, j) =>
           (\E k \in 1..Len(q) : Lone(q, k) /\ new[j] = q[k]) \/ Couple(q[i], new[j])
  BY <1>1, <1>3, DropActivate
<1>5. \A r \in Ranks, b \in Banks : bankStates'[r][b] = Activate(p, r, b) /\ bankStates[r][b] \in BankTable
  BY AtIssue DEF Updated
<1>6. \A r \in Ranks, b \in Banks :
        /\ r # p.rank \/ b # p.bank => SameRow(bankStates'[r][b], bankStates[r][b])
        /\ r = p.rank /\ b = p.bank =>
             /\ bankStates'[r][b].state = "RowActive" /\ bankStates'[r][b].row = p.row
             /\ bankStates'[r][b].last = "ACTIVATE"
  <2> TAKE r \in Ranks, b \in Banks
  <2>1. bankStates[r][b] \in BankTable
    BY <1>5
  <2>2. /\ ~(r = p.rank /\ b = p.bank) => SameRow(Activate(p, r, b), bankStates[r][b])
        /\ r = p.rank /\ b = p.bank =>
             /\ Activate(p, r, b).state = "RowActive" /\ Activate(p, r, b).row = p.row
             /\ Activate(p, r, b).last = "ACTIVATE"
    BY <2>1, ActivateOpens
  <2>3. bankStates'[r][b] = Activate(p, r, b)
    BY <1>5
  <2> QED BY <2>2, <2>3
<1>7. queues' = [queues EXCEPT ![s] = new]
  OBVIOUS
<1>8. rowAccessCounters[<<p.rank, p.bank>>] = 0
  BY <1>1, <1>2 DEF CounterInv, BankOf
<1> HIDE DEF new, p, q
<1>9. Len(new) \in Nat /\ Len(new) <= CmdQueueDepth
  BY <1>1, <1>4, LenProperties, ControllerAssumption
<1>10. Shaped(new, s)
  <2>1. \A j \in 1..Len(new) : s = SlotOf(new[j].rank, new[j].bank) /\ new[j].type \in CommandTypes
    BY <1>1, <1>4
  <2> QED BY <1>1, <1>4, <1>9, <2>1 DEF Shaped
<1>11. RowOpen(bankStates', rowAccessCounters', p)
  BY <1>1, <1>6, <1>8 DEF RowOpen
<1>12. Remains(new, q, p.bank)
  <2> SUFFICES ASSUME NEW j \in 1..Len(new), Lone(new, j)
               PROVE  \/ RowOpen(bankStates', rowAccessCounters', new[j])
                      \/ \E k \in 1..Len(q) : Lone(q, k) /\ new[j] = q[k] /\ q[k].bank # p.bank
    BY DEF Remains
  <2>1. CASE \E k \in 1..Len(q) : Lone(q, k) /\ new[j] = q[k]
    BY <1>3, <2>1
  <2>2. CASE Couple(q[i], new[j])
    <3>1. new[j].rank = p.rank /\ new[j].bank = p.bank /\ new[j].row = p.row
      BY <2>2 DEF Couple, p, q
    <3> QED BY <1>11, <3>1 DEF RowOpen
  <2> QED BY <1>4, <2>1, <2>2
<1>13. QuietBut(p.rank, p.bank)
  BY <1>6 DEF QuietBut, Quiet
<1>14. QueueInv'
  BY <1>1, <1>7, <1>10, <1>12, <1>13, OneBankStep DEF q
<1>15. CounterInv'
  <2>1. OpenPage => \A r \in Ranks, b \in Banks : bankStates'[r][b].last \notin Autopre
    BY <1>6 DEF CounterInv, SameRow, Autopre
  <2>2. \A r \in Ranks, b \in Banks : bankStates'[r][b].state # "RowActive" => rowAccessCounters'[<<r, b>>] = 0
    <3> SUFFICES ASSUME NEW r \in Ranks, NEW b \in Banks, bankStates'[r][b].state # "RowActive"
                 PROVE  rowAccessCounters'[<<r, b>>] = 0
      OBVIOUS
    <3>1. r # p.rank \/ b # p.bank
      BY <1>6
    <3>2. bankStates[r][b].state # "RowActive"
      BY <1>6, <3>1 DEF SameRow
    <3> QED BY <1>6, <3>2 DEF CounterInv
  <2> QED BY <2>1, <2>2, CountersKept DEF CounterInv
<1> QED BY <1>14, <1>15

\* A precharge closes a row that no column command on its own waits for.
Unwanted(r0, b0) ==
  \A k \in 1..Len(queues[SlotOf(r0, b0)]) :
    Lone(queues[SlotOf(r0, b0)], k) => queues[SlotOf(r0, b0)][k].bank # b0

LEMMA CloseGoes ==
  ASSUME TablesInv, QueueInv, CounterInv, policy' = policy, phase = "issue", OpenPage,
         NEW r0 \in Ranks, NEW b0 \in Banks, Unwanted(r0, b0), queues' = queues,
         rowAccessCounters' = [rowAccessCounters EXCEPT ![<<r0, b0>>] = 0],
         bankStates' = Updated(Bare("PRECHARGE", r0, b0), Precharge)
  PROVE  QueueInv' /\ CounterInv' /\ bankStates[r0][b0].last \notin Autopre
<1> DEFINE p == Bare("PRECHARGE", r0, b0)
           s == SlotOf(r0, b0)
<1>1. p.rank = r0 /\ p.bank = b0
  BY BareTyped DEF Commands
<1>2. \A r \in Ranks, b \in Banks : bankStates'[r][b] = Precharge(p, r, b) /\ bankStates[r][b] \in BankTable
  BY AtIssue DEF Updated
<1> HIDE DEF p
<1>3. \A r \in Ranks, b \in Banks :
        /\ r # r0 \/ b # b0 => bankStates'[r][b] = bankStates[r][b]
        /\ r = r0 /\ b = b0 => bankStates'[r][b].last = "PRECHARGE"
  <2> TAKE r \in Ranks, b \in Banks
  <2>1. bankStates[r][b] \in BankTable
    BY <1>2
  <2>2. /\ ~(r = p.rank /\ b = p.bank) => Precharge(p, r, b) = bankStates[r][b]
        /\ r = p.rank /\ b = p.bank => Precharge(p, r, b).last = "PRECHARGE"
    BY <2>1, PrechargeCloses
  <2>3. bankStates'[r][b] = Precharge(p, r, b)
    BY <1>2
  <2> QED BY <1>1, <2>2, <2>3
<1>4. rowAccessCounters \in [AllBanks -> 0..TotalRowAccesses] /\ <<r0, b0>> \in AllBanks
      /\ \A r \in Ranks, b \in Banks : <<r, b>> \in AllBanks
  BY SlotFacts DEF CounterInv
<1>5. \A r \in Ranks, b \in Banks : rowAccessCounters'[<<r, b>>] =
        IF r = r0 /\ b = b0 THEN 0 ELSE rowAccessCounters[<<r, b>>]
  BY <1>4
<1>6. QuietBut(r0, b0)
  BY <1>3, <1>5 DEF QuietBut, Quiet, SameRow
<1>7. s \in Slots /\ Shaped(queues[s], s) /\ queues' = [queues EXCEPT ![s] = queues[s]]
  BY SlotFacts DEF QueueInv
<1>8. Remains(queues[s], queues[s], b0)
  BY DEF Remains, Unwanted
<1>9. QueueInv'
  <2> HIDE DEF s
  <2>1. s = SlotOf(r0, b0)
    BY DEF s
  <2> QED BY <1>6, <1>7, <1>8, <2>1, OneBankStep
<1>10. CounterInv'
  <2>1. 0 \in 0..TotalRowAccesses
    BY ControllerAssumption
  <2>2. rowAccessCounters' \in [AllBanks -> 0..TotalRowAccesses]
    BY <1>4, <2>1
  <2>3. \A r \in Ranks, b \in Banks : bankStates'[r][b].state # "RowActive" => rowAccessCounters'[<<r, b>>] = 0
    <3> TAKE r \in Ranks, b \in Banks
    <3>1. CASE r = r0 /\ b = b0
      BY <1>5, <3>1
    <3>2. CASE r # r0 \/ b # b0
      BY <1>3, <1>5, <3>2 DEF CounterInv
    <3> QED BY <3>1, <3>2
  <2>4. \A r \in Ranks, b \in Banks : bankStates'[r][b].last \notin Autopre
    <3> TAKE r \in Ranks, b \in Banks
    <3>1. CASE r = r0 /\ b = b0
      BY <1>3, <3>1 DEF Autopre
    <3>2. CASE r # r0 \/ b # b0
      BY <1>3, <3>2 DEF CounterInv
    <3> QED BY <3>1, <3>2
  <2> QED BY <2>2, <2>3, <2>4, CountersKept
<1> QED BY <1>9, <1>10 DEF CounterInv

\* A refresh finds no row of its rank open.
LEMMA RefreshGoes ==
  ASSUME TablesInv, QueueInv, CounterInv, policy' = policy, phase = "issue",
         NEW r0 \in Ranks, \A b \in Banks : bankStates[r0][b].state # "RowActive",
         queues' = queues, rowAccessCounters' = rowAccessCounters,
         bankStates' = Updated(Bare("REFRESH", r0, 0), Refresh)
  PROVE  QueueInv' /\ CounterInv'
<1> DEFINE p == Bare("REFRESH", r0, 0)
<1>1. p.rank = r0
  BY BareTyped, FirstBank DEF Commands
<1>2. \A r \in Ranks, b \in Banks : bankStates'[r][b] = Refresh(p, r, b) /\ bankStates[r][b] \in BankTable
  BY AtIssue DEF Updated
<1> HIDE DEF p
<1>3. \A r \in Ranks, b \in Banks :
        /\ r # r0 => bankStates'[r][b] = bankStates[r][b]
        /\ r = r0 => bankStates'[r][b].last = "REFRESH"
  <2> TAKE r \in Ranks, b \in Banks
  <2>1. bankStates[r][b] \in BankTable
    BY <1>2
  <2>2. /\ r # p.rank => Refresh(p, r, b) = bankStates[r][b]
        /\ r = p.rank => Refresh(p, r, b).last = "REFRESH"
    BY <2>1, RefreshFills
  <2>3. bankStates'[r][b] = Refresh(p, r, b)
    BY <1>2
  <2> QED BY <1>1, <2>2, <2>3
<1>4. QueueInv'
  <2>1. ASSUME NEW s \in Slots, NEW i \in 1..Len(queues[s]), Lone(queues[s], i)
        PROVE  Quiet(queues[s][i].rank, queues[s][i].bank)
    <3>1. queues[s][i].rank \in Ranks /\ queues[s][i].bank \in Banks
          /\ RowOpen(bankStates, rowAccessCounters, queues[s][i])
      BY <2>1, HeldFacts
    <3>2. queues[s][i].rank # r0
      BY <3>1 DEF RowOpen
    <3> QED BY <1>3, <3>1, <3>2 DEF Quiet, SameRow
  <2> QED BY <2>1, QuietStep
<1>5. CounterInv'
  <2>1. \A r \in Ranks, b \in Banks : bankStates'[r][b].state # "RowActive" => rowAccessCounters'[<<r, b>>] = 0
    BY <1>3 DEF CounterInv
  <2>2. OpenPage => \A r \in Ranks, b \in Banks : bankStates'[r][b].last \notin Autopre
    <3> SUFFICES ASSUME OpenPage, NEW r \in Ranks, NEW b \in Banks PROVE bankStates'[r][b].last \notin Autopre
      OBVIOUS
    <3>1. CASE r = r0
      BY <1>3, <3>1 DEF Autopre
    <3>2. CASE r # r0
      BY <1>3, <3>2 DEF CounterInv
    <3> QED BY <3>1, <3>2
  <2> QED BY <2>1, <2>2, CountersKept DEF CounterInv
<1> QED BY <1>4, <1>5

\* A row closes by itself only after a column command with autoprecharge.
LEMMA UpdateBusesQueues ==
  ASSUME TablesInv, QueueInv, CounterInv, UpdateBuses
  PROVE  QueueInv' /\ CounterInv'
<1>1. /\ phase = "bus" /\ policy' = policy /\ queues' = queues /\ rowAccessCounters' = rowAccessCounters
      /\ bankStates' = [r \in Ranks |-> [b \in Banks |-> CountedDown(bankStates[r][b])]]
  BY DEF UpdateBuses
<1>2. \A r \in Ranks, b \in Banks :
        /\ bankStates[r][b] \in BankTable /\ bankStates'[r][b] = CountedDown(bankStates[r][b])
        /\ Settling(bankStates[r][b])
  BY <1>1 DEF TablesInv, BankInv, Table, Agree, Own, Clocked
<1>3. ASSUME NEW r \in Ranks, NEW b \in Banks
      PROVE  /\ bankStates[r][b].last = "ACTIVATE" => SameRow(bankStates'[r][b], bankStates[r][b])
             /\ bankStates'[r][b].state # "RowActive" =>
                  bankStates[r][b].state # "RowActive" \/ bankStates[r][b].last \in Autopre
             /\ bankStates'[r][b].last \in {bankStates[r][b].last, "PRECHARGE"}
  <2> DEFINE own == bankStates[r][b]
             after == CountedDown(own)
  <2>0. own \in BankTable /\ bankStates'[r][b] = after
    BY <1>2
  <2>1. after.row = own.row /\ after.nextPowerUp = own.nextPowerUp
    BY <2>0, CountedFields
  <2>2. own.countdown # 1 => after.state = own.state /\ after.last = own.last
    BY <2>0, CountedFields
  <2>3. own.countdown = 1 /\ own.last \in Autopre => after.state = "Precharging" /\ after.last = "PRECHARGE"
    BY <2>0, CountedFields
  <2>4. own.countdown = 1 /\ own.last \in {"REFRESH", "PRECHARGE"} => after.state = "Idle" /\ after.last = own.last
    BY DEF CountedDown, Autopre
  <2>5. own.countdown = 1 /\ own.last \notin Autopre \cup {"REFRESH", "PRECHARGE"} =>
          after.state = own.state /\ after.last = own.last
    BY <2>0, CountedFields
  <2>6. own.state = "RowActive" => own.last \notin {"PRECHARGE", "REFRESH"}
    BY <1>2 DEF Settling
  <2> HIDE DEF own, after
  <2>7. own.last = "ACTIVATE" => SameRow(after, own)
    BY <2>1, <2>2, <2>5 DEF SameRow, Autopre
  <2>8. after.state # "RowActive" => own.state # "RowActive" \/ own.last \in Autopre
    BY <2>2, <2>3, <2>4, <2>5, <2>6
  <2>9. after.last \in {own.last, "PRECHARGE"}
    BY <2>2, <2>3, <2>4, <2>5
  <2> QED BY <2>0, <2>7, <2>8, <2>9 DEF own
<1>4. QueueInv'
  <2>1. ASSUME NEW s \in Slots, NEW i \in 1..Len(queues[s]), Lone(queues[s], i)
        PROVE  Quiet(queues[s][i].rank, queues[s][i].bank)
    <3>1. queues[s][i].rank \in Ranks /\ queues[s][i].bank \in Banks
          /\ RowOpen(bankStates, rowAccessCounters, queues[s][i])
      BY <2>1, HeldFacts
    <3> QED BY <1>1, <1>3, <3>1 DEF Quiet, RowOpen
  <2> QED BY <1>1, <2>1, QuietStep
<1>5. CounterInv'
  <2>1. \A r \in Ranks, b \in Banks : bankStates'[r][b].state # "RowActive" => rowAccessCounters'[<<r, b>>] = 0
    <3> SUFFICES ASSUME NEW r \in Ranks, NEW b \in Banks, bankStates'[r][b].state # "RowActive"
                 PROVE  rowAccessCounters[<<r, b>>] = 0
      BY <1>1
    <3>1. bankStates[r][b].state # "RowActive" \/ bankStates[r][b].last \in Autopre
      BY <1>3
    <3> QED BY <3>1 DEF CounterInv
  <2>2. OpenPage => \A r \in Ranks, b \in Banks : bankStates'[r][b].last \notin Autopre
    <3> SUFFICES ASSUME OpenPage, NEW r \in Ranks, NEW b \in Banks PROVE bankStates'[r][b].last \notin Autopre
      OBVIOUS
    <3>1. bankStates'[r][b].last \in {bankStates[r][b].last, "PRECHARGE"}
      BY <1>3
    <3>2. bankStates[r][b].last \notin Autopre
      BY DEF CounterInv
    <3> QED BY <3>1, <3>2 DEF Autopre
  <2> QED BY <1>1, <2>1, <2>2, CountersKept DEF CounterInv
<1> QED BY <1>4, <1>5

-----------------------------------------------------------------------------
(* The end of a cycle: a transaction becomes commands.                     *)

LEMMA TakenFacts ==
  ASSUME TrafficInv, Fitting # {}
  PROVE  /\ Min(Fitting) \in Fitting /\ Min(Fitting) \in 1..Len(transactionQueue) /\ Taken \in Transactions
         /\ Command("ACTIVATE", Taken) \in Packets /\ Command(ColumnType(Taken.type), Taken) \in Packets
         /\ Couple(Command("ACTIVATE", Taken), Command(ColumnType(Taken.type), Taken))
         /\ Command(ColumnType(Taken.type), Taken).type \in CommandTypes
         /\ HasRoomForPair(Command("ACTIVATE", Taken).rank, Command("ACTIVATE", Taken).bank)
<1>1. Len(transactionQueue) \in Nat /\ DOMAIN transactionQueue = 1..Len(transactionQueue)
  BY LenProperties DEF TrafficInv
<1>2. Fitting \in SUBSET Nat /\ Fitting \subseteq 1..Len(transactionQueue)
  BY <1>1 DEF Fitting
<1>3. Min(Fitting) \in Fitting /\ Min(Fitting) \in 1..Len(transactionQueue)
  BY <1>2, Least
<1>4. Taken \in Transactions
  BY <1>3, ElementOfSeq DEF TrafficInv, Taken
<1> DEFINE t == Taken
<1>5. t.type \in {"READ", "WRITE"} /\ t.addr \in Addresses /\ t.addr \in Nat /\ t.id \in Nat
  <2>1. t.type \in {"READ", "WRITE"} /\ t.addr \in Addresses /\ t.id \in 1..MaxTransactions
    BY <1>4 DEF Transactions
  <2>2. Addresses \subseteq Nat /\ MaxTransactions \in Nat
    BY ControllerAssumption
  <2>3. \A n \in 1..MaxTransactions : n \in Nat
    BY <2>2
  <2>4. t.addr \in Nat
    BY <2>1, <2>2
  <2>5. t.id \in Nat
    BY <2>1, <2>3
  <2> QED BY <2>1, <2>4, <2>5, Zenon
<1>6. MapOf(t).rank \in Ranks /\ MapOf(t).bank \in Banks /\ MapOf(t).row \in Nat
  BY <1>5, ControllerAssumption, MappingAssumption DEF MapOf, Location
<1>7. HasRoomForPair(MapOf(t).rank, MapOf(t).bank)
  BY <1>3 DEF Fitting, Taken
<1> HIDE DEF t
<1>8. \A type \in Commands : Command(type, t) \in Packets
  BY <1>5, <1>6 DEF Command, Packets
<1>9. "ACTIVATE" \in Commands /\ ColumnType(t.type) \in Commands /\ ColumnType(t.type) \in Columns
      /\ ColumnType(t.type) \in CommandTypes
  BY <1>5 DEF ColumnType, Commands, Columns, Reads, Writes, CommandTypes, Autopre
<1>10. \A type : /\ Command(type, t).type = type /\ Command(type, t).id = t.id /\ Command(type, t).addr = t.addr
                 /\ Command(type, t).rank = MapOf(t).rank /\ Command(type, t).bank = MapOf(t).bank
                 /\ Command(type, t).row = MapOf(t).row
  BY DEF Command
<1>11. Couple(Command("ACTIVATE", t), Command(ColumnType(t.type), t))
  BY <1>9, <1>10 DEF Couple
<1>12. Command(ColumnType(t.type), t).type \in CommandTypes
  BY <1>9, <1>10
<1>13. HasRoomForPair(Command("ACTIVATE", t).rank, Command("ACTIVATE", t).bank)
  BY <1>7, <1>10
<1> QED BY <1>3, <1>4, <1>8, <1>9, <1>11, <1>12, <1>13 DEF t

\* Powering a rank down or up disturbs no open row.
LEMMA PoweredRows ==
  ASSUME TablesInv, Finish, NEW r \in Ranks, NEW b \in Banks
  PROVE  /\ bankStates'[r][b].last = bankStates[r][b].last
         /\ bankStates[r][b].state = "RowActive" =>
              bankStates'[r][b].state = "RowActive" /\ bankStates'[r][b].row = bankStates[r][b].row
         /\ bankStates'[r][b].state = "RowActive" => bankStates[r][b].state = "RowActive"
<1> DEFINE own == bankStates[r][b]
<1>1. own \in BankTable
  BY DEF TablesInv, BankInv, Table
<1>2. bankStates' = Powered(bankStates)
  BY DEF Finish, Power
<1>3. bankStates'[r][b] =
        TickedBank(IF GoesDown(r) THEN PoweredDown(own) ELSE IF GoesUp(r) THEN PoweredUp(own) ELSE own)
  BY <1>2 DEF Powered
<1>4. GoesDown(r) => own.state = "Idle"
  BY DEF GoesDown
<1>5. GoesUp(r) => own.state = "PowerDown"
  BY DEF GoesUp, TablesInv, PowerInv
<1> HIDE DEF own
<1>6. /\ PoweredDown(own).last = own.last /\ PoweredDown(own).state = "PowerDown"
      /\ PoweredUp(own).last = own.last /\ PoweredUp(own).state = "Idle"
  BY <1>1 DEF PoweredDown, PoweredUp, BankTable
<1>8. PoweredDown(own) \in BankTable /\ PoweredUp(own) \in BankTable
  <2>1. tCKE \in Timers /\ tXP \in Timers
    BY DelaysFit DEF Delays
  <2> QED BY <1>1, <2>1 DEF PoweredDown, PoweredUp, BankTable, BankStates
<1>9. CASE GoesDown(r)
  <2>1. /\ TickedBank(PoweredDown(own)).state = "PowerDown"
        /\ TickedBank(PoweredDown(own)).last = own.last
    BY <1>6, <1>8, TickedFields
  <2> QED BY <1>3, <1>4, <1>9, <2>1 DEF own
<1>10. CASE ~GoesDown(r) /\ GoesUp(r)
  <2>1. TickedBank(PoweredUp(own)).state = "Idle" /\ TickedBank(PoweredUp(own)).last = own.last
    BY <1>6, <1>8, TickedFields
  <2> QED BY <1>3, <1>5, <1>10, <2>1 DEF own
<1>11. CASE ~GoesDown(r) /\ ~GoesUp(r)
  <2>1. /\ TickedBank(own).state = own.state /\ TickedBank(own).last = own.last
        /\ TickedBank(own).row = own.row
    BY <1>1, TickedFields
  <2> QED BY <1>3, <1>11, <2>1 DEF own
<1> QED BY <1>9, <1>10, <1>11

LEMMA FinishQueues ==
  ASSUME TablesInv, QueueInv, CounterInv, TrafficInv, Finish
  PROVE  QueueInv' /\ CounterInv'
<1>1. policy' = policy /\ queues' = QueuesAfter /\ rowAccessCounters' = rowAccessCounters
  BY DEF Finish, TakeTransaction
<1>2. ASSUME NEW s \in Slots, NEW i \in 1..Len(queues[s]), Lone(queues[s], i)
      PROVE  RowOpen(bankStates', rowAccessCounters', queues[s][i])
  <2>1. queues[s][i].rank \in Ranks /\ queues[s][i].bank \in Banks
        /\ RowOpen(bankStates, rowAccessCounters, queues[s][i])
    BY <1>2, HeldFacts
  <2> QED BY <1>1, <2>1, PoweredRows DEF RowOpen
<1>3. QueueInv'
  <2>1. CASE Fitting = {}
    <3>1. queues' = queues
      BY <1>1, <2>1 DEF QueuesAfter
    <3>2. \A s \in Slots : Served(queues'[s], bankStates', rowAccessCounters')
      BY <1>2, <3>1 DEF Served
    <3>3. queues' \in [Slots -> Seq(Packets)] /\ \A s \in Slots : Shaped(queues'[s], s)
      BY <3>1 DEF QueueInv
    <3> QED BY <1>1, <3>2, <3>3, QueuesKept
  <2>2. CASE Fitting # {}
    <3> DEFINE p1 == Command("ACTIVATE", Taken)
               p2 == Command(ColumnType(Taken.type), Taken)
               s0 == SlotOf(p1.rank, p1.bank)
               q == queues[s0]
               new == q \o <<p1, p2>>
    <3>1. queues' = [queues EXCEPT ![s0] = @ \o <<p1, p2>>]
      BY <1>1, <2>2 DEF QueuesAfter, Enqueued
    <3>2. /\ p1 \in Packets /\ p2 \in Packets /\ Couple(p1, p2)
          /\ p2.type \in CommandTypes /\ HasRoomForPair(p1.rank, p1.bank)
      BY <2>2, TakenFacts
    <3> HIDE DEF p1, p2
    <3>3. p1.rank \in Ranks /\ p1.bank \in Banks /\ s0 \in Slots /\ queues \in [Slots -> Seq(Packets)]
      BY <3>2, SlotFacts DEF Packets, QueueInv
    <3>4. /\ q \in Seq(Packets) /\ Len(q) \in Nat /\ Coupled(q) /\ First(q)
          /\ \A k \in 1..Len(q) : s0 = SlotOf(q[k].rank, q[k].bank) /\ q[k].type \in CommandTypes
      BY <3>3, HeldFacts
    <3>5. Len(q) + 2 <= CmdQueueDepth
      BY <3>2, <3>4, ControllerAssumption DEF HasRoomForPair
    <3>6. s0 = SlotOf(p1.rank, p1.bank) /\ s0 = SlotOf(p2.rank, p2.bank) /\ p1.type \in CommandTypes
      BY <3>2 DEF Couple, CommandTypes
    <3>7. queues' = [queues EXCEPT ![s0] = new]
      BY <3>1
    <3>8. \A i \in 1..Len(q) : Lone(q, i) => RowOpen(bankStates', rowAccessCounters', q[i])
      BY <1>2, <3>3
    <3>12. /\ new \in Seq(Packets) /\ Len(new) = Len(q) + 2 /\ Coupled(new) /\ First(new)
           /\ \A j \in 1..Len(new) : new[j] \in {p1, p2} \/ \E k \in 1..Len(q) : new[j] = q[k]
           /\ \A j \in 1..Len(new) : Lone(new, j) => Lone(q, j) /\ new[j] = q[j]
      <4> HIDE DEF q
      <4> QED BY <3>2, <3>4, AddPair
    <3> HIDE DEF new, q, s0
    <3>9. Shaped(new, s0)
      <4>1. ASSUME NEW j \in 1..Len(new) PROVE s0 = SlotOf(new[j].rank, new[j].bank) /\ new[j].type \in CommandTypes
        <5>1. CASE new[j] \in {p1, p2}
          BY <3>2, <3>6, <5>1
        <5>2. CASE \E k \in 1..Len(q) : new[j] = q[k]
          BY <3>4, <5>2
        <5> QED BY <3>12, <5>1, <5>2
      <4> QED BY <3>4, <3>5, <3>12, <4>1 DEF Shaped
    <3>10. queues' \in [Slots -> Seq(Packets)] /\ queues'[s0] = new
           /\ \A s \in Slots : s # s0 => queues'[s] = queues[s]
      BY <3>3, <3>7, <3>12
    <3>11. \A s \in Slots : Shaped(queues'[s], s)
      BY <3>9, <3>10 DEF QueueInv
    <3>13. Served(new, bankStates', rowAccessCounters')
      <4> SUFFICES ASSUME NEW j \in 1..Len(new), Lone(new, j)
                   PROVE  RowOpen(bankStates', rowAccessCounters', new[j])
        BY DEF Served
      <4>1. Lone(q, j) /\ new[j] = q[j]
        BY <3>12
      <4>2. j \in 1..Len(q)
        BY <4>1 DEF Lone
      <4> QED BY <3>8, <4>1, <4>2
    <3>14. \A s \in Slots : Served(queues'[s], bankStates', rowAccessCounters')
      BY <1>2, <3>10, <3>13 DEF Served
    <3> QED BY <1>1, <3>10, <3>11, <3>14, QueuesKept
  <2> QED BY <2>1, <2>2
<1>4. CounterInv'
  <2>1. \A r \in Ranks, b \in Banks : bankStates'[r][b].state # "RowActive" => rowAccessCounters'[<<r, b>>] = 0
    BY <1>1, PoweredRows DEF CounterInv
  <2>2. OpenPage => \A r \in Ranks, b \in Banks : bankStates'[r][b].last \notin Autopre
    BY PoweredRows DEF CounterInv
  <2> QED BY <1>1, <2>1, <2>2, CountersKept DEF CounterInv
<1> QED BY <1>3, <1>4

-----------------------------------------------------------------------------
(* The choice of a command.                                                *)

LEMMA Remainder == \A n \in Nat \ {0}, x \in Nat : x % n \in 0..(n - 1)
OBVIOUS

LEMMA NextBank ==
  ASSUME NEW rb \in AllBanks
  PROVE  nextRankAndBank(rb) \in AllBanks /\ NextQueue(rb) \in AllBanks
<1>1. rb[1] \in Nat /\ rb[2] \in Nat /\ rb[1] \in Ranks /\ rb[2] \in Banks
  BY DEF AllBanks, Ranks, Banks
<1>2. (rb[1] + 1) % NumRanks \in Ranks /\ (rb[2] + 1) % NumBanks \in Banks
  <2>1. NumRanks \in Nat \ {0} /\ NumBanks \in Nat \ {0} /\ rb[1] + 1 \in Nat /\ rb[2] + 1 \in Nat
    BY <1>1, MappingAssumption
  <2> QED BY <2>1, Remainder DEF Ranks, Banks
<1> HIDE DEF AllBanks
<1>3. \A r \in Ranks, b \in Banks : <<r, b>> \in AllBanks
  BY DEF AllBanks
<1>4. nextRankAndBank(rb) \in AllBanks
  BY <1>1, <1>2, <1>3 DEF nextRankAndBank
<1> QED BY <1>1, <1>2, <1>3, <1>4 DEF NextQueue

LEMMA ToursStay ==
  ASSUME RoundInv, NEW n \in Nat
  PROVE  QueueTour(n) \in AllBanks /\ BankTour(n) \in AllBanks
<1>1. next \in AllBanks /\ nextPRE \in AllBanks
  BY DEF RoundInv
<1>2. [rb \in AllBanks |-> NextQueue(rb)] \in [AllBanks -> AllBanks]
      /\ [rb \in AllBanks |-> nextRankAndBank(rb)] \in [AllBanks -> AllBanks]
  BY NextBank
<1>3. Tour(next, n, [rb \in AllBanks |-> NextQueue(rb)]) \in AllBanks
  BY <1>1, <1>2, TourStays
<1>4. Tour(nextPRE, n, [rb \in AllBanks |-> nextRankAndBank(rb)]) \in AllBanks
  BY <1>1, <1>2, TourStays
<1> QED BY <1>3, <1>4 DEF QueueTour, BankTour

LEMMA WindowFacts ==
  ASSUME RoundInv, NEW r \in Ranks
  PROVE  WindowOf(r) \in Seq(Int) /\ Len(WindowOf(r)) \in Nat /\ Len(WindowOf(r)) <= 4
<1> DEFINE t == tFAWCountdown[r]
           aged == [i \in DOMAIN t |-> t[i] - 1]
<1>1. t \in Seq(Int) /\ Len(t) <= 4
  BY DEF RoundInv
<1> HIDE DEF t
<1>2. Len(t) \in Nat /\ DOMAIN t = 1..Len(t) /\ \A i \in 1..Len(t) : t[i] \in Int
  BY <1>1, LenProperties, ElementOfSeq
<1>3. aged \in Seq(Int) /\ Len(aged) = Len(t)
  <2>1. aged \in [1..Len(t) -> Int]
    BY <1>2
  <2> QED BY <1>2, <2>1
<1> HIDE DEF aged
<1>4. aged # <<>> => Tail(aged) \in Seq(Int) /\ Len(Tail(aged)) = Len(aged) - 1
  BY <1>3
<1>5. WindowOf(r) = IF aged # <<>> /\ Head(aged) = 0 THEN Tail(aged) ELSE aged
  BY DEF WindowOf, aged, t
<1> QED BY <1>1, <1>2, <1>3, <1>4, <1>5

LEMMA PoppedRound ==
  ASSUME RoundInv, NEW p, NEW at \in AllBanks, Popped(p, at),
         p.type = "ACTIVATE" => Len(WindowOf(p.rank)) < 4
  PROVE  /\ next' \in AllBanks /\ sendAct' \in BOOLEAN
         /\ tFAWCountdown' \in [Ranks -> Seq(Int)] /\ \A r \in Ranks : Len(tFAWCountdown'[r]) <= 4
<1>1. next' \in AllBanks /\ sendAct' \in BOOLEAN
  BY NextBank DEF Popped
<1> DEFINE after(r) == IF p.type = "ACTIVATE" /\ r = p.rank THEN Append(WindowOf(r), tFAW) ELSE WindowOf(r)
<1>2. ASSUME NEW r \in Ranks PROVE after(r) \in Seq(Int) /\ Len(after(r)) <= 4
  <2>1. WindowOf(r) \in Seq(Int) /\ Len(WindowOf(r)) \in Nat /\ Len(WindowOf(r)) <= 4
    BY WindowFacts
  <2>2. tFAW \in Int
    BY TimingAssumption
  <2>3. Append(WindowOf(r), tFAW) \in Seq(Int) /\ Len(Append(WindowOf(r), tFAW)) = Len(WindowOf(r)) + 1
    BY <2>1, <2>2, AppendProperties
  <2> QED BY <2>1, <2>3
<1>3. tFAWCountdown' = [r \in Ranks |-> after(r)]
  BY DEF Popped
<1> HIDE DEF after
<1> QED BY <1>1, <1>2, <1>3

\* The three ways a command leaves a queue.
GoesAlone(s, i) ==
  /\ Lone(queues[s], i) /\ queues' = [queues EXCEPT ![s] = RemoveAt(@, i)]
  /\ rowAccessCounters' = rowAccessCounters

GoesPaired(s, i) ==
  /\ OpenPage /\ Paired(queues[s], i) /\ queues[s][i].type \in Columns /\ ~Dependent(queues[s], i)
  /\ queues' = [queues EXCEPT ![s] = RemoveAt(RemoveAt(@, i), i - 1)]
  /\ rowAccessCounters' = [rowAccessCounters EXCEPT ![<<queues[s][i].rank, queues[s][i].bank>>] = @ + 1]

GoesFirst(s, i) ==
  /\ queues[s][i].type = "ACTIVATE" /\ ~Dependent(queues[s], i)
  /\ queues' = [queues EXCEPT ![s] = RemoveAt(@, i)] /\ rowAccessCounters' = rowAccessCounters

LEMMA PairedIsColumn ==
  ASSUME NEW q \in Seq(Packets), Coupled(q), NEW i \in 1..Len(q), Paired(q, i)
  PROVE  /\ i - 1 \in 1..Len(q) /\ i - 1 < i /\ Couple(q[i - 1], q[i])
         /\ q[i].type \in Columns /\ q[i].type # "ACTIVATE"
<1>1. Len(q) \in Nat /\ i > 1 /\ i - 1 \in 1..Len(q) /\ (i - 1) + 1 = i /\ i - 1 < i
  BY DEF Paired
<1>2. q[i - 1].type = "ACTIVATE"
  BY DEF Paired
<1>3. Couple(q[i - 1], q[(i - 1) + 1])
  BY <1>1, <1>2 DEF Coupled
<1> QED BY <1>1, <1>3 DEF Couple, Columns, Reads, Writes

LEMMA BlockerFacts ==
  ASSUME RoundInv, refreshWaiting, InTheWay # {}
  PROVE  Blocker \in InTheWay /\ Blocker \in Banks /\ refreshRank \in Ranks
         /\ SlotOf(refreshRank, Blocker) \in Slots
<1>1. InTheWay \in SUBSET Nat /\ InTheWay \subseteq Banks
  BY DEF InTheWay, Banks
<1>2. Blocker \in InTheWay
  BY <1>1, Least DEF Blocker
<1> QED BY <1>1, <1>2, SlotFacts DEF RoundInv

\* What mentions the open row of the bank in the way first.
LEMMA FirstMention ==
  ASSUME QueueInv, RoundInv, refreshWaiting, InTheWay # {}, Mentions # {}
  PROVE  /\ Min(Mentions) \in 1..Len(queues[SlotOf(refreshRank, Blocker)])
         /\ Min(Mentions) \in Mentions /\ \A k \in Mentions : Min(Mentions) <= k
<1> DEFINE q == queues[SlotOf(refreshRank, Blocker)]
<1>1. SlotOf(refreshRank, Blocker) \in Slots
  BY BlockerFacts
<1>2. q \in Seq(Packets) /\ Len(q) \in Nat /\ DOMAIN q = 1..Len(q)
  BY <1>1, HeldFacts, LenProperties
<1>3. Mentions \subseteq 1..Len(q) /\ Mentions \in SUBSET Nat
  BY <1>2 DEF Mentions
<1> HIDE DEF q
<1>4. Min(Mentions) \in Mentions /\ \A k \in Mentions : Min(Mentions) <= k
  BY <1>3, Least
<1> QED BY <1>3, <1>4 DEF q

LEMMA ForRefreshGoes ==
  ASSUME QueueInv, RoundInv, NEW p, PopForRefresh(p)
  PROVE  \E s \in Slots : \E i \in 1..Len(queues[s]) : p = queues[s][i] /\ isIssuable(p) /\ GoesAlone(s, i)
<1> DEFINE s == SlotOf(refreshRank, Blocker)
           q == queues[s]
           i == Min(Mentions)
<1>1. /\ refreshWaiting /\ InTheWay # {} /\ Mentions # {} /\ q[i].type # "ACTIVATE" /\ isIssuable(q[i])
      /\ p = q[i] /\ queues' = [queues EXCEPT ![s] = RemoveAt(@, i)] /\ rowAccessCounters' = rowAccessCounters
  BY DEF PopForRefresh, RefreshServes, ServesOpenRow, RowWanted
<1>2. s \in Slots
  BY <1>1, BlockerFacts
<1>3. i \in 1..Len(q) /\ i \in Mentions /\ \A k \in Mentions : i <= k
  BY <1>1, FirstMention
<1>4. q \in Seq(Packets) /\ Coupled(q) /\ q[i].type \in {"ACTIVATE"} \cup Columns
      /\ Len(q) \in Nat /\ DOMAIN q = 1..Len(q)
  BY <1>2, <1>3, HeldFacts, LenProperties
<1>5. Mentions = {k \in 1..Len(q) : q[k].bank = Blocker /\ q[k].row = Blocking.row}
  BY <1>4 DEF Mentions
<1> HIDE DEF s, q, i
<1>6. ~Paired(q, i)
  <2> SUFFICES ASSUME Paired(q, i) PROVE FALSE
    OBVIOUS
  <2>1. i - 1 \in 1..Len(q) /\ i - 1 < i /\ Couple(q[i - 1], q[i])
    BY <1>3, <1>4, PairedIsColumn
  <2>2. i - 1 \in Mentions
    BY <1>3, <1>5, <2>1 DEF Couple
  <2> QED BY <1>3, <1>4, <2>1, <2>2
<1>7. Lone(q, i)
  BY <1>1, <1>3, <1>4, <1>6 DEF Lone
<1>8. GoesAlone(s, i)
  BY <1>1, <1>7 DEF GoesAlone, q
<1> QED BY <1>1, <1>2, <1>3, <1>8 DEF q

LEMMA OffersFacts ==
  ASSUME RoundInv, QueueInv, Stops # {}
  PROVE  \E at \in AllBanks :
           /\ at = QueueTour(Min(Stops)) /\ SlotOf(at[1], at[2]) \in Slots
           /\ Min(Offers(at)) \in 1..Len(queues[SlotOf(at[1], at[2])])
           /\ Min(Offers(at)) \in Eligible(queues[SlotOf(at[1], at[2])])
           /\ \A k \in Eligible(queues[SlotOf(at[1], at[2])]) : Min(Offers(at)) <= k
<1>1. Stops \in SUBSET Nat
  BY MappingAssumption DEF Stops
<1>2. Min(Stops) \in Stops
  BY <1>1, Least
<1> DEFINE at == QueueTour(Min(Stops))
           s == SlotOf(at[1], at[2])
<1>3. at \in AllBanks
  BY <1>1, <1>2, ToursStay
<1>4. Offers(at) # {}
  BY <1>2 DEF Stops
<1> HIDE DEF at
<1>5. s \in Slots
  BY <1>3, SlotFacts DEF AllBanks
<1>6. queues[s] \in Seq(Packets) /\ Len(queues[s]) \in Nat /\ DOMAIN queues[s] = 1..Len(queues[s])
  BY <1>5, HeldFacts, LenProperties
<1>7. Offers(at) = Eligible(queues[s])
  BY <1>4 DEF Offers
<1> HIDE DEF s
<1>8. Eligible(queues[s]) \subseteq 1..Len(queues[s])
  BY <1>6 DEF Eligible
<1>9. Offers(at) \in SUBSET Nat
  BY <1>6, <1>7, <1>8
<1>10. Min(Offers(at)) \in Offers(at) /\ \A k \in Offers(at) : Min(Offers(at)) <= k
  BY <1>4, <1>9, Least
<1> QED BY <1>3, <1>5, <1>7, <1>8, <1>10 DEF at, s

\* The first command that may go, when it is an activate, goes before every
\* column command of its row: one with its activate would have let that go
\* first, and one on its own has its row open.
LEMMA FirstActivate ==
  ASSUME QueueInv, NEW s \in Slots, NEW i \in 1..Len(queues[s]), i \in Eligible(queues[s]),
         \A k \in Eligible(queues[s]) : i <= k, queues[s][i].type = "ACTIVATE"
  PROVE  ~Dependent(queues[s], i)
<1> DEFINE q == queues[s]
<1>1. /\ q \in Seq(Packets) /\ Len(q) \in Nat /\ DOMAIN q = 1..Len(q) /\ Coupled(q)
      /\ \A k \in 1..Len(q) : /\ s = SlotOf(q[k].rank, q[k].bank)
                              /\ q[k].type \in {"ACTIVATE"} \cup Columns
      /\ \A k \in 1..Len(q) : Lone(q, k) => RowOpen(bankStates, rowAccessCounters, q[k])
  BY HeldFacts, LenProperties
<1>2. i \in 1..Len(q) /\ i \in Eligible(q) /\ q[i].type = "ACTIVATE" /\ \A k \in Eligible(q) : i <= k
  OBVIOUS
<1> HIDE DEF q
<1>3. isIssuable(q[i])
  BY <1>2 DEF Eligible
<1>4. CASE OpenPage
  BY <1>2, <1>4 DEF Eligible, q
<1>5. CASE ~OpenPage
  <2> SUFFICES ASSUME NEW j \in 1..(i - 1), q[j].type # "ACTIVATE", q[j].bank = q[i].bank, q[j].row = q[i].row
               PROVE  FALSE
    BY DEF Dependent, q
  <2>1. j \in 1..Len(q) /\ j < i /\ i # 1 /\ q[j].type \in Columns
    BY <1>1, <1>2
  <2>2. PerRank
    BY <1>2, <1>5, <2>1 DEF Eligible
  <2>3. q[j].rank = q[i].rank
    BY <1>1, <1>2, <2>1 DEF SlotOf
  <2>4. BankOf(q[i]).state \in {"Idle", "Refreshing"}
    BY <1>2, <1>3 DEF isIssuable, Reads, Writes
  <2>5. CASE Paired(q, j)
    <3>1. j - 1 \in 1..Len(q) /\ j - 1 < j /\ Couple(q[j - 1], q[j])
      BY <1>1, <2>1, <2>5, PairedIsColumn
    <3>2. q[j - 1].type = "ACTIVATE" /\ q[j - 1].rank = q[i].rank /\ q[j - 1].bank = q[i].bank
      BY <2>3, <3>1 DEF Couple
    <3>3. isIssuable(q[j - 1])
      BY <1>2, <1>3, <3>2 DEF isIssuable, BankOf, Reads, Writes
    <3>4. ~Paired(q, j - 1)
      BY <1>1, <3>1, <3>2, PairedIsColumn
    <3>5. j - 1 \in Eligible(q)
      BY <1>1, <1>5, <2>2, <3>1, <3>3, <3>4 DEF Eligible
    <3>6. i <= j - 1
      BY <1>2, <3>5
    <3> QED BY <1>2, <2>1, <3>6
  <2>6. CASE ~Paired(q, j)
    <3>1. RowOpen(bankStates, rowAccessCounters, q[j])
      BY <1>1, <2>1, <2>6 DEF Lone
    <3> QED BY <2>3, <2>4, <3>1 DEF RowOpen, BankOf
  <2> QED BY <2>5, <2>6
<1> QED BY <1>4, <1>5

LEMMA FromQueueGoes ==
  ASSUME QueueInv, CounterInv, RoundInv, NEW p, PopFromQueue(p)
  PROVE  \E s \in Slots : \E i \in 1..Len(queues[s]) :
           p = queues[s][i] /\ isIssuable(p) /\ (GoesAlone(s, i) \/ GoesPaired(s, i) \/ GoesFirst(s, i))
<1>1. PICK at \in AllBanks :
        /\ at = QueueTour(Min(Stops)) /\ SlotOf(at[1], at[2]) \in Slots
        /\ Min(Offers(at)) \in 1..Len(queues[SlotOf(at[1], at[2])])
        /\ Min(Offers(at)) \in Eligible(queues[SlotOf(at[1], at[2])])
        /\ \A k \in Eligible(queues[SlotOf(at[1], at[2])]) : Min(Offers(at)) <= k
  BY OffersFacts DEF PopFromQueue
<1> DEFINE s == SlotOf(at[1], at[2])
           q == queues[s]
           i == Min(Offers(at))
           both == OpenPage /\ Paired(q, i)
<1>2. /\ p = q[i]
      /\ queues' = [queues EXCEPT ![s] = IF both THEN RemoveAt(RemoveAt(@, i), i - 1) ELSE RemoveAt(@, i)]
      /\ rowAccessCounters' = [rowAccessCounters EXCEPT ![<<p.rank, p.bank>>] = IF both THEN @ + 1 ELSE @]
  BY <1>1 DEF PopFromQueue
<1>3. s \in Slots /\ i \in 1..Len(q) /\ i \in Eligible(q) /\ \A k \in Eligible(q) : i <= k
  BY <1>1
<1>4. q \in Seq(Packets) /\ Coupled(q) /\ q[i].type \in {"ACTIVATE"} \cup Columns
      /\ Len(q) \in Nat /\ DOMAIN q = 1..Len(q)
  BY <1>3, HeldFacts, LenProperties
<1>5. rowAccessCounters \in [AllBanks -> 0..TotalRowAccesses]
  BY DEF CounterInv
<1> HIDE DEF s, q, i
<1>6. isIssuable(q[i])
  BY <1>3 DEF Eligible
<1>7. OpenPage => ~Dependent(q, i)
  BY <1>3 DEF Eligible
<1>8. Paired(q, i) => q[i].type \in Columns /\ q[i].type # "ACTIVATE" /\ q[i - 1].addr = q[i].addr
  BY <1>3, <1>4, PairedIsColumn DEF Couple
<1>9. CASE both
  <2>1. GoesPaired(s, i)
    <3>1. queues' = [queues EXCEPT ![s] = RemoveAt(RemoveAt(@, i), i - 1)]
      BY <1>2, <1>9
    <3>2. rowAccessCounters' = [rowAccessCounters EXCEPT ![<<q[i].rank, q[i].bank>>] = @ + 1]
      BY <1>2, <1>9
    <3> QED BY <1>7, <1>8, <1>9, <3>1, <3>2 DEF GoesPaired, q
  <2> QED BY <1>2, <1>3, <1>6, <2>1 DEF q
<1>10. CASE ~both
  <2>1. queues' = [queues EXCEPT ![s] = RemoveAt(@, i)]
    BY <1>2, <1>10
  <2>2. rowAccessCounters' = rowAccessCounters
    BY <1>2, <1>5, <1>10
  <2>3. CASE q[i].type = "ACTIVATE"
    <3>1. GoesFirst(s, i)
      BY <1>3, <2>1, <2>2, <2>3, FirstActivate DEF GoesFirst, q
    <3> QED BY <1>2, <1>3, <1>6, <3>1 DEF q
  <2>4. CASE q[i].type # "ACTIVATE"
    <3>1. ~Paired(q, i)
      <4>1. CASE OpenPage
        BY <1>10, <4>1
      <4>2. CASE ~OpenPage /\ PerRank
        BY <1>3, <1>8, <4>2 DEF Eligible
      <4>3. CASE ~OpenPage /\ ~PerRank
        BY <1>3, <4>3 DEF Eligible, Paired
      <4> QED BY <4>1, <4>2, <4>3
    <3>2. Lone(q, i)
      BY <1>3, <1>4, <2>4, <3>1 DEF Lone
    <3>3. GoesAlone(s, i)
      BY <2>1, <2>2, <3>2 DEF GoesAlone, q
    <3> QED BY <1>2, <1>3, <1>6, <3>3 DEF q
  <2> QED BY <2>3, <2>4
<1> QED BY <1>9, <1>10

LEMMA RefreshClosesWhat ==
  ASSUME QueueInv, CounterInv, RoundInv, NEW p, PopCloseForRefresh(p)
  PROVE  \E r0 \in Ranks, b0 \in Banks :
           /\ p = Bare("PRECHARGE", r0, b0) /\ OpenPage /\ Unwanted(r0, b0)
           /\ bankStates[r0][b0].state = "RowActive" /\ bankStates[r0][b0].nextPrecharge = 0
           /\ queues' = queues /\ rowAccessCounters' = [rowAccessCounters EXCEPT ![<<r0, b0>>] = 0]
<1> DEFINE s == SlotOf(refreshRank, Blocker)
           q == queues[s]
           i == Min(Mentions)
<1>1. /\ refreshWaiting /\ OpenPage /\ InTheWay # {} /\ Blocking.state = "RowActive" /\ ~RowWanted
      /\ Blocking.nextPrecharge = 0 /\ p = Bare("PRECHARGE", refreshRank, Blocker)
      /\ queues' = queues /\ rowAccessCounters' = [rowAccessCounters EXCEPT ![<<refreshRank, Blocker>>] = 0]
  BY DEF PopCloseForRefresh, RefreshCloses
<1>2. Blocker \in Banks /\ refreshRank \in Ranks /\ s \in Slots
  BY <1>1, BlockerFacts
<1>3. /\ q \in Seq(Packets) /\ Len(q) \in Nat /\ DOMAIN q = 1..Len(q) /\ First(q)
      /\ \A k \in 1..Len(q) : s = SlotOf(q[k].rank, q[k].bank)
      /\ \A k \in 1..Len(q) : Lone(q, k) => RowOpen(bankStates, rowAccessCounters, q[k])
  BY <1>2, HeldFacts, LenProperties
<1>4. Mentions = {k \in 1..Len(q) : q[k].bank = Blocker /\ q[k].row = Blocking.row}
  BY <1>3 DEF Mentions
<1>5. Mentions # {} => q[i].type = "ACTIVATE"
  BY <1>1 DEF RowWanted
<1>6. Mentions # {} => i \in Mentions /\ \A k \in Mentions : i <= k
  BY <1>1, FirstMention
<1> HIDE DEF i
<1>7. ASSUME NEW k \in 1..Len(q), Lone(q, k), q[k].bank = Blocker PROVE FALSE
  <2>1. q[k].rank = refreshRank
    BY <1>3 DEF SlotOf
  <2>2. q[k].row = Blocking.row
    BY <1>3, <1>7, <2>1 DEF RowOpen, Blocking
  <2>3. k \in Mentions
    BY <1>4, <1>7, <2>2
  <2>4. i \in 1..Len(q) /\ i <= k /\ q[i].type = "ACTIVATE" /\ q[i].bank = Blocker /\ q[i].row = Blocking.row
    BY <1>4, <1>5, <1>6, <2>3
  <2>5. q[k].type # "ACTIVATE"
    BY <1>7 DEF Lone, Columns, Reads, Writes
  <2>6. i \in 1..(k - 1)
    BY <1>3, <2>4, <2>5
  <2>7. ~Alike(q[i], q[k])
    BY <1>1, <1>3, <1>7, <2>6 DEF First
  <2> QED BY <1>7, <2>2, <2>4, <2>7 DEF Alike
<1>8. Unwanted(refreshRank, Blocker)
  BY <1>7 DEF Unwanted
<1> QED BY <1>1, <1>2, <1>8 DEF Blocking

LEMMA ClosesWhat ==
  ASSUME QueueInv, CounterInv, RoundInv, NEW p, PopClose(p)
  PROVE  /\ nextPRE' \in AllBanks
         /\ \E r0 \in Ranks, b0 \in Banks :
              /\ p = Bare("PRECHARGE", r0, b0) /\ OpenPage /\ Unwanted(r0, b0)
              /\ bankStates[r0][b0].state = "RowActive" /\ bankStates[r0][b0].nextPrecharge = 0
              /\ queues' = queues /\ rowAccessCounters' = [rowAccessCounters EXCEPT ![<<r0, b0>>] = 0]
<1> DEFINE rb == BankTour(Min(Closings))
           q == queues[SlotOf(rb[1], rb[2])]
<1>1. Closings \in SUBSET Nat /\ Closings # {}
  BY MappingAssumption DEF Closings, PopClose
<1>2. Min(Closings) \in Closings
  BY <1>1, Least
<1>3. rb \in AllBanks /\ Closable(rb)
  <2>1. rb \in AllBanks
    BY <1>1, <1>2, ToursStay
  <2> QED BY <1>2, <2>1 DEF Closings
<1>4. /\ OpenPage /\ p = Bare("PRECHARGE", rb[1], rb[2]) /\ nextPRE' = rb /\ queues' = queues
      /\ rowAccessCounters' = [rowAccessCounters EXCEPT ![rb] = 0]
  BY DEF PopClose
<1> HIDE DEF rb
<1>5. rb[1] \in Ranks /\ rb[2] \in Banks /\ rb = <<rb[1], rb[2]>>
  BY <1>3 DEF AllBanks
<1>6. SlotOf(rb[1], rb[2]) \in Slots
  BY <1>5, SlotFacts
<1>7. /\ bankStates[rb[1]][rb[2]].state = "RowActive" /\ bankStates[rb[1]][rb[2]].nextPrecharge = 0
      /\ \/ ~\E i \in DOMAIN q : q[i].bank = rb[2] /\ q[i].row = bankStates[rb[1]][rb[2]].row
         \/ rowAccessCounters[<<rb[1], rb[2]>>] = TotalRowAccesses
  BY <1>3, <1>5 DEF Closable
<1>8. /\ q \in Seq(Packets) /\ Len(q) \in Nat /\ DOMAIN q = 1..Len(q)
      /\ \A k \in 1..Len(q) : SlotOf(rb[1], rb[2]) = SlotOf(q[k].rank, q[k].bank)
      /\ \A k \in 1..Len(q) : Lone(q, k) => RowOpen(bankStates, rowAccessCounters, q[k])
  BY <1>6, HeldFacts, LenProperties
<1>9. ASSUME NEW k \in 1..Len(q), Lone(q, k), q[k].bank = rb[2] PROVE FALSE
  <2>1. q[k].rank = rb[1]
    BY <1>8 DEF SlotOf
  <2>2. q[k].row = bankStates[rb[1]][rb[2]].row /\ rowAccessCounters[<<rb[1], rb[2]>>] = 0
    BY <1>8, <1>9, <2>1 DEF RowOpen
  <2>3. TotalRowAccesses # 0
    BY ControllerAssumption
  <2> QED BY <1>7, <1>8, <1>9, <2>2, <2>3
<1>10. Unwanted(rb[1], rb[2])
  BY <1>9 DEF Unwanted
<1> QED BY <1>3, <1>4, <1>5, <1>7, <1>10

LEMMA SentFacts ==
  ASSUME NEW p, Sent(p)
  PROVE  phase = "issue" /\ policy' = policy
BY DEF Sent

LEMMA ColumnKeeps ==
  ASSUME CoreInv, NEW s \in Slots, NEW i \in 1..Len(queues[s]), NEW p, p = queues[s][i], p.type \in Columns,
         isIssuable(p), Sent(p), bankStates' = Updated(p, Column), GoesAlone(s, i) \/ GoesPaired(s, i)
  PROVE  TablesInv' /\ QueueInv' /\ CounterInv' /\ BankOf(p).last \notin Autopre
<1>1. p \in Packets /\ phase = "issue" /\ policy' = policy
  BY HeldFacts, SentFacts DEF CoreInv
<1>2. QueueInv' /\ CounterInv' /\ BankOf(p).last \notin Autopre
  <2>1. CASE GoesAlone(s, i)
    BY <1>1, <2>1, LoneGoes DEF CoreInv, GoesAlone
  <2>2. CASE GoesPaired(s, i)
    BY <1>1, <2>2, PairGoes DEF CoreInv, GoesPaired
  <2> QED BY <2>1, <2>2
<1> QED BY <1>1, <1>2, ColumnTables DEF CoreInv

LEMMA ActivateKeeps ==
  ASSUME CoreInv, NEW s \in Slots, NEW i \in 1..Len(queues[s]), NEW p, p = queues[s][i],
         isIssuable(p), Sent(p), bankStates' = Updated(p, Activate), GoesFirst(s, i)
  PROVE  TablesInv' /\ QueueInv' /\ CounterInv'
<1>1. p \in Packets /\ phase = "issue" /\ policy' = policy /\ p.type = "ACTIVATE"
  BY HeldFacts, SentFacts DEF CoreInv, GoesFirst
<1>2. QueueInv' /\ CounterInv'
  BY <1>1, ActivateGoes DEF CoreInv, GoesFirst
<1> QED BY <1>1, <1>2, ActivateTables DEF CoreInv

LEMMA CloseKeeps ==
  ASSUME CoreInv, NEW r0 \in Ranks, NEW b0 \in Banks, NEW p, p = Bare("PRECHARGE", r0, b0),
         OpenPage, Unwanted(r0, b0), Sent(p), bankStates' = Updated(p, Precharge),
         bankStates[r0][b0].state = "RowActive", bankStates[r0][b0].nextPrecharge = 0,
         queues' = queues, rowAccessCounters' = [rowAccessCounters EXCEPT ![<<r0, b0>>] = 0]
  PROVE  TablesInv' /\ QueueInv' /\ CounterInv'
<1>1. phase = "issue" /\ policy' = policy
  BY SentFacts
<1>2. QueueInv' /\ CounterInv' /\ bankStates[r0][b0].last \notin Autopre
  BY <1>1, CloseGoes DEF CoreInv
<1> QED BY <1>1, <1>2, PrechargeTables DEF CoreInv

LEMMA RefreshKeeps ==
  ASSUME CoreInv, IssueRefresh
  PROVE  TablesInv' /\ QueueInv' /\ CounterInv' /\ RoundInv'
<1> DEFINE p == Bare("REFRESH", refreshRank, 0)
<1>1. PopRefresh(p) /\ Sent(p) /\ bankStates' = Updated(p, Refresh)
  BY DEF IssueRefresh
<1>2. /\ refreshWaiting /\ InTheWay = {} /\ bankStates[refreshRank][0].state # "PowerDown"
      /\ queues' = queues /\ rowAccessCounters' = rowAccessCounters /\ nextPRE' = nextPRE
      /\ refreshRank' = -1 /\ refreshWaiting' = FALSE /\ Popped(p, next)
  BY <1>1 DEF PopRefresh, RefreshReady
<1>3. refreshRank \in Ranks /\ phase = "issue" /\ policy' = policy
  BY <1>1, <1>2, SentFacts DEF CoreInv, RoundInv
<1>4. \A b \in Banks : bankStates[refreshRank][b].state # "RowActive"
  BY <1>2 DEF InTheWay
<1>5. \A b \in Banks : bankStates[refreshRank][b].state # "PowerDown"
  <2>1. ~powerDown[refreshRank]
    BY <1>2, <1>3, FirstBank DEF CoreInv, TablesInv, PowerInv
  <2> QED BY <1>3, <2>1 DEF CoreInv, TablesInv, PowerInv
<1>6. QueueInv' /\ CounterInv'
  BY <1>1, <1>2, <1>3, <1>4, RefreshGoes DEF CoreInv
<1>7. TablesInv'
  <2>1. \A b \in Banks : bankStates[refreshRank][b].state \notin {"RowActive", "PowerDown"}
    BY <1>4, <1>5
  <2> QED BY <1>1, <1>3, <2>1, RefreshTables DEF CoreInv
<1>8. p.type # "ACTIVATE"
  BY <1>3, FirstBank, BareTyped DEF Commands
<1> HIDE DEF p
<1>9. /\ next' \in AllBanks /\ sendAct' \in BOOLEAN
      /\ tFAWCountdown' \in [Ranks -> Seq(Int)] /\ \A r \in Ranks : Len(tFAWCountdown'[r]) <= 4
  <2>1. next \in AllBanks
    BY DEF CoreInv, RoundInv
  <2> QED BY <1>2, <1>8, <2>1, PoppedRound DEF CoreInv
<1>10. RoundInv'
  BY <1>2, <1>3, <1>9 DEF CoreInv, RoundInv
<1> QED BY <1>6, <1>7, <1>10

LEMMA SameRefresh ==
  ASSUME RoundInv, policy' = policy, refreshRank' = refreshRank, refreshWaiting' = refreshWaiting,
         nextPRE' \in AllBanks, NEW p, NEW at \in AllBanks, Popped(p, at),
         p.type = "ACTIVATE" => Len(WindowOf(p.rank)) < 4
  PROVE  RoundInv'
<1>1. /\ next' \in AllBanks /\ sendAct' \in BOOLEAN
      /\ tFAWCountdown' \in [Ranks -> Seq(Int)] /\ \A r \in Ranks : Len(tFAWCountdown'[r]) <= 4
  BY PoppedRound
<1> QED BY <1>1 DEF RoundInv

LEMMA IssueKeeps ==
  ASSUME CoreInv, Issue
  PROVE  TablesInv' /\ QueueInv' /\ CounterInv' /\ RoundInv'
<1>0. next \in AllBanks /\ nextPRE \in AllBanks
  BY DEF CoreInv, RoundInv
<1>1. CASE IssueRefresh
  BY <1>1, RefreshKeeps
<1>2. CASE IssueColumnForRefresh
  <2>1. PICK p : PopForRefresh(p) /\ Sent(p) /\ bankStates' = Updated(p, Column)
    BY <1>2 DEF IssueColumnForRefresh
  <2>2. PICK s \in Slots : \E i \in 1..Len(queues[s]) : p = queues[s][i] /\ isIssuable(p) /\ GoesAlone(s, i)
    BY <2>1, ForRefreshGoes DEF CoreInv
  <2>3. PICK i \in 1..Len(queues[s]) : p = queues[s][i] /\ isIssuable(p) /\ GoesAlone(s, i)
    BY <2>2
  <2>4. p.type \in Columns /\ p.type # "ACTIVATE"
    BY <2>3 DEF GoesAlone, Lone, Columns, Reads, Writes
  <2>5. TablesInv' /\ QueueInv' /\ CounterInv'
    BY <2>1, <2>3, <2>4, ColumnKeeps
  <2>6. Popped(p, next) /\ nextPRE' = nextPRE /\ refreshRank' = refreshRank /\ refreshWaiting' = refreshWaiting
    BY <2>1 DEF PopForRefresh
  <2>7. RoundInv'
    BY <1>0, <2>1, <2>4, <2>6, SentFacts, SameRefresh DEF CoreInv
  <2> QED BY <2>5, <2>7
<1>3. CASE IssueColumn \/ IssueActivate
  <2>1. PICK p : /\ PopFromQueue(p) /\ Sent(p)
                 /\ \/ p.type \in Columns /\ bankStates' = Updated(p, Column)
                    \/ p.type = "ACTIVATE" /\ bankStates' = Updated(p, Activate)
    BY <1>3 DEF IssueColumn, IssueActivate
  <2>2. PICK s \in Slots : \E i \in 1..Len(queues[s]) :
           p = queues[s][i] /\ isIssuable(p) /\ (GoesAlone(s, i) \/ GoesPaired(s, i) \/ GoesFirst(s, i))
    BY <2>1, FromQueueGoes DEF CoreInv
  <2>3. PICK i \in 1..Len(queues[s]) :
           p = queues[s][i] /\ isIssuable(p) /\ (GoesAlone(s, i) \/ GoesPaired(s, i) \/ GoesFirst(s, i))
    BY <2>2
  <2>4. "ACTIVATE" \notin Columns
    BY DEF Columns, Reads, Writes
  <2>5. GoesAlone(s, i) \/ GoesPaired(s, i) => p.type \in Columns
    BY <2>3 DEF GoesAlone, GoesPaired, Lone
  <2>6. GoesFirst(s, i) => p.type = "ACTIVATE"
    BY <2>3 DEF GoesFirst
  <2>7. TablesInv' /\ QueueInv' /\ CounterInv'
    <3>1. CASE GoesAlone(s, i) \/ GoesPaired(s, i)
      <4>1. p.type \in Columns /\ bankStates' = Updated(p, Column)
        BY <2>1, <2>4, <2>5, <3>1
      <4> QED BY <2>1, <2>3, <3>1, <4>1, ColumnKeeps
    <3>2. CASE GoesFirst(s, i)
      <4>1. bankStates' = Updated(p, Activate)
        BY <2>1, <2>4, <2>6, <3>2
      <4> QED BY <2>1, <2>3, <3>2, <4>1, ActivateKeeps
    <3> QED BY <2>3, <3>1, <3>2
  <2>8. nextPRE' = nextPRE /\ refreshRank' = refreshRank /\ refreshWaiting' = refreshWaiting
        /\ \E at : at = QueueTour(Min(Stops)) /\ Popped(p, at)
    BY <2>1 DEF PopFromQueue
  <2>9. PICK at \in AllBanks : Popped(p, at)
    <3>1. QueueTour(Min(Stops)) \in AllBanks
      BY <2>1, OffersFacts DEF CoreInv, PopFromQueue
    <3> QED BY <2>8, <3>1
  <2>10. p.type = "ACTIVATE" => Len(WindowOf(p.rank)) < 4
    BY <2>3 DEF isIssuable, Reads, Writes
  <2>11. RoundInv'
    BY <1>0, <2>1, <2>8, <2>9, <2>10, SentFacts, SameRefresh DEF CoreInv
  <2> QED BY <2>7, <2>11
<1>4. CASE IssuePrechargeForRefresh \/ IssuePrecharge
  <2>1. PICK p : /\ PopCloseForRefresh(p) \/ PopClose(p)
                 /\ Sent(p) /\ bankStates' = Updated(p, Precharge)
    BY <1>4 DEF IssuePrechargeForRefresh, IssuePrecharge
  <2>2. PICK r0 \in Ranks, b0 \in Banks :
           /\ p = Bare("PRECHARGE", r0, b0) /\ OpenPage /\ Unwanted(r0, b0)
           /\ bankStates[r0][b0].state = "RowActive" /\ bankStates[r0][b0].nextPrecharge = 0
           /\ queues' = queues /\ rowAccessCounters' = [rowAccessCounters EXCEPT ![<<r0, b0>>] = 0]
    <3>1. CASE PopCloseForRefresh(p)
      BY <3>1, RefreshClosesWhat DEF CoreInv
    <3>2. CASE PopClose(p)
      BY <3>2, ClosesWhat DEF CoreInv
    <3> QED BY <2>1, <3>1, <3>2
  <2>3. TablesInv' /\ QueueInv' /\ CounterInv'
    BY <2>1, <2>2, CloseKeeps
  <2>4. nextPRE' \in AllBanks
    BY <1>0, <2>1, ClosesWhat DEF CoreInv, PopCloseForRefresh
  <2>5. Popped(p, next) /\ refreshRank' = refreshRank /\ refreshWaiting' = refreshWaiting
    BY <2>1 DEF PopCloseForRefresh, PopClose
  <2>6. p.type # "ACTIVATE"
    BY <2>2, BareTyped DEF Commands
  <2>7. RoundInv'
    BY <1>0, <2>1, <2>4, <2>5, <2>6, SentFacts, SameRefresh DEF CoreInv
  <2> QED BY <2>3, <2>7
<1>5. CASE IssueNothing
  <2>1. /\ policy' = policy /\ bankStates' = bankStates /\ queues' = queues /\ next' = next /\ nextPRE' = nextPRE
        /\ refreshRank' = refreshRank /\ refreshWaiting' = refreshWaiting /\ sendAct' = sendAct
        /\ rowAccessCounters' = rowAccessCounters /\ tFAWCountdown' = [r \in Ranks |-> WindowOf(r)]
    BY <1>5 DEF IssueNothing, PopNothing
  <2>2. TablesInv'
    BY <1>5, IssueNothingTables DEF CoreInv
  <2>3. QueueInv'
    BY <2>1, QuietStep DEF CoreInv, Quiet, SameRow
  <2>4. CounterInv'
    BY <2>1, CountersKept DEF CoreInv, CounterInv
  <2>5. RoundInv'
    BY <2>1, WindowFacts DEF CoreInv, RoundInv
  <2> QED BY <2>2, <2>3, <2>4, <2>5
<1> QED BY <1>1, <1>2, <1>3, <1>4, <1>5 DEF Issue

-----------------------------------------------------------------------------
(* The pipes of data: the packets on their way come out one by one.        *)

LEMMA Latencies == RL \in Nat \ {0} /\ WL \in Nat \ {0} /\ WL = RL - 1 /\ HalfBL \in Nat \ {0}
BY TimingAssumption DEF RL, WL

LEMMA PipeFacts ==
  ASSUME NEW n \in Nat, NEW q, Pipe(q, n)
  PROVE  /\ Len(q) \in Nat /\ DOMAIN q = 1..Len(q) /\ (q # <<>> <=> Len(q) > 0)
         /\ q \in Seq(Timed(n))
         /\ \A i \in 1..Len(q) : /\ q[i].pkt \in Packets /\ q[i].left \in 1..n
                                 /\ q[i] = [pkt |-> q[i].pkt, left |-> q[i].left]
<1>1. q \in Seq([pkt : Packets, left : 1..n])
  BY DEF Pipe
<1>2. Len(q) \in Nat /\ DOMAIN q = 1..Len(q) /\ (q # <<>> <=> Len(q) > 0)
  BY <1>1
<1>3. \A i \in 1..Len(q) : q[i] \in [pkt : Packets, left : 1..n]
  BY <1>1, ElementOfSeq
<1>4. \A x \in [pkt : Packets, left : 1..n] : x \in Timed(n)
  BY DEF Timed
<1>5. q \in Seq(Timed(n))
  BY <1>1, <1>4, SeqMonotonic
<1> QED BY <1>2, <1>3, <1>5

LEMMA PipeMade ==
  ASSUME NEW n \in Nat, NEW q, NEW m \in Nat, DOMAIN q = 1..m, q = [i \in 1..m |-> q[i]],
         \A i \in 1..m : q[i] \in [pkt : Packets, left : 1..n],
         \A i, j \in 1..m : i < j => q[i].left < q[j].left
  PROVE  Pipe(q, n) /\ Len(q) = m
<1> DEFINE S == [pkt : Packets, left : 1..n]
<1>1. \A i \in 1..m : q[i] \in S
  OBVIOUS
<1> HIDE DEF S
<1>2. [i \in 1..m |-> q[i]] \in Seq(S)
  BY <1>1, IsASeq
<1>3. q \in Seq(S)
  BY <1>2
<1>4. Len(q) = m
  BY <1>3, LenProperties
<1> QED BY <1>3, <1>4 DEF Pipe, S

LEMMA PipeEmpty == \A n \in Nat : Pipe(<<>>, n) /\ Len(<<>>) = 0
<1>1. ASSUME NEW n \in Nat PROVE Pipe(<<>>, n)
  <2>1. <<>> \in Seq([pkt : Packets, left : 1..n]) /\ Len(<<>>) = 0
    BY EmptySeq
  <2> QED BY <2>1 DEF Pipe
<1> QED BY <1>1, EmptySeq

LEMMA PipeSingle ==
  ASSUME NEW n \in Nat \ {0}, NEW p \in Packets
  PROVE  Pipe(<<[pkt |-> p, left |-> n]>>, n) /\ Len(<<[pkt |-> p, left |-> n]>>) = 1
<1> DEFINE e == [pkt |-> p, left |-> n]
<1>1. e \in [pkt : Packets, left : 1..n]
  OBVIOUS
<1> HIDE DEF e
<1>2. <<e>> \in Seq([pkt : Packets, left : 1..n]) /\ Len(<<e>>) = 1
  BY <1>1
<1>3. Pipe(<<e>>, n)
  BY <1>2 DEF Pipe
<1> QED BY <1>2, <1>3 DEF e

LEMMA PipeWidens ==
  ASSUME NEW n \in Nat, NEW q, Pipe(q, n)
  PROVE  Pipe(q, n + 1)
<1>1. [pkt : Packets, left : 1..n] \subseteq [pkt : Packets, left : 1..(n + 1)]
  OBVIOUS
<1>2. q \in Seq([pkt : Packets, left : 1..(n + 1)])
  BY <1>1, SeqMonotonic DEF Pipe
<1> QED BY <1>2 DEF Pipe

\* What enters takes longest.
LEMMA PipeEnters ==
  ASSUME NEW n \in Nat, NEW q, Pipe(q, n), NEW p \in Packets
  PROVE  Pipe(Append(q, [pkt |-> p, left |-> n + 1]), n + 1)
<1> DEFINE e == [pkt |-> p, left |-> n + 1]
           S == [pkt : Packets, left : 1..(n + 1)]
           new == Append(q, e)
<1>1. e \in S /\ e.left = n + 1
  OBVIOUS
<1>2. q \in Seq(S) /\ Len(q) \in Nat
  BY PipeWidens, PipeFacts DEF Pipe
<1>3. \A i \in 1..Len(q) : q[i].left \in 1..n
  BY PipeFacts
<1>4. \A i, j \in 1..Len(q) : i < j => q[i].left < q[j].left
  BY DEF Pipe
<1> HIDE DEF e, S
<1>5. new \in Seq(S) /\ Len(new) = Len(q) + 1 /\ (\A i \in 1..Len(q) : new[i] = q[i]) /\ new[Len(q) + 1] = e
  BY <1>1, <1>2, AppendProperties
<1> HIDE DEF new
<1>6. ASSUME NEW i \in 1..Len(new), NEW j \in 1..Len(new), i < j PROVE new[i].left < new[j].left
  <2>1. i \in 1..Len(q) /\ new[i] = q[i]
    BY <1>2, <1>5, <1>6
  <2>2. CASE j \in 1..Len(q)
    BY <1>4, <1>5, <1>6, <2>1, <2>2
  <2>3. CASE j = Len(q) + 1
    BY <1>1, <1>3, <1>5, <2>1, <2>3
  <2> QED BY <1>2, <1>5, <2>2, <2>3
<1> QED BY <1>5, <1>6 DEF Pipe, e, S, new

\* A cycle brings everything closer.
LEMMA Closer ==
  ASSUME NEW n \in Nat \ {0}, NEW e \in [pkt : Packets, left : 1..n]
  PROVE  /\ [e EXCEPT !.left = @ - 1] \in [pkt : Packets, left : Int]
         /\ [e EXCEPT !.left = @ - 1].left = e.left - 1
         /\ e.left # 1 => [e EXCEPT !.left = @ - 1] \in [pkt : Packets, left : 1..(n - 1)]
OBVIOUS

OneCloser(q) == [i \in DOMAIN q |-> [q[i] EXCEPT !.left = @ - 1]]

LEMMA PipeMoves ==
  ASSUME NEW n \in Nat \ {0}, NEW q, Pipe(q, n)
  PROVE  /\ ~(q # <<>> /\ q[1].left = 1) => Pipe(OneCloser(q), n - 1) /\ Len(OneCloser(q)) = Len(q)
         /\ q # <<>> /\ q[1].left = 1 => Pipe(Tail(OneCloser(q)), n - 1)
         /\ q # <<>> /\ q[1].left = 1 /\ Len(q) <= 1 => Pipe(<<>>, n)
<1> DEFINE m == Len(q)
           new == OneCloser(q)
<1>1. m \in Nat /\ DOMAIN q = 1..m /\ (q # <<>> <=> m > 0) /\ n - 1 \in Nat
  BY PipeFacts
<1>2. \A i \in 1..m : q[i] \in [pkt : Packets, left : 1..n] /\ q[i].left \in 1..n
  <2> DEFINE S == [pkt : Packets, left : 1..n]
  <2>1. q \in Seq(S)
    BY DEF Pipe
  <2>2. \A e \in S : e.left \in 1..n
    OBVIOUS
  <2> HIDE DEF S
  <2>3. \A i \in 1..m : q[i] \in S
    BY <2>1, ElementOfSeq
  <2> QED BY <2>2, <2>3 DEF S
<1>3. \A i, j \in 1..m : i < j => q[i].left < q[j].left
  BY DEF Pipe
<1> HIDE DEF m
<1>4. new = [i \in 1..m |-> [q[i] EXCEPT !.left = @ - 1]]
  BY <1>1 DEF OneCloser
<1>5. DOMAIN new = 1..m /\ \A i \in 1..m : new[i] = [q[i] EXCEPT !.left = @ - 1]
  BY <1>4
<1> HIDE DEF new
<1>6. ASSUME NEW i \in 1..m
      PROVE  /\ new[i] \in [pkt : Packets, left : Int] /\ new[i].left = q[i].left - 1
             /\ q[i].left # 1 => new[i] \in [pkt : Packets, left : 1..(n - 1)]
  <2>1. q[i] \in [pkt : Packets, left : 1..n]
    BY <1>2
  <2>2. new[i] = [q[i] EXCEPT !.left = @ - 1]
    BY <1>5
  <2> QED BY <2>1, <2>2, Closer
<1>7. ASSUME NEW i \in 1..m, NEW j \in 1..m, i < j PROVE new[i].left < new[j].left
  <2>1. q[i].left \in Int /\ q[j].left \in Int
    BY <1>2
  <2>2. q[i].left < q[j].left
    BY <1>3, <1>7
  <2>3. new[i].left = q[i].left - 1 /\ new[j].left = q[j].left - 1
    BY <1>6
  <2> QED BY <2>1, <2>2, <2>3
<1>8. ASSUME NEW i \in 1..m, q[i].left # 1 PROVE new[i] \in [pkt : Packets, left : 1..(n - 1)]
  BY <1>6, <1>8
<1>9. CASE ~(q # <<>> /\ q[1].left = 1)
  <2>1. ASSUME NEW i \in 1..m PROVE q[i].left # 1
    <3>1. q[1].left # 1 /\ 1 \in 1..m /\ q[1].left \in 1..n /\ q[i].left \in 1..n
      BY <1>1, <1>2, <1>9
    <3>2. i = 1 \/ q[1].left < q[i].left
      BY <1>3, <3>1
    <3> QED BY <3>1, <3>2
  <2>2. \A i \in 1..m : new[i] \in [pkt : Packets, left : 1..(n - 1)]
    BY <1>8, <2>1
  <2>3. new = [i \in 1..m |-> new[i]]
    BY <1>4, <1>5
  <2>4. Pipe(new, n - 1) /\ Len(new) = m
    BY <1>1, <1>5, <1>7, <2>2, <2>3, PipeMade
  <2> QED BY <1>9, <2>4 DEF new, m
<1>10. CASE q # <<>> /\ q[1].left = 1
  <2> DEFINE t == [i \in 1..(m - 1) |-> new[i + 1]]
  <2>1. m - 1 \in Nat /\ \A i \in 1..(m - 1) : i + 1 \in 1..m /\ 1 < i + 1 /\ 1 \in 1..m
    BY <1>1, <1>10
  <2>2. \A i \in 1..(m - 1) : q[i + 1].left # 1
    BY <1>2, <1>3, <1>10, <2>1
  <2>3. Tail(new) = t
    <3>1. new \in Seq([pkt : Packets, left : Int])
      <4> DEFINE S == [pkt : Packets, left : Int]
      <4>1. \A i \in 1..m : new[i] \in S
        BY <1>6
      <4>2. new = [i \in 1..m |-> new[i]]
        BY <1>4, <1>5
      <4> HIDE DEF S
      <4>3. [i \in 1..m |-> new[i]] \in Seq(S)
        BY <1>1, <4>1, IsASeq
      <4> QED BY <4>2, <4>3 DEF S
    <3>2. Len(new) = m
      BY <1>1, <1>5, <3>1
    <3>3. new # <<>> /\ 1 <= m
      BY <1>1, <1>10, <3>2
    <3> DEFINE S == [pkt : Packets, left : Int]
    <3>4. \A i \in 1..(m - 1) : new[i + 1] \in S
      BY <1>6, <2>1
    <3> HIDE DEF S
    <3>5. t \in Seq(S) /\ Len(t) = m - 1
      BY <2>1, <3>4
    <3>6. Tail(new) \in Seq(S) /\ Len(Tail(new)) = m - 1
          /\ \A i \in 1..Len(Tail(new)) : Tail(new)[i] = new[i + 1]
      BY <3>1, <3>2, <3>3, HeadTailProperties DEF S
    <3> QED BY <3>5, <3>6, SeqEqual
  <2>4. DOMAIN t = 1..(m - 1) /\ \A i \in 1..(m - 1) : t[i] = new[i + 1]
    OBVIOUS
  <2>5. t = [i \in 1..(m - 1) |-> t[i]]
    BY <2>4
  <2> HIDE DEF t
  <2>6. \A i \in 1..(m - 1) : t[i] \in [pkt : Packets, left : 1..(n - 1)]
    BY <1>8, <2>1, <2>2, <2>4
  <2>7. \A i, j \in 1..(m - 1) : i < j => t[i].left < t[j].left
    BY <1>7, <2>1, <2>4
  <2>8. Pipe(t, n - 1)
    BY <1>1, <2>1, <2>4, <2>5, <2>6, <2>7, PipeMade
  <2> QED BY <1>10, <2>3, <2>8, PipeEmpty DEF new
<1> QED BY <1>9, <1>10

LEMMA InitPipes ==
  ASSUME Init
  PROVE  PipeInv
<1>1. /\ phase = "ranks" /\ writeData = <<>> /\ dataBus = <<>>
      /\ readReturn = [r \in Ranks |-> <<>>] /\ rankOut = [r \in Ranks |-> <<>>]
  BY DEF Init, RankInit
<1>2. <<>> \in Seq(Timed(RL)) /\ <<>> \in Seq(Timed(HalfBL))
  BY EmptySeq
<1>3. Pipe(<<>>, RL) /\ Pipe(<<>>, HalfBL) /\ Pipe(<<>>, WL) /\ Len(<<>>) <= 1
  BY PipeEmpty, Latencies
<1> QED BY <1>1, <1>2, <1>3 DEF PipeInv

LEMMA SamePipes ==
  ASSUME PipeInv, UNCHANGED <<readReturn, rankOut, writeData, dataBus>>,
         phase' = phase \/ {phase, phase'} \subseteq {"finish", "ranks"}
  PROVE  PipeInv'
BY DEF PipeInv

LEMMA PipesTyped ==
  ASSUME PipeInv, NEW r \in Ranks
  PROVE  /\ readReturn[r] \in Seq(Timed(RL)) /\ rankOut[r] \in Seq(Timed(HalfBL))
         /\ Pipe(readReturn[r], RL) /\ Pipe(rankOut[r], HalfBL) /\ Len(rankOut[r]) <= 1
         /\ Pipe(writeData, WL) /\ Pipe(dataBus, HalfBL) /\ Len(dataBus) <= 1
<1>1. RL - 1 \in Nat /\ RL = (RL - 1) + 1 /\ WL - 1 \in Nat /\ WL = (WL - 1) + 1
  BY Latencies
<1>2. Pipe(readReturn[r], RL - 1) => Pipe(readReturn[r], RL)
  BY <1>1, PipeWidens
<1>3. Pipe(writeData, WL - 1) => Pipe(writeData, WL)
  BY <1>1, PipeWidens
<1> QED BY <1>2, <1>3 DEF PipeInv

LEMMA UpdateRanksPipes ==
  ASSUME PipeInv, UpdateRanks
  PROVE  PipeInv'
<1>1. /\ phase = "ranks" /\ phase' = "bus" /\ writeData' = writeData /\ dataBus' = dataBus /\ RanksSend
  BY DEF UpdateRanks, buses
<1>2. RL \in Nat \ {0} /\ RL - 1 \in Nat /\ HalfBL \in Nat \ {0} /\ HalfBL - 1 \in Nat
      /\ HalfBL = (HalfBL - 1) + 1
  BY Latencies
<1>3. ASSUME NEW r \in Ranks
      PROVE  /\ Pipe(readReturn'[r], RL - 1) /\ readReturn'[r] \in Seq(Timed(RL))
             /\ Pipe(rankOut'[r], HalfBL) /\ Len(rankOut'[r]) <= 1 /\ rankOut'[r] \in Seq(Timed(HalfBL))
  <2> DEFINE q == readReturn[r]
             o == rankOut[r]
  <2>1. Pipe(q, RL) /\ Pipe(o, HalfBL) /\ Len(o) <= 1
    BY PipesTyped
  <2>2. readReturn'[r] = IF q # <<>> /\ q[1].left = 1 THEN Tail(OneCloser(q)) ELSE OneCloser(q)
    BY <1>1 DEF RanksSend, Ready, Aged, OneCloser
  <2>3. rankOut'[r] = IF q # <<>> /\ q[1].left = 1 THEN <<[pkt |-> q[1].pkt, left |-> HalfBL]>>
                      ELSE IF o # <<>> /\ o[1].left = 1 THEN <<>> ELSE OneCloser(o)
    <3>1. rankOut'[r] = IF Ready(r) THEN <<[pkt |-> q[1].pkt, left |-> HalfBL]>>
                        ELSE IF Arrived(r) # <<>> THEN <<>> ELSE OneCloser(o)
      BY <1>1 DEF RanksSend, OneCloser
    <3>2. Arrived(r) # <<>> <=> (o # <<>> /\ o[1].left = 1)
      BY DEF Arrived
    <3> QED BY <3>1, <3>2 DEF Ready
  <2> HIDE DEF q, o
  <2>4. Pipe(readReturn'[r], RL - 1)
    BY <1>2, <2>1, <2>2, PipeMoves
  <2>5. Pipe(readReturn'[r], RL)
    BY <1>2, <2>4, PipeWidens
  <2>6. readReturn'[r] \in Seq(Timed(RL))
    BY <1>2, <2>5, PipeFacts
  <2>7. Pipe(rankOut'[r], HalfBL) /\ Len(rankOut'[r]) <= 1
    <3>1. CASE q # <<>> /\ q[1].left = 1
      <4>1. q[1].pkt \in Packets
        <5>1. RL \in Nat
          BY <1>2
        <5>2. 1 \in 1..Len(q)
          BY <2>1, <3>1, <5>1, PipeFacts
        <5> QED BY <2>1, <5>1, <5>2, PipeFacts
      <4> QED BY <1>2, <2>3, <3>1, <4>1, PipeSingle
    <3>2. CASE ~(q # <<>> /\ q[1].left = 1) /\ o # <<>> /\ o[1].left = 1
      BY <1>2, <2>3, <3>2, PipeEmpty
    <3>3. CASE ~(q # <<>> /\ q[1].left = 1) /\ ~(o # <<>> /\ o[1].left = 1)
      <4>1. Pipe(OneCloser(o), HalfBL - 1) /\ Len(OneCloser(o)) = Len(o)
        BY <1>2, <2>1, <3>3, PipeMoves
      <4>2. Pipe(OneCloser(o), (HalfBL - 1) + 1)
        BY <1>2, <4>1, PipeWidens
      <4> QED BY <1>2, <2>1, <2>3, <3>3, <4>1, <4>2
    <3> QED BY <3>1, <3>2, <3>3
  <2>8. rankOut'[r] \in Seq(Timed(HalfBL))
    BY <1>2, <2>7, PipeFacts
  <2> QED BY <2>4, <2>6, <2>7, <2>8
<1>4. DOMAIN readReturn' = Ranks /\ DOMAIN rankOut' = Ranks
      /\ readReturn' = [r \in Ranks |-> readReturn'[r]] /\ rankOut' = [r \in Ranks |-> rankOut'[r]]
  BY <1>1 DEF RanksSend
<1>5. readReturn' \in [Ranks -> Seq(Timed(RL))] /\ rankOut' \in [Ranks -> Seq(Timed(HalfBL))]
  BY <1>3, <1>4
<1> QED BY <1>1, <1>3, <1>5 DEF PipeInv

\* The data that moves on the bus of the channel.
LEMMA BusPipes ==
  ASSUME PipeInv, UpdateBuses
  PROVE  Pipe(writeData', WL - 1) /\ Pipe(dataBus', HalfBL) /\ Len(dataBus') <= 1
<1> DEFINE w == writeData
           d == dataBus
<1>0. WL \in Nat \ {0} /\ HalfBL \in Nat \ {0} /\ HalfBL - 1 \in Nat /\ HalfBL = (HalfBL - 1) + 1
  BY Latencies
<1>1. Pipe(w, WL) /\ Pipe(d, HalfBL) /\ Len(d) <= 1
  BY FirstBank, PipesTyped
<1>2. writeData' = IF w # <<>> /\ w[1].left = 1 THEN Tail(OneCloser(w)) ELSE OneCloser(w)
  BY DEF UpdateBuses, WriteReady, OneCloser
<1>3. dataBus' = IF w # <<>> /\ w[1].left = 1 THEN <<[pkt |-> w[1].pkt, left |-> HalfBL]>>
                 ELSE IF d # <<>> /\ d[1].left = 1 THEN <<>> ELSE OneCloser(d)
  BY DEF UpdateBuses, WriteReady, DataBusAfter, OneCloser
<1> HIDE DEF w, d
<1>4. Pipe(writeData', WL - 1)
  BY <1>0, <1>1, <1>2, PipeMoves
<1>5. CASE w # <<>> /\ w[1].left = 1
  <2>1. w[1].pkt \in Packets
    <3>1. WL \in Nat
      BY <1>0
    <3>2. 1 \in 1..Len(w)
      BY <1>1, <1>5, <3>1, PipeFacts
    <3> QED BY <1>1, <3>1, <3>2, PipeFacts
  <2> QED BY <1>0, <1>3, <1>4, <1>5, <2>1, PipeSingle
<1>6. CASE ~(w # <<>> /\ w[1].left = 1) /\ d # <<>> /\ d[1].left = 1
  BY <1>0, <1>3, <1>4, <1>6, PipeEmpty
<1>7. CASE ~(w # <<>> /\ w[1].left = 1) /\ ~(d # <<>> /\ d[1].left = 1)
  <2>1. Pipe(OneCloser(d), HalfBL - 1) /\ Len(OneCloser(d)) = Len(d)
    BY <1>0, <1>1, <1>7, PipeMoves
  <2>2. Pipe(OneCloser(d), (HalfBL - 1) + 1)
    BY <1>0, <2>1, PipeWidens
  <2> QED BY <1>0, <1>1, <1>3, <1>4, <1>7, <2>1, <2>2
<1> QED BY <1>5, <1>6, <1>7

LEMMA UpdateBusesPipes ==
  ASSUME TablesInv, PipeInv, UpdateBuses
  PROVE  PipeInv'
<1>1. phase = "bus" /\ phase' = "issue" /\ rankOut' = rankOut
  BY DEF UpdateBuses
<1>2. RL \in Nat \ {0} /\ RL - 1 \in Nat /\ RL = (RL - 1) + 1
  BY Latencies
<1>3. \A r \in Ranks : Pipe(readReturn[r], RL - 1) /\ Pipe(readReturn[r], RL)
  BY <1>1, PipesTyped DEF PipeInv
<1>4. readReturn' \in [Ranks -> Seq(Timed(RL))] /\ \A r \in Ranks : Pipe(readReturn'[r], RL)
  <2>0. readReturn \in [Ranks -> Seq(Timed(RL))]
    BY DEF PipeInv
  <2>1. CASE cmdBus = <<>>
    <3>1. readReturn' = readReturn
      BY <2>1 DEF UpdateBuses
    <3> QED BY <1>3, <2>0, <3>1
  <2>2. CASE cmdBus # <<>>
    <3> DEFINE p == cmdBus[1]
    <3>1. p \in Packets
      BY <2>2 DEF TablesInv, CommandInv
    <3>2. readReturn' = [readReturn EXCEPT ![p.rank] =
             IF p.type \in Reads THEN Append(@, [pkt |-> p, left |-> RL]) ELSE @]
      BY <2>2 DEF UpdateBuses, RankReceives
    <3> HIDE DEF p
    <3>3. p.rank \in Ranks
      BY <3>1 DEF Packets
    <3> DEFINE new == IF p.type \in Reads THEN Append(readReturn[p.rank], [pkt |-> p, left |-> RL])
                      ELSE readReturn[p.rank]
    <3>4. Pipe(new, RL)
      <4>1. Pipe(Append(readReturn[p.rank], [pkt |-> p, left |-> (RL - 1) + 1]), (RL - 1) + 1)
        BY <1>2, <1>3, <3>1, <3>3, PipeEnters
      <4> QED BY <1>2, <1>3, <3>3, <4>1
    <3>5. new \in Seq(Timed(RL))
      BY <1>2, <3>4, PipeFacts
    <3>6. readReturn' = [readReturn EXCEPT ![p.rank] = new]
      BY <3>2
    <3> HIDE DEF new
    <3> QED BY <1>3, <2>0, <3>3, <3>4, <3>5, <3>6
  <2> QED BY <2>1, <2>2
<1> QED BY <1>1, <1>4, BusPipes DEF PipeInv

LEMMA IssuePipes ==
  ASSUME PipeInv, IssueNothing \/ \E p \in Packets : Sent(p)
  PROVE  PipeInv'
<1>1. WL - 1 \in Nat /\ WL = (WL - 1) + 1
  BY Latencies
<1>2. CASE IssueNothing
  <2>1. phase = "issue" /\ phase' = "finish" /\ UNCHANGED <<readReturn, rankOut, writeData, dataBus>>
    BY <1>2 DEF IssueNothing, buses, rankVars
  <2>2. Pipe(writeData', WL)
    BY <2>1, FirstBank, PipesTyped
  <2> QED BY <2>1, <2>2 DEF PipeInv
<1>3. ASSUME NEW p \in Packets, Sent(p) PROVE PipeInv'
  <2>1. /\ phase = "issue" /\ phase' = "finish" /\ UNCHANGED <<readReturn, rankOut, dataBus>>
        /\ writeData' = IF p.type \in Writes THEN Append(writeData, [pkt |-> p, left |-> WL]) ELSE writeData
    BY <1>3 DEF Sent, rankVars
  <2>2. Pipe(writeData, WL - 1) /\ Pipe(writeData, WL)
    BY <2>1, FirstBank, PipesTyped DEF PipeInv
  <2>3. Pipe(Append(writeData, [pkt |-> p, left |-> (WL - 1) + 1]), (WL - 1) + 1)
    BY <1>1, <2>2, PipeEnters
  <2>4. Pipe(writeData', WL)
    BY <1>1, <2>1, <2>2, <2>3
  <2> QED BY <2>1, <2>4 DEF PipeInv
<1> QED BY <1>2, <1>3

-----------------------------------------------------------------------------
(* The clocks of the refreshes come due in turn.                           *)

LEMMA Shares ==
  ASSUME NEW a \in Nat, NEW n \in Nat \ {0}
  PROVE  a \div n \in Nat /\ (a \div n) * n <= a /\ (a > n => a \div n > 0)
OBVIOUS

LEMMA InOrder ==
  ASSUME NEW k \in Nat \ {0}, NEW i \in Nat, NEW j \in Nat
  PROVE  /\ k * i \in Nat
         /\ i < j => k * i < k * j
         /\ i <= j => k * i <= k * j
OBVIOUS

LEMMA InitRefreshes ==
  ASSUME Init
  PROVE  RefreshInv
<1> DEFINE k == RefreshPeriod \div NumRanks
<1>1. /\ phase = "ranks" /\ dueRank = 0 /\ rankWaiting = [r \in Ranks |-> FALSE]
      /\ refreshCountdown = [r \in Ranks |-> k * (r + 1)]
  BY DEF Init, RankInit
<1>2. RefreshPeriod \in Nat /\ NumRanks \in Nat \ {0} /\ RefreshPeriod > NumRanks
  BY ControllerAssumption, MappingAssumption
<1>3. k \in Nat \ {0} /\ k * NumRanks <= RefreshPeriod
  BY <1>2, Shares
<1> HIDE DEF k
<1>4. ASSUME NEW i \in Ranks
      PROVE  /\ k * (i + 1) \in Nat /\ k * (i + 1) <= RefreshPeriod /\ k * (i + 1) - k * (0 + 1) < RefreshPeriod
  <2>1. i + 1 \in Nat /\ i + 1 <= NumRanks /\ NumRanks \in Nat /\ 0 + 1 \in Nat /\ 0 < 0 + 1
    BY <1>2 DEF Ranks
  <2>2. k * (i + 1) \in Nat /\ k * (i + 1) <= k * NumRanks /\ k * NumRanks \in Nat /\ k * (0 + 1) \in Nat
    BY <1>3, <2>1, InOrder
  <2>3. k * (0 + 1) = k
    BY <1>3
  <2> HIDE DEF Ranks
  <2> QED BY <1>2, <1>3, <2>2, <2>3
<1>5. InTurn(refreshCountdown, dueRank)
  <2> SUFFICES ASSUME NEW i \in Ranks, NEW j \in Ranks, i < j
               PROVE  refreshCountdown[i] < refreshCountdown[j]
    BY <1>1 DEF InTurn, Ranks
  <2>1. i + 1 \in Nat /\ j + 1 \in Nat /\ i + 1 < j + 1
    BY DEF Ranks
  <2>2. k * (i + 1) < k * (j + 1)
    BY <1>3, <2>1, InOrder
  <2> QED BY <1>1, <2>2
<1>6. \A i \in Ranks : refreshCountdown[i] = k * (i + 1)
  BY <1>1
<1>7. \A i \in Ranks : refreshCountdown[i] \in 0..RefreshPeriod
  BY <1>2, <1>4, <1>6
<1>8. refreshCountdown \in [Ranks -> 0..RefreshPeriod]
  BY <1>1, <1>6, <1>7
<1>9. \A i \in Ranks : refreshCountdown[i] - refreshCountdown[0] < RefreshPeriod
  BY <1>4, <1>6, FirstBank
<1> QED BY <1>1, <1>5, <1>8, <1>9, FirstBank DEF RefreshInv

LEMMA FirstDue ==
  ASSUME RefreshInv, NEW i \in Ranks
  PROVE  /\ refreshCountdown[i] \in Nat /\ refreshCountdown[dueRank] \in Nat
         /\ i # dueRank => refreshCountdown[dueRank] < refreshCountdown[i]
<1>1. refreshCountdown[i] \in Nat /\ refreshCountdown[dueRank] \in Nat /\ dueRank \in Ranks
  <2>1. \A x \in 0..RefreshPeriod : x \in Nat
    BY ControllerAssumption
  <2> QED BY <2>1 DEF RefreshInv
<1>2. i \in Int /\ dueRank \in Int
  BY <1>1 DEF Ranks
<1>3. CASE i < dueRank
  BY <1>1, <1>2, <1>3 DEF RefreshInv, InTurn
<1>4. CASE dueRank < i
  BY <1>1, <1>2, <1>4 DEF RefreshInv, InTurn
<1> QED BY <1>1, <1>2, <1>3, <1>4

LEMMA NextInTurn ==
  ASSUME RefreshInv, RefreshDue, NEW clock, clock = [refreshCountdown EXCEPT ![dueRank] = RefreshPeriod],
         NEW due, due = (dueRank + 1) % NumRanks
  PROVE  /\ due \in Ranks /\ clock \in [Ranks -> 0..RefreshPeriod] /\ InTurn(clock, due)
         /\ \A i \in Ranks : clock[i] > 0
<1>1. RefreshPeriod \in Nat \ {0} /\ NumRanks \in Nat \ {0}
  BY ControllerAssumption, MappingAssumption
<1>2. dueRank \in Ranks /\ refreshCountdown \in [Ranks -> 0..RefreshPeriod] /\ refreshCountdown[dueRank] = 0
  BY DEF RefreshInv, RefreshDue
<1>3. due \in Ranks /\ due = IF dueRank = NumRanks - 1 THEN 0 ELSE dueRank + 1
  <2>1. dueRank \in 0..(NumRanks - 1)
    BY <1>2 DEF Ranks
  <2>2. dueRank = NumRanks - 1 => (dueRank + 1) % NumRanks = 0
    BY <1>1, <2>1
  <2>3. dueRank # NumRanks - 1 => (dueRank + 1) % NumRanks = dueRank + 1
    BY <1>1, <2>1
  <2> QED BY <1>1, <2>1, <2>2, <2>3 DEF Ranks
<1>4. clock[dueRank] = RefreshPeriod /\ \A i \in Ranks : i # dueRank => clock[i] = refreshCountdown[i]
  BY <1>2
<1>5. ASSUME NEW i \in Ranks, i # dueRank
      PROVE  refreshCountdown[i] > 0 /\ refreshCountdown[i] < RefreshPeriod /\ refreshCountdown[i] \in Nat
  <2>1. refreshCountdown[i] - refreshCountdown[dueRank] < RefreshPeriod
    BY DEF RefreshInv
  <2> QED BY <1>1, <1>2, <1>5, <2>1, FirstDue
<1>6. clock \in [Ranks -> 0..RefreshPeriod]
  BY <1>1, <1>2
<1>7. \A i \in Ranks : clock[i] > 0
  BY <1>1, <1>4, <1>5
<1>8. ASSUME NEW i \in Ranks, NEW j \in Ranks, i < j
      PROVE  IF i < due /\ due <= j THEN clock[j] < clock[i] ELSE clock[i] < clock[j]
  <2>1. i \in 0..(NumRanks - 1) /\ j \in 0..(NumRanks - 1) /\ dueRank \in 0..(NumRanks - 1)
    BY <1>2 DEF Ranks
  <2>2. CASE i = dueRank
    <3>1. due = i + 1 /\ i < due /\ due <= j
      BY <1>1, <1>3, <1>8, <2>1, <2>2
    <3>2. clock[j] < clock[i]
      BY <1>4, <1>5, <1>8, <2>1, <2>2
    <3> QED BY <3>1, <3>2
  <2>3. CASE j = dueRank
    <3>1. ~(i < due /\ due <= j)
      BY <1>1, <1>3, <1>8, <2>1, <2>3
    <3>2. clock[i] < clock[j]
      BY <1>4, <1>5, <1>8, <2>1, <2>3
    <3> QED BY <3>1, <3>2
  <2>4. CASE i # dueRank /\ j # dueRank
    <3>1. (i < due /\ due <= j) <=> (i < dueRank /\ dueRank <= j)
      BY <1>1, <1>3, <1>8, <2>1, <2>4
    <3>2. IF i < dueRank /\ dueRank <= j THEN refreshCountdown[j] < refreshCountdown[i]
          ELSE refreshCountdown[i] < refreshCountdown[j]
      BY <1>8 DEF RefreshInv, InTurn
    <3> QED BY <1>4, <2>4, <3>1, <3>2
  <2> QED BY <2>2, <2>3, <2>4
<1> QED BY <1>3, <1>6, <1>7, <1>8 DEF InTurn

LEMMA SameRefreshes ==
  ASSUME RefreshInv, UNCHANGED <<dueRank, refreshCountdown, rankWaiting>>,
         phase' \in {phase, "bus"} \/ phase = "issue"
  PROVE  RefreshInv'
BY DEF RefreshInv

LEMMA UpdateBusesRefreshes ==
  ASSUME RefreshInv, UpdateBuses
  PROVE  RefreshInv'
<1>1. phase' = "issue" /\ dueRank \in Ranks
  BY DEF UpdateBuses, RefreshInv
<1>2. rankWaiting' \in [Ranks -> BOOLEAN]
  <2> DEFINE refreshed == cmdBus # <<>> /\ cmdBus[1].type = "REFRESH"
             wake == powerDown[dueRank] /\ refreshCountdown[dueRank] <= tXP
             waits(r) == \/ r = dueRank /\ (RefreshDue \/ wake)
                         \/ rankWaiting[r] /\ ~(refreshed /\ r = cmdBus[1].rank)
  <2>1. rankWaiting' = [r \in Ranks |-> waits(r)]
    BY DEF UpdateBuses
  <2>2. \A r \in Ranks : waits(r) \in BOOLEAN
    OBVIOUS
  <2> HIDE DEF waits
  <2> QED BY <2>1, <2>2
<1>3. CASE RefreshDue
  <2>1. /\ refreshCountdown' = [refreshCountdown EXCEPT ![dueRank] = RefreshPeriod]
        /\ dueRank' = (dueRank + 1) % NumRanks
    BY <1>3 DEF UpdateBuses
  <2>2. /\ dueRank' \in Ranks /\ refreshCountdown' \in [Ranks -> 0..RefreshPeriod]
        /\ InTurn(refreshCountdown', dueRank') /\ \A i \in Ranks : refreshCountdown'[i] > 0
    BY <1>3, <2>1, NextInTurn
  <2>3. \A i \in Ranks : refreshCountdown'[i] - refreshCountdown'[dueRank'] < RefreshPeriod
    <3>1. RefreshPeriod \in Nat
      BY ControllerAssumption
    <3>2. \A i \in Ranks : refreshCountdown'[i] \in 1..RefreshPeriod
      BY <2>2, <3>1
    <3> QED BY <2>2, <3>1, <3>2
  <2> QED BY <1>2, <2>2, <2>3 DEF RefreshInv
<1>4. CASE ~RefreshDue
  <2>1. refreshCountdown' = refreshCountdown /\ dueRank' = dueRank
    BY <1>4 DEF UpdateBuses
  <2>2. refreshCountdown[dueRank] > 0
    BY <1>1, <1>4, FirstDue DEF RefreshDue
  <2> QED BY <1>1, <1>2, <2>1, <2>2 DEF RefreshInv
<1> QED BY <1>3, <1>4

LEMMA FinishRefreshes ==
  ASSUME RefreshInv, Finish
  PROVE  RefreshInv'
<1>1. /\ phase = "finish" /\ phase' = "ranks" /\ dueRank' = dueRank /\ rankWaiting' = rankWaiting
      /\ refreshCountdown' = [r \in Ranks |-> refreshCountdown[r] - 1]
  BY DEF Finish
<1>2. dueRank \in Ranks /\ refreshCountdown[dueRank] > 0 /\ RefreshPeriod \in Nat
  BY <1>1, ControllerAssumption DEF RefreshInv
<1>3. \A i \in Ranks : refreshCountdown[i] \in Nat /\ refreshCountdown[i] > 0 /\ refreshCountdown[i] <= RefreshPeriod
  <2>1. \A i \in Ranks : refreshCountdown[i] \in 0..RefreshPeriod
    BY DEF RefreshInv
  <2> QED BY <1>2, <2>1, FirstDue
<1>4. \A i \in Ranks : refreshCountdown'[i] = refreshCountdown[i] - 1
  BY <1>1
<1>5. refreshCountdown' \in [Ranks -> 0..RefreshPeriod]
  BY <1>1, <1>2, <1>3
<1>6. InTurn(refreshCountdown', dueRank')
  <2> SUFFICES ASSUME NEW i \in Ranks, NEW j \in Ranks, i < j
               PROVE  IF i < dueRank /\ dueRank <= j THEN refreshCountdown'[j] < refreshCountdown'[i]
                      ELSE refreshCountdown'[i] < refreshCountdown'[j]
    BY <1>1 DEF InTurn
  <2>1. IF i < dueRank /\ dueRank <= j THEN refreshCountdown[j] < refreshCountdown[i]
        ELSE refreshCountdown[i] < refreshCountdown[j]
    BY DEF RefreshInv, InTurn
  <2> QED BY <1>3, <1>4, <2>1
<1>7. \A i \in Ranks : refreshCountdown'[i] - refreshCountdown'[dueRank] < RefreshPeriod
  <2> TAKE i \in Ranks
  <2>1. refreshCountdown[i] - refreshCountdown[dueRank] < RefreshPeriod
    BY DEF RefreshInv
  <2> QED BY <1>2, <1>3, <1>4, <2>1
<1> QED BY <1>1, <1>2, <1>5, <1>6, <1>7 DEF RefreshInv

-----------------------------------------------------------------------------
(* The transactions.                                                       *)

LEMMA SameTraffic ==
  ASSUME TrafficInv, UNCHANGED <<transactionQueue, pendingReads, returns, accepted>>
  PROVE  TrafficInv'
BY DEF TrafficInv

LEMMA AddTraffic ==
  ASSUME TrafficInv, NEW type \in {"READ", "WRITE"}, NEW a \in Addresses, AddTransaction(type, a)
  PROVE  TrafficInv'
<1> DEFINE t == [type |-> type, addr |-> a, id |-> accepted + 1]
<1>1. /\ transactionQueue' = Append(transactionQueue, t) /\ accepted' = accepted + 1
      /\ accepted < MaxTransactions /\ Len(transactionQueue) < TransQueueDepth
      /\ pendingReads' = pendingReads /\ returns' = returns
  BY DEF AddTransaction, WillAccept
<1>2. MaxTransactions \in Nat /\ TransQueueDepth \in Nat /\ accepted \in 0..MaxTransactions
  BY ControllerAssumption DEF TrafficInv
<1>3. accepted + 1 \in 1..MaxTransactions
  BY <1>1, <1>2
<1>4. t \in Transactions
  BY <1>3 DEF Transactions
<1> HIDE DEF t
<1>5. transactionQueue' \in Seq(Transactions) /\ Len(transactionQueue') = Len(transactionQueue) + 1
  BY <1>1, <1>4, AppendProperties DEF TrafficInv
<1>6. Len(transactionQueue) \in Nat
  BY LenProperties DEF TrafficInv
<1>7. Len(transactionQueue') <= TransQueueDepth
  BY <1>1, <1>2, <1>5, <1>6
<1>8. accepted' \in 0..MaxTransactions
  BY <1>1, <1>2
<1> QED BY <1>1, <1>5, <1>7, <1>8 DEF TrafficInv

LEMMA UpdateRanksTraffic ==
  ASSUME TrafficInv, PipeInv, UpdateRanks
  PROVE  TrafficInv'
<1>1. /\ returns' = returns \o FlattenSeq([n \in 1..NumRanks |-> Arrived(n - 1)])
      /\ transactionQueue' = transactionQueue /\ pendingReads' = pendingReads /\ accepted' = accepted
  BY DEF UpdateRanks, bound
<1>2. NumRanks \in Nat \ {0}
  BY MappingAssumption
<1>3. ASSUME NEW r \in Ranks PROVE Arrived(r) \in Seq(Packets)
  <2>1. CASE rankOut[r] # <<>> /\ rankOut[r][1].left = 1
    <3>1. HalfBL \in Nat /\ Pipe(rankOut[r], HalfBL)
      BY PipesTyped, Latencies
    <3>2. 1 \in 1..Len(rankOut[r])
      BY <2>1, <3>1, PipeFacts
    <3>3. rankOut[r][1].pkt \in Packets
      BY <3>1, <3>2, PipeFacts
    <3> QED BY <2>1, <3>3 DEF Arrived
  <2>2. CASE ~(rankOut[r] # <<>> /\ rankOut[r][1].left = 1)
    BY <2>2, EmptySeq DEF Arrived
  <2> QED BY <2>1, <2>2
<1>4. \A n \in 1..NumRanks : n - 1 \in Ranks
  BY <1>2 DEF Ranks
<1>5. [n \in 1..NumRanks |-> Arrived(n - 1)] \in [1..NumRanks -> Seq(Packets)]
  BY <1>3, <1>4
<1>6. FlattenSeq([n \in 1..NumRanks |-> Arrived(n - 1)]) \in Seq(Packets)
  BY <1>2, <1>5, FlattenSeqKeeps
<1>7. returns' \in Seq(Packets)
  BY <1>1, <1>6, ConcatProperties DEF TrafficInv
<1> QED BY <1>1, <1>7 DEF TrafficInv

LEMMA FinishTraffic ==
  ASSUME TrafficInv, Finish
  PROVE  TrafficInv'
<1>1. Answer /\ accepted' = accepted
      /\ transactionQueue' = IF Fitting = {} THEN transactionQueue ELSE RemoveAt(transactionQueue, Min(Fitting))
  BY DEF Finish, TakeTransaction
<1>2. transactionQueue \in Seq(Transactions) /\ Len(transactionQueue) \in Nat /\ TransQueueDepth \in Nat
      /\ Len(transactionQueue) <= TransQueueDepth /\ pendingReads \in Seq(Transactions) /\ returns \in Seq(Packets)
  BY LenProperties, ControllerAssumption DEF TrafficInv
<1>3. transactionQueue' \in Seq(Transactions) /\ Len(transactionQueue') <= TransQueueDepth
  <2>1. CASE Fitting = {}
    BY <1>1, <1>2, <2>1
  <2>2. CASE Fitting # {}
    <3>1. Min(Fitting) \in 1..Len(transactionQueue)
      BY <2>2, TakenFacts
    <3>2. /\ RemoveAt(transactionQueue, Min(Fitting)) \in Seq(Transactions)
          /\ Len(RemoveAt(transactionQueue, Min(Fitting))) = Len(transactionQueue) - 1
      BY <1>2, <3>1, RemovedAt
    <3> QED BY <1>1, <1>2, <2>2, <3>2
  <2> QED BY <2>1, <2>2
<1>4. Pending \in Seq(Transactions)
  <2>1. CASE Fitting # {} /\ Taken.type = "READ"
    <3>1. Taken \in Transactions
      BY <2>1, TakenFacts
    <3> QED BY <1>2, <2>1, <3>1, AppendProperties DEF Pending
  <2>2. CASE ~(Fitting # {} /\ Taken.type = "READ")
    BY <1>2, <2>2 DEF Pending
  <2> QED BY <2>1, <2>2
<1>5. pendingReads' \in Seq(Transactions) /\ returns' \in Seq(Packets)
  <2>1. CASE returns = <<>>
    BY <1>1, <1>2, <1>4, <2>1 DEF Answer
  <2>2. CASE returns # <<>>
    <3>1. /\ Matching # {} /\ pendingReads' = RemoveAt(Pending, Min(Matching)) /\ returns' = Tail(returns)
      BY <1>1, <2>2 DEF Answer
    <3>2. Len(Pending) \in Nat /\ DOMAIN Pending = 1..Len(Pending)
      BY <1>4, LenProperties
    <3>3. Matching \in SUBSET Nat /\ Matching \subseteq 1..Len(Pending)
      BY <3>2 DEF Matching
    <3>4. Min(Matching) \in 1..Len(Pending)
      BY <3>1, <3>3, Least
    <3>5. pendingReads' \in Seq(Transactions)
      BY <1>4, <3>1, <3>4, RemovedAt
    <3>6. returns' \in Seq(Packets)
      BY <1>2, <2>2, <3>1, HeadTailProperties
    <3> QED BY <3>5, <3>6
  <2> QED BY <2>1, <2>2
<1> QED BY <1>1, <1>3, <1>5 DEF TrafficInv

-----------------------------------------------------------------------------
(* All of it.                                                              *)

LEMMA InitQueues ==
  ASSUME Init
  PROVE  QueueInv /\ CounterInv /\ RoundInv /\ TrafficInv
<1>1. /\ policy \in Policies /\ bankStates = [r \in Ranks |-> [b \in Banks |-> FreshBank]]
      /\ queues = [s \in Slots |-> <<>>] /\ next = <<0, 0>> /\ nextPRE = <<0, 0>>
      /\ refreshRank = 0 /\ refreshWaiting = FALSE /\ sendAct = TRUE
      /\ rowAccessCounters = [rb \in AllBanks |-> 0] /\ tFAWCountdown = [r \in Ranks |-> <<>>]
      /\ transactionQueue = <<>> /\ pendingReads = <<>> /\ returns = <<>> /\ accepted = 0
  BY DEF Init, CommandQueueInit
<1>2. TransQueueDepth \in Nat /\ CmdQueueDepth \in Nat /\ TotalRowAccesses \in Nat /\ MaxTransactions \in Nat
  BY ControllerAssumption
<1>3. \A S : <<>> \in Seq(S)
  BY EmptySeq
<1>4. Len(<<>>) = 0
  BY EmptySeq
<1>5. \A s \in Slots : queues[s] = <<>>
  BY <1>1
<1>6. QueueInv
  <2>1. queues \in [Slots -> Seq(Packets)]
    BY <1>1, <1>3
  <2>2. \A s \in Slots : Shaped(queues[s], s)
    <3> TAKE s \in Slots
    <3>1. <<>> \in Seq(Packets) /\ Len(<<>>) <= CmdQueueDepth
      BY <1>2, <1>3, <1>4
    <3>2. \A i \in 1..Len(<<>>) : FALSE
      BY <1>4
    <3>3. Shaped(<<>>, s)
      BY <3>1, <3>2 DEF Shaped, Coupled, First
    <3> QED BY <1>5, <3>3
  <2>3. \A s \in Slots : Served(queues[s], bankStates, rowAccessCounters)
    <3>1. \A i \in 1..Len(<<>>) : FALSE
      BY <1>4
    <3> QED BY <1>5, <3>1 DEF Served
  <2> QED BY <2>1, <2>2, <2>3 DEF QueueInv
<1>7. CounterInv
  <2>1. rowAccessCounters \in [AllBanks -> 0..TotalRowAccesses]
    BY <1>1, <1>2
  <2>2. \A r \in Ranks, b \in Banks : rowAccessCounters[<<r, b>>] = 0 /\ bankStates[r][b] = FreshBank
    BY <1>1, SlotFacts
  <2>3. FreshBank.last \notin Autopre
    BY DEF FreshBank, Autopre
  <2> QED BY <2>1, <2>2, <2>3 DEF CounterInv
<1>8. RoundInv
  <2>1. <<0, 0>> \in AllBanks /\ 0 \in Ranks
    BY FirstBank, SlotFacts
  <2>2. tFAWCountdown \in [Ranks -> Seq(Int)] /\ \A r \in Ranks : Len(tFAWCountdown[r]) <= 4
    BY <1>1, <1>3, <1>4
  <2> QED BY <1>1, <2>1, <2>2 DEF RoundInv
<1>9. TrafficInv
  <2>1. Len(<<>>) <= TransQueueDepth /\ 0 \in 0..MaxTransactions
    BY <1>2, <1>4
  <2> QED BY <1>1, <1>3, <2>1 DEF TrafficInv
<1> QED BY <1>6, <1>7, <1>8, <1>9

LEMMA SameRound ==
  ASSUME RoundInv, policy' = policy,
         UNCHANGED <<next, nextPRE, refreshRank, refreshWaiting, sendAct, tFAWCountdown>>
  PROVE  RoundInv'
BY DEF RoundInv

\* Neither a new transaction nor the ranks touch what the controller decides by.
LEMMA SameCore ==
  ASSUME CoreInv, UNCHANGED <<policy, bankStates, cqVars, rankBanks, isPowerDown, cmdBus, powerDown>>,
         phase' = phase \/ (phase = "ranks" /\ phase' = "bus")
  PROVE  CoreInv'
<1>1. TablesInv'
  BY StillTables DEF CoreInv
<1>2. queues' = queues /\ rowAccessCounters' = rowAccessCounters
      /\ UNCHANGED <<next, nextPRE, refreshRank, refreshWaiting, sendAct, tFAWCountdown>>
  BY DEF cqVars
<1>3. QueueInv'
  BY <1>2, QuietStep DEF CoreInv, Quiet, SameRow
<1>4. CounterInv'
  BY <1>2, CountersKept DEF CoreInv, CounterInv
<1>5. RoundInv'
  BY <1>2, SameRound DEF CoreInv
<1> QED BY <1>1, <1>3, <1>4, <1>5 DEF CoreInv

LEMMA UpdateBusesCore ==
  ASSUME CoreInv, RefreshInv, UpdateBuses
  PROVE  CoreInv'
<1>1. RoundInv'
  <2>1. /\ policy' = policy /\ next' = next /\ nextPRE' = nextPRE /\ sendAct' = sendAct
        /\ tFAWCountdown' = tFAWCountdown
        /\ IF RefreshDue THEN refreshWaiting' = TRUE /\ refreshRank' = dueRank
           ELSE refreshWaiting' = refreshWaiting /\ refreshRank' = refreshRank
    BY DEF UpdateBuses
  <2>2. dueRank \in Ranks
    BY DEF RefreshInv
  <2> QED BY <2>1, <2>2 DEF CoreInv, RoundInv
<1> QED BY <1>1, UpdateBusesTables, UpdateBusesQueues DEF CoreInv

LEMMA FinishCore ==
  ASSUME CoreInv, TrafficInv, Finish
  PROVE  CoreInv'
<1>1. RoundInv'
  <2>1. policy' = policy /\ UNCHANGED <<next, nextPRE, refreshRank, refreshWaiting, sendAct, tFAWCountdown>>
    BY DEF Finish
  <2> QED BY <2>1, SameRound DEF CoreInv
<1> QED BY <1>1, FinishTables, FinishQueues DEF CoreInv

\* What is issued is a packet, and the rest of the system does not move.
LEMMA IssuedFacts ==
  ASSUME CoreInv, Issue
  PROVE  /\ phase = "issue" /\ (IssueNothing \/ \E p \in Packets : Sent(p))
         /\ UNCHANGED <<transactionQueue, pendingReads, returns, accepted, dueRank, refreshCountdown, rankWaiting>>
<1>1. ASSUME NEW p \in Queued PROVE p \in Packets
  <2>1. PICK s \in Slots : p \in Range(queues[s])
    BY DEF Queued
  <2>2. queues[s] \in Seq(Packets)
    BY HeldFacts DEF CoreInv
  <2>3. PICK i \in DOMAIN queues[s] : p = queues[s][i]
    BY <2>1 DEF Range
  <2> QED BY <2>2, <2>3, LenProperties, ElementOfSeq
<1>2. \A p \in Precharges : p \in Packets
  BY BareTyped DEF Precharges, Commands
<1>3. ASSUME NEW p, PopRefresh(p) PROVE p \in Packets
  <2>1. refreshRank \in Ranks /\ p = Bare("REFRESH", refreshRank, 0)
    BY <1>3 DEF PopRefresh, CoreInv, RoundInv
  <2> QED BY <2>1, BareTyped, FirstBank DEF Commands
<1>4. IssueNothing \/ \E p \in Packets : Sent(p)
  <2>1. CASE IssueRefresh
    BY <1>3, <2>1 DEF IssueRefresh
  <2>2. CASE IssueColumnForRefresh \/ IssueColumn \/ IssueActivate
    BY <1>1, <2>2 DEF IssueColumnForRefresh, IssueColumn, IssueActivate
  <2>3. CASE IssuePrechargeForRefresh \/ IssuePrecharge
    BY <1>2, <2>3 DEF IssuePrechargeForRefresh, IssuePrecharge
  <2> QED BY <2>1, <2>2, <2>3 DEF Issue
<1>5. CASE IssueNothing
  BY <1>4, <1>5 DEF IssueNothing, traffic, bound, refreshes, rankVars
<1>6. CASE \E p \in Packets : Sent(p)
  BY <1>4, <1>6 DEF Sent, traffic, bound, refreshes, rankVars
<1> QED BY <1>4, <1>5, <1>6

LEMMA InvStep ==
  ASSUME Inv, [Next]_vars
  PROVE  Inv'
<1>0. CoreInv /\ TrafficInv /\ PipeInv /\ RefreshInv /\ TablesInv
  BY DEF Inv, CoreInv
<1>1. CASE \E type \in {"READ", "WRITE"}, a \in Addresses : AddTransaction(type, a)
  <2>1. PICK type \in {"READ", "WRITE"}, a \in Addresses : AddTransaction(type, a)
    BY <1>1
  <2>2. TrafficInv'
    BY <1>0, <2>1, AddTraffic
  <2>3. /\ UNCHANGED <<policy, bankStates, cqVars, rankVars, phase, cmdBus, powerDown>>
        /\ UNCHANGED <<readReturn, rankOut, writeData, dataBus, dueRank, refreshCountdown, rankWaiting>>
    BY <2>1 DEF AddTransaction, rankVars, buses, refreshes
  <2>4. CoreInv'
    BY <1>0, <2>3, SameCore DEF rankVars
  <2>5. PipeInv'
    BY <1>0, <2>3, SamePipes
  <2>6. RefreshInv'
    BY <1>0, <2>3, SameRefreshes
  <2> QED BY <2>2, <2>4, <2>5, <2>6 DEF Inv
<1>2. CASE UpdateRanks
  <2>1. /\ UNCHANGED <<policy, bankStates, cqVars, rankBanks, isPowerDown, cmdBus, powerDown>>
        /\ UNCHANGED <<dueRank, refreshCountdown, rankWaiting>> /\ phase = "ranks" /\ phase' = "bus"
    BY <1>2 DEF UpdateRanks, buses, refreshes
  <2>2. CoreInv'
    BY <1>0, <2>1, SameCore
  <2>3. RefreshInv'
    BY <1>0, <2>1, SameRefreshes
  <2> QED BY <1>0, <1>2, <2>2, <2>3, UpdateRanksPipes, UpdateRanksTraffic DEF Inv
<1>3. CASE UpdateBuses
  <2>1. UNCHANGED <<transactionQueue, pendingReads, returns, accepted>>
    BY <1>3 DEF UpdateBuses, traffic, bound
  <2> QED BY <1>0, <1>3, <2>1, UpdateBusesCore, SameTraffic, UpdateBusesPipes, UpdateBusesRefreshes DEF Inv
<1>4. CASE Issue
  <2>1. CoreInv'
    BY <1>0, <1>4, IssueKeeps DEF CoreInv
  <2>2. /\ phase = "issue" /\ (IssueNothing \/ \E p \in Packets : Sent(p))
        /\ UNCHANGED <<transactionQueue, pendingReads, returns, accepted>>
        /\ UNCHANGED <<dueRank, refreshCountdown, rankWaiting>>
    BY <1>0, <1>4, IssuedFacts
  <2> QED BY <1>0, <2>1, <2>2, SameTraffic, IssuePipes, SameRefreshes DEF Inv
<1>5. CASE Finish
  <2>1. UNCHANGED <<readReturn, rankOut, writeData, dataBus>> /\ {phase, phase'} \subseteq {"finish", "ranks"}
    BY <1>5 DEF Finish, buses
  <2> QED BY <1>0, <1>5, <2>1, FinishCore, FinishTraffic, SamePipes, FinishRefreshes DEF Inv
<1>6. CASE UNCHANGED vars
  <2>1. /\ UNCHANGED <<policy, bankStates, cqVars, rankVars, phase, traffic, buses, powerDown, refreshes, bound>>
    BY <1>6 DEF vars
  <2>2. /\ UNCHANGED <<transactionQueue, pendingReads, returns, accepted>>
        /\ UNCHANGED <<rankBanks, isPowerDown, cmdBus>>
        /\ UNCHANGED <<readReturn, rankOut, writeData, dataBus, dueRank, refreshCountdown, rankWaiting>>
    BY <2>1 DEF rankVars, traffic, buses, refreshes, bound
  <2>3. CoreInv'
    BY <1>0, <2>1, <2>2, SameCore
  <2> QED BY <1>0, <2>1, <2>2, <2>3, SameTraffic, SamePipes, SameRefreshes DEF Inv
<1> QED BY <1>1, <1>2, <1>3, <1>4, <1>5, <1>6 DEF Next

\* The two tables, the queues, the pipes and the clocks of the refreshes stay
\* in step whatever the policies and the timings are.
THEOREM Invariance == Spec => []Inv
<1>1. Init => Inv
  BY InitTables, InitQueues, InitPipes, InitRefreshes DEF Inv, CoreInv
<1>2. Inv /\ [Next]_vars => Inv'
  BY InvStep
<1> QED BY <1>1, <1>2, PTL DEF Spec

-----------------------------------------------------------------------------
(* What the runs check.                                                    *)

LEMMA Allowing ==
  ASSUME TablesInv
  PROVE  RanksAllow
<1>1. ASSUME phase = "bus", cmdBus # <<>> PROVE RankAllows(cmdBus[1])
  <2> DEFINE p == cmdBus[1]
  <2>1. p \in Packets /\ Allows([b \in Banks |-> Seen(p.rank, b)], p)
    BY <1>1 DEF TablesInv, CommandInv
  <2> HIDE DEF p
  <2>2. p.rank \in Ranks
    BY <2>1 DEF Packets
  <2>3. [b \in Banks |-> Seen(p.rank, b)] = rankBanks[p.rank]
    <3>1. \A b \in Banks : Seen(p.rank, b) = rankBanks[p.rank][b]
      BY <1>1 DEF Seen, Clocked
    <3>2. rankBanks[p.rank] \in [Banks -> BankTable]
      BY <2>2 DEF TablesInv, BankInv, Table
    <3> QED BY <3>1, <3>2
  <2> QED BY <2>1, <2>3 DEF RankAllows, p
<1>2. \A r \in Ranks : isPowerDown[r] = powerDown[r]
  BY DEF TablesInv, PowerInv
<1>3. ASSUME NEW r \in Ranks, \A b \in Banks : bankStates[r][b].state = "Idle", cmdBus = <<>>
      PROVE  MayPowerDown(r)
  <2> SUFFICES ASSUME NEW b \in Banks PROVE rankBanks[r][b].state = "Idle"
    BY DEF MayPowerDown
  <2>1. bankStates[r][b] \in BankTable /\ rankBanks[r][b] \in BankTable /\ Agree(Own(r, b), View(r, b))
    BY DEF TablesInv, BankInv, Table
  <2>2. View(r, b) = Clocked(rankBanks[r][b]) /\ Own(r, b) = Clocked(bankStates[r][b])
    BY <1>3 DEF View, Seen, Own
  <2>3. /\ Clocked(rankBanks[r][b]).state = rankBanks[r][b].state
        /\ Clocked(bankStates[r][b]).state = bankStates[r][b].state
    BY <2>1, TickedFields DEF Clocked
  <2> QED BY <1>3, <2>1, <2>2, <2>3 DEF Agree, SameState
<1>4. ASSUME NEW r \in Ranks, powerDown[r], bankStates[r][0].nextPowerUp = 0
      PROVE  MayPowerUp(r)
  BY <1>2, <1>4 DEF MayPowerUp, TablesInv, PowerInv
<1> QED BY <1>1, <1>2, <1>3, <1>4 DEF RanksAllow

\* No command reaches a rank too early, and no rank is powered down or up
\* when it must not be: none of the checks of Rank::receiveFromBus, powerDown
\* and powerUp ends the program.
THEOREM CommandsAreAllowed == Spec => []RanksAllow
<1>1. Inv => RanksAllow
  BY Allowing DEF Inv, CoreInv
<1> QED BY <1>1, Invariance, PTL

LEMMA Typed ==
  ASSUME Inv
  PROVE  TypeOK
<1>0. TablesInv /\ QueueInv /\ CounterInv /\ RoundInv /\ TrafficInv /\ PipeInv /\ RefreshInv
  BY DEF Inv, CoreInv
<1>1. policy \in Policies /\ phase \in Phases
  BY <1>0 DEF TablesInv, CommandInv, RoundInv
<1>2. \A r \in Ranks, b \in Banks : bankStates[r][b] \in BankTable /\ rankBanks[r][b] \in BankTable
  BY <1>0 DEF TablesInv, BankInv, Table
<1>3. queues \in [Slots -> Seq(Packets)] /\ \A s \in Slots : Len(queues[s]) <= CmdQueueDepth
  BY <1>0 DEF QueueInv, Shaped
<1>4. {next, nextPRE} \subseteq AllBanks /\ refreshRank \in Ranks \cup {-1} /\ refreshWaiting \in BOOLEAN
      /\ sendAct \in BOOLEAN /\ \A r \in Ranks : Len(tFAWCountdown[r]) <= 4
  BY <1>0 DEF RoundInv
<1>5. rowAccessCounters \in [AllBanks -> 0..TotalRowAccesses]
  BY <1>0 DEF CounterInv
<1>6. {isPowerDown, powerDown, rankWaiting} \subseteq [Ranks -> BOOLEAN]
  BY <1>0 DEF TablesInv, PowerInv, RefreshInv
<1>7. /\ transactionQueue \in Seq(Transactions) /\ Len(transactionQueue) <= TransQueueDepth
      /\ pendingReads \in Seq(Transactions) /\ returns \in Seq(Packets)
  BY <1>0 DEF TrafficInv
<1>8. cmdBus \in Seq(Packets)
  BY <1>0 DEF TablesInv, CommandInv
<1>9. dataBus \in Seq(Timed(RL + HalfBL)) /\ writeData \in Seq(Timed(RL + HalfBL))
  <2>1. RL \in Nat /\ WL \in Nat /\ WL = RL - 1 /\ HalfBL \in Nat
    BY Latencies
  <2>2. dataBus \in Seq(Timed(HalfBL)) /\ writeData \in Seq(Timed(WL))
    BY <1>0, <2>1, FirstBank, PipesTyped, PipeFacts
  <2>3. Timed(HalfBL) \subseteq Timed(RL + HalfBL) /\ Timed(WL) \subseteq Timed(RL + HalfBL)
    BY <2>1 DEF Timed
  <2> QED BY <2>2, <2>3, SeqMonotonic
<1>10. \A r \in Ranks : readReturn[r] \in Seq(Timed(RL)) /\ rankOut[r] \in Seq(Timed(HalfBL))
  BY <1>0, PipesTyped
<1>11. dueRank \in Ranks /\ refreshCountdown \in [Ranks -> 0..RefreshPeriod]
  BY <1>0 DEF RefreshInv
<1> QED BY <1>1, <1>2, <1>3, <1>4, <1>5, <1>6, <1>7, <1>8, <1>9, <1>10, <1>11, Zenon DEF TypeOK

LEMMA Standing ==
  ASSUME Inv, NEW s \in Slots, NEW i \in DOMAIN queues[s], NEW p, p = queues[s][i]
  PROVE  IF p.type = "ACTIVATE" THEN i < Len(queues[s]) /\ queues[s][i + 1].id = p.id
         ELSE \/ Paired(queues[s], i) /\ queues[s][i - 1].id = p.id
              \/ /\ BankOf(p).state = "RowActive" /\ BankOf(p).row = p.row
                 /\ rowAccessCounters[<<p.rank, p.bank>>] < TotalRowAccesses
<1> DEFINE q == queues[s]
<1>1. QueueInv /\ CounterInv /\ TotalRowAccesses \in Nat \ {0}
  BY ControllerAssumption DEF Inv, CoreInv
<1>2. /\ q \in Seq(Packets) /\ Len(q) \in Nat /\ Coupled(q) /\ i \in 1..Len(q)
      /\ p.type \in {"ACTIVATE"} \cup Columns
      /\ Lone(q, i) => RowOpen(bankStates, rowAccessCounters, p)
  BY <1>1, HeldFacts, LenProperties
<1>3. CASE p.type = "ACTIVATE"
  <2>1. i + 1 \in 1..Len(q) /\ Couple(q[i], q[i + 1])
    BY <1>2, <1>3 DEF Coupled
  <2> QED BY <1>2, <1>3, <2>1 DEF Couple
<1>4. CASE p.type # "ACTIVATE" /\ Paired(q, i)
  <2>1. Couple(q[i - 1], q[i])
    BY <1>2, <1>4, PairedIsColumn
  <2> QED BY <1>4, <2>1 DEF Couple
<1>5. CASE p.type # "ACTIVATE" /\ ~Paired(q, i)
  <2>1. RowOpen(bankStates, rowAccessCounters, p)
    BY <1>2, <1>5 DEF Lone
  <2>2. /\ BankOf(p).state = "RowActive" /\ BankOf(p).row = p.row
        /\ rowAccessCounters[<<p.rank, p.bank>>] < TotalRowAccesses
    BY <1>1, <2>1 DEF RowOpen, BankOf
  <2> QED BY <1>5, <2>2
<1> QED BY <1>3, <1>4, <1>5

\* The types and capacities are kept, and a column command stands behind its
\* activate or has its row open and not used up: the activate that is thrown
\* away by position is its own, and no row is closed under a command that
\* waits for it.
THEOREM ColumnsAreServed == Spec => []ColumnsHaveTheirRow
<1>1. Inv => ColumnsHaveTheirRow
  <2> SUFFICES ASSUME Inv PROVE ColumnsHaveTheirRow
    OBVIOUS
  <2> QED BY Typed, Standing DEF ColumnsHaveTheirRow
<1> QED BY <1>1, Invariance, PTL

-----------------------------------------------------------------------------
(* The bursts.                                                             *)

LEMMA StartsFew ==
  ASSUME NEW n \in Nat, NEW q, Pipe(q, n), NEW k \in Int, NEW x, Starts(q, k, x)
  PROVE  x \in (1 - k)..(n - k) /\ q # <<>>
<1>1. PICK i \in 1..Len(q) : x = q[i].left - k
  BY DEF Starts
<1>2. Len(q) \in Nat /\ (q # <<>> <=> Len(q) > 0) /\ q[i].left \in 1..n
  BY PipeFacts
<1> QED BY <1>1, <1>2

LEMMA StartsFirst ==
  ASSUME NEW n \in Nat, NEW q, Pipe(q, n), q # <<>>, NEW k \in Int
  PROVE  Starts(q, k, q[1].left - k) /\ q[1].left \in 1..n
<1>1. Len(q) \in Nat /\ Len(q) > 0
  BY PipeFacts
<1>2. 1 \in 1..Len(q)
  BY <1>1
<1> QED BY <1>2, PipeFacts DEF Starts

LEMMA StartsOf ==
  /\ \A k, x : ~Starts(<<>>, k, x)
  /\ \A e, k, x : Starts(<<e>>, k, x) => x = e.left - k
BY DEF Starts

LEMMA StartsMoved ==
  ASSUME NEW n \in Nat, NEW q, Pipe(q, n), NEW k \in Int, NEW x
  PROVE  /\ Starts(OneCloser(q), k, x) => Starts(q, k + 1, x)
         /\ q # <<>> /\ Starts(Tail(OneCloser(q)), k, x) => Starts(q, k + 1, x)
<1> DEFINE new == OneCloser(q)
<1>1. Len(q) \in Nat /\ DOMAIN q = 1..Len(q) /\ (q # <<>> <=> Len(q) > 0)
      /\ \A i \in 1..Len(q) : q[i].left \in 1..n /\ q[i] = [pkt |-> q[i].pkt, left |-> q[i].left]
  BY PipeFacts
<1>2. \A i \in 1..Len(q) : new[i].left = q[i].left - 1
  BY <1>1 DEF OneCloser
<1>3. new \in Seq({new[i] : i \in 1..Len(q)}) /\ Len(new) = Len(q)
  <2>1. DOMAIN new = 1..Len(q) /\ new = [i \in 1..Len(q) |-> new[i]]
    BY <1>1 DEF OneCloser
  <2> HIDE DEF new
  <2> DEFINE S == {new[i] : i \in 1..Len(q)}
  <2>2. new \in [1..Len(q) -> S]
    BY <2>1
  <2> HIDE DEF S
  <2>3. new \in Seq(S)
    BY <1>1, <2>2
  <2> USE DEF S
  <2> QED BY <1>1, <2>1, <2>3, LenProperties
<1> HIDE DEF new
<1>4. Starts(new, k, x) => Starts(q, k + 1, x)
  <2> SUFFICES ASSUME NEW i \in 1..Len(q), x = new[i].left - k PROVE Starts(q, k + 1, x)
    BY <1>3 DEF Starts
  <2>1. x = q[i].left - (k + 1)
    BY <1>1, <1>2
  <2> QED BY <2>1 DEF Starts
<1>5. q # <<>> /\ Starts(Tail(new), k, x) => Starts(q, k + 1, x)
  <2> SUFFICES ASSUME q # <<>>, NEW i \in 1..Len(Tail(new)), x = Tail(new)[i].left - k
               PROVE  Starts(q, k + 1, x)
    BY DEF Starts
  <2>1. new # <<>> /\ Len(new) > 0
    BY <1>1, <1>3, LenProperties
  <2>2. Len(Tail(new)) = Len(q) - 1 /\ \A j \in 1..Len(Tail(new)) : Tail(new)[j] = new[j + 1]
    <3> DEFINE S == {new[j] : j \in 1..Len(q)}
    <3>1. new \in Seq(S)
      BY <1>3
    <3> HIDE DEF S
    <3>2. Len(Tail(new)) = Len(new) - 1 /\ \A j \in 1..Len(Tail(new)) : Tail(new)[j] = new[j + 1]
      BY <2>1, <3>1, HeadTailProperties
    <3> QED BY <1>3, <3>2
  <2>3. i + 1 \in 1..Len(q) /\ Tail(new)[i] = new[i + 1]
    BY <1>1, <2>2
  <2>4. x = q[i + 1].left - (k + 1)
    <3>1. new[i + 1].left = q[i + 1].left - 1 /\ q[i + 1].left \in Int
      BY <1>1, <1>2, <2>3
    <3>2. x = new[i + 1].left - k
      BY <2>3
    <3>3. \A y \in Int : (y - 1) - k = y - (k + 1)
      OBVIOUS
    <3>4. x = (q[i + 1].left - 1) - k
      BY <3>1, <3>2
    <3> QED BY <3>1, <3>3, <3>4
  <2> QED BY <2>3, <2>4 DEF Starts
<1> QED BY <1>4, <1>5 DEF new

LEMMA StartsAdded ==
  ASSUME NEW n \in Nat, NEW q, Pipe(q, n), NEW p, NEW m, NEW k, NEW x,
         Starts(Append(q, [pkt |-> p, left |-> m]), k, x)
  PROVE  Starts(q, k, x) \/ x = m - k
<1> DEFINE e == [pkt |-> p, left |-> m]
           new == Append(q, e)
<1>1. q \in Seq({q[i] : i \in 1..Len(q)} \cup {e}) /\ Len(q) \in Nat
  <2>1. q \in Seq(Timed(n)) /\ Len(q) \in Nat /\ DOMAIN q = 1..Len(q)
    BY PipeFacts
  <2>2. q \in [1..Len(q) -> {q[i] : i \in 1..Len(q)} \cup {e}]
    BY <2>1
  <2> HIDE DEF e
  <2> QED BY <2>1, <2>2
<1>2. e.left = m
  OBVIOUS
<1> HIDE DEF e
<1>3. Len(new) = Len(q) + 1 /\ (\A i \in 1..Len(q) : new[i] = q[i]) /\ new[Len(q) + 1] = e
  BY <1>1, AppendProperties
<1>4. PICK i \in 1..Len(new) : x = new[i].left - k
  BY DEF Starts, e
<1> HIDE DEF new
<1>5. CASE i \in 1..Len(q)
  BY <1>3, <1>4, <1>5 DEF Starts
<1>6. CASE i = Len(q) + 1
  BY <1>2, <1>3, <1>4, <1>6
<1> QED BY <1>1, <1>3, <1>5, <1>6

-----------------------------------------------------------------------------
(* The bursts, by who sends them and by the cycle they take the bus.       *)

\* Where no clock ticks: no new burst, and the banks in use keep their times.
LEMMA SameBursts ==
  ASSUME BusInv, \A w \in Users, x \in Int : Burst(w, x)' => Burst(w, x),
         \A r \in Ranks, b \in Banks : Usable(bankStates'[r][b]) =>
           /\ Usable(bankStates[r][b])
           /\ Own(r, b)'.nextRead = Own(r, b).nextRead /\ Own(r, b)'.nextWrite = Own(r, b).nextWrite
  PROVE  BusInv'
<1>1. ApartInv'
  BY DEF BusInv, ApartInv, Apart, Behind
<1>2. ClearInv'
  <2> SUFFICES ASSUME NEW w \in Users, NEW x \in Int, Burst(w, x)', NEW r \in Ranks, NEW b \in Banks,
                      Usable(bankStates'[r][b])
               PROVE  Clear(w, x, Own(r, b)')
    BY DEF ClearInv, Clear, Usable
  <2>1. Burst(w, x) /\ Usable(bankStates[r][b])
        /\ Own(r, b)'.nextRead = Own(r, b).nextRead /\ Own(r, b)'.nextWrite = Own(r, b).nextWrite
    OBVIOUS
  <2>2. Clear(w, x, Own(r, b))
    BY <2>1 DEF BusInv, ClearInv
  <2> QED BY <2>1, <2>2 DEF Clear
<1> QED BY <1>1, <1>2 DEF BusInv

LEMMA BurstFacts ==
  ASSUME NEW w \in Users
  PROVE  /\ w \in Ranks => w # Writer
         /\ w \in Ranks \/ w = Writer
         /\ RL \in Nat \ {0} /\ WL \in Nat \ {0} /\ WL = RL - 1 /\ HalfBL \in Nat \ {0}
BY Latencies DEF Users, Writer, Ranks

LEMMA StillBursts ==
  ASSUME BusInv, UNCHANGED <<readReturn, rankOut, cmdBus, writeData, dataBus, bankStates, phase>>
  PROVE  BusInv'
<1>1. \A w \in Users, x \in Int : Burst(w, x)' => Burst(w, x)
  BY DEF Burst, Starts, Before, BeforeBus
<1>2. \A r \in Ranks, b \in Banks : Own(r, b)' = Own(r, b)
  BY DEF Own, Clocked
<1> QED BY <1>1, <1>2, SameBursts

LEMMA UpdateRanksBursts ==
  ASSUME BusInv, PipeInv, UpdateRanks
  PROVE  BusInv'
<1>1. /\ phase = "ranks" /\ phase' = "bus" /\ RanksSend
      /\ UNCHANGED <<cmdBus, writeData, dataBus, bankStates>>
  BY DEF UpdateRanks, buses
<1>2. /\ Before = 1 /\ Before' = 0 /\ BeforeBus = 1 /\ BeforeBus' = 1
  BY <1>1 DEF Before, BeforeBus
<1>3. ASSUME NEW w \in Ranks, NEW x \in Int
      PROVE  /\ Starts(readReturn'[w], 0, x) => Starts(readReturn[w], 1, x)
             /\ Starts(rankOut'[w], HalfBL, x) => Starts(readReturn[w], 1, x) \/ Starts(rankOut[w], 1 + HalfBL, x)
  <2> DEFINE q == readReturn[w]
             o == rankOut[w]
  <2>1. Pipe(q, RL) /\ Pipe(o, HalfBL) /\ RL \in Nat /\ HalfBL \in Nat /\ HalfBL + 1 = 1 + HalfBL
    BY PipesTyped, Latencies
  <2>2. readReturn'[w] = IF q # <<>> /\ q[1].left = 1 THEN Tail(OneCloser(q)) ELSE OneCloser(q)
    BY <1>1 DEF RanksSend, Ready, Aged, OneCloser
  <2>3. rankOut'[w] = IF q # <<>> /\ q[1].left = 1 THEN <<[pkt |-> q[1].pkt, left |-> HalfBL]>>
                      ELSE IF Arrived(w) # <<>> THEN <<>> ELSE OneCloser(o)
    BY <1>1 DEF RanksSend, OneCloser, Ready
  <2> HIDE DEF q, o
  <2>4. Starts(readReturn'[w], 0, x) => Starts(q, 1, x)
    <3>1. /\ Starts(OneCloser(q), 0, x) => Starts(q, 0 + 1, x)
          /\ q # <<>> /\ Starts(Tail(OneCloser(q)), 0, x) => Starts(q, 0 + 1, x)
      BY <2>1, StartsMoved
    <3> QED BY <2>2, <3>1
  <2>5. Starts(rankOut'[w], HalfBL, x) => Starts(q, 1, x) \/ Starts(o, 1 + HalfBL, x)
    <3>1. CASE q # <<>> /\ q[1].left = 1
      <4>0. Pipe(q, RL) /\ RL \in Nat /\ q # <<>> /\ 1 \in Int
        BY <2>1, <3>1
      <4>1. Starts(q, 1, q[1].left - 1)
        BY <4>0, StartsFirst
      <4>2. rankOut'[w] = <<[pkt |-> q[1].pkt, left |-> HalfBL]>>
        BY <2>3, <3>1
      <4>3. Starts(rankOut'[w], HalfBL, x) => x = HalfBL - HalfBL
        BY <4>2, StartsOf
      <4> QED BY <2>1, <3>1, <4>1, <4>3
    <3>2. CASE ~(q # <<>> /\ q[1].left = 1)
      <4>1. Starts(OneCloser(o), HalfBL, x) => Starts(o, HalfBL + 1, x)
        BY <2>1, StartsMoved
      <4> QED BY <2>1, <2>3, <3>2, <4>1, StartsOf
    <3> QED BY <3>1, <3>2
  <2> QED BY <2>4, <2>5 DEF q, o
<1>4. \A w \in Users, x \in Int : Burst(w, x)' => Burst(w, x)
  <2>1. 0 + HalfBL = HalfBL
    BY Latencies
  <2> SUFFICES ASSUME NEW w \in Users, NEW x \in Int, Burst(w, x)' PROVE Burst(w, x)
    OBVIOUS
  <2>2. CASE w \in Ranks /\ Starts(readReturn'[w], 0, x)
    BY <1>2, <1>3, <2>2 DEF Burst
  <2>3. CASE w \in Ranks /\ Starts(rankOut'[w], HalfBL, x)
    BY <1>2, <1>3, <2>3 DEF Burst
  <2>4. CASE w \in Ranks /\ cmdBus # <<>> /\ cmdBus[1].rank = w /\ cmdBus[1].type \in Reads /\ x = RL
    BY <2>4 DEF Burst
  <2>5. CASE w = Writer /\ (Starts(writeData, 1, x) \/ Starts(dataBus, 1 + HalfBL, x))
    BY <1>2, <2>5 DEF Burst
  <2> QED BY <1>1, <1>2, <2>1, <2>2, <2>3, <2>4, <2>5 DEF Burst
<1>5. \A r \in Ranks, b \in Banks : Own(r, b)' = Own(r, b)
  BY <1>1 DEF Own, Clocked
<1> QED BY <1>1, <1>4, <1>5, SameBursts

LEMMA UpdateBusesBursts ==
  ASSUME BusInv, TablesInv, PipeInv, UpdateBuses
  PROVE  BusInv'
<1>1. /\ phase = "bus" /\ phase' = "issue" /\ rankOut' = rankOut /\ cmdBus' = <<>>
      /\ bankStates' = [r \in Ranks |-> [b \in Banks |-> CountedDown(bankStates[r][b])]]
  BY DEF UpdateBuses
<1>2. /\ Before = 0 /\ Before' = 0 /\ BeforeBus = 1 /\ BeforeBus' = 0
  BY <1>1 DEF Before, BeforeBus
<1>3. RL \in Nat /\ WL \in Nat /\ HalfBL \in Nat /\ 0 + HalfBL = HalfBL /\ HalfBL + 1 = 1 + HalfBL
  BY Latencies
<1>4. ASSUME NEW w \in Ranks, NEW x \in Int, Starts(readReturn'[w], 0, x)
      PROVE  \/ Starts(readReturn[w], 0, x)
             \/ cmdBus # <<>> /\ cmdBus[1].rank = w /\ cmdBus[1].type \in Reads /\ x = RL
  <2>1. CASE cmdBus = <<>>
    BY <1>4, <2>1 DEF UpdateBuses
  <2>2. CASE cmdBus # <<>>
    <3> DEFINE p == cmdBus[1]
    <3>1. readReturn' = [readReturn EXCEPT ![p.rank] =
             IF p.type \in Reads THEN Append(@, [pkt |-> p, left |-> RL]) ELSE @]
      BY <2>2 DEF UpdateBuses, RankReceives
    <3>2. readReturn \in [Ranks -> Seq(Timed(RL))] /\ Pipe(readReturn[w], RL)
      BY PipesTyped DEF PipeInv
    <3> HIDE DEF p
    <3>3. CASE w = p.rank /\ p.type \in Reads
      <4>1. readReturn'[w] = Append(readReturn[w], [pkt |-> p, left |-> RL])
        BY <3>1, <3>2, <3>3
      <4>2. Starts(readReturn[w], 0, x) \/ x = RL - 0
        BY <1>3, <1>4, <3>2, <4>1, StartsAdded
      <4> QED BY <1>3, <2>2, <3>3, <4>2 DEF p
    <3>4. CASE ~(w = p.rank /\ p.type \in Reads)
      <4>1. readReturn'[w] = readReturn[w]
        BY <3>1, <3>2, <3>4
      <4> QED BY <1>4, <4>1
    <3> QED BY <3>3, <3>4
  <2> QED BY <2>1, <2>2
<1>5. ASSUME NEW x \in Int
      PROVE  /\ Starts(writeData', 0, x) => Starts(writeData, 1, x)
             /\ Starts(dataBus', HalfBL, x) => Starts(writeData, 1, x) \/ Starts(dataBus, 1 + HalfBL, x)
  <2> DEFINE q == writeData
             d == dataBus
  <2>1. Pipe(q, WL) /\ Pipe(d, HalfBL)
    BY FirstBank, PipesTyped
  <2>2. writeData' = IF q # <<>> /\ q[1].left = 1 THEN Tail(OneCloser(q)) ELSE OneCloser(q)
    BY DEF UpdateBuses, WriteReady, OneCloser
  <2>3. dataBus' = IF q # <<>> /\ q[1].left = 1 THEN <<[pkt |-> q[1].pkt, left |-> HalfBL]>>
                   ELSE IF d # <<>> /\ d[1].left = 1 THEN <<>> ELSE OneCloser(d)
    BY DEF UpdateBuses, WriteReady, DataBusAfter, OneCloser
  <2> HIDE DEF q, d
  <2>4. Starts(writeData', 0, x) => Starts(q, 1, x)
    <3>1. /\ Starts(OneCloser(q), 0, x) => Starts(q, 0 + 1, x)
          /\ q # <<>> /\ Starts(Tail(OneCloser(q)), 0, x) => Starts(q, 0 + 1, x)
      BY <1>3, <2>1, StartsMoved
    <3> QED BY <2>2, <3>1
  <2>5. Starts(dataBus', HalfBL, x) => Starts(q, 1, x) \/ Starts(d, 1 + HalfBL, x)
    <3>1. CASE q # <<>> /\ q[1].left = 1
      <4>1. Starts(q, 1, q[1].left - 1)
        BY <1>3, <2>1, <3>1, StartsFirst
      <4>2. dataBus' = <<[pkt |-> q[1].pkt, left |-> HalfBL]>>
        BY <2>3, <3>1
      <4>3. Starts(dataBus', HalfBL, x) => x = HalfBL - HalfBL
        BY <4>2, StartsOf
      <4> QED BY <1>3, <3>1, <4>1, <4>3
    <3>2. CASE ~(q # <<>> /\ q[1].left = 1)
      <4>1. Starts(OneCloser(d), HalfBL, x) => Starts(d, HalfBL + 1, x)
        BY <1>3, <2>1, StartsMoved
      <4> QED BY <1>3, <2>3, <3>2, <4>1, StartsOf
    <3> QED BY <3>1, <3>2
  <2> QED BY <2>4, <2>5 DEF q, d
<1>6. \A w \in Users, x \in Int : Burst(w, x)' => Burst(w, x)
  <2> SUFFICES ASSUME NEW w \in Users, NEW x \in Int, Burst(w, x)' PROVE Burst(w, x)
    OBVIOUS
  <2>1. CASE w \in Ranks /\ Starts(readReturn'[w], 0, x)
    BY <1>2, <1>4, <2>1 DEF Burst
  <2>2. CASE w \in Ranks /\ Starts(rankOut[w], HalfBL, x)
    BY <1>2, <1>3, <2>2 DEF Burst
  <2>3. CASE w = Writer /\ (Starts(writeData', 0, x) \/ Starts(dataBus', HalfBL, x))
    BY <1>2, <1>5, <2>3 DEF Burst
  <2> QED BY <1>1, <1>2, <1>3, <2>1, <2>2, <2>3 DEF Burst
<1>7. ASSUME NEW r \in Ranks, NEW b \in Banks, Usable(bankStates'[r][b])
      PROVE  /\ Usable(bankStates[r][b])
             /\ Own(r, b)'.nextRead = Own(r, b).nextRead /\ Own(r, b)'.nextWrite = Own(r, b).nextWrite
  <2> DEFINE bank == bankStates[r][b]
  <2>1. bank \in BankTable /\ bankStates'[r][b] = CountedDown(bank)
    BY <1>1 DEF TablesInv, BankInv, Table
  <2>2. Own(r, b)' = CountedDown(bank) /\ Own(r, b) = bank
    BY <1>1, <2>1 DEF Own, Clocked
  <2> HIDE DEF bank
  <2>3. Usable(bank)
    BY <1>7, <2>1, CountedFields DEF Usable
  <2> QED BY <2>1, <2>2, <2>3, CountedFields DEF bank
<1> QED BY <1>6, <1>7, SameBursts

LEMMA FinishBursts ==
  ASSUME BusInv, TablesInv, Finish
  PROVE  BusInv'
<1>1. /\ phase = "finish" /\ phase' = "ranks"
      /\ UNCHANGED <<readReturn, rankOut, cmdBus, writeData, dataBus>>
  BY DEF Finish, buses
<1>2. /\ Before = 1 /\ Before' = 1 /\ BeforeBus = 1 /\ BeforeBus' = 1
  BY <1>1 DEF Before, BeforeBus
<1>3. \A w \in Users, x \in Int : Burst(w, x)' => Burst(w, x)
  BY <1>1, <1>2 DEF Burst
<1>4. ASSUME NEW r \in Ranks, NEW b \in Banks, Usable(bankStates'[r][b])
      PROVE  /\ Usable(bankStates[r][b])
             /\ Own(r, b)'.nextRead = Own(r, b).nextRead /\ Own(r, b)'.nextWrite = Own(r, b).nextWrite
  <2> DEFINE own == bankStates[r][b]
  <2>1. own.state = "RowActive" /\ own.last = bankStates'[r][b].last
    BY <1>4, PoweredRows DEF Usable
  <2>2. bankStates'[r][b] = TickedBank(own)
    <3>1. ~GoesDown(r) /\ ~GoesUp(r)
      BY <2>1 DEF GoesDown, GoesUp, TablesInv, PowerInv
    <3>2. bankStates' = Powered(bankStates)
      BY DEF Finish, Power
    <3> QED BY <3>1, <3>2 DEF Powered
  <2>3. Own(r, b)' = TickedBank(own) /\ Own(r, b) = TickedBank(own)
    BY <1>1, <2>2 DEF Own, Clocked
  <2> QED BY <1>4, <2>1, <2>3 DEF Usable
<1> QED BY <1>3, <1>4, SameBursts

\* The spacing a column command asks of the others.
ToRead(p, r) ==
  IF p.type \in Reads THEN (IF r = p.rank THEN Larger(tCCD, HalfBL) ELSE HalfBL + tRTRS)
  ELSE (IF r = p.rank THEN WriteToReadB ELSE WriteToReadR)
ToWrite(p, r) ==
  IF p.type \in Reads THEN ReadToWrite ELSE (IF r = p.rank THEN Larger(tCCD, HalfBL) ELSE HalfBL + tRTRS)

\* The bursts a command asks for.
Asked(p, w, x) ==
  \/ p.type \in Reads /\ w = p.rank /\ x = RL
  \/ p.type \in Writes /\ w = Writer /\ x = WL - 1

LEMMA SpacingEnough ==
  ASSUME NEW p, p.type \in Columns, NEW r, NEW w \in Users, NEW x, Asked(p, w, x), p.rank \in Ranks,
         NEW i \in Timers, NEW j \in Timers
  PROVE  /\ ToRead(p, r) \in Timers /\ ToWrite(p, r) \in Timers
         /\ x + HalfBL + (IF w = Writer THEN 1 ELSE 0) <= Ticked(Later(ToRead(p, r), i)) + RL + 1
         /\ x + HalfBL <= Ticked(Later(ToWrite(p, r), j)) + WL
<1>1. /\ CL \in Nat \ {0} /\ AL \in Nat /\ HalfBL \in Nat \ {0} /\ tRTRS \in Nat \ {0}
      /\ tCCD \in Nat \ {0} /\ tWTR \in Nat \ {0} /\ WL = RL - 1
      /\ RL \in Nat \ {0} /\ WL \in Nat \ {0}
  BY TimingAssumption, Latencies
<1>2. ToRead(p, r) \in Timers /\ ToWrite(p, r) \in Timers
  BY DelaysFit DEF Delays, ToRead, ToWrite
<1>3. \A d, y \in Timers : d - 1 <= Ticked(Later(d, y)) /\ Ticked(Later(d, y)) \in Nat /\ d \in Nat
  BY DelaysFit DEF Ticked, Later, Larger
<1>4. w \in Ranks => w # Writer
  BY BurstFacts
<1> DEFINE tr == Ticked(Later(ToRead(p, r), i))
           tw == Ticked(Later(ToWrite(p, r), j))
<1>5. ToRead(p, r) - 1 <= tr /\ tr \in Nat /\ ToWrite(p, r) - 1 <= tw /\ tw \in Nat
  BY <1>2, <1>3
<1> HIDE DEF tr, tw
<1>6. CASE p.type \in Reads
  <2>1. x = RL /\ w # Writer
    BY <1>4, <1>6 DEF Asked, Reads, Writes
  <2>2. HalfBL <= ToRead(p, r) /\ ToWrite(p, r) = ReadToWrite
    BY <1>1, <1>6 DEF ToRead, ToWrite, Larger
  <2>3. ToWrite(p, r) = RL + HalfBL + tRTRS - WL
    BY <2>2 DEF ReadToWrite
  <2>4. ToRead(p, r) \in Int /\ ToWrite(p, r) \in Int
    BY <1>2, DelaysFit
  <2>5. x + HalfBL <= tr + RL + 1 /\ x + HalfBL <= tw + WL
    BY <1>1, <1>5, <2>1, <2>2, <2>3, <2>4
  <2> QED BY <1>1, <1>2, <2>1, <2>5 DEF tr, tw
<1>7. CASE p.type \notin Reads
  <2>1. x = WL - 1 /\ w = Writer
    BY <1>7 DEF Asked
  <2>2. WL + HalfBL + tRTRS - RL <= ToRead(p, r) \/ WL + HalfBL + tWTR <= ToRead(p, r)
    BY <1>1, <1>7 DEF ToRead, WriteToReadB, WriteToReadR
  <2>3. HalfBL <= ToWrite(p, r)
    BY <1>1, <1>7 DEF ToWrite, Larger
  <2>4. ToRead(p, r) \in Int /\ ToWrite(p, r) \in Int
    BY <1>2, DelaysFit
  <2>5. x + HalfBL + 1 <= tr + RL + 1 /\ x + HalfBL <= tw + WL
    BY <1>1, <1>5, <2>1, <2>2, <2>3, <2>4
  <2> QED BY <1>1, <1>2, <2>1, <2>5 DEF tr, tw
<1> QED BY <1>6, <1>7

\* What is left of a bank in use after a column command.
LEMMA ColumnSpaces ==
  ASSUME NEW p, p.type \in Columns, NEW r, NEW b, bankStates[r][b] \in BankTable,
         BankOf(p).last \notin Autopre, Usable(Column(p, r, b)), ToRead(p, r) \in Timers, ToWrite(p, r) \in Timers
  PROVE  /\ Usable(bankStates[r][b]) /\ Column(p, r, b) \in BankTable
         /\ Column(p, r, b).nextRead = Later(ToRead(p, r), bankStates[r][b].nextRead)
         /\ Column(p, r, b).nextWrite = Later(ToWrite(p, r), bankStates[r][b].nextWrite)
<1> DEFINE own == bankStates[r][b]
           new == Column(p, r, b)
<1>1. CASE r # p.rank
  <2>1. new = IF own.state = "RowActive"
              THEN [own EXCEPT !.nextRead = Later(ToRead(p, r), @), !.nextWrite = Later(ToWrite(p, r), @)] ELSE own
    BY <1>1 DEF Column, ToRead, ToWrite
  <2>2. Later(ToRead(p, r), own.nextRead) \in Timers /\ Later(ToWrite(p, r), own.nextWrite) \in Timers
    BY BankFields, TimerArithmetic
  <2> HIDE DEF new, own
  <2>3. own \in BankTable /\ Usable(new)
    BY DEF own, new
  <2>4. own.state = "RowActive"
    BY <2>1, <2>3 DEF Usable
  <2>5. /\ new \in BankTable /\ new.last = own.last /\ new.nextRead = Later(ToRead(p, r), own.nextRead)
        /\ new.nextWrite = Later(ToWrite(p, r), own.nextWrite)
    BY <2>1, <2>2, <2>3, <2>4 DEF BankTable
  <2> QED BY <2>3, <2>4, <2>5 DEF Usable, own, new
<1>2. CASE r = p.rank
  <2> DEFINE s == Spaced(p, own)
  <2>1. ReadAfter(p) = ToRead(p, r) /\ WriteAfter(p) = ToWrite(p, r)
    BY <1>2 DEF ReadAfter, WriteAfter, ToRead, ToWrite
  <2>2. /\ s \in BankTable /\ s.state = own.state /\ s.last = own.last
        /\ s.nextRead = Later(ToRead(p, r), own.nextRead) /\ s.nextWrite = Later(ToWrite(p, r), own.nextWrite)
    BY <2>1, SpacedFields
  <2>3. CASE b # p.bank
    <3>1. new = s
      BY <1>2, <2>3, ColumnCases
    <3> HIDE DEF new, s, own
    <3> QED BY <2>2, <3>1 DEF Usable, new, own
  <2>4. CASE b = p.bank
    <3>1. new.state = own.state /\ new.last = p.type /\ own.last \notin Autopre
      BY <1>2, <2>4, ColumnKeepsRow DEF BankOf
    <3>2. p.type \notin Autopre /\ own.state = "RowActive"
      BY <3>1 DEF Usable
    <3>3. new = [s EXCEPT !.nextPrecharge = Later(PreAfter(p), @), !.last = p.type]
      BY <1>2, <2>4, <3>2, ColumnCases
    <3>4. Later(PreAfter(p), s.nextPrecharge) \in Timers /\ p.type \in Commands
      <4> HIDE DEF s
      <4> QED BY <2>2, AfterFits, BankFields, TimerArithmetic DEF Commands
    <3> HIDE DEF new, s, own
    <3>5. new \in BankTable /\ new.nextRead = s.nextRead /\ new.nextWrite = s.nextWrite
      BY <2>2, <3>3, <3>4 DEF BankTable
    <3> QED BY <2>2, <3>1, <3>2, <3>5 DEF Usable, new, own
  <2> QED BY <2>3, <2>4
<1> QED BY <1>1, <1>2

LEMMA ElapsedClear ==
  ASSUME NEW own \in BankTable, NEW new \in BankTable, NEW w \in Users, NEW x \in Int, Clear(w, x + 1, own),
         own.nextRead <= new.nextRead, own.nextWrite <= new.nextWrite
  PROVE  Clear(w, x, TickedBank(new))
<1>1. /\ own.nextRead \in Nat /\ new.nextRead \in Nat /\ own.nextWrite \in Nat /\ new.nextWrite \in Nat
  BY BankFields, DelaysFit
<1>2. \A i, j \in Nat : i <= j => i - 1 <= Ticked(j) /\ Ticked(j) \in Nat
  BY DEF Ticked
<1>3. /\ own.nextRead - 1 <= TickedBank(new).nextRead /\ own.nextWrite - 1 <= TickedBank(new).nextWrite
      /\ TickedBank(new).nextRead \in Nat /\ TickedBank(new).nextWrite \in Nat
  BY <1>1, <1>2, TickedFields
<1> QED BY <1>1, <1>3, Latencies DEF Clear

LEMMA ElapsedApart ==
  ASSUME BusInv, NEW v \in Users, NEW w \in Users, NEW x \in Int, NEW y \in Int, Burst(v, x + 1), Burst(w, y + 1)
  PROVE  (v = w /\ x = y) \/ Apart(v, x, w, y) \/ Apart(w, y, v, x)
<1>1. x + 1 \in Int /\ y + 1 \in Int /\ HalfBL \in Nat
  BY Latencies
<1>2. (v = w /\ x + 1 = y + 1) \/ Apart(v, x + 1, w, y + 1) \/ Apart(w, y + 1, v, x + 1)
  BY <1>1 DEF BusInv, ApartInv
<1> QED BY <1>1, <1>2 DEF Apart, Behind

\* The commands that ask for no data.
LEMMA QuietBursts ==
  ASSUME BusInv, TablesInv, TablesInv', phase = "issue", phase' = "finish",
         \A w \in Users, x \in Int : Burst(w, x)' => Burst(w, x + 1),
         \A r \in Ranks, b \in Banks : Usable(bankStates'[r][b]) => bankStates'[r][b] = bankStates[r][b]
  PROVE  BusInv'
<1>1. ApartInv'
  <2> SUFFICES ASSUME NEW v \in Users, NEW w \in Users, NEW x \in Int, NEW y \in Int, Burst(v, x)', Burst(w, y)'
               PROVE  (v = w /\ x = y) \/ Apart(v, x, w, y) \/ Apart(w, y, v, x)
    BY DEF ApartInv, Apart, Behind
  <2> QED BY ElapsedApart
<1>2. ClearInv'
  <2> SUFFICES ASSUME NEW w \in Users, NEW x \in Int, Burst(w, x)', NEW r \in Ranks, NEW b \in Banks,
                      Usable(bankStates'[r][b])
               PROVE  Clear(w, x, Own(r, b)')
    BY DEF ClearInv, Clear, Usable
  <2>1. bankStates'[r][b] = bankStates[r][b] /\ bankStates[r][b] \in BankTable
    BY AtIssue
  <2>2. Own(r, b) = bankStates[r][b] /\ Own(r, b)' = TickedBank(bankStates[r][b])
    BY <2>1 DEF Own, Clocked
  <2>3. Clear(w, x + 1, bankStates[r][b])
    BY <2>1, <2>2 DEF BusInv, ClearInv
  <2>4. bankStates[r][b].nextRead <= bankStates[r][b].nextRead /\ bankStates[r][b].nextWrite <= bankStates[r][b].nextWrite
    BY <2>1, BankFields, DelaysFit
  <2> QED BY <2>1, <2>2, <2>3, <2>4, ElapsedClear
<1> QED BY <1>1, <1>2 DEF BusInv

LEMMA StartsLater ==
  ASSUME NEW n \in Nat, NEW q, Pipe(q, n), NEW k \in Int, NEW x, Starts(q, 1 + k, x)
  PROVE  Starts(q, k, x + 1) /\ x + 1 \in (1 - k)..(n - k)
<1>1. PICK i \in 1..Len(q) : x = q[i].left - (1 + k)
  BY DEF Starts
<1>2. q[i].left \in 1..n
  BY PipeFacts
<1>3. x + 1 = q[i].left - k
  BY <1>1, <1>2
<1> QED BY <1>2, <1>3 DEF Starts

\* A cycle later, no burst is further off than the data of a read just sent.
LEMMA LaterBursts ==
  ASSUME PipeInv, TablesInv, phase = "issue", phase' = "finish", UNCHANGED <<readReturn, rankOut, dataBus>>,
         NEW w \in Users, NEW x \in Int,
         \/ w \in Ranks /\ (Starts(readReturn[w], 1, x) \/ Starts(rankOut[w], 1 + HalfBL, x))
         \/ w = Writer /\ (Starts(writeData, 1, x) \/ Starts(dataBus, 1 + HalfBL, x))
  PROVE  Burst(w, x + 1) /\ x + 1 <= RL
<1>1. /\ Before = 0 /\ BeforeBus = 0 /\ 1 + 0 = 1 /\ 0 + HalfBL = HalfBL
      /\ RL \in Nat /\ WL \in Nat /\ WL = RL - 1 /\ HalfBL \in Nat
  BY Latencies DEF Before, BeforeBus
<1>2. CASE w \in Ranks /\ Starts(readReturn[w], 1, x)
  <2>1. Pipe(readReturn[w], RL)
    BY <1>2, PipesTyped
  <2>2. Starts(readReturn[w], 0, x + 1) /\ x + 1 \in (1 - 0)..(RL - 0)
    BY <1>1, <1>2, <2>1, StartsLater
  <2> QED BY <1>1, <1>2, <2>2 DEF Burst
<1>3. CASE w \in Ranks /\ Starts(rankOut[w], 1 + HalfBL, x)
  <2>1. Pipe(rankOut[w], HalfBL)
    BY <1>3, PipesTyped
  <2>2. Starts(rankOut[w], HalfBL, x + 1) /\ x + 1 \in (1 - HalfBL)..(HalfBL - HalfBL)
    BY <1>1, <1>3, <2>1, StartsLater
  <2> QED BY <1>1, <1>3, <2>2 DEF Burst
<1>4. CASE w = Writer /\ Starts(writeData, 1, x)
  <2>1. Pipe(writeData, WL)
    BY FirstBank, PipesTyped
  <2>2. Starts(writeData, 0, x + 1) /\ x + 1 \in (1 - 0)..(WL - 0)
    <3>1. Starts(writeData, 1 + 0, x) /\ WL \in Nat /\ 0 \in Int
      BY <1>1, <1>4
    <3> QED BY <2>1, <3>1, StartsLater
  <2> QED BY <1>1, <1>4, <2>2 DEF Burst
<1>5. CASE w = Writer /\ Starts(dataBus, 1 + HalfBL, x)
  <2>1. Pipe(dataBus, HalfBL)
    BY FirstBank, PipesTyped
  <2>2. Starts(dataBus, HalfBL, x + 1) /\ x + 1 \in (1 - HalfBL)..(HalfBL - HalfBL)
    BY <1>1, <1>5, <2>1, StartsLater
  <2> QED BY <1>1, <1>5, <2>2 DEF Burst
<1> QED BY <1>2, <1>3, <1>4, <1>5

LEMMA SentBursts ==
  ASSUME PipeInv, TablesInv, NEW p \in Packets, Sent(p), NEW w \in Users, NEW x \in Int, Burst(w, x)'
  PROVE  (Burst(w, x + 1) /\ x + 1 <= RL) \/ Asked(p, w, x)
<1>1. /\ phase = "issue" /\ phase' = "finish" /\ UNCHANGED <<readReturn, rankOut, dataBus>>
      /\ cmdBus' = <<p>> /\ cmdBus'[1] = p
      /\ writeData' = IF p.type \in Writes THEN Append(writeData, [pkt |-> p, left |-> WL]) ELSE writeData
  BY DEF Sent, rankVars
<1>2. Before' = 1 /\ BeforeBus' = 1
  BY <1>1 DEF Before, BeforeBus
<1>3. CASE w \in Ranks /\ (Starts(readReturn[w], 1, x) \/ Starts(rankOut[w], 1 + HalfBL, x))
  BY <1>1, <1>3, LaterBursts
<1>4. CASE w = Writer /\ Starts(dataBus, 1 + HalfBL, x)
  BY <1>1, <1>4, LaterBursts
<1>5. CASE p.rank = w /\ p.type \in Reads /\ x = RL
  BY <1>5 DEF Asked
<1>6. CASE w = Writer /\ Starts(writeData', 1, x)
  <2>1. Pipe(writeData, WL) /\ WL \in Nat
    BY FirstBank, PipesTyped, Latencies
  <2>2. Starts(writeData, 1, x) \/ (p.type \in Writes /\ x = WL - 1)
    <3>1. CASE p.type \in Writes
      <4>1. Starts(Append(writeData, [pkt |-> p, left |-> WL]), 1, x)
        BY <1>1, <1>6, <3>1
      <4> QED BY <2>1, <3>1, <4>1, StartsAdded
    <3>2. CASE p.type \notin Writes
      BY <1>1, <1>6, <3>2
    <3> QED BY <3>1, <3>2
  <2>3. Starts(writeData, 1, x) => Burst(w, x + 1) /\ x + 1 <= RL
    BY <1>1, <1>6, LaterBursts
  <2> QED BY <1>6, <2>2, <2>3 DEF Asked
<1> QED BY <1>1, <1>2, <1>3, <1>4, <1>5, <1>6 DEF Burst

\* A new burst comes after all those under way, for the bank could be used.
LEMMA AskedApart ==
  ASSUME NEW p \in Packets, p.type \in Columns, isIssuable(p), NEW v \in Users, NEW w \in Users,
         NEW x \in Int, NEW y, Asked(p, w, y), Clear(v, x + 1, BankOf(p))
  PROVE  Apart(v, x, w, y)
<1>1. RL \in Nat /\ WL \in Nat /\ WL = RL - 1 /\ HalfBL \in Nat
  BY Latencies
<1>2. /\ p.type \in Reads => BankOf(p).nextRead = 0
      /\ p.type \in Writes => BankOf(p).nextWrite = 0
  BY DEF isIssuable, ColumnAllowed, Reads, Writes
<1>3. CASE p.type \in Reads /\ w = p.rank /\ y = RL
  <2>1. x + 1 + HalfBL + (IF v = Writer THEN 1 ELSE 0) <= 0 + RL + 1
    BY <1>2, <1>3 DEF Clear
  <2> QED BY <1>1, <1>3, <2>1 DEF Apart, Behind
<1>4. CASE p.type \in Writes /\ w = Writer /\ y = WL - 1
  <2>1. x + 1 + HalfBL <= 0 + WL
    BY <1>2, <1>4 DEF Clear
  <2> QED BY <1>1, <1>4, <2>1 DEF Apart, Behind
<1> QED BY <1>3, <1>4 DEF Asked

LEMMA ColumnBursts ==
  ASSUME BusInv, PipeInv, TablesInv, NEW p \in Packets, Sent(p), p.type \in Columns, isIssuable(p),
         BankOf(p).last \notin Autopre, bankStates' = Updated(p, Column)
  PROVE  BusInv'
<1>1. phase = "issue" /\ phase' = "finish" /\ p.rank \in Ranks /\ p.bank \in Banks
  BY DEF Sent, Packets
<1>2. \A r \in Ranks, b \in Banks :
        /\ bankStates[r][b] \in BankTable /\ bankStates'[r][b] = Column(p, r, b)
        /\ Own(r, b) = bankStates[r][b] /\ Own(r, b)' = TickedBank(Column(p, r, b))
  BY <1>1, AtIssue DEF Updated, Own, Clocked
<1>3. Usable(BankOf(p))
  BY DEF isIssuable, ColumnAllowed, Columns, Reads, Writes, Usable
<1>4. \A w \in Users, x \in Int : Burst(w, x + 1) => Clear(w, x + 1, BankOf(p))
  <2> SUFFICES ASSUME NEW w \in Users, NEW x \in Int, Burst(w, x + 1) PROVE Clear(w, x + 1, BankOf(p))
    OBVIOUS
  <2>1. BankOf(p) = bankStates[p.rank][p.bank]
    BY DEF BankOf
  <2>2. Usable(bankStates[p.rank][p.bank])
    BY <1>3, <2>1
  <2>3. Own(p.rank, p.bank) = BankOf(p)
    BY <1>1, <1>2, <2>1
  <2>4. x + 1 \in Int
    OBVIOUS
  <2> QED BY <1>1, <2>2, <2>3, <2>4 DEF BusInv, ClearInv
<1>5. \A w \in Users, x \in Int : Burst(w, x)' => Burst(w, x + 1) \/ Asked(p, w, x)
  BY SentBursts
<1>6. ApartInv'
  <2> SUFFICES ASSUME NEW v \in Users, NEW w \in Users, NEW x \in Int, NEW y \in Int, Burst(v, x)', Burst(w, y)'
               PROVE  (v = w /\ x = y) \/ Apart(v, x, w, y) \/ Apart(w, y, v, x)
    BY DEF ApartInv, Apart, Behind
  <2>1. CASE Burst(v, x + 1) /\ Burst(w, y + 1)
    BY <2>1, ElapsedApart
  <2>2. CASE Burst(v, x + 1) /\ Asked(p, w, y)
    BY <1>4, <2>2, AskedApart
  <2>3. CASE Asked(p, v, x) /\ Burst(w, y + 1)
    BY <1>4, <2>3, AskedApart
  <2>4. CASE Asked(p, v, x) /\ Asked(p, w, y)
    BY <2>4 DEF Asked, Reads, Writes
  <2> QED BY <1>5, <2>1, <2>2, <2>3, <2>4
<1>7. ClearInv'
  <2> SUFFICES ASSUME NEW w \in Users, NEW x \in Int, Burst(w, x)', NEW r \in Ranks, NEW b \in Banks,
                      Usable(bankStates'[r][b])
               PROVE  Clear(w, x, Own(r, b)')
    BY DEF ClearInv, Clear, Usable
  <2> DEFINE own == bankStates[r][b]
             new == Column(p, r, b)
  <2>1. own \in BankTable /\ Own(r, b) = own /\ Own(r, b)' = TickedBank(new) /\ Usable(new)
    BY <1>2
  <2>2. ToRead(p, r) \in Timers /\ ToWrite(p, r) \in Timers
    BY DelaysFit DEF Delays, ToRead, ToWrite
  <2>3. /\ Usable(own) /\ new \in BankTable
        /\ new.nextRead = Later(ToRead(p, r), own.nextRead)
        /\ new.nextWrite = Later(ToWrite(p, r), own.nextWrite)
    BY <2>1, <2>2, ColumnSpaces
  <2> HIDE DEF own, new
  <2>4. own.nextRead \in Timers /\ own.nextWrite \in Timers
    BY <2>1, BankFields
  <2>5. CASE Burst(w, x + 1)
    <3>1. Clear(w, x + 1, own)
      <4>1. x + 1 \in Int
        OBVIOUS
      <4> QED BY <2>1, <2>3, <2>5, <4>1 DEF BusInv, ClearInv, own
    <3>2. own.nextRead <= new.nextRead /\ own.nextWrite <= new.nextWrite
      BY <2>2, <2>3, <2>4, DelaysFit DEF Later, Larger
    <3> QED BY <2>1, <2>3, <3>1, <3>2, ElapsedClear
  <2>6. CASE Asked(p, w, x)
    <3>1. /\ TickedBank(new).nextRead = Ticked(Later(ToRead(p, r), own.nextRead))
          /\ TickedBank(new).nextWrite = Ticked(Later(ToWrite(p, r), own.nextWrite))
      BY <2>3, TickedFields
    <3>2. /\ x + HalfBL + (IF w = Writer THEN 1 ELSE 0) <= TickedBank(new).nextRead + RL + 1
          /\ x + HalfBL <= TickedBank(new).nextWrite + WL
      BY <1>1, <2>4, <2>6, <3>1, SpacingEnough
    <3> QED BY <2>1, <3>2 DEF Clear
  <2> QED BY <1>5, <2>5, <2>6
<1> QED BY <1>6, <1>7 DEF BusInv

\* A row that is opened cannot be used before a burst and the switch of ranks.
LEMMA ActivateBursts ==
  ASSUME BusInv, PipeInv, TablesInv, NEW p \in Packets, Sent(p), p.type = "ACTIVATE",
         bankStates' = Updated(p, Activate)
  PROVE  BusInv'
<1>1. phase = "issue" /\ phase' = "finish"
  BY DEF Sent
<1>2. \A r \in Ranks, b \in Banks :
        /\ bankStates[r][b] \in BankTable /\ bankStates'[r][b] = Activate(p, r, b)
        /\ Own(r, b) = bankStates[r][b] /\ Own(r, b)' = TickedBank(Activate(p, r, b))
  BY <1>1, AtIssue DEF Updated, Own, Clocked
<1>3. \A w \in Users, x \in Int : Burst(w, x)' => Burst(w, x + 1) /\ x + 1 <= RL
  BY SentBursts DEF Asked, Reads, Writes
<1>4. ApartInv'
  <2> SUFFICES ASSUME NEW v \in Users, NEW w \in Users, NEW x \in Int, NEW y \in Int, Burst(v, x)', Burst(w, y)'
               PROVE  (v = w /\ x = y) \/ Apart(v, x, w, y) \/ Apart(w, y, v, x)
    BY DEF ApartInv, Apart, Behind
  <2> QED BY <1>3, ElapsedApart
<1>5. ClearInv'
  <2> SUFFICES ASSUME NEW w \in Users, NEW x \in Int, Burst(w, x)', NEW r \in Ranks, NEW b \in Banks,
                      Usable(bankStates'[r][b])
               PROVE  Clear(w, x, Own(r, b)')
    BY DEF ClearInv, Clear, Usable
  <2> DEFINE own == bankStates[r][b]
             new == Activate(p, r, b)
  <2>1. /\ own \in BankTable /\ Own(r, b) = own /\ Own(r, b)' = TickedBank(new) /\ Usable(new)
        /\ Burst(w, x + 1) /\ x + 1 <= RL
    BY <1>2, <1>3
  <2>2. tRRD \in Timers /\ tRC \in Timers /\ tRAS \in Timers /\ tRCD - AL \in Timers
    BY DelaysFit DEF Delays
  <2>3. /\ own.nextActivate \in Timers /\ own.nextPrecharge \in Timers /\ own.nextRead \in Timers
        /\ own.nextWrite \in Timers
    BY <2>1, BankFields
  <2>4. CASE ~(r = p.rank /\ b = p.bank)
    <3>1. new = IF r # p.rank THEN own ELSE [own EXCEPT !.nextActivate = Later(tRRD, @)]
      BY <2>4 DEF Activate
    <3>2. Later(tRRD, own.nextActivate) \in Timers
      BY <2>2, <2>3, TimerArithmetic
    <3> HIDE DEF own, new
    <3>3. /\ new \in BankTable /\ new.state = own.state /\ new.last = own.last
          /\ new.nextRead = own.nextRead /\ new.nextWrite = own.nextWrite
      BY <2>1, <3>1, <3>2 DEF BankTable
    <3>4. Clear(w, x + 1, own)
      <4>1. x + 1 \in Int /\ Usable(own)
        BY <2>1, <3>3 DEF Usable
      <4> QED BY <2>1, <4>1 DEF BusInv, ClearInv, own
    <3>5. own.nextRead <= new.nextRead /\ own.nextWrite <= new.nextWrite
      BY <2>3, <3>3, DelaysFit
    <3> QED BY <2>1, <3>3, <3>4, <3>5, ElapsedClear
  <2>5. CASE r = p.rank /\ b = p.bank
    <3>1. new = [own EXCEPT !.state = "RowActive", !.last = "ACTIVATE", !.row = p.row,
                            !.nextActivate = Later(tRC, @), !.nextPrecharge = Later(tRAS, @),
                            !.nextRead = Later(tRCD - AL, @), !.nextWrite = Later(tRCD - AL, @)]
      BY <2>5 DEF Activate
    <3>2. /\ Later(tRC, own.nextActivate) \in Timers /\ Later(tRAS, own.nextPrecharge) \in Timers
          /\ Later(tRCD - AL, own.nextRead) \in Timers /\ Later(tRCD - AL, own.nextWrite) \in Timers
      BY <2>2, <2>3, TimerArithmetic
    <3>3. "RowActive" \in BankStates /\ "ACTIVATE" \in Commands /\ p.row \in Nat
      BY DEF BankStates, Commands, Packets
    <3> HIDE DEF own, new
    <3>4. /\ new \in BankTable /\ new.nextRead = Later(tRCD - AL, own.nextRead)
          /\ new.nextWrite = Later(tRCD - AL, own.nextWrite)
      BY <2>1, <3>1, <3>2, <3>3 DEF BankTable
    <3>5. /\ TickedBank(new).nextRead = Ticked(Later(tRCD - AL, own.nextRead))
          /\ TickedBank(new).nextWrite = Ticked(Later(tRCD - AL, own.nextWrite))
      BY <3>4, TickedFields
    <3>6. \A d, y \in Timers : d - 1 <= Ticked(Later(d, y)) /\ Ticked(Later(d, y)) \in Nat /\ d \in Nat
      BY DelaysFit DEF Ticked, Later, Larger
    <3>7. /\ tRCD - AL - 1 <= TickedBank(new).nextRead /\ TickedBank(new).nextRead \in Nat
          /\ tRCD - AL - 1 <= TickedBank(new).nextWrite /\ TickedBank(new).nextWrite \in Nat
      BY <2>2, <2>3, <3>5, <3>6
    <3>8. /\ tRCD - AL >= HalfBL + tRTRS /\ tRTRS \in Nat \ {0} /\ tRCD \in Nat /\ AL \in Nat
          /\ RL \in Nat /\ WL \in Nat /\ WL = RL - 1 /\ HalfBL \in Nat
      BY TimingAssumption, Latencies
    <3> QED BY <2>1, <3>7, <3>8 DEF Clear
  <2> QED BY <2>4, <2>5
<1> QED BY <1>4, <1>5 DEF BusInv

\* What is issued, with what it does to the banks.
Effect(p) ==
  \/ /\ p.type \in Columns /\ isIssuable(p) /\ BankOf(p).last \notin Autopre
     /\ bankStates' = Updated(p, Column)
  \/ p.type = "ACTIVATE" /\ bankStates' = Updated(p, Activate)
  \/ p.type = "PRECHARGE" /\ bankStates' = Updated(p, Precharge)
  \/ p.type = "REFRESH" /\ bankStates' = Updated(p, Refresh)

LEMMA IssuedWhat ==
  ASSUME CoreInv, Issue
  PROVE  IssueNothing \/ \E p \in Packets : Sent(p) /\ Effect(p)
<1>1. CASE IssueRefresh
  <2>1. PICK p : PopRefresh(p) /\ Sent(p) /\ bankStates' = Updated(p, Refresh)
    BY <1>1 DEF IssueRefresh
  <2>2. refreshRank \in Ranks /\ p = Bare("REFRESH", refreshRank, 0)
    BY <2>1 DEF PopRefresh, CoreInv, RoundInv
  <2>3. p \in Packets /\ p.type = "REFRESH"
    BY <2>2, FirstBank, BareTyped DEF Commands
  <2> QED BY <2>1, <2>3 DEF Effect
<1>2. CASE IssueColumnForRefresh
  <2>1. PICK p : PopForRefresh(p) /\ Sent(p) /\ bankStates' = Updated(p, Column)
    BY <1>2 DEF IssueColumnForRefresh
  <2>2. PICK s \in Slots : \E i \in 1..Len(queues[s]) : p = queues[s][i] /\ isIssuable(p) /\ GoesAlone(s, i)
    BY <2>1, ForRefreshGoes DEF CoreInv
  <2>3. PICK i \in 1..Len(queues[s]) : p = queues[s][i] /\ isIssuable(p) /\ GoesAlone(s, i)
    BY <2>2
  <2>4. p.type \in Columns /\ p \in Packets
    BY <2>3, HeldFacts DEF CoreInv, GoesAlone, Lone
  <2>5. BankOf(p).last \notin Autopre
    BY <2>1, <2>3, <2>4, ColumnKeeps
  <2> QED BY <2>1, <2>3, <2>4, <2>5 DEF Effect
<1>3. CASE IssueColumn
  <2>1. PICK p : p.type \in Columns /\ PopFromQueue(p) /\ Sent(p) /\ bankStates' = Updated(p, Column)
    BY <1>3 DEF IssueColumn
  <2>2. PICK s \in Slots : \E i \in 1..Len(queues[s]) :
           p = queues[s][i] /\ isIssuable(p) /\ (GoesAlone(s, i) \/ GoesPaired(s, i) \/ GoesFirst(s, i))
    BY <2>1, FromQueueGoes DEF CoreInv
  <2>3. PICK i \in 1..Len(queues[s]) :
           p = queues[s][i] /\ isIssuable(p) /\ (GoesAlone(s, i) \/ GoesPaired(s, i) \/ GoesFirst(s, i))
    BY <2>2
  <2>4. p \in Packets /\ ~GoesFirst(s, i)
    BY <2>1, <2>3, HeldFacts DEF CoreInv, GoesFirst, Columns, Reads, Writes
  <2>5. BankOf(p).last \notin Autopre
    BY <2>1, <2>3, <2>4, ColumnKeeps
  <2> QED BY <2>1, <2>3, <2>4, <2>5 DEF Effect
<1>4. CASE IssueActivate
  <2>1. PICK p : p.type = "ACTIVATE" /\ PopFromQueue(p) /\ Sent(p) /\ bankStates' = Updated(p, Activate)
    BY <1>4 DEF IssueActivate
  <2>2. PICK s \in Slots : \E i \in 1..Len(queues[s]) : p = queues[s][i]
    BY <2>1, FromQueueGoes DEF CoreInv
  <2>3. p \in Packets
    BY <2>2, HeldFacts DEF CoreInv
  <2> QED BY <2>1, <2>3 DEF Effect
<1>5. CASE IssuePrechargeForRefresh \/ IssuePrecharge
  <2>1. PICK p \in Precharges : Sent(p) /\ bankStates' = Updated(p, Precharge)
    BY <1>5 DEF IssuePrechargeForRefresh, IssuePrecharge
  <2>2. p \in Packets /\ p.type = "PRECHARGE"
    BY BareTyped DEF Precharges, Commands
  <2> QED BY <2>1, <2>2 DEF Effect
<1> QED BY <1>1, <1>2, <1>3, <1>4, <1>5 DEF Issue

LEMMA IssueBursts ==
  ASSUME BusInv, CoreInv, PipeInv, Issue
  PROVE  BusInv'
<1>0. TablesInv /\ TablesInv'
  BY IssueKeeps DEF CoreInv
<1>1. CASE IssueNothing
  <2>1. phase = "issue" /\ phase' = "finish"
        /\ UNCHANGED <<readReturn, rankOut, cmdBus, writeData, dataBus, bankStates>>
    BY <1>1 DEF IssueNothing, buses, rankVars
  <2>2. cmdBus' = <<>> /\ Before' = 1 /\ BeforeBus' = 1
    BY <1>0, <2>1 DEF TablesInv, CommandInv, Before, BeforeBus
  <2>3. \A w \in Users, x \in Int : Burst(w, x)' => Burst(w, x + 1)
    <3> SUFFICES ASSUME NEW w \in Users, NEW x \in Int, Burst(w, x)' PROVE Burst(w, x + 1)
      OBVIOUS
    <3>1. \/ w \in Ranks /\ (Starts(readReturn[w], 1, x) \/ Starts(rankOut[w], 1 + HalfBL, x))
          \/ w = Writer /\ (Starts(writeData, 1, x) \/ Starts(dataBus, 1 + HalfBL, x))
      BY <2>1, <2>2 DEF Burst
    <3> QED BY <1>0, <2>1, <3>1, LaterBursts
  <2> QED BY <1>0, <2>1, <2>3, QuietBursts
<1>2. ASSUME NEW p \in Packets, Sent(p), Effect(p) PROVE BusInv'
  <2>1. phase = "issue" /\ phase' = "finish" /\ p.rank \in Ranks
    BY <1>2 DEF Sent, Packets
  <2>2. CASE p.type \in Columns /\ isIssuable(p) /\ BankOf(p).last \notin Autopre /\ bankStates' = Updated(p, Column)
    BY <1>0, <1>2, <2>2, ColumnBursts
  <2>3. CASE p.type = "ACTIVATE" /\ bankStates' = Updated(p, Activate)
    BY <1>0, <1>2, <2>3, ActivateBursts
  <2>4. CASE \/ p.type = "PRECHARGE" /\ bankStates' = Updated(p, Precharge)
             \/ p.type = "REFRESH" /\ bankStates' = Updated(p, Refresh)
    <3>1. \A w \in Users, x \in Int : Burst(w, x)' => Burst(w, x + 1)
      BY <1>0, <1>2, <2>4, SentBursts DEF Asked, Reads, Writes
    <3>2. \A r \in Ranks, b \in Banks : Usable(bankStates'[r][b]) => bankStates'[r][b] = bankStates[r][b]
      <4>1. \A r \in Ranks, b \in Banks : bankStates[r][b] \in BankTable
        BY <1>0, <2>1, AtIssue
      <4>2. CASE bankStates' = Updated(p, Precharge)
        <5>1. \A r \in Ranks, b \in Banks : bankStates'[r][b] = Precharge(p, r, b)
          BY <4>2 DEF Updated
        <5> QED BY <4>1, <5>1, PrechargeCloses DEF Usable
      <4>3. CASE bankStates' = Updated(p, Refresh)
        <5>1. \A r \in Ranks, b \in Banks : bankStates'[r][b] = Refresh(p, r, b)
          BY <4>3 DEF Updated
        <5> QED BY <4>1, <5>1, RefreshFills DEF Usable
      <4> QED BY <2>4, <4>2, <4>3
    <3> QED BY <1>0, <2>1, <3>1, <3>2, QuietBursts
  <2> QED BY <1>2, <2>2, <2>3, <2>4 DEF Effect
<1> QED BY <1>1, <1>2, IssuedWhat

LEMMA InitBursts ==
  ASSUME Init
  PROVE  BusInv
<1>1. /\ writeData = <<>> /\ dataBus = <<>> /\ cmdBus = <<>>
      /\ readReturn = [r \in Ranks |-> <<>>] /\ rankOut = [r \in Ranks |-> <<>>]
  BY DEF Init, RankInit
<1>2. \A w \in Users, x \in Int : ~Burst(w, x)
  BY <1>1, StartsOf DEF Burst
<1> QED BY <1>2 DEF BusInv, ApartInv, ClearInv

LEMMA BusStep ==
  ASSUME BusInv, Inv, [Next]_vars
  PROVE  BusInv'
<1>0. TablesInv /\ CoreInv /\ PipeInv
  BY DEF Inv, CoreInv
<1>1. CASE (\E type \in {"READ", "WRITE"}, a \in Addresses : AddTransaction(type, a)) \/ UNCHANGED vars
  BY <1>1, StillBursts DEF AddTransaction, vars, rankVars, buses
<1>2. CASE UpdateRanks
  BY <1>0, <1>2, UpdateRanksBursts
<1>3. CASE UpdateBuses
  BY <1>0, <1>3, UpdateBusesBursts
<1>4. CASE Issue
  BY <1>0, <1>4, IssueBursts
<1>5. CASE Finish
  BY <1>0, <1>5, FinishBursts
<1> QED BY <1>1, <1>2, <1>3, <1>4, <1>5 DEF Next

LEMMA OneAtATime ==
  ASSUME Inv, BusInv
  PROVE  OneBurstAtATime
<1>0. PipeInv /\ RL \in Nat /\ WL \in Nat /\ HalfBL \in Nat \ {0} /\ \A r \in Ranks : r \in Users /\ r # Writer
  BY Latencies, BurstFacts DEF Inv, Users
<1>1. Writer \in Users
  BY DEF Users
\* Where the packets on the buses stand.
<1>2. ASSUME NEW r \in Ranks, rankOut[r] # <<>>
      PROVE  /\ rankOut[r][1].left \in 1..HalfBL
             /\ Burst(r, rankOut[r][1].left - (Before + HalfBL))
             /\ rankOut[r][1].left - (Before + HalfBL) \in Int
  <2>1. Pipe(rankOut[r], HalfBL) /\ Before \in Nat
    BY <1>0, PipesTyped DEF Before
  <2>2. Before + HalfBL \in Int
    BY <1>0, <2>1
  <2>3. /\ Starts(rankOut[r], Before + HalfBL, rankOut[r][1].left - (Before + HalfBL))
        /\ rankOut[r][1].left \in 1..HalfBL
    BY <1>0, <1>2, <2>1, <2>2, StartsFirst
  <2>4. Burst(r, rankOut[r][1].left - (Before + HalfBL))
    BY <2>3 DEF Burst
  <2> QED BY <2>2, <2>3, <2>4
<1>3. dataBus # <<>> =>
        /\ dataBus[1].left \in 1..HalfBL
        /\ Burst(Writer, dataBus[1].left - (BeforeBus + HalfBL))
        /\ dataBus[1].left - (BeforeBus + HalfBL) \in Int
  <2> SUFFICES ASSUME dataBus # <<>>
               PROVE  /\ dataBus[1].left \in 1..HalfBL
                      /\ Burst(Writer, dataBus[1].left - (BeforeBus + HalfBL))
                      /\ dataBus[1].left - (BeforeBus + HalfBL) \in Int
    OBVIOUS
  <2>1. Pipe(dataBus, HalfBL) /\ BeforeBus \in Nat
    BY <1>0, FirstBank, PipesTyped DEF BeforeBus
  <2>2. BeforeBus + HalfBL \in Int
    BY <1>0, <2>1
  <2>3. /\ Starts(dataBus, BeforeBus + HalfBL, dataBus[1].left - (BeforeBus + HalfBL))
        /\ dataBus[1].left \in 1..HalfBL
    BY <1>0, <2>1, <2>2, StartsFirst
  <2>4. Burst(Writer, dataBus[1].left - (BeforeBus + HalfBL))
    BY <2>3 DEF Burst
  <2> QED BY <2>2, <2>3, <2>4
<1>4. /\ Before \in {0, 1} /\ BeforeBus \in {0, 1} /\ (Before = BeforeBus \/ (Before = 0 /\ BeforeBus = 1))
      /\ phase = "bus" => Before = 0 /\ BeforeBus = 1
      /\ phase = "ranks" => Before = 1
  BY DEF Before, BeforeBus
<1>5. \A r, s \in Senders : r = s
  <2> SUFFICES ASSUME NEW r \in Ranks, NEW s \in Ranks, rankOut[r] # <<>>, rankOut[s] # <<>>, r # s PROVE FALSE
    BY DEF Senders
  <2> DEFINE i == rankOut[r][1].left
             j == rankOut[s][1].left
  <2>1. /\ i \in 1..HalfBL /\ Burst(r, i - (Before + HalfBL)) /\ i - (Before + HalfBL) \in Int
        /\ j \in 1..HalfBL /\ Burst(s, j - (Before + HalfBL)) /\ j - (Before + HalfBL) \in Int
    BY <1>2
  <2> HIDE DEF i, j
  <2>2. \/ Apart(r, i - (Before + HalfBL), s, j - (Before + HalfBL))
        \/ Apart(s, j - (Before + HalfBL), r, i - (Before + HalfBL))
    BY <1>0, <2>1 DEF BusInv, ApartInv
  <2> QED BY <1>0, <1>4, <2>1, <2>2 DEF Apart, Behind
<1>6. dataBus # <<>> => Senders = {}
  <2> SUFFICES ASSUME dataBus # <<>>, NEW r \in Ranks, rankOut[r] # <<>> PROVE FALSE
    BY DEF Senders
  <2> DEFINE i == rankOut[r][1].left
             j == dataBus[1].left
  <2>1. /\ i \in 1..HalfBL /\ Burst(r, i - (Before + HalfBL)) /\ i - (Before + HalfBL) \in Int
        /\ j \in 1..HalfBL /\ Burst(Writer, j - (BeforeBus + HalfBL)) /\ j - (BeforeBus + HalfBL) \in Int
    BY <1>2, <1>3
  <2> HIDE DEF i, j
  <2>2. \/ Apart(r, i - (Before + HalfBL), Writer, j - (BeforeBus + HalfBL))
        \/ Apart(Writer, j - (BeforeBus + HalfBL), r, i - (Before + HalfBL))
    BY <1>0, <1>1, <2>1 DEF BusInv, ApartInv
  <2> QED BY <1>0, <1>4, <2>1, <2>2 DEF Apart, Behind
<1>7. Cardinality(Senders) + Len(dataBus) <= 1
  <2>1. Len(dataBus) \in {0, 1} /\ (dataBus = <<>> => Len(dataBus) = 0)
    <3>1. Pipe(dataBus, HalfBL) /\ Len(dataBus) <= 1 /\ HalfBL \in Nat
      BY <1>0, FirstBank, PipesTyped
    <3>2. Len(dataBus) \in Nat /\ (dataBus # <<>> <=> Len(dataBus) > 0)
      BY <3>1, PipeFacts
    <3>3. dataBus = <<>> => Len(dataBus) = 0
      BY EmptySeq
    <3> DEFINE n == Len(dataBus)
    <3>4. n \in Nat /\ n <= 1
      BY <3>1, <3>2
    <3> HIDE DEF n
    <3>5. n \in {0, 1}
      BY <3>4
    <3> QED BY <3>3, <3>5 DEF n
  <2>2. Senders = {} \/ \E r : Senders = {r}
    BY <1>5
  <2>3. Cardinality(Senders) \in {0, 1} /\ (Senders = {} => Cardinality(Senders) = 0)
    BY <2>2, FS_EmptySet, FS_Singleton
  <2>4. CASE dataBus = <<>>
    BY <2>1, <2>3, <2>4
  <2>5. CASE dataBus # <<>>
    <3>1. Cardinality(Senders) = 0
      BY <1>6, <2>3, <2>5
    <3> DEFINE n == Len(dataBus)
    <3>2. n \in {0, 1}
      BY <2>1
    <3> HIDE DEF n
    <3>3. 0 + n <= 1
      BY <3>2
    <3> QED BY <3>1, <3>3 DEF n
  <2> QED BY <2>4, <2>5
<1>8. ASSUME phase = "bus", WriteReady PROVE DataBusAfter = <<>> /\ Senders = {}
  <2>1. Burst(Writer, 0) /\ 0 \in Int
    <3>1. Pipe(writeData, WL) /\ writeData # <<>> /\ writeData[1].left = 1
      BY <1>0, <1>8, FirstBank, PipesTyped DEF WriteReady
    <3>2. Starts(writeData, 1, writeData[1].left - 1)
      BY <1>0, <3>1, StartsFirst
    <3>3. Starts(writeData, 1, 0)
      BY <3>1, <3>2
    <3> QED BY <1>4, <1>8, <3>3 DEF Burst
  <2>2. DataBusAfter = <<>>
    <3>1. CASE dataBus = <<>>
      BY <3>1 DEF DataBusAfter
    <3>2. CASE dataBus # <<>>
      <4> DEFINE j == dataBus[1].left
      <4>1. j \in 1..HalfBL /\ Burst(Writer, j - (BeforeBus + HalfBL)) /\ j - (BeforeBus + HalfBL) \in Int
        BY <1>3, <3>2
      <4>2. j = 1
        <5> HIDE DEF j
        <5>1. \/ j - (BeforeBus + HalfBL) = 0 \/ Apart(Writer, 0, Writer, j - (BeforeBus + HalfBL))
              \/ Apart(Writer, j - (BeforeBus + HalfBL), Writer, 0)
          BY <1>1, <2>1, <4>1 DEF BusInv, ApartInv
        <5> QED BY <1>0, <1>4, <1>8, <4>1, <5>1 DEF Apart, Behind
      <4> QED BY <3>2, <4>2 DEF DataBusAfter
    <3> QED BY <3>1, <3>2
  <2>3. Senders = {}
    <3> SUFFICES ASSUME NEW r \in Ranks, rankOut[r] # <<>> PROVE FALSE
      BY DEF Senders
    <3> DEFINE i == rankOut[r][1].left
    <3>1. i \in 1..HalfBL /\ Burst(r, i - (Before + HalfBL)) /\ i - (Before + HalfBL) \in Int
      BY <1>2
    <3> HIDE DEF i
    <3>2. Apart(r, i - (Before + HalfBL), Writer, 0) \/ Apart(Writer, 0, r, i - (Before + HalfBL))
      BY <1>0, <1>1, <2>1, <3>1 DEF BusInv, ApartInv
    <3> QED BY <1>0, <1>4, <1>8, <3>1, <3>2 DEF Apart, Behind
  <2> QED BY <2>2, <2>3
<1>9. ASSUME NEW r \in Ranks, phase = "ranks", Ready(r), rankOut[r] # <<>> PROVE rankOut[r][1].left = 1
  <2>1. Burst(r, 0) /\ 0 \in Int
    <3>1. Pipe(readReturn[r], RL) /\ readReturn[r] # <<>> /\ readReturn[r][1].left = 1
      BY <1>0, <1>9, PipesTyped DEF Ready
    <3>2. Starts(readReturn[r], 1, readReturn[r][1].left - 1)
      BY <1>0, <3>1, StartsFirst
    <3>3. Starts(readReturn[r], 1, 0)
      BY <3>1, <3>2
    <3> QED BY <1>4, <1>9, <3>3 DEF Burst
  <2> DEFINE i == rankOut[r][1].left
  <2>2. i \in 1..HalfBL /\ Burst(r, i - (Before + HalfBL)) /\ i - (Before + HalfBL) \in Int
    BY <1>2, <1>9
  <2> HIDE DEF i
  <2>3. \/ i - (Before + HalfBL) = 0 \/ Apart(r, 0, r, i - (Before + HalfBL))
        \/ Apart(r, i - (Before + HalfBL), r, 0)
    BY <1>0, <2>1, <2>2 DEF BusInv, ApartInv
  <2>4. i = 1
    BY <1>0, <1>4, <1>9, <2>2, <2>3 DEF Apart, Behind
  <2> QED BY <2>4 DEF i
<1> QED BY <1>7, <1>8, <1>9 DEF OneBurstAtATime

\* The data bus carries one burst at a time, whoever sends it: the times a
\* column command leaves to the next ones keep the bursts apart, through the
\* latencies, and the two buses never hold a packet when the next one comes.
THEOREM BurstsAreApart == Spec => []OneBurstAtATime
<1>1. Init => BusInv
  BY InitBursts
<1>2. BusInv /\ Inv /\ [Next]_vars => BusInv'
  BY BusStep
<1>3. Inv /\ BusInv => OneBurstAtATime
  BY OneAtATime
<1> QED BY <1>1, <1>2, <1>3, Invariance, PTL DEF Spec

-----------------------------------------------------------------------------
(* The order of the accesses to one address.                               *)

\* A sequence without the places in gone: f gives the old places.
Without(new, q, gone, f) ==
  /\ f \in [1..Len(new) -> 1..Len(q)]
  /\ \A j, k \in 1..Len(new) : j < k => f[j] < f[k]
  /\ \A j \in 1..Len(new) : new[j] = q[f[j]] /\ f[j] \notin gone
  /\ \A k \in 1..Len(q) : k \in gone \/ \E j \in 1..Len(new) : f[j] = k
Lost(new, q, gone) == \E f : Without(new, q, gone, f)

LEMMA LostOne ==
  ASSUME NEW S, NEW q \in Seq(S), NEW i \in 1..Len(q)
  PROVE  Lost(RemoveAt(q, i), q, {i})
<1> DEFINE new == RemoveAt(q, i)
           f == [j \in 1..Len(new) |-> IF j < i THEN j ELSE j + 1]
<1>1. Len(q) \in Nat /\ Len(q) >= 1 /\ i \in Int
  BY LenProperties
<1>2. Len(new) = Len(q) - 1 /\ \A j \in 1..(Len(q) - 1) : new[j] = IF j < i THEN q[j] ELSE q[j + 1]
  BY RemovedAt
<1> HIDE DEF new
<1>3. f \in [1..Len(new) -> 1..Len(q)]
  BY <1>1, <1>2
<1>4. \A j \in 1..Len(new) : f[j] = IF j < i THEN j ELSE j + 1
  OBVIOUS
<1> HIDE DEF f
<1>5. \A j, k \in 1..Len(new) : j < k => f[j] < f[k]
  BY <1>1, <1>2, <1>4
<1>6. \A j \in 1..Len(new) : new[j] = q[f[j]] /\ f[j] \notin {i}
  BY <1>1, <1>2, <1>4
<1>7. ASSUME NEW k \in 1..Len(q), k # i PROVE \E j \in 1..Len(new) : f[j] = k
  <2>1. CASE k < i
    <3>1. k \in 1..Len(new)
      BY <1>1, <1>2, <2>1
    <3> QED BY <1>4, <2>1, <3>1
  <2>2. CASE k > i
    <3>1. k - 1 \in 1..Len(new) /\ ~(k - 1 < i) /\ (k - 1) + 1 = k
      BY <1>1, <1>2, <2>2
    <3> QED BY <1>4, <3>1
  <2> QED BY <1>1, <1>7, <2>1, <2>2
<1>8. Without(new, q, {i}, f)
  BY <1>3, <1>5, <1>6, <1>7 DEF Without
<1> QED BY <1>8 DEF Lost, new

LEMMA LostTwo ==
  ASSUME NEW S, NEW q \in Seq(S), NEW i \in 1..Len(q), i > 1
  PROVE  Lost(RemoveAt(RemoveAt(q, i), i - 1), q, {i - 1, i})
<1> DEFINE half == RemoveAt(q, i)
           new == RemoveAt(half, i - 1)
           f == [j \in 1..Len(new) |-> IF j < i - 1 THEN j ELSE j + 2]
<1>1. Len(q) \in Nat /\ i \in Int /\ i <= Len(q)
  BY LenProperties
<1>2. /\ half \in Seq(S) /\ Len(half) = Len(q) - 1
      /\ \A j \in 1..(Len(q) - 1) : half[j] = IF j < i THEN q[j] ELSE q[j + 1]
  BY RemovedAt
<1> HIDE DEF half
<1>3. i - 1 \in 1..Len(half)
  BY <1>1, <1>2
<1>4. /\ Len(new) = Len(half) - 1
      /\ \A j \in 1..(Len(half) - 1) : new[j] = IF j < i - 1 THEN half[j] ELSE half[j + 1]
  BY <1>2, <1>3, RemovedAt
<1>5. Len(new) = Len(q) - 2 /\ Len(new) \in Nat
  BY <1>1, <1>2, <1>4
<1> HIDE DEF new
<1>6. f \in [1..Len(new) -> 1..Len(q)]
  BY <1>1, <1>5
<1>7. \A j \in 1..Len(new) : f[j] = IF j < i - 1 THEN j ELSE j + 2
  OBVIOUS
<1> HIDE DEF f
<1>8. \A j, k \in 1..Len(new) : j < k => f[j] < f[k]
  BY <1>1, <1>5, <1>7
<1>9. ASSUME NEW j \in 1..Len(new) PROVE new[j] = q[f[j]] /\ f[j] \notin {i - 1, i}
  <2>1. j \in 1..(Len(half) - 1) /\ j \in 1..(Len(q) - 1) /\ j + 1 \in 1..(Len(q) - 1) /\ j \in Int
    BY <1>1, <1>2, <1>5
  <2>2. CASE j < i - 1
    <3>1. f[j] = j /\ new[j] = half[j] /\ j < i
      BY <1>1, <1>4, <1>7, <2>1, <2>2
    <3>2. half[j] = q[j]
      BY <1>2, <2>1, <3>1
    <3> QED BY <1>1, <2>1, <2>2, <3>1, <3>2
  <2>3. CASE ~(j < i - 1)
    <3>1. f[j] = j + 2 /\ new[j] = half[j + 1] /\ ~(j + 1 < i) /\ (j + 1) + 1 = j + 2
      BY <1>1, <1>4, <1>7, <2>1, <2>3
    <3>2. half[j + 1] = q[j + 2]
      BY <1>2, <2>1, <3>1
    <3> QED BY <1>1, <2>1, <2>3, <3>1, <3>2
  <2> QED BY <2>2, <2>3
<1>10. ASSUME NEW k \in 1..Len(q), k \notin {i - 1, i} PROVE \E j \in 1..Len(new) : f[j] = k
  <2>1. CASE k < i - 1
    <3>1. k \in 1..Len(new)
      BY <1>1, <1>5, <2>1
    <3> QED BY <1>7, <2>1, <3>1
  <2>2. CASE k > i
    <3>1. k - 2 \in 1..Len(new) /\ ~(k - 2 < i - 1) /\ (k - 2) + 2 = k
      BY <1>1, <1>5, <2>2
    <3> QED BY <1>7, <3>1
  <2> QED BY <1>1, <1>10, <2>1, <2>2
<1>11. Without(new, q, {i - 1, i}, f)
  BY <1>6, <1>8, <1>9, <1>10 DEF Without
<1> QED BY <1>11 DEF Lost, new, half

LEMMA LostFacts ==
  ASSUME NEW new, NEW q, NEW gone, Lost(new, q, gone)
  PROVE  /\ \A j \in 1..Len(new) : \E k \in 1..Len(q) : k \notin gone /\ new[j] = q[k]
         /\ \A k \in 1..Len(q) : k \notin gone => \E j \in 1..Len(new) : new[j] = q[k]
<1>1. PICK f : Without(new, q, gone, f)
  BY DEF Lost
<1> QED BY <1>1 DEF Without

LEMMA RisingKept ==
  ASSUME NEW new, NEW q, NEW gone, Lost(new, q, gone), Rising(q)
  PROVE  Rising(new)
<1>1. PICK f : Without(new, q, gone, f)
  BY DEF Lost
<1> SUFFICES ASSUME NEW i \in 1..Len(new), NEW j \in 1..Len(new), i < j, new[i].addr = new[j].addr
             PROVE  new[i].id <= new[j].id /\ (new[i].type # "ACTIVATE" => new[i].id < new[j].id)
  BY DEF Rising
<1>2. /\ f[i] \in 1..Len(q) /\ f[j] \in 1..Len(q) /\ f[i] < f[j]
      /\ new[i] = q[f[i]] /\ new[j] = q[f[j]]
  BY <1>1 DEF Without
<1> QED BY <1>2 DEF Rising

LEMMA NumberedKept ==
  ASSUME NEW new, NEW q, NEW gone, Lost(new, q, gone), Numbered(q)
  PROVE  Numbered(new)
<1>1. PICK f : Without(new, q, gone, f)
  BY DEF Lost
<1> SUFFICES ASSUME NEW i \in 1..Len(new), NEW j \in 1..Len(new), i < j
             PROVE  new[i].id < new[j].id
  BY DEF Numbered
<1>2. /\ f[i] \in 1..Len(q) /\ f[j] \in 1..Len(q) /\ f[i] < f[j]
      /\ new[i] = q[f[i]] /\ new[j] = q[f[j]]
  BY <1>1 DEF Without
<1> QED BY <1>2 DEF Numbered

-----------------------------------------------------------------------------

LEMMA HoldsFew ==
  ASSUME NEW n \in Nat, NEW q, Pipe(q, n), NEW p, NEW x, Holds(q, p, x)
  PROVE  p \in Packets /\ x \in 1..n /\ x \in Int /\ x >= 1 /\ x <= n /\ q # <<>>
<1>1. PICK i \in 1..Len(q) : p = q[i].pkt /\ x = q[i].left
  BY DEF Holds
<1>2. Len(q) \in Nat /\ (q # <<>> <=> Len(q) > 0) /\ q[i].left \in 1..n /\ q[i].pkt \in Packets
  BY PipeFacts
<1> QED BY <1>1, <1>2

LEMMA HoldsOf ==
  /\ \A p, x : ~Holds(<<>>, p, x)
  /\ \A o, m, p, x : Holds(<<[pkt |-> o, left |-> m]>>, p, x) <=> p = o /\ x = m
<1>1. \A p, x : ~Holds(<<>>, p, x)
  BY DEF Holds
<1>2. ASSUME NEW o, NEW m, NEW p, NEW x
      PROVE  Holds(<<[pkt |-> o, left |-> m]>>, p, x) <=> p = o /\ x = m
  <2> DEFINE e == [pkt |-> o, left |-> m]
  <2>1. e.pkt = o /\ e.left = m
    OBVIOUS
  <2> HIDE DEF e
  <2>2. Len(<<e>>) = 1 /\ <<e>>[1] = e
    OBVIOUS
  <2>3. Holds(<<e>>, p, x) <=> p = e.pkt /\ x = e.left
    BY <2>2 DEF Holds
  <2> QED BY <2>1, <2>3 DEF e
<1> QED BY <1>1, <1>2

\* The packet in front is the one that has least to go.
LEMMA HoldsFirst ==
  ASSUME NEW n \in Nat, NEW q, Pipe(q, n)
  PROVE  /\ q # <<>> => Holds(q, q[1].pkt, q[1].left) /\ q[1].left \in 1..n /\ q[1].pkt \in Packets
         /\ \A p : Holds(q, p, 1) => q # <<>> /\ q[1].left = 1 /\ q[1].pkt = p
<1>1. /\ Len(q) \in Nat /\ (q # <<>> <=> Len(q) > 0)
      /\ \A i \in 1..Len(q) : q[i].left \in 1..n /\ q[i].pkt \in Packets
  BY PipeFacts
<1>2. q # <<>> => 1 \in 1..Len(q)
  BY <1>1
<1>3. ASSUME NEW p, Holds(q, p, 1) PROVE q # <<>> /\ q[1].left = 1 /\ q[1].pkt = p
  <2>1. PICK i \in 1..Len(q) : p = q[i].pkt /\ 1 = q[i].left
    BY <1>3 DEF Holds
  <2>2. q # <<>> /\ 1 \in 1..Len(q) /\ i \in Int
    BY <1>1
  <2>3. q[1].left \in 1..n
    BY <1>1, <2>2
  <2>4. i = 1 \/ q[1].left < q[i].left
    BY <2>2 DEF Pipe
  <2>5. i = 1
    BY <2>1, <2>3, <2>4
  <2> QED BY <2>1, <2>2, <2>5
<1> QED BY <1>1, <1>2, <1>3 DEF Holds

LEMMA HoldsAdded ==
  ASSUME NEW n \in Nat, NEW q, Pipe(q, n), NEW o, NEW m, NEW p, NEW x
  PROVE  Holds(Append(q, [pkt |-> o, left |-> m]), p, x) <=> Holds(q, p, x) \/ (p = o /\ x = m)
<1> DEFINE e == [pkt |-> o, left |-> m]
           new == Append(q, e)
<1>1. q \in Seq({q[i] : i \in 1..Len(q)} \cup {e}) /\ Len(q) \in Nat
  <2>1. q \in Seq(Timed(n)) /\ Len(q) \in Nat /\ DOMAIN q = 1..Len(q)
    BY PipeFacts
  <2>2. q \in [1..Len(q) -> {q[i] : i \in 1..Len(q)} \cup {e}]
    BY <2>1
  <2> HIDE DEF e
  <2> QED BY <2>1, <2>2
<1>2. e.left = m /\ e.pkt = o
  OBVIOUS
<1> HIDE DEF e
<1>3. Len(new) = Len(q) + 1 /\ (\A i \in 1..Len(q) : new[i] = q[i]) /\ new[Len(q) + 1] = e
  BY <1>1, AppendProperties
<1> HIDE DEF new
<1>4. ASSUME Holds(new, p, x) PROVE Holds(q, p, x) \/ (p = o /\ x = m)
  <2>1. PICK i \in 1..Len(new) : p = new[i].pkt /\ x = new[i].left
    BY <1>4 DEF Holds
  <2>2. CASE i \in 1..Len(q)
    BY <1>3, <2>1, <2>2 DEF Holds
  <2>3. CASE i = Len(q) + 1
    BY <1>2, <1>3, <2>1, <2>3
  <2> QED BY <1>1, <1>3, <2>2, <2>3
<1>5. ASSUME Holds(q, p, x) PROVE Holds(new, p, x)
  <2>1. PICK i \in 1..Len(q) : p = q[i].pkt /\ x = q[i].left
    BY <1>5 DEF Holds
  <2>2. i \in 1..Len(new) /\ new[i] = q[i]
    BY <1>1, <1>3
  <2> QED BY <2>1, <2>2 DEF Holds
<1>6. ASSUME p = o, x = m PROVE Holds(new, p, x)
  <2>1. Len(q) + 1 \in 1..Len(new)
    BY <1>1, <1>3
  <2> QED BY <1>2, <1>3, <1>6, <2>1 DEF Holds
<1> QED BY <1>4, <1>5, <1>6 DEF new, e

\* A cycle brings every packet closer, and takes out the one that is there.
LEMMA HoldsMoved ==
  ASSUME NEW n \in Nat, NEW q, Pipe(q, n), NEW p, NEW x \in Int
  PROVE  /\ Holds(OneCloser(q), p, x) <=> Holds(q, p, x + 1)
         /\ q # <<>> /\ q[1].left = 1 => (Holds(Tail(OneCloser(q)), p, x) <=> Holds(q, p, x + 1) /\ x # 0)
<1> DEFINE new == OneCloser(q)
<1>1. Len(q) \in Nat /\ DOMAIN q = 1..Len(q) /\ (q # <<>> <=> Len(q) > 0)
      /\ \A i \in 1..Len(q) : q[i].left \in 1..n /\ q[i] = [pkt |-> q[i].pkt, left |-> q[i].left]
  BY PipeFacts
<1>2. \A i \in 1..Len(q) : new[i].left = q[i].left - 1 /\ new[i].pkt = q[i].pkt
  BY <1>1 DEF OneCloser
<1>3. new \in Seq({new[i] : i \in 1..Len(q)}) /\ Len(new) = Len(q)
  <2>1. DOMAIN new = 1..Len(q) /\ new = [i \in 1..Len(q) |-> new[i]]
    BY <1>1 DEF OneCloser
  <2> HIDE DEF new
  <2> DEFINE S == {new[i] : i \in 1..Len(q)}
  <2>2. new \in [1..Len(q) -> S]
    BY <2>1
  <2> HIDE DEF S
  <2>3. new \in Seq(S)
    BY <1>1, <2>2
  <2> USE DEF S
  <2> QED BY <1>1, <2>1, <2>3, LenProperties
<1> HIDE DEF new
<1>4. \A i \in 1..Len(q) : q[i].left \in Int /\ (x = new[i].left <=> x + 1 = q[i].left)
  BY <1>1, <1>2
<1>5. Holds(new, p, x) <=> Holds(q, p, x + 1)
  BY <1>2, <1>3, <1>4 DEF Holds
<1>6. ASSUME q # <<>>, q[1].left = 1
      PROVE  Holds(Tail(new), p, x) <=> Holds(q, p, x + 1) /\ x # 0
  <2>1. new # <<>> /\ Len(new) > 0
    BY <1>1, <1>3, <1>6, LenProperties
  <2>2. Len(Tail(new)) = Len(q) - 1 /\ \A j \in 1..Len(Tail(new)) : Tail(new)[j] = new[j + 1]
    <3> DEFINE S == {new[j] : j \in 1..Len(q)}
    <3>1. new \in Seq(S)
      BY <1>3
    <3> HIDE DEF S
    <3>2. Len(Tail(new)) = Len(new) - 1 /\ \A j \in 1..Len(Tail(new)) : Tail(new)[j] = new[j + 1]
      BY <2>1, <3>1, HeadTailProperties
    <3> QED BY <1>3, <3>2
  <2>3. ASSUME Holds(Tail(new), p, x) PROVE Holds(q, p, x + 1) /\ x # 0
    <3>1. PICK j \in 1..Len(Tail(new)) : p = Tail(new)[j].pkt /\ x = Tail(new)[j].left
      BY <2>3 DEF Holds
    <3>2. j + 1 \in 1..Len(q) /\ 1 < j + 1 /\ 1 \in 1..Len(q) /\ Tail(new)[j] = new[j + 1]
      BY <1>1, <2>2
    <3>3. p = q[j + 1].pkt /\ x + 1 = q[j + 1].left
      BY <1>2, <1>4, <3>1, <3>2
    <3>4. q[1].left < q[j + 1].left
      BY <3>2 DEF Pipe
    <3>5. x # 0
      BY <1>6, <3>3, <3>4
    <3> QED BY <3>2, <3>3, <3>5 DEF Holds
  <2>4. ASSUME Holds(q, p, x + 1), x # 0 PROVE Holds(Tail(new), p, x)
    <3>1. PICK i \in 1..Len(q) : p = q[i].pkt /\ x + 1 = q[i].left
      BY <2>4 DEF Holds
    <3>2. i # 1
      BY <1>6, <2>4, <3>1
    <3>3. i - 1 \in 1..Len(Tail(new)) /\ (i - 1) + 1 = i
      BY <1>1, <2>2, <3>2
    <3>4. Tail(new)[i - 1] = new[i]
      BY <2>2, <3>3
    <3>5. p = new[i].pkt /\ x = new[i].left
      BY <1>2, <1>4, <3>1
    <3> QED BY <3>3, <3>4, <3>5 DEF Holds
  <2> QED BY <2>3, <2>4
<1> QED BY <1>5, <1>6 DEF new

LEMMA SamePlace ==
  ASSUME NEW p, NEW q, Placed(p), Placed(q), p.addr = q.addr
  PROVE  p.rank = q.rank /\ p.bank = q.bank /\ p.row = q.row /\ Alike(p, q)
BY DEF Placed, Alike

\* A command leaves its queue, alone or with its activate, and a column
\* command before all the others of its address.
LeavesAt(p, s, i, gone) ==
  /\ p = queues[s][i] /\ i \in gone
  /\ queues' = [queues EXCEPT ![s] = queues'[s]] /\ Lost(queues'[s], queues[s], gone)
  /\ \A k \in 1..Len(queues[s]) : k \in gone => k = i \/ queues[s][k].type = "ACTIVATE"
  /\ p.type \in Columns => \A k \in 1..Len(queues[s]) :
       k \notin gone /\ queues[s][k].addr = p.addr => p.id < queues[s][k].id
Leaves(p) == \E s \in Slots : \E i \in 1..Len(queues[s]) : \E gone : LeavesAt(p, s, i, gone)

LEMMA AloneInTurn ==
  ASSUME QueueInv, TurnInv, NEW s \in Slots, NEW i \in 1..Len(queues[s]), GoesAlone(s, i)
  PROVE  Leaves(queues[s][i])
<1> DEFINE q == queues[s]
           p == queues[s][i]
           new == RemoveAt(q, i)
<1>1. q \in Seq(Packets) /\ Len(q) \in Nat /\ First(q) /\ Lone(q, i) /\ queues \in [Slots -> Seq(Packets)]
  BY HeldFacts DEF GoesAlone, QueueInv
<1>2. queues' = [queues EXCEPT ![s] = new] /\ queues'[s] = new
  BY <1>1 DEF GoesAlone
<1>3. Lost(new, q, {i})
  BY <1>1, LostOne
<1>4. Rising(q) /\ \A k \in 1..Len(q) : Placed(q[k])
  BY DEF TurnInv, AllAhead, Ahead
<1>5. ASSUME NEW k \in 1..Len(q), k # i, q[k].addr = q[i].addr PROVE q[i].id < q[k].id
  <2>1. Alike(q[k], q[i])
    BY <1>4, <1>5, SamePlace
  <2>2. ~(k \in 1..(i - 1))
    BY <1>1, <2>1 DEF First
  <2>3. i < k
    BY <1>1, <1>5, <2>2
  <2>4. q[i].type # "ACTIVATE"
    BY <1>1 DEF Lone, Columns, Reads, Writes
  <2> QED BY <1>4, <1>5, <2>3, <2>4 DEF Rising
<1>6. i \in {i} /\ \A k \in 1..Len(q) : (k \in {i} => k = i) /\ (k \notin {i} => k # i)
  OBVIOUS
<1> HIDE DEF new
<1>7. queues' = [queues EXCEPT ![s] = queues'[s]] /\ Lost(queues'[s], queues[s], {i})
  BY <1>2, <1>3
<1>8. \A k \in 1..Len(queues[s]) : k \in {i} => k = i \/ queues[s][k].type = "ACTIVATE"
  BY <1>6
<1>9. \A k \in 1..Len(queues[s]) : k \notin {i} /\ queues[s][k].addr = p.addr => p.id < queues[s][k].id
  BY <1>5, <1>6
<1> QED BY <1>6, <1>7, <1>8, <1>9 DEF Leaves, LeavesAt

LEMMA PairInTurn ==
  ASSUME QueueInv, TurnInv, NEW s \in Slots, NEW i \in 1..Len(queues[s]), GoesPaired(s, i)
  PROVE  Leaves(queues[s][i])
<1> DEFINE q == queues[s]
           p == queues[s][i]
           new == RemoveAt(RemoveAt(q, i), i - 1)
<1>1. /\ q \in Seq(Packets) /\ Len(q) \in Nat /\ Coupled(q) /\ queues \in [Slots -> Seq(Packets)]
      /\ Paired(q, i) /\ ~Dependent(q, i) /\ p.type \in Columns
  BY HeldFacts DEF GoesPaired, QueueInv
<1>2. queues' = [queues EXCEPT ![s] = new] /\ queues'[s] = new
  BY <1>1 DEF GoesPaired
<1>3. i > 1 /\ q[i - 1].type = "ACTIVATE"
  BY <1>1 DEF Paired
<1>4. Lost(new, q, {i - 1, i})
  BY <1>1, <1>3, LostTwo
<1>5. Rising(q) /\ \A k \in 1..Len(q) : Placed(q[k])
  BY DEF TurnInv, AllAhead, Ahead
<1>6. ASSUME NEW k \in 1..Len(q), k \notin {i - 1, i}, q[k].addr = q[i].addr PROVE q[i].id < q[k].id
  <2>1. Alike(q[k], q[i]) /\ k \in Int /\ i \in Int
    BY <1>1, <1>5, <1>6, SamePlace
  <2>2. ~(k < i)
    <3> SUFFICES ASSUME k < i PROVE FALSE
      OBVIOUS
    <3>1. k \in 1..(i - 1) /\ k + 1 \in 1..(i - 1)
      BY <1>1, <1>6
    <3>2. CASE q[k].type # "ACTIVATE"
      BY <1>1, <2>1, <3>1, <3>2 DEF Dependent, Alike
    <3>3. CASE q[k].type = "ACTIVATE"
      <4>1. Couple(q[k], q[k + 1])
        BY <1>1, <3>3 DEF Coupled
      <4>2. q[k + 1].type # "ACTIVATE" /\ q[k + 1].bank = q[i].bank /\ q[k + 1].row = q[i].row
        BY <2>1, <4>1 DEF Couple, Alike, Columns, Reads, Writes
      <4> QED BY <1>1, <3>1, <4>2 DEF Dependent
    <3> QED BY <3>2, <3>3
  <2>3. i < k
    BY <1>6, <2>1, <2>2
  <2>4. q[i].type # "ACTIVATE"
    BY <1>1 DEF Columns, Reads, Writes
  <2> QED BY <1>5, <1>6, <2>3, <2>4 DEF Rising
<1> HIDE DEF new
<1>7. queues' = [queues EXCEPT ![s] = queues'[s]] /\ Lost(queues'[s], queues[s], {i - 1, i})
  BY <1>2, <1>4
<1>8. i \in {i - 1, i} /\ \A k \in 1..Len(queues[s]) : k \in {i - 1, i} => k = i \/ queues[s][k].type = "ACTIVATE"
  BY <1>3
<1>9. \A k \in 1..Len(queues[s]) : k \notin {i - 1, i} /\ queues[s][k].addr = p.addr => p.id < queues[s][k].id
  BY <1>6
<1> QED BY <1>7, <1>8, <1>9 DEF Leaves, LeavesAt

LEMMA FirstInTurn ==
  ASSUME QueueInv, NEW s \in Slots, NEW i \in 1..Len(queues[s]), GoesFirst(s, i)
  PROVE  Leaves(queues[s][i])
<1> DEFINE q == queues[s]
           new == RemoveAt(q, i)
<1>1. q \in Seq(Packets) /\ queues \in [Slots -> Seq(Packets)] /\ q[i].type = "ACTIVATE"
  BY HeldFacts DEF GoesFirst, QueueInv
<1>2. queues' = [queues EXCEPT ![s] = new] /\ queues'[s] = new
  BY <1>1 DEF GoesFirst
<1>3. Lost(new, q, {i})
  BY <1>1, LostOne
<1> HIDE DEF new
<1>4. queues' = [queues EXCEPT ![s] = queues'[s]] /\ Lost(queues'[s], queues[s], {i})
  BY <1>2, <1>3
<1>5. queues[s][i].type \notin Columns
  BY <1>1 DEF Columns, Reads, Writes
<1>6. i \in {i} /\ \A k \in 1..Len(queues[s]) : k \in {i} => k = i \/ queues[s][k].type = "ACTIVATE"
  OBVIOUS
<1> QED BY <1>4, <1>5, <1>6 DEF Leaves, LeavesAt

\* What Issue does to the queues.
LEMMA IssuedInTurn ==
  ASSUME CoreInv, TurnInv, Issue
  PROVE  \/ IssueNothing
         \/ \E p : Sent(p) /\ (Leaves(p) \/ (queues' = queues /\ p.type \notin Columns))
<1>0. QueueInv /\ CounterInv /\ RoundInv
  BY DEF CoreInv
<1>1. CASE IssueRefresh
  <2>1. PICK p : PopRefresh(p) /\ Sent(p)
    BY <1>1 DEF IssueRefresh
  <2>2. queues' = queues /\ p.type = "REFRESH"
    BY <2>1 DEF PopRefresh, Bare
  <2> QED BY <2>1, <2>2 DEF Columns, Reads, Writes
<1>2. CASE IssueColumnForRefresh
  <2>1. PICK p : PopForRefresh(p) /\ Sent(p)
    BY <1>2 DEF IssueColumnForRefresh
  <2>2. PICK s \in Slots : \E i \in 1..Len(queues[s]) : p = queues[s][i] /\ isIssuable(p) /\ GoesAlone(s, i)
    BY <1>0, <2>1, ForRefreshGoes
  <2>3. Leaves(p)
    BY <1>0, <2>2, AloneInTurn
  <2> QED BY <2>1, <2>3
<1>3. CASE IssueColumn \/ IssueActivate
  <2>1. PICK p : PopFromQueue(p) /\ Sent(p)
    BY <1>3 DEF IssueColumn, IssueActivate
  <2>2. PICK s \in Slots : \E i \in 1..Len(queues[s]) :
           p = queues[s][i] /\ isIssuable(p) /\ (GoesAlone(s, i) \/ GoesPaired(s, i) \/ GoesFirst(s, i))
    BY <1>0, <2>1, FromQueueGoes
  <2>3. PICK i \in 1..Len(queues[s]) :
           p = queues[s][i] /\ (GoesAlone(s, i) \/ GoesPaired(s, i) \/ GoesFirst(s, i))
    BY <2>2
  <2>4. Leaves(p)
    BY <1>0, <2>3, AloneInTurn, PairInTurn, FirstInTurn
  <2> QED BY <2>1, <2>4
<1>4. CASE IssuePrechargeForRefresh \/ IssuePrecharge
  <2>1. PICK p : (PopCloseForRefresh(p) \/ PopClose(p)) /\ Sent(p)
    BY <1>4 DEF IssuePrechargeForRefresh, IssuePrecharge
  <2>2. queues' = queues /\ p.type = "PRECHARGE"
    BY <2>1 DEF PopCloseForRefresh, PopClose, Bare
  <2> QED BY <2>1, <2>2 DEF Columns, Reads, Writes
<1> QED BY <1>1, <1>2, <1>3, <1>4 DEF Issue

\* The order is kept where nothing new comes to wait.
LEMMA WaitsLess ==
  ASSUME NEW p, Leaves(p), transactionQueue' = transactionQueue, policy' = policy, QueueInv
  PROVE  /\ \A a, n : WaitsFor(a, n)' => WaitsFor(a, n)
         /\ WaitsFor(p.addr, p.id)
<1>1. Slots' = Slots
  BY SamePolicy
<1>21. PICK s \in Slots : \E i \in 1..Len(queues[s]) : \E gone : LeavesAt(p, s, i, gone)
  BY DEF Leaves
<1>22. PICK i \in 1..Len(queues[s]) : \E gone : LeavesAt(p, s, i, gone)
  BY <1>21
<1>2. PICK gone : LeavesAt(p, s, i, gone)
  BY <1>22
<1>3. \A t \in Slots : t # s => queues'[t] = queues[t]
  BY <1>2 DEF QueueInv, LeavesAt
<1>35. Lost(queues'[s], queues[s], gone)
  BY <1>2 DEF LeavesAt
<1>4. \A j \in 1..Len(queues'[s]) : \E k \in 1..Len(queues[s]) : queues'[s][j] = queues[s][k]
  BY <1>35 DEF Lost, Without
<1>5. ASSUME NEW a, NEW n, WaitsFor(a, n)' PROVE WaitsFor(a, n)
  <2>1. CASE \E i2 \in 1..Len(transactionQueue') : a = transactionQueue'[i2].addr /\ n = transactionQueue'[i2].id
    BY <2>1 DEF WaitsFor
  <2>2. CASE \E t \in Slots' : \E j \in 1..Len(queues'[t]) : a = queues'[t][j].addr /\ n = queues'[t][j].id
    <3>0. PICK t \in Slots : \E j \in 1..Len(queues'[t]) : a = queues'[t][j].addr /\ n = queues'[t][j].id
      BY <1>1, <2>2
    <3>1. PICK j \in 1..Len(queues'[t]) : a = queues'[t][j].addr /\ n = queues'[t][j].id
      BY <3>0
    <3>2. CASE t = s
      BY <1>4, <3>1, <3>2 DEF WaitsFor
    <3>3. CASE t # s
      BY <1>3, <3>1, <3>3 DEF WaitsFor
    <3> QED BY <3>2, <3>3
  <2> QED BY <1>5, <2>1, <2>2 DEF WaitsFor
<1> QED BY <1>2, <1>5 DEF WaitsFor, LeavesAt

LEMMA LeavesTurn ==
  ASSUME NEW p, Leaves(p), TurnInv, QueueInv, transactionQueue' = transactionQueue, accepted' = accepted,
         policy' = policy
  PROVE  /\ TurnInv'
         /\ p.type \in Columns => Old(p)'
<1>1. Slots' = Slots
  BY SamePolicy
<1>21. PICK s \in Slots : \E i \in 1..Len(queues[s]) : \E gone : LeavesAt(p, s, i, gone)
  BY DEF Leaves
<1>22. PICK i \in 1..Len(queues[s]) : \E gone : LeavesAt(p, s, i, gone)
  BY <1>21
<1>2. PICK gone : LeavesAt(p, s, i, gone)
  BY <1>22
<1>3.   /\ p = queues[s][i] /\ i \in gone
        /\ queues' = [queues EXCEPT ![s] = queues'[s]] /\ Lost(queues'[s], queues[s], gone)
        /\ p.type \in Columns => \A k \in 1..Len(queues[s]) :
             k \notin gone /\ queues[s][k].addr = p.addr => p.id < queues[s][k].id
  BY <1>2 DEF LeavesAt
<1>4. \A t \in Slots : t # s => queues'[t] = queues[t]
  BY <1>3 DEF QueueInv
<1>45. Lost(queues'[s], queues[s], gone)
  BY <1>3
<1>5. \A j \in 1..Len(queues'[s]) : \E k \in 1..Len(queues[s]) : k \notin gone /\ queues'[s][j] = queues[s][k]
  BY <1>45 DEF Lost, Without
<1>6. ASSUME NEW t \in Slots PROVE Rising(queues'[t])
  <2>1. CASE t = s
    BY <1>3, <2>1, RisingKept DEF TurnInv
  <2>2. CASE t # s
    BY <1>4, <2>2 DEF TurnInv
  <2> QED BY <2>1, <2>2
<1>7. \A t \in Slots : AllAhead(queues[t], transactionQueue, accepted)
  BY DEF TurnInv
<1>8. ASSUME NEW t \in Slots PROVE AllAhead(queues'[t], transactionQueue, accepted)
  <2>1. CASE t = s
    BY <1>5, <1>7, <2>1 DEF AllAhead
  <2>2. CASE t # s
    BY <1>4, <1>7, <2>2
  <2> QED BY <2>1, <2>2
<1>9. TransInv'
  BY DEF TurnInv, TransInv, Numbered
<1>10. TurnInv'
  <2>1. \A t \in Slots' : Rising(queues'[t])
    BY <1>1, <1>6
  <2>2. \A t \in Slots' : AllAhead(queues'[t], transactionQueue', accepted')
    BY <1>1, <1>8
  <2> QED BY <1>9, <2>1, <2>2 DEF TurnInv
<1>11. ASSUME p.type \in Columns PROVE Old(p)'
  <2>1. Ahead(p, transactionQueue, accepted)
    BY <1>3, <1>7 DEF AllAhead
  <2>2. ASSUME NEW n \in Nat, WaitsFor(p.addr, n)' PROVE p.id < n
    <3>1. CASE \E k \in 1..Len(transactionQueue') : p.addr = transactionQueue'[k].addr /\ n = transactionQueue'[k].id
      BY <2>1, <3>1 DEF Ahead
    <3>2. CASE \E t \in Slots' : \E j \in 1..Len(queues'[t]) : p.addr = queues'[t][j].addr /\ n = queues'[t][j].id
      <4>0. PICK t \in Slots : \E j \in 1..Len(queues'[t]) : p.addr = queues'[t][j].addr /\ n = queues'[t][j].id
        BY <1>1, <3>2
      <4>1. PICK j \in 1..Len(queues'[t]) : p.addr = queues'[t][j].addr /\ n = queues'[t][j].id
        BY <4>0
      <4>2. CASE t = s
        BY <1>3, <1>5, <1>11, <4>1, <4>2
      <4>3. CASE t # s
        <5>1. queues[t] = queues'[t] /\ Ahead(queues[t][j], transactionQueue, accepted)
          BY <1>4, <1>7, <4>1, <4>3 DEF AllAhead
        <5>2. t = SlotOf(queues[t][j].rank, queues[t][j].bank) /\ s = SlotOf(p.rank, p.bank)
          BY <1>3, <4>1, <5>1, HeldFacts
        <5>3. Placed(queues[t][j]) /\ Placed(p) /\ queues[t][j].addr = p.addr
          BY <2>1, <4>1, <5>1 DEF Ahead
        <5>4. queues[t][j].rank = p.rank /\ queues[t][j].bank = p.bank
          BY <5>3, SamePlace
        <5> QED BY <4>3, <5>2, <5>4
      <4> QED BY <4>2, <4>3
    <3> QED BY <2>2, <3>1, <3>2 DEF WaitsFor
  <2> QED BY <2>1, <2>2 DEF Old, Ahead, Placed
<1> QED BY <1>10, <1>11

\* Nothing comes to wait but what is newer.
Newer == \A a : \A n \in Nat : WaitsFor(a, n)' => WaitsFor(a, n) \/ n > accepted

LEMMA OldStays ==
  ASSUME NEW p, Old(p), Newer, accepted \in Int, accepted' \in Int, accepted <= accepted', p.id \in Int
  PROVE  Old(p)'
<1>1. Placed(p) /\ p.id <= accepted /\ \A n \in Nat : WaitsFor(p.addr, n) => p.id < n
  BY DEF Old
<1>2. ASSUME NEW n \in Nat, WaitsFor(p.addr, n)' PROVE p.id < n
  BY <1>1, <1>2 DEF Newer
<1>3. p.id <= accepted'
  BY <1>1
<1> QED BY <1>1, <1>2, <1>3 DEF Old, Placed

LEMMA WayFacts ==
  ASSUME Inv, NEW p, NEW x \in Int, OnTheWay(p, x)
  PROVE  /\ p \in Packets /\ p.id \in Nat /\ p.rank \in Ranks /\ p.bank \in Banks
         /\ 0 <= x /\ (phase = "issue" => x <= HalfBL + RL)
         /\ phase # "ranks" \/ returns # <<>> \/ 1 <= x
<1>0. /\ PipeInv /\ TrafficInv /\ CommandInv /\ RL \in Nat \ {0} /\ HalfBL \in Nat \ {0}
  BY Latencies DEF Inv, CoreInv, TablesInv
<1>1. CASE x = 0 /\ returns # <<>> /\ p = returns[1]
  <2>1. p \in Packets
    BY <1>0, <1>1 DEF TrafficInv
  <2> QED BY <1>0, <1>1, <2>1 DEF Packets
<1>2. ASSUME NEW r \in Ranks, Holds(rankOut[r], p, x) \/ Holds(readReturn[r], p, x - HalfBL)
      PROVE  p \in Packets /\ 1 <= x /\ x <= HalfBL + RL
  <2>1. Pipe(rankOut[r], HalfBL) /\ Pipe(readReturn[r], RL)
    BY <1>0, PipesTyped
  <2>2. CASE Holds(rankOut[r], p, x)
    <3>1. p \in Packets /\ x >= 1 /\ x <= HalfBL
      BY <1>0, <2>1, <2>2, HoldsFew
    <3> QED BY <1>0, <3>1
  <2>3. CASE Holds(readReturn[r], p, x - HalfBL)
    <3> DEFINE y == x - HalfBL
    <3>1. p \in Packets /\ y >= 1 /\ y <= RL
      <4> HIDE DEF y
      <4>1. Holds(readReturn[r], p, y)
        BY <2>3 DEF y
      <4> QED BY <1>0, <2>1, <4>1, HoldsFew
    <3> QED BY <1>0, <3>1
  <2> QED BY <1>2, <2>2, <2>3
<1>3. CASE /\ cmdBus # <<>> /\ p = cmdBus[1] /\ p.type \in Reads
           /\ x = HalfBL + RL + (IF phase = "bus" THEN 0 ELSE 1)
  <2>1. p \in Packets /\ phase # "issue"
    BY <1>0, <1>3 DEF CommandInv
  <2>2. 1 <= x
    BY <1>0, <1>3
  <2> QED BY <1>0, <1>3, <2>1, <2>2 DEF Packets
<1>4. CASE \E r \in Ranks : Holds(rankOut[r], p, x) \/ Holds(readReturn[r], p, x - HalfBL)
  <2>1. p \in Packets /\ 1 <= x /\ x <= HalfBL + RL
    BY <1>2, <1>4
  <2> QED BY <2>1 DEF Packets
<1> QED BY <1>1, <1>3, <1>4 DEF OnTheWay

LEMMA BusFacts ==
  ASSUME Inv, NEW w, NEW x \in Int, OnTheBus(w, x)
  PROVE  w \in Packets /\ w.id \in Nat /\ w.rank \in Ranks /\ w.bank \in Banks /\ 1 <= x /\ x <= WL + HalfBL
<1>0. /\ PipeInv /\ WL \in Nat \ {0} /\ HalfBL \in Nat \ {0}
  BY Latencies DEF Inv
<1>1. Pipe(dataBus, HalfBL) /\ Pipe(writeData, WL)
  BY <1>0, FirstBank, PipesTyped
<1>2. CASE Holds(dataBus, w, x)
  <2>1. w \in Packets /\ x >= 1 /\ x <= HalfBL
    BY <1>0, <1>1, <1>2, HoldsFew
  <2>2. x <= WL + HalfBL
    BY <1>0, <2>1
  <2> QED BY <2>1, <2>2 DEF Packets
<1>3. CASE Holds(writeData, w, x - HalfBL)
  <2> DEFINE y == x - HalfBL
  <2>1. w \in Packets /\ y >= 1 /\ y <= WL
    <3> HIDE DEF y
    <3>1. Holds(writeData, w, y)
      BY <1>3 DEF y
    <3> QED BY <1>0, <1>1, <3>1, HoldsFew
  <2>2. 1 <= x /\ x <= WL + HalfBL
    BY <1>0, <2>1
  <2> QED BY <2>1, <2>2 DEF Packets
<1> QED BY <1>2, <1>3 DEF OnTheBus

\* A step that brings nothing new brings everything d cycles closer on the
\* way and e cycles closer on the bus.
WayMoves(d) == \A p : \A x \in Int : OnTheWay(p, x)' => OnTheWay(p, x + d)
BusMoves(e) == \A w : \A x \in Int : OnTheBus(w, x)' => OnTheBus(w, x + e)
ReadsHeld(e) ==
  \A r \in Ranks, b \in Banks :
    bankStates[r][b].nextRead + Slack <= bankStates'[r][b].nextRead + Slack' + e

LEMMA NextReads ==
  ASSUME NEW banks \in Table
  PROVE  \A r \in Ranks, b \in Banks : banks[r][b] \in BankTable /\ banks[r][b].nextRead \in Nat
<1> SUFFICES ASSUME NEW r \in Ranks, NEW b \in Banks
             PROVE  banks[r][b] \in BankTable /\ banks[r][b].nextRead \in Nat
  OBVIOUS
<1>1. banks[r][b] \in BankTable
  BY DEF Table
<1> QED BY <1>1, BankFields, DelaysFit

LEMMA GoneKept ==
  ASSUME GoneInv, Inv, Inv', Newer, accepted <= accepted', OneReturns', NEW d \in {0, 1}, NEW e \in {0, 1},
         WayMoves(d), BusMoves(e), ReadsHeld(e)
  PROVE  GoneInv'
<1>0. accepted \in Int /\ accepted' \in Int
  BY DEF Inv, TrafficInv
<1>1. ASSUME NEW p, NEW x \in Int, OnTheWay(p, x)' PROVE OnTheWay(p, x + d) /\ x + d \in Int
  BY <1>1 DEF WayMoves
<1>2. ASSUME NEW w, NEW x \in Int, OnTheBus(w, x)' PROVE OnTheBus(w, x + e) /\ x + e \in Int
  BY <1>2 DEF BusMoves
<1>3. ReadsGone'
  <2> SUFFICES ASSUME NEW p, NEW x \in Int, OnTheWay(p, x)' PROVE p.type \in Reads /\ Old(p)'
    BY DEF ReadsGone
  <2>1. OnTheWay(p, x + d) /\ x + d \in Int
    BY <1>1
  <2>2. p.id \in Int
    BY <2>1, WayFacts
  <2>3. p.type \in Reads /\ Old(p)
    BY <2>1 DEF GoneInv, ReadsGone
  <2> QED BY <1>0, <2>2, <2>3, OldStays
<1>4. WritesGone'
  <2> SUFFICES ASSUME NEW w, NEW x \in Int, OnTheBus(w, x)' PROVE w.type \in Writes /\ Old(w)'
    BY DEF WritesGone
  <2>1. OnTheBus(w, x + e) /\ x + e \in Int
    BY <1>2
  <2>2. w.id \in Int
    BY <2>1, BusFacts
  <2>3. w.type \in Writes /\ Old(w)
    BY <2>1 DEF GoneInv, WritesGone
  <2> QED BY <1>0, <2>2, <2>3, OldStays
<1>5. WritesHold'
  <2> SUFFICES ASSUME NEW w, NEW x \in Int, OnTheBus(w, x)', NEW b \in Banks
               PROVE  x <= bankStates'[w.rank][b].nextRead + Slack'
    BY DEF WritesHold
  <2>1. OnTheBus(w, x + e) /\ x + e \in Int
    BY <1>2
  <2>2. w.rank \in Ranks
    BY <2>1, BusFacts
  <2>3. x + e <= bankStates[w.rank][b].nextRead + Slack
    BY <2>1 DEF GoneInv, WritesHold
  <2>4. bankStates[w.rank][b].nextRead + Slack <= bankStates'[w.rank][b].nextRead + Slack' + e
    BY <2>2 DEF ReadsHeld
  <2>5. bankStates[w.rank][b].nextRead \in Int /\ bankStates'[w.rank][b].nextRead \in Int
    <3>1. bankStates \in Table /\ bankStates' \in Table
      BY DEF Inv, CoreInv, TablesInv, BankInv
    <3> QED BY <2>2, <3>1, NextReads
  <2>6. Slack \in Int /\ Slack' \in Int
    BY DEF Slack
  <2> QED BY <2>3, <2>4, <2>5, <2>6
<1>6. ReadsBefore'
  <2> SUFFICES ASSUME NEW p, NEW w, NEW x \in Int, NEW y \in Int, OnTheWay(p, x)', OnTheBus(w, y)',
                      p.addr = w.addr
               PROVE  p.id < w.id
    BY DEF ReadsBefore
  <2> QED BY <1>1, <1>2 DEF GoneInv, ReadsBefore
<1>7. ReadsInOrder'
  <2> SUFFICES ASSUME NEW p, NEW q, NEW x \in Int, NEW y \in Int, OnTheWay(p, x)', OnTheWay(q, y)',
                      p.addr = q.addr, x < y
               PROVE  p.id < q.id
    BY DEF ReadsInOrder
  <2>1. x + d \in Int /\ y + d \in Int /\ x + d < y + d
    OBVIOUS
  <2> QED BY <1>1, <2>1 DEF GoneInv, ReadsInOrder
<1> QED BY <1>3, <1>4, <1>5, <1>6, <1>7 DEF GoneInv

LEMMA OneSender ==
  ASSUME Inv, BusInv, NEW r \in Ranks, NEW s \in Ranks, rankOut[r] # <<>>, rankOut[s] # <<>>
  PROVE  r = s
<1>1. Cardinality(Senders) + Len(dataBus) <= 1
  BY OneAtATime DEF OneBurstAtATime
<1>2. Pipe(dataBus, HalfBL) /\ HalfBL \in Nat
  BY FirstBank, PipesTyped, Latencies DEF Inv
<1>3. Len(dataBus) \in Nat
  BY <1>2, PipeFacts
<1>4. IsFiniteSet(Ranks)
  BY FS_Interval, MappingAssumption DEF Ranks
<1>5. Senders \subseteq Ranks /\ r \in Senders /\ s \in Senders
  BY DEF Senders
<1>6. IsFiniteSet(Senders) /\ Cardinality(Senders) \in Nat
  BY <1>4, <1>5, FS_Subset, FS_CardinalityType
<1>7. Cardinality(Senders) <= 1
  <2> DEFINE n == Len(dataBus)
             k == Cardinality(Senders)
  <2>1. n \in Nat /\ k \in Nat /\ k + n <= 1
    BY <1>1, <1>3, <1>6
  <2> HIDE DEF n, k
  <2>2. k <= 1
    BY <2>1
  <2> QED BY <2>2 DEF k
<1>8. SUFFICES ASSUME r # s PROVE FALSE
  OBVIOUS
<1>9. Cardinality({r, s}) = 2
  <2>1. IsFiniteSet({r}) /\ Cardinality({r}) = 1
    BY FS_Singleton
  <2>2. Cardinality({r} \cup {s}) = Cardinality({r}) + 1
    BY <1>8, <2>1, FS_AddElement
  <2>3. {r} \cup {s} = {r, s}
    OBVIOUS
  <2>4. Cardinality({r, s}) = Cardinality({r}) + 1
    BY <2>2, <2>3
  <2> QED BY <2>1, <2>4
<1>10. Cardinality({r, s}) <= Cardinality(Senders)
  BY <1>5, <1>6, FS_Subset
<1> QED BY <1>6, <1>7, <1>9, <1>10

LEMMA HoldsSingle ==
  ASSUME NEW n \in Nat, NEW q, Pipe(q, n), Len(q) <= 1, NEW p, NEW x
  PROVE  Holds(q, p, x) <=> q # <<>> /\ p = q[1].pkt /\ x = q[1].left
<1>1. Len(q) \in Nat /\ (q # <<>> <=> Len(q) > 0)
  BY PipeFacts
<1>2. \A i \in 1..Len(q) : i = 1
  BY <1>1
<1>3. q # <<>> => 1 \in 1..Len(q)
  BY <1>1
<1>4. ASSUME Holds(q, p, x) PROVE q # <<>> /\ p = q[1].pkt /\ x = q[1].left
  <2>1. PICK i \in 1..Len(q) : p = q[i].pkt /\ x = q[i].left
    BY <1>4 DEF Holds
  <2>2. i = 1
    BY <1>2
  <2>3. Len(q) > 0
    BY <1>1
  <2> QED BY <1>1, <2>1, <2>2, <2>3
<1> QED BY <1>3, <1>4 DEF Holds

\* What a cycle does to the pipes of a rank.
LEMMA RankMoves ==
  ASSUME Inv, BusInv, UpdateRanks, NEW r \in Ranks, NEW p, NEW x \in Int
  PROVE  /\ Holds(readReturn'[r], p, x) <=> Holds(readReturn[r], p, x + 1) /\ x # 0
         /\ Holds(rankOut'[r], p, x) <=>
              (Holds(rankOut[r], p, x + 1) /\ x # 0) \/ (Holds(readReturn[r], p, 1) /\ x = HalfBL)
<1> DEFINE q == readReturn[r]
           o == rankOut[r]
<1>1. phase = "ranks" /\ RanksSend
  BY DEF UpdateRanks
<1>2. Pipe(q, RL) /\ Pipe(o, HalfBL) /\ Len(o) <= 1 /\ RL \in Nat /\ HalfBL \in Nat
  BY PipesTyped, Latencies DEF Inv
<1>3. readReturn'[r] = IF q # <<>> /\ q[1].left = 1 THEN Tail(OneCloser(q)) ELSE OneCloser(q)
  BY <1>1 DEF RanksSend, Ready, Aged, OneCloser
<1>4. rankOut'[r] = IF q # <<>> /\ q[1].left = 1 THEN <<[pkt |-> q[1].pkt, left |-> HalfBL]>>
                    ELSE IF o # <<>> /\ o[1].left = 1 THEN <<>> ELSE OneCloser(o)
  <2>1. Arrived(r) # <<>> <=> o # <<>> /\ o[1].left = 1
    BY DEF Arrived
  <2> QED BY <1>1, <2>1 DEF RanksSend, OneCloser, Ready
<1>5. q # <<>> /\ q[1].left = 1 => (o # <<>> => o[1].left = 1)
  BY <1>1, OneAtATime DEF OneBurstAtATime, Ready
<1> HIDE DEF q, o
<1>6. /\ Holds(q, p, 1) <=> q # <<>> /\ q[1].left = 1 /\ p = q[1].pkt
      /\ Holds(o, p, x + 1) <=> o # <<>> /\ p = o[1].pkt /\ x + 1 = o[1].left
  BY <1>2, HoldsFirst, HoldsSingle
<1>7. /\ Holds(OneCloser(q), p, x) <=> Holds(q, p, x + 1)
      /\ Holds(OneCloser(o), p, x) <=> Holds(o, p, x + 1)
      /\ q # <<>> /\ q[1].left = 1 => (Holds(Tail(OneCloser(q)), p, x) <=> Holds(q, p, x + 1) /\ x # 0)
  BY <1>2, HoldsMoved
<1>8. x = 0 => x + 1 = 1
  OBVIOUS
<1>9. x + 1 = 1 => x = 0
  OBVIOUS
<1>10. Holds(readReturn'[r], p, x) <=> Holds(q, p, x + 1) /\ x # 0
  BY <1>3, <1>6, <1>7, <1>8
<1>11. Holds(rankOut'[r], p, x) <=> (Holds(o, p, x + 1) /\ x # 0) \/ (Holds(q, p, 1) /\ x = HalfBL)
  <2>1. CASE q # <<>> /\ q[1].left = 1
    <3>1. Holds(rankOut'[r], p, x) <=> p = q[1].pkt /\ x = HalfBL
      BY <1>4, <2>1, HoldsOf
    <3>2. ~(Holds(o, p, x + 1) /\ x # 0)
      BY <1>5, <1>6, <1>9, <2>1
    <3> QED BY <1>6, <2>1, <3>1, <3>2
  <2>2. CASE ~(q # <<>> /\ q[1].left = 1) /\ (o # <<>> /\ o[1].left = 1)
    <3>1. ~Holds(rankOut'[r], p, x)
      BY <1>4, <2>2, HoldsOf
    <3> QED BY <1>6, <1>9, <2>2, <3>1
  <2>3. CASE ~(q # <<>> /\ q[1].left = 1) /\ ~(o # <<>> /\ o[1].left = 1)
    BY <1>4, <1>6, <1>7, <1>8, <2>3
  <2> QED BY <2>1, <2>2, <2>3
<1> QED BY <1>10, <1>11 DEF q, o

\* What has crossed the bus comes back.
LEMMA ReturnsWhat ==
  ASSUME Inv, BusInv, OneReturns, UpdateRanks
  PROVE  /\ returns = <<>> /\ OneReturns'
         /\ \A p : returns' # <<>> /\ p = returns'[1] <=> \E r \in Ranks : Holds(rankOut[r], p, 1)
<1> DEFINE seqs == [n \in 1..NumRanks |-> Arrived(n - 1)]
<1>1. phase = "ranks" /\ phase' = "bus" /\ returns' = returns \o FlattenSeq(seqs) /\ returns = <<>>
  BY DEF UpdateRanks, OneReturns
<1>2. NumRanks \in Nat \ {0} /\ \A n \in 1..NumRanks : n - 1 \in Ranks
  BY MappingAssumption DEF Ranks
<1>3. ASSUME NEW r \in Ranks
      PROVE  /\ Arrived(r) = <<>> \/ (\E o \in Packets : Arrived(r) = <<o>> /\ Holds(rankOut[r], o, 1))
             /\ \A p : Holds(rankOut[r], p, 1) => Arrived(r) = <<p>>
             /\ Arrived(r) # <<>> => rankOut[r] # <<>>
  <2> DEFINE o == rankOut[r]
  <2>1. HalfBL \in Nat /\ Pipe(o, HalfBL) /\ Len(o) <= 1
    BY PipesTyped, Latencies DEF Inv
  <2>2. Arrived(r) = IF o # <<>> /\ o[1].left = 1 THEN <<o[1].pkt>> ELSE <<>>
    BY DEF Arrived
  <2> HIDE DEF o
  <2>3. \A p : Holds(o, p, 1) <=> o # <<>> /\ p = o[1].pkt /\ 1 = o[1].left
    BY <2>1, HoldsSingle
  <2>4. o # <<>> => o[1].pkt \in Packets
    BY <2>1, HoldsFirst
  <2>5. \A p : Holds(o, p, 1) => Arrived(r) = <<p>>
    BY <2>2, <2>3
  <2>6. Arrived(r) # <<>> => o # <<>>
    BY <2>2
  <2>7. Arrived(r) = <<>> \/ (\E k \in Packets : Arrived(r) = <<k>> /\ Holds(o, k, 1))
    BY <2>2, <2>3, <2>4
  <2> QED BY <2>5, <2>6, <2>7 DEF o
<1>4. seqs \in [1..NumRanks -> Seq(Packets)]
  <2>1. \A r \in Ranks : Arrived(r) \in Seq(Packets)
    <3> SUFFICES ASSUME NEW r \in Ranks PROVE Arrived(r) \in Seq(Packets)
      OBVIOUS
    <3>1. CASE Arrived(r) = <<>>
      BY <3>1
    <3>2. CASE Arrived(r) # <<>>
      <4>1. PICK o \in Packets : Arrived(r) = <<o>>
        BY <1>3, <3>2
      <4> QED BY <4>1
    <3> QED BY <3>1, <3>2
  <2> QED BY <1>2, <2>1
<1>5. \A n \in 1..NumRanks : seqs[n] = Arrived(n - 1)
  OBVIOUS
<1> HIDE DEF seqs
<1>6. returns' = FlattenSeq(seqs)
  <2>1. FlattenSeq(seqs) \in Seq(Packets)
    BY <1>2, <1>4, FlattenSeqKeeps
  <2> QED BY <1>1, <2>1
<1>7. CASE \A r \in Ranks : Arrived(r) = <<>>
  <2>1. \A n \in 1..NumRanks : seqs[n] = <<>>
    BY <1>2, <1>5, <1>7
  <2>2. 1 \in 1..NumRanks /\ OnlyAt(seqs, NumRanks, 1)
    BY <1>2, <2>1 DEF OnlyAt
  <2>3. FlattenSeq(seqs) = <<>>
    <3>1. FlattenSeq(seqs) = seqs[1]
      BY <1>2, <1>4, <2>2, FlattenSeqOne, Zenon
    <3> QED BY <2>1, <2>2, <3>1
  <2>4. Len(returns') <= 1
    BY <1>6, <2>3
  <2>5. \A p : \A r \in Ranks : ~Holds(rankOut[r], p, 1)
    <3> SUFFICES ASSUME NEW p, NEW r \in Ranks, Holds(rankOut[r], p, 1) PROVE FALSE
      OBVIOUS
    <3>1. Arrived(r) = <<p>> /\ Arrived(r) = <<>>
      BY <1>3, <1>7
    <3> QED BY <3>1
  <2> QED BY <1>1, <1>6, <2>3, <2>4, <2>5 DEF OneReturns
<1>8. ASSUME NEW r \in Ranks, Arrived(r) # <<>>
      PROVE  /\ OneReturns'
             /\ \A p : returns' # <<>> /\ p = returns'[1] <=> \E s \in Ranks : Holds(rankOut[s], p, 1)
  <2>1. rankOut[r] # <<>>
    BY <1>3, <1>8
  <2>2. \A s \in Ranks : s # r => Arrived(s) = <<>>
    BY <1>3, <2>1, OneSender
  <2>3. r + 1 \in 1..NumRanks /\ (r + 1) - 1 = r /\ \A n \in 1..NumRanks : n # r + 1 => n - 1 # r
    BY <1>2 DEF Ranks
  <2>4. \A n \in 1..NumRanks : n # r + 1 => seqs[n] = <<>>
    BY <1>2, <1>5, <2>2, <2>3
  <2>5. FlattenSeq(seqs) = Arrived(r)
    <3> DEFINE m == r + 1
    <3>1. m \in 1..NumRanks /\ OnlyAt(seqs, NumRanks, m)
      BY <2>3, <2>4 DEF OnlyAt
    <3>2. seqs[m] = Arrived(r)
      BY <1>5, <2>3
    <3> HIDE DEF m, seqs
    <3>3. FlattenSeq(seqs) = seqs[m]
      BY <1>2, <1>4, <3>1, FlattenSeqOne, Zenon
    <3> QED BY <3>2, <3>3
  <2>6. PICK o \in Packets : Arrived(r) = <<o>> /\ Holds(rankOut[r], o, 1)
    BY <1>3, <1>8
  <2>7. returns' = <<o>>
    BY <1>6, <2>5, <2>6
  <2>8. returns' # <<>> /\ returns'[1] = o /\ Len(returns') <= 1
    BY <2>7
  <2>9. ASSUME NEW s \in Ranks, NEW p, Holds(rankOut[s], p, 1) PROVE p = o
    <3>1. Arrived(s) = <<p>>
      BY <1>3, <2>9
    <3>2. s = r
      BY <2>2, <3>1
    <3> QED BY <2>6, <3>1, <3>2
  <2> QED BY <1>1, <2>6, <2>8, <2>9 DEF OneReturns
<1> QED BY <1>1, <1>7, <1>8

\* A step that does not touch the queues.
LEMMA TurnSame ==
  ASSUME TurnInv, policy' = policy, UNCHANGED <<queues, transactionQueue, accepted>>
  PROVE  /\ TurnInv' /\ Newer
         /\ \A p : Old(p) => Old(p)'
<1>1. Slots' = Slots
  BY SamePolicy
<1>2. \A a, n : WaitsFor(a, n)' <=> WaitsFor(a, n)
  BY <1>1 DEF WaitsFor
<1>3. TransInv'
  BY DEF TurnInv, TransInv, Numbered
<1>4. TurnInv'
  BY <1>1, <1>3 DEF TurnInv
<1>5. \A p : Placed(p)' <=> Placed(p)
  BY DEF Placed
<1> QED BY <1>2, <1>4, <1>5 DEF Newer, Old

LEMMA PendSame ==
  ASSUME PendInv, policy' = policy, UNCHANGED <<queues, pendingReads>>,
         \A p : (\E x \in Int : OnTheWay(p, x)') <=> (\E x \in Int : OnTheWay(p, x))
  PROVE  PendInv'
<1>1. Slots' = Slots
  BY SamePolicy
<1>2. \A a, n : Wanted(a, n)' <=> Wanted(a, n)
  BY <1>1 DEF Wanted
<1> QED BY <1>2 DEF PendInv

LEMMA UpdateRanksWay ==
  ASSUME Inv, BusInv, OneReturns, UpdateRanks
  PROVE  /\ \A p : \A x \in Int : OnTheWay(p, x)' <=> OnTheWay(p, x + 1)
         /\ BusMoves(0) /\ ReadsHeld(0)
<1>1. /\ phase = "ranks" /\ phase' = "bus" /\ RanksSend
      /\ UNCHANGED <<cmdBus, writeData, dataBus, bankStates>>
  BY DEF UpdateRanks, buses
<1>2. RL \in Nat \ {0} /\ HalfBL \in Nat \ {0} /\ returns = <<>>
  BY <1>1, Latencies DEF OneReturns
<1>3. ASSUME NEW p, NEW x \in Int PROVE OnTheWay(p, x)' <=> OnTheWay(p, x + 1)
  <2> DEFINE y == x - HalfBL
             z == HalfBL + RL
  <2>1. y \in Int /\ (x + 1) - HalfBL = y + 1 /\ z \in Int /\ (y = 0 <=> x = HalfBL)
    BY <1>2
  <2>2. ASSUME NEW r \in Ranks
        PROVE  /\ Holds(readReturn'[r], p, y) <=> Holds(readReturn[r], p, y + 1) /\ y # 0
               /\ Holds(rankOut'[r], p, x) <=>
                    (Holds(rankOut[r], p, x + 1) /\ x # 0) \/ (Holds(readReturn[r], p, 1) /\ x = HalfBL)
    <3> HIDE DEF y
    <3> QED BY <2>1, RankMoves
  <2>3. y = 0 => y + 1 = 1
    OBVIOUS
  <2>4. x = 0 => x + 1 = 1
    OBVIOUS
  <2> DEFINE sent == \E r \in Ranks : Holds(rankOut[r], p, x + 1) \/ Holds(readReturn[r], p, y + 1)
             sentNow == \E r \in Ranks : Holds(rankOut'[r], p, x) \/ Holds(readReturn'[r], p, y)
             back == x = 0 /\ \E r \in Ranks : Holds(rankOut[r], p, 1)
  <2>5. back \/ sentNow <=> sent
    <3> HIDE DEF y
    <3>1. ASSUME back \/ sentNow PROVE sent
      BY <2>1, <2>2, <2>3, <2>4, <3>1
    <3>2. ASSUME sent PROVE back \/ sentNow
      BY <2>1, <2>2, <2>3, <2>4, <3>2
    <3> QED BY <3>1, <3>2
  <2>6. OnTheWay(p, x)' <=>
          \/ x = 0 /\ returns' # <<>> /\ p = returns'[1]
          \/ sentNow
          \/ cmdBus # <<>> /\ p = cmdBus[1] /\ p.type \in Reads /\ x = z + 0
    BY <1>1 DEF OnTheWay
  <2>7. OnTheWay(p, x + 1) <=>
          \/ sent
          \/ cmdBus # <<>> /\ p = cmdBus[1] /\ p.type \in Reads /\ x + 1 = z + 1
    BY <1>1, <1>2, <2>1 DEF OnTheWay
  <2>8. (x = z + 0) <=> (x + 1 = z + 1)
    <3> HIDE DEF z
    <3> QED BY <2>1
  <2>9. x = 0 /\ returns' # <<>> /\ p = returns'[1] <=> back
    BY ReturnsWhat
  <2> HIDE DEF y, z, sent, sentNow, back
  <2> QED BY <2>5, <2>6, <2>7, <2>8, <2>9
<1>4. BusMoves(0)
  <2> SUFFICES ASSUME NEW w, NEW x \in Int, OnTheBus(w, x)' PROVE OnTheBus(w, x + 0)
    BY DEF BusMoves
  <2>1. x + 0 = x
    OBVIOUS
  <2>2. OnTheBus(w, x)
    BY <1>1 DEF OnTheBus
  <2> QED BY <2>1, <2>2
<1>5. ReadsHeld(0)
  <2> SUFFICES ASSUME NEW r \in Ranks, NEW b \in Banks
               PROVE  bankStates[r][b].nextRead + Slack <= bankStates'[r][b].nextRead + Slack' + 0
    BY DEF ReadsHeld
  <2>1. bankStates \in Table
    BY DEF Inv, CoreInv, TablesInv, BankInv
  <2>2. bankStates[r][b].nextRead \in Nat /\ bankStates' = bankStates
    BY <1>1, <2>1, NextReads
  <2>3. Slack = 1 /\ Slack' = 1
    BY <1>1 DEF Slack
  <2> QED BY <2>2, <2>3
<1> QED BY <1>3, <1>4, <1>5

LEMMA UpdateRanksOrder ==
  ASSUME OrderInv, Inv, Inv', BusInv, UpdateRanks
  PROVE  OrderInv'
<1>0. TurnInv /\ GoneInv /\ PendInv /\ OneReturns
  BY DEF OrderInv, GoneInv
<1>1. /\ policy' = policy /\ UNCHANGED <<queues, transactionQueue, accepted, pendingReads>>
      /\ phase = "ranks"
  BY DEF UpdateRanks, bound, cqVars
<1>2. TurnInv' /\ Newer
  BY <1>0, <1>1, TurnSame
<1>3. \A p : \A x \in Int : OnTheWay(p, x)' <=> OnTheWay(p, x + 1)
  BY <1>0, UpdateRanksWay
<1>4. BusMoves(0) /\ ReadsHeld(0) /\ OneReturns'
  BY <1>0, UpdateRanksWay, ReturnsWhat
<1>5. WayMoves(1)
  BY <1>3 DEF WayMoves
<1>6. accepted <= accepted'
  BY <1>1 DEF Inv, TrafficInv
<1>7. GoneInv'
  BY <1>0, <1>2, <1>4, <1>5, <1>6, GoneKept
<1>8. PendInv'
  <2>1. ASSUME NEW p, NEW x \in Int, OnTheWay(p, x)' PROVE \E y \in Int : OnTheWay(p, y)
    BY <1>3, <2>1
  <2>2. ASSUME NEW p, NEW x \in Int, OnTheWay(p, x) PROVE \E y \in Int : OnTheWay(p, y)'
    <3>1. x - 1 \in Int /\ (x - 1) + 1 = x
      OBVIOUS
    <3> QED BY <1>3, <2>2, <3>1
  <2> QED BY <1>0, <1>1, <2>1, <2>2, PendSame
<1> QED BY <1>2, <1>7, <1>8 DEF OrderInv

LEMMA UpdateBusesWay ==
  ASSUME Inv, UpdateBuses
  PROVE  /\ \A p : \A x \in Int : OnTheWay(p, x)' <=> OnTheWay(p, x)
         /\ BusMoves(1) /\ ReadsHeld(1)
<1>1. /\ phase = "bus" /\ phase' = "issue" /\ rankOut' = rankOut /\ cmdBus' = <<>> /\ returns' = returns
      /\ bankStates' = [r \in Ranks |-> [b \in Banks |-> CountedDown(bankStates[r][b])]]
  BY DEF UpdateBuses, traffic
<1>2. PipeInv /\ CommandInv /\ RL \in Nat \ {0} /\ WL \in Nat \ {0} /\ HalfBL \in Nat \ {0}
  BY Latencies DEF Inv, CoreInv, TablesInv
<1>3. ASSUME NEW r \in Ranks, NEW p, NEW y \in Int
      PROVE  Holds(readReturn'[r], p, y) <=>
               \/ Holds(readReturn[r], p, y)
               \/ cmdBus # <<>> /\ p = cmdBus[1] /\ p.rank = r /\ p.type \in Reads /\ y = RL
  <2>1. CASE cmdBus = <<>>
    BY <2>1 DEF UpdateBuses
  <2>2. CASE cmdBus # <<>>
    <3> DEFINE o == cmdBus[1]
    <3>1. readReturn' = [readReturn EXCEPT ![o.rank] =
             IF o.type \in Reads THEN Append(@, [pkt |-> o, left |-> RL]) ELSE @]
      BY <2>2 DEF UpdateBuses, RankReceives
    <3>2. readReturn \in [Ranks -> Seq(Timed(RL))] /\ Pipe(readReturn[r], RL)
      BY <1>2, PipesTyped DEF PipeInv
    <3> HIDE DEF o
    <3>3. CASE r = o.rank /\ o.type \in Reads
      <4>1. readReturn'[r] = Append(readReturn[r], [pkt |-> o, left |-> RL])
        BY <3>1, <3>2, <3>3
      <4>2. Holds(readReturn'[r], p, y) <=> Holds(readReturn[r], p, y) \/ (p = o /\ y = RL)
        BY <1>2, <3>2, <4>1, HoldsAdded
      <4> QED BY <2>2, <3>3, <4>2 DEF o
    <3>4. CASE ~(r = o.rank /\ o.type \in Reads)
      <4>1. readReturn'[r] = readReturn[r]
        BY <3>1, <3>2, <3>4
      <4> QED BY <2>2, <3>4, <4>1 DEF o
    <3> QED BY <3>3, <3>4
  <2> QED BY <2>1, <2>2
<1>4. ASSUME NEW p, NEW x \in Int PROVE OnTheWay(p, x)' <=> OnTheWay(p, x)
  <2> DEFINE y == x - HalfBL
             asked == cmdBus # <<>> /\ p = cmdBus[1] /\ p.type \in Reads
  <2>1. y \in Int /\ (y = RL <=> x = HalfBL + RL) /\ HalfBL + RL = HalfBL + RL + 0
    BY <1>2
  <2>2. \A r \in Ranks : Holds(readReturn'[r], p, y) <=>
           Holds(readReturn[r], p, y) \/ (asked /\ p.rank = r /\ y = RL)
    <3> HIDE DEF y
    <3> QED BY <1>3, <2>1
  <2>3. asked => p.rank \in Ranks
    <3>1. cmdBus # <<>> => cmdBus[1] \in Packets
      BY <1>2 DEF CommandInv
    <3> QED BY <3>1 DEF Packets
  <2>4. OnTheWay(p, x)' <=>
          \/ x = 0 /\ returns # <<>> /\ p = returns[1]
          \/ \E r \in Ranks : Holds(rankOut[r], p, x) \/ Holds(readReturn'[r], p, y)
    BY <1>1 DEF OnTheWay
  <2>5. OnTheWay(p, x) <=>
          \/ x = 0 /\ returns # <<>> /\ p = returns[1]
          \/ \E r \in Ranks : Holds(rankOut[r], p, x) \/ Holds(readReturn[r], p, y)
          \/ asked /\ y = RL
    BY <1>1, <2>1 DEF OnTheWay
  <2> HIDE DEF y, asked
  <2> QED BY <2>2, <2>3, <2>4, <2>5
<1>5. BusMoves(1)
  <2> SUFFICES ASSUME NEW w, NEW x \in Int, OnTheBus(w, x)' PROVE OnTheBus(w, x + 1)
    BY DEF BusMoves
  <2> DEFINE q == writeData
             d == dataBus
             y == x - HalfBL
  <2>1. Pipe(q, WL) /\ Pipe(d, HalfBL)
    BY <1>2, FirstBank, PipesTyped
  <2>2. writeData' = IF q # <<>> /\ q[1].left = 1 THEN Tail(OneCloser(q)) ELSE OneCloser(q)
    BY DEF UpdateBuses, WriteReady, OneCloser
  <2>3. dataBus' = IF q # <<>> /\ q[1].left = 1 THEN <<[pkt |-> q[1].pkt, left |-> HalfBL]>>
                   ELSE IF d # <<>> /\ d[1].left = 1 THEN <<>> ELSE OneCloser(d)
    BY DEF UpdateBuses, WriteReady, DataBusAfter, OneCloser
  <2>4. y \in Int /\ (x + 1) - HalfBL = y + 1 /\ (x = HalfBL => y + 1 = 1)
    BY <1>2
  <2>5. Holds(dataBus', w, x) \/ Holds(writeData', w, y)
    BY DEF OnTheBus
  <2>6. OnTheBus(w, x + 1) <=> Holds(d, w, x + 1) \/ Holds(q, w, y + 1)
    BY <2>4 DEF OnTheBus
  <2> HIDE DEF q, d, y
  <2>7. Holds(writeData', w, y) => Holds(q, w, y + 1)
    BY <1>2, <2>1, <2>2, <2>4, HoldsMoved
  <2>8. Holds(dataBus', w, x) => Holds(d, w, x + 1) \/ Holds(q, w, y + 1)
    <3>1. CASE q # <<>> /\ q[1].left = 1
      <4>1. Holds(dataBus', w, x) => w = q[1].pkt /\ x = HalfBL
        BY <2>3, <3>1, HoldsOf
      <4>2. Holds(q, q[1].pkt, 1)
        BY <1>2, <2>1, <3>1, HoldsFirst
      <4> QED BY <2>4, <4>1, <4>2
    <3>2. CASE ~(q # <<>> /\ q[1].left = 1)
      <4>1. Holds(OneCloser(d), w, x) => Holds(d, w, x + 1)
        BY <1>2, <2>1, HoldsMoved
      <4>2. ~Holds(<<>>, w, x)
        BY HoldsOf
      <4> QED BY <2>3, <3>2, <4>1, <4>2
    <3> QED BY <3>1, <3>2
  <2> QED BY <2>5, <2>6, <2>7, <2>8
<1>6. ReadsHeld(1)
  <2> SUFFICES ASSUME NEW r \in Ranks, NEW b \in Banks
               PROVE  bankStates[r][b].nextRead + Slack <= bankStates'[r][b].nextRead + Slack' + 1
    BY DEF ReadsHeld
  <2>1. bankStates \in Table
    BY DEF Inv, CoreInv, TablesInv, BankInv
  <2>2. bankStates[r][b].nextRead \in Nat /\ bankStates[r][b] \in BankTable
    BY <2>1, NextReads
  <2>3. bankStates'[r][b].nextRead = bankStates[r][b].nextRead
    BY <1>1, <2>2, CountedFields
  <2>4. Slack = 1 /\ Slack' = 0
    BY <1>1 DEF Slack
  <2> QED BY <2>2, <2>3, <2>4
<1> QED BY <1>4, <1>5, <1>6

LEMMA UpdateBusesOrder ==
  ASSUME OrderInv, Inv, Inv', UpdateBuses
  PROVE  OrderInv'
<1>0. TurnInv /\ GoneInv /\ PendInv /\ OneReturns
  BY DEF OrderInv, GoneInv
<1>1. /\ policy' = policy /\ UNCHANGED <<queues, transactionQueue, accepted, pendingReads, returns>>
      /\ phase' = "issue"
  BY DEF UpdateBuses, bound, traffic
<1>2. TurnInv' /\ Newer
  BY <1>0, <1>1, TurnSame
<1>3. \A p : \A x \in Int : OnTheWay(p, x)' <=> OnTheWay(p, x)
  BY UpdateBusesWay
<1>4. BusMoves(1) /\ ReadsHeld(1) /\ OneReturns'
  BY <1>0, <1>1, UpdateBusesWay DEF OneReturns
<1>5. WayMoves(0)
  <2>1. \A x \in Int : x + 0 = x
    OBVIOUS
  <2> QED BY <1>3, <2>1 DEF WayMoves
<1>6. accepted <= accepted'
  BY <1>1 DEF Inv, TrafficInv
<1>7. GoneInv'
  BY <1>0, <1>2, <1>4, <1>5, <1>6, GoneKept
<1>8. PendInv'
  BY <1>0, <1>1, <1>3, PendSame
<1> QED BY <1>2, <1>7, <1>8 DEF OrderInv

LEMMA AddTurn ==
  ASSUME TurnInv, Inv, NEW type \in {"READ", "WRITE"}, NEW a \in Addresses, AddTransaction(type, a)
  PROVE  TurnInv' /\ Newer
<1> DEFINE t == [type |-> type, addr |-> a, id |-> accepted + 1]
           q == transactionQueue
           new == Append(q, t)
<1>1. /\ transactionQueue' = new /\ accepted' = accepted + 1 /\ policy' = policy /\ queues' = queues
      /\ accepted < MaxTransactions
  BY DEF AddTransaction, cqVars
<1>2. q \in Seq(Transactions) /\ accepted \in Nat /\ MaxTransactions \in Nat /\ accepted <= MaxTransactions /\ QueueInv
  BY ControllerAssumption DEF Inv, TrafficInv, CoreInv
<1>3. t \in Transactions /\ t.id = accepted + 1 /\ t.addr = a
  BY <1>1, <1>2 DEF Transactions
<1> HIDE DEF t
<1>4. Len(new) = Len(q) + 1 /\ Len(q) \in Nat /\ (\A i \in 1..Len(q) : new[i] = q[i]) /\ new[Len(q) + 1] = t
  BY <1>2, <1>3, AppendProperties, LenProperties
<1>5. Numbered(q) /\ \A i \in 1..Len(q) : q[i].id <= accepted /\ q[i].id \in Int
  <2>1. Numbered(q) /\ \A i \in 1..Len(q) : q[i].id <= accepted
    BY DEF TurnInv, TransInv
  <2>2. \A i \in 1..Len(q) : q[i] \in Transactions
    BY <1>2
  <2>3. \A u \in Transactions : u.id \in Int
    BY DEF Transactions
  <2> QED BY <2>1, <2>2, <2>3
<1> HIDE DEF q, new
<1>6. \A i \in 1..Len(new) : i \in 1..Len(q) \/ new[i] = t
  BY <1>4
<1>7. Numbered(new)
  <2> SUFFICES ASSUME NEW i \in 1..Len(new), NEW j \in 1..Len(new), i < j PROVE new[i].id < new[j].id
    BY DEF Numbered
  <2>1. i \in 1..Len(q) /\ new[i] = q[i]
    BY <1>4
  <2>2. CASE j \in 1..Len(q)
    BY <1>4, <1>5, <2>1, <2>2 DEF Numbered
  <2>3. CASE new[j] = t
    BY <1>2, <1>3, <1>5, <2>1, <2>3
  <2> QED BY <1>6, <2>2, <2>3
<1>8. \A i \in 1..Len(new) : new[i].id <= accepted + 1
  BY <1>2, <1>3, <1>4, <1>5, <1>6
<1>9. ASSUME NEW s \in Slots PROVE AllAhead(queues[s], new, accepted + 1)
  <2> SUFFICES ASSUME NEW i \in 1..Len(queues[s]) PROVE Ahead(queues[s][i], new, accepted + 1)
    BY DEF AllAhead
  <2> DEFINE p == queues[s][i]
  <2>1. Ahead(p, q, accepted)
    BY DEF TurnInv, AllAhead, q
  <2>2. p.id \in Int
    BY <1>2, HeldFacts DEF Packets
  <2> HIDE DEF p
  <2>3. p.id <= accepted
    BY <2>1 DEF Ahead
  <2>4. p.id <= accepted + 1 /\ p.id < accepted + 1
    BY <1>2, <2>2, <2>3
  <2>5. ASSUME NEW k \in 1..Len(new), p.addr = new[k].addr PROVE p.id < new[k].id
    <3>1. CASE k \in 1..Len(q)
      BY <1>4, <2>1, <2>5, <3>1 DEF Ahead
    <3>2. CASE new[k] = t
      BY <1>3, <2>4, <3>2
    <3> QED BY <1>6, <3>1, <3>2
  <2> QED BY <2>1, <2>4, <2>5 DEF Ahead, p
<1>10. Slots' = Slots
  BY <1>1, SamePolicy
<1>11. TurnInv'
  <2>1. TransInv'
    BY <1>1, <1>7, <1>8 DEF TransInv
  <2>2. \A s \in Slots' : Rising(queues'[s]) /\ AllAhead(queues'[s], transactionQueue', accepted')
    BY <1>1, <1>9, <1>10 DEF TurnInv
  <2> QED BY <2>1, <2>2 DEF TurnInv
<1>12. Newer
  <2> SUFFICES ASSUME NEW b, NEW n \in Nat, WaitsFor(b, n)' PROVE WaitsFor(b, n) \/ n > accepted
    BY DEF Newer
  <2>1. CASE \E s \in Slots' : \E i \in 1..Len(queues'[s]) : b = queues'[s][i].addr /\ n = queues'[s][i].id
    BY <1>1, <1>10, <2>1 DEF WaitsFor
  <2>2. CASE \E i \in 1..Len(new) : b = new[i].addr /\ n = new[i].id
    <3>1. PICK i \in 1..Len(new) : b = new[i].addr /\ n = new[i].id
      BY <2>2
    <3>2. CASE i \in 1..Len(q)
      <4>1. new[i] = q[i]
        BY <1>4, <3>2
      <4> QED BY <3>1, <3>2, <4>1 DEF WaitsFor, q
    <3>3. CASE new[i] = t
      BY <1>2, <1>3, <3>1, <3>3
    <3> QED BY <1>6, <3>2, <3>3
  <2> QED BY <1>1, <2>1, <2>2 DEF WaitsFor
<1> QED BY <1>11, <1>12

\* Nothing moves.
LEMMA StillWay ==
  ASSUME Inv, UNCHANGED <<returns, rankOut, readReturn, cmdBus, dataBus, writeData, bankStates, phase>>
  PROVE  /\ \A p : \A x \in Int : OnTheWay(p, x)' <=> OnTheWay(p, x)
         /\ WayMoves(0) /\ BusMoves(0) /\ ReadsHeld(0)
<1>1. \A p : \A x \in Int : OnTheWay(p, x)' <=> OnTheWay(p, x)
  BY DEF OnTheWay
<1>2. \A p : \A x \in Int : OnTheBus(p, x)' <=> OnTheBus(p, x)
  BY DEF OnTheBus
<1>3. \A x \in Int : x + 0 = x
  OBVIOUS
<1>4. ReadsHeld(0)
  <2> SUFFICES ASSUME NEW r \in Ranks, NEW b \in Banks
               PROVE  bankStates[r][b].nextRead + Slack <= bankStates'[r][b].nextRead + Slack' + 0
    BY DEF ReadsHeld
  <2>1. bankStates \in Table
    BY DEF Inv, CoreInv, TablesInv, BankInv
  <2>2. bankStates[r][b].nextRead \in Nat
    BY <2>1, NextReads
  <2>3. Slack \in Nat /\ Slack' = Slack
    BY DEF Slack
  <2> QED BY <2>2, <2>3
<1> QED BY <1>1, <1>2, <1>3, <1>4 DEF WayMoves, BusMoves

LEMMA StillOrder ==
  ASSUME OrderInv, Inv, Inv',
         (\E type \in {"READ", "WRITE"}, a \in Addresses : AddTransaction(type, a)) \/ UNCHANGED vars
  PROVE  OrderInv'
<1>0. TurnInv /\ GoneInv /\ PendInv /\ OneReturns /\ accepted \in Int
  BY DEF OrderInv, GoneInv, Inv, TrafficInv
<1>1. /\ policy' = policy /\ accepted <= accepted'
      /\ UNCHANGED <<queues, pendingReads, returns, rankOut, readReturn, cmdBus, dataBus, writeData, bankStates, phase>>
  <2>1. CASE \E type \in {"READ", "WRITE"}, a \in Addresses : AddTransaction(type, a)
    <3>1. accepted' = accepted + 1
      BY <2>1 DEF AddTransaction
    <3>2. accepted <= accepted'
      BY <1>0, <3>1
    <3> QED BY <2>1, <3>2 DEF AddTransaction, cqVars, rankVars, buses
  <2>2. CASE UNCHANGED vars
    <3>1. accepted' = accepted
      BY <2>2 DEF vars, bound
    <3>2. accepted <= accepted'
      BY <1>0, <3>1
    <3> QED BY <2>2, <3>2 DEF vars, cqVars, rankVars, buses, traffic
  <2> QED BY <2>1, <2>2
<1>2. TurnInv' /\ Newer
  <2>1. CASE \E type \in {"READ", "WRITE"}, a \in Addresses : AddTransaction(type, a)
    BY <1>0, <2>1, AddTurn
  <2>2. CASE UNCHANGED vars
    <3>1. UNCHANGED <<queues, transactionQueue, accepted>>
      BY <2>2 DEF vars, cqVars, traffic, bound
    <3> QED BY <1>0, <1>1, <3>1, TurnSame
  <2> QED BY <2>1, <2>2
<1>3. OneReturns'
  BY <1>0, <1>1 DEF OneReturns
<1>4. /\ \A p : \A x \in Int : OnTheWay(p, x)' <=> OnTheWay(p, x)
      /\ WayMoves(0) /\ BusMoves(0) /\ ReadsHeld(0)
  BY <1>1, StillWay
<1>5. GoneInv'
  BY <1>0, <1>1, <1>2, <1>3, <1>4, GoneKept
<1>6. PendInv'
  BY <1>0, <1>1, <1>4, PendSame
<1> QED BY <1>2, <1>5, <1>6 DEF OrderInv

\* What a packet that is sent adds to the buses.
LEMMA SentWay ==
  ASSUME Inv, NEW p, Sent(p)
  PROVE  /\ \A q : \A x \in Int :
              OnTheWay(q, x)' <=> OnTheWay(q, x) \/ (q = p /\ p.type \in Reads /\ x = HalfBL + RL + 1)
         /\ \A w : \A x \in Int :
              OnTheBus(w, x)' <=> OnTheBus(w, x) \/ (w = p /\ p.type \in Writes /\ x = WL + HalfBL)
<1>1. /\ phase = "issue" /\ phase' = "finish" /\ cmdBus = <<>> /\ cmdBus' = <<p>>
      /\ writeData' = IF p.type \in Writes THEN Append(writeData, [pkt |-> p, left |-> WL]) ELSE writeData
      /\ UNCHANGED <<readReturn, rankOut, dataBus, returns>>
  BY DEF Sent, rankVars, traffic
<1>2. Pipe(writeData, WL) /\ WL \in Nat /\ HalfBL \in Nat
  BY FirstBank, PipesTyped, Latencies DEF Inv
<1>3. ASSUME NEW q, NEW x \in Int
      PROVE  OnTheWay(q, x)' <=> OnTheWay(q, x) \/ (q = p /\ p.type \in Reads /\ x = HalfBL + RL + 1)
  <2>1. cmdBus' # <<>> /\ cmdBus'[1] = p
    BY <1>1
  <2> QED BY <1>1, <2>1 DEF OnTheWay
<1>4. ASSUME NEW w, NEW x \in Int
      PROVE  OnTheBus(w, x)' <=> OnTheBus(w, x) \/ (w = p /\ p.type \in Writes /\ x = WL + HalfBL)
  <2> DEFINE y == x - HalfBL
  <2>1. y = WL <=> x = WL + HalfBL
    BY <1>2
  <2> HIDE DEF y
  <2>2. Holds(writeData', w, y) <=> Holds(writeData, w, y) \/ (w = p /\ p.type \in Writes /\ y = WL)
    <3>1. CASE p.type \in Writes
      BY <1>1, <1>2, <3>1, HoldsAdded
    <3>2. CASE p.type \notin Writes
      BY <1>1, <3>2
    <3> QED BY <3>1, <3>2
  <2>3. OnTheBus(w, x)' <=> Holds(dataBus, w, x) \/ Holds(writeData', w, y)
    BY <1>1 DEF OnTheBus, y
  <2>4. OnTheBus(w, x) <=> Holds(dataBus, w, x) \/ Holds(writeData, w, y)
    BY DEF OnTheBus, y
  <2> QED BY <2>1, <2>2, <2>3, <2>4
<1> QED BY <1>3, <1>4

\* Reads that stand in the queues.
QueuedRead(a, n) ==
  \E s \in Slots : \E i \in 1..Len(queues[s]) :
    queues[s][i].type \in Reads /\ a = queues[s][i].addr /\ n = queues[s][i].id

LEMMA LeavesReads ==
  ASSUME NEW p, Leaves(p), policy' = policy, QueueInv
  PROVE  \A a, n : QueuedRead(a, n) <=> QueuedRead(a, n)' \/ (p.type \in Reads /\ a = p.addr /\ n = p.id)
<1>1. Slots' = Slots
  BY SamePolicy
<1>21. PICK s \in Slots : \E i \in 1..Len(queues[s]) : \E gone : LeavesAt(p, s, i, gone)
  BY DEF Leaves
<1>22. PICK i \in 1..Len(queues[s]) : \E gone : LeavesAt(p, s, i, gone)
  BY <1>21
<1>2. PICK gone : LeavesAt(p, s, i, gone)
  BY <1>22
<1>3. \A t \in Slots : t # s => queues'[t] = queues[t]
  BY <1>2 DEF QueueInv, LeavesAt
<1>4. Lost(queues'[s], queues[s], gone)
  BY <1>2 DEF LeavesAt
<1>5. /\ \A j \in 1..Len(queues'[s]) : \E k \in 1..Len(queues[s]) : queues'[s][j] = queues[s][k]
      /\ \A k \in 1..Len(queues[s]) : k \notin gone => \E j \in 1..Len(queues'[s]) : queues'[s][j] = queues[s][k]
  <2> DEFINE q == queues[s]
             new == queues'[s]
  <2>1. Lost(new, q, gone)
    BY <1>4
  <2> HIDE DEF new, q
  <2>2. /\ \A j \in 1..Len(new) : \E k \in 1..Len(q) : k \notin gone /\ new[j] = q[k]
        /\ \A k \in 1..Len(q) : k \notin gone => \E j \in 1..Len(new) : new[j] = q[k]
    BY <2>1, LostFacts
  <2>3. \A j \in 1..Len(new) : \E k \in 1..Len(q) : new[j] = q[k]
    BY <2>2
  <2> QED BY <2>2, <2>3 DEF new, q
<1>6. /\ p = queues[s][i]
      /\ \A k \in 1..Len(queues[s]) : k \in gone => k = i \/ queues[s][k].type = "ACTIVATE"
  BY <1>2 DEF LeavesAt
<1>7. "ACTIVATE" \notin Reads
  BY DEF Reads
<1>8. ASSUME NEW a, NEW n, QueuedRead(a, n)
      PROVE  QueuedRead(a, n)' \/ (p.type \in Reads /\ a = p.addr /\ n = p.id)
  <2>1. PICK t \in Slots : \E k \in 1..Len(queues[t]) :
           queues[t][k].type \in Reads /\ a = queues[t][k].addr /\ n = queues[t][k].id
    BY <1>8 DEF QueuedRead
  <2>2. PICK k \in 1..Len(queues[t]) : queues[t][k].type \in Reads /\ a = queues[t][k].addr /\ n = queues[t][k].id
    BY <2>1
  <2>3. CASE t = s /\ k \in gone
    BY <1>6, <1>7, <2>2, <2>3
  <2>4. CASE t = s /\ k \notin gone
    <3>1. PICK j \in 1..Len(queues'[s]) : queues'[s][j] = queues[s][k]
      BY <1>5, <2>4
    <3> QED BY <1>1, <2>2, <2>4, <3>1 DEF QueuedRead
  <2>5. CASE t # s
    BY <1>1, <1>3, <2>2, <2>5 DEF QueuedRead
  <2> QED BY <2>3, <2>4, <2>5
<1>9. ASSUME NEW a, NEW n, QueuedRead(a, n)' PROVE QueuedRead(a, n)
  <2>1. PICK t \in Slots : \E k \in 1..Len(queues'[t]) :
           queues'[t][k].type \in Reads /\ a = queues'[t][k].addr /\ n = queues'[t][k].id
    BY <1>1, <1>9 DEF QueuedRead
  <2>2. PICK k \in 1..Len(queues'[t]) : queues'[t][k].type \in Reads /\ a = queues'[t][k].addr /\ n = queues'[t][k].id
    BY <2>1
  <2>3. CASE t = s
    <3>1. PICK j \in 1..Len(queues[s]) : queues'[s][k] = queues[s][j]
      BY <1>5, <2>3
    <3> QED BY <2>2, <2>3, <3>1 DEF QueuedRead
  <2>4. CASE t # s
    BY <1>3, <2>2, <2>4 DEF QueuedRead
  <2> QED BY <2>3, <2>4
<1>10. ASSUME NEW a, NEW n, p.type \in Reads, a = p.addr, n = p.id PROVE QueuedRead(a, n)
  BY <1>6, <1>10 DEF QueuedRead
<1> QED BY <1>8, <1>9, <1>10

LEMMA SentPend ==
  ASSUME PendInv, Inv, NEW p, Sent(p), Leaves(p) \/ (queues' = queues /\ p.type \notin Columns)
  PROVE  PendInv'
<1>1. policy' = policy /\ pendingReads' = pendingReads /\ QueueInv /\ Slots' = Slots
  BY SamePolicy DEF Sent, traffic, Inv, CoreInv
<1>2. HalfBL + RL + 1 \in Int
  BY Latencies
<1>3. \A q : \A x \in Int :
         OnTheWay(q, x)' <=> OnTheWay(q, x) \/ (q = p /\ p.type \in Reads /\ x = HalfBL + RL + 1)
  BY SentWay
<1>4. \A a, n : QueuedRead(a, n) <=> QueuedRead(a, n)' \/ (p.type \in Reads /\ a = p.addr /\ n = p.id)
  <2>1. CASE Leaves(p)
    BY <1>1, <2>1, LeavesReads
  <2>2. CASE queues' = queues /\ p.type \notin Columns
    <3>1. \A a, n : QueuedRead(a, n)' <=> QueuedRead(a, n)
      BY <1>1, <2>2 DEF QueuedRead
    <3> QED BY <2>2, <3>1 DEF Columns
  <2> QED BY <2>1, <2>2
<1> DEFINE Coming(a, n) == \E q : \E x \in Int : OnTheWay(q, x) /\ a = q.addr /\ n = q.id
           ComingNow(a, n) == \E q : \E x \in Int : OnTheWay(q, x)' /\ a = q.addr /\ n = q.id
<1>5. \A a, n : ComingNow(a, n) <=> Coming(a, n) \/ (p.type \in Reads /\ a = p.addr /\ n = p.id)
  BY <1>2, <1>3
<1>6. \A a, n : (Wanted(a, n) <=> QueuedRead(a, n) \/ Coming(a, n))
  BY DEF Wanted, QueuedRead
<1>7. \A a, n : (Wanted(a, n)' <=> QueuedRead(a, n)' \/ ComingNow(a, n))
  BY DEF Wanted, QueuedRead
<1> HIDE DEF Coming, ComingNow
<1>8. \A a, n : Wanted(a, n)' <=> Wanted(a, n)
  BY <1>4, <1>5, <1>6, <1>7
<1> QED BY <1>1, <1>8 DEF PendInv

\* The commands that are not for a column leave the next read as late as it was.
LEMMA RowsHold ==
  ASSUME Inv, NEW p, Effect(p), p.type \notin Columns, NEW r \in Ranks, NEW b \in Banks
  PROVE  bankStates'[r][b].nextRead \in Nat /\ bankStates[r][b].nextRead <= bankStates'[r][b].nextRead
<1> DEFINE bank == bankStates[r][b]
<1>1. bank \in BankTable /\ bank.nextRead \in Timers /\ bank.nextRead \in Nat /\ Timers \subseteq Nat /\ tRCD - AL \in Timers
  <2>1. bankStates \in Table
    BY DEF Inv, CoreInv, TablesInv, BankInv
  <2>2. bank \in BankTable
    BY <2>1, NextReads
  <2> HIDE DEF bank
  <2> QED BY <2>2, BankFields, DelaysFit DEF Delays
<1>2. bankStates'[r][b] \in {Activate(p, r, b), Precharge(p, r, b), Refresh(p, r, b)}
  BY DEF Effect, Updated
<1>3. CASE bankStates'[r][b] = Activate(p, r, b)
  <2>1. Activate(p, r, b).nextRead = bank.nextRead \/ Activate(p, r, b).nextRead = Later(tRCD - AL, bank.nextRead)
    BY <1>1 DEF Activate, BankTable
  <2>2. Later(tRCD - AL, bank.nextRead) \in Timers /\ Later(tRCD - AL, bank.nextRead) >= bank.nextRead
    BY <1>1, TimerArithmetic
  <2> HIDE DEF bank
  <2>3. CASE bankStates'[r][b].nextRead = bank.nextRead
    <3>1. bank.nextRead <= bank.nextRead
      BY <1>1
    <3> QED BY <1>1, <2>3, <3>1 DEF bank
  <2>4. CASE bankStates'[r][b].nextRead = Later(tRCD - AL, bank.nextRead)
    <3>1. bank.nextRead <= Later(tRCD - AL, bank.nextRead) /\ Later(tRCD - AL, bank.nextRead) \in Nat
      BY <1>1, <2>2
    <3> QED BY <2>4, <3>1 DEF bank
  <2> QED BY <1>3, <2>1, <2>3, <2>4
<1>4. CASE bankStates'[r][b] = Precharge(p, r, b)
  <2>1. Precharge(p, r, b).nextRead = bank.nextRead
    BY <1>1 DEF Precharge, BankTable
  <2>2. bank.nextRead <= bank.nextRead
    BY <1>1
  <2> HIDE DEF bank
  <2>3. bankStates'[r][b].nextRead = bank.nextRead
    BY <1>4, <2>1
  <2> QED BY <1>1, <2>2, <2>3 DEF bank
<1>5. CASE bankStates'[r][b] = Refresh(p, r, b)
  <2>1. Refresh(p, r, b).nextRead = bank.nextRead
    BY <1>1 DEF Refresh, BankTable
  <2>2. bank.nextRead <= bank.nextRead
    BY <1>1
  <2> HIDE DEF bank
  <2>3. bankStates'[r][b].nextRead = bank.nextRead
    BY <1>5, <2>1
  <2> QED BY <1>1, <2>2, <2>3 DEF bank
<1> QED BY <1>2, <1>3, <1>4, <1>5

\* A column command: the next read is later than the end of every write.
LEMMA ColumnHolds ==
  ASSUME Inv, NEW p, p.type \in Columns, isIssuable(p), bankStates' = Updated(p, Column),
         p.rank \in Ranks, p.bank \in Banks, NEW r \in Ranks, NEW b \in Banks
  PROVE  /\ \/ bankStates[r][b].nextRead <= bankStates'[r][b].nextRead
            \/ p.type \in Reads /\ bankStates[r][b].nextRead = 0
            \/ WL + HalfBL <= bankStates'[r][b].nextRead
         /\ p.type \in Writes /\ r = p.rank => WL + HalfBL <= bankStates'[r][b].nextRead
         /\ bankStates'[r][b].nextRead \in Nat
<1> DEFINE bank == bankStates[r][b]
           new == bankStates'[r][b]
<1>1. /\ bank \in BankTable /\ bank.nextRead \in Timers /\ bank.nextRead \in Nat /\ bank.nextActivate \in Timers /\ Timers \subseteq Nat
      /\ ReadAfter(p) \in Timers /\ ActAfter(p) \in Timers /\ ToRead(p, r) \in Timers
  <2>1. bankStates \in Table
    BY DEF Inv, CoreInv, TablesInv, BankInv
  <2>2. bank \in BankTable
    BY <2>1, NextReads
  <2>3. ToRead(p, r) \in Timers
    BY DelaysFit DEF ToRead, Delays
  <2> HIDE DEF bank
  <2> QED BY <2>2, <2>3, BankFields, DelaysFit, AfterFits
<1>2. new = Column(p, r, b)
  BY DEF Updated
<1>3. WL \in Nat /\ HalfBL \in Nat /\ {tWTR, tWR, tRP} \subseteq Nat
  BY Latencies, TimingAssumption
<1>4. p.type \in Writes => p.type \notin Reads /\ p.type # "READ_P"
  BY DEF Writes, Reads
<1>5. CASE r = p.rank /\ ~(b = p.bank /\ p.type \in Autopre)
  <2>1. new.nextRead = Later(ReadAfter(p), bank.nextRead)
    <3>1. Spaced(p, bank) \in BankTable /\ Spaced(p, bank).nextRead = Later(ReadAfter(p), bank.nextRead)
      BY <1>1, SpacedFields
    <3>2. CASE b # p.bank
      <4>1. new = Spaced(p, bank)
        BY <1>2, <1>5, <3>2, ColumnCases
      <4> QED BY <3>1, <4>1
    <3>3. CASE b = p.bank
      <4>1. new = [Spaced(p, bank) EXCEPT !.nextPrecharge = Later(PreAfter(p), @), !.last = p.type]
        BY <1>2, <1>5, <3>3, ColumnCases
      <4> QED BY <3>1, <4>1 DEF BankTable
    <3> QED BY <3>2, <3>3
  <2>2. Later(ReadAfter(p), bank.nextRead) \in Timers /\ Later(ReadAfter(p), bank.nextRead) >= bank.nextRead
        /\ Later(ReadAfter(p), bank.nextRead) >= ReadAfter(p)
    BY <1>1, TimerArithmetic
  <2>3. p.type \in Writes => ReadAfter(p) = WL + HalfBL + tWTR
    BY <1>4 DEF ReadAfter, WriteToReadB
  <2> HIDE DEF bank, new
  <2>4. new.nextRead \in Nat /\ bank.nextRead <= new.nextRead
    BY <1>1, <2>1, <2>2
  <2>5. p.type \in Writes => WL + HalfBL <= new.nextRead
    <3> SUFFICES ASSUME p.type \in Writes PROVE WL + HalfBL <= new.nextRead
      OBVIOUS
    <3>1. new.nextRead \in Int /\ new.nextRead >= WL + HalfBL + tWTR
      BY <2>1, <2>2, <2>3, <2>4
    <3> QED BY <1>3, <3>1
  <2> QED BY <2>4, <2>5 DEF bank, new
<1>6. CASE r = p.rank /\ b = p.bank /\ p.type \in Autopre
  <2> DEFINE reopen == Later(ActAfter(p), bank.nextActivate)
  <2>1. new.nextRead = reopen
    <3>1. Spaced(p, bank) \in BankTable
      BY <1>1, SpacedFields
    <3>2. new = [Spaced(p, bank) EXCEPT !.nextActivate = reopen, !.nextRead = reopen, !.nextWrite = reopen,
                   !.last = p.type, !.countdown = PreAfter(p)]
      BY <1>2, <1>6, ColumnCases
    <3> HIDE DEF reopen
    <3> QED BY <3>1, <3>2 DEF BankTable
  <2>2. reopen \in Timers /\ reopen >= ActAfter(p)
    BY <1>1, TimerArithmetic
  <2>3. p.type \in Writes => ActAfter(p) = WL + HalfBL + tWR + tRP
    BY <1>4 DEF ActAfter, WriteAutopre
  <2>4. p.type \in Reads => bank.nextRead = 0
    BY <1>6 DEF isIssuable, ColumnAllowed, BankOf, Columns, Reads, Writes
  <2> HIDE DEF bank, new, reopen
  <2>6. new.nextRead \in Nat
    BY <1>1, <2>1, <2>2
  <2>5. p.type \in Writes => WL + HalfBL <= new.nextRead
    <3> SUFFICES ASSUME p.type \in Writes PROVE WL + HalfBL <= new.nextRead
      OBVIOUS
    <3>1. new.nextRead >= WL + HalfBL + tWR + tRP
      BY <2>1, <2>2, <2>3
    <3> QED BY <1>3, <2>6, <3>1
  <2> QED BY <2>4, <2>5, <2>6 DEF bank, new, Columns
<1>7. CASE r # p.rank
  <2>1. new.nextRead = bank.nextRead \/ new.nextRead = Later(ToRead(p, r), bank.nextRead)
    BY <1>1, <1>2, <1>7 DEF Column, ToRead, BankTable
  <2>2. Later(ToRead(p, r), bank.nextRead) \in Timers /\ Later(ToRead(p, r), bank.nextRead) >= bank.nextRead
    BY <1>1, TimerArithmetic
  <2> HIDE DEF bank, new
  <2>3. new.nextRead \in Nat /\ bank.nextRead <= new.nextRead
    <3>1. bank.nextRead \in Nat /\ Later(ToRead(p, r), bank.nextRead) \in Nat
      <4>1. Timers \subseteq Nat
        BY <1>1
      <4> QED BY <1>1, <2>2, <4>1
    <3>2. bank.nextRead <= bank.nextRead
      BY <3>1
    <3> QED BY <2>1, <2>2, <3>1, <3>2
  <2> QED BY <1>7, <2>3 DEF bank, new
<1> QED BY <1>5, <1>6, <1>7

\* A command that is not for a column.
LEMMA RowsOrder ==
  ASSUME OrderInv, Inv, Inv', NEW p \in Packets, Sent(p), Effect(p), p.type \notin Columns,
         Leaves(p) \/ queues' = queues
  PROVE  OrderInv'
<1>0. TurnInv /\ GoneInv /\ PendInv /\ OneReturns /\ QueueInv /\ accepted \in Int
  BY DEF OrderInv, GoneInv, Inv, CoreInv, TrafficInv
<1>1. /\ policy' = policy /\ UNCHANGED <<transactionQueue, accepted, pendingReads, returns>>
      /\ phase = "issue" /\ phase' = "finish"
  BY DEF Sent, traffic, bound
<1>2. TurnInv' /\ Newer
  <2>1. CASE Leaves(p)
    BY <1>0, <1>1, <2>1, LeavesTurn, WaitsLess DEF Newer
  <2>2. CASE queues' = queues
    BY <1>0, <1>1, <2>2, TurnSame
  <2> QED BY <2>1, <2>2
<1>3. \A x \in Int : x + 0 = x
  OBVIOUS
<1>4. p.type \notin Reads /\ p.type \notin Writes
  BY DEF Columns
<1>5. WayMoves(0) /\ BusMoves(0)
  BY <1>3, <1>4, SentWay DEF WayMoves, BusMoves
<1>6. ReadsHeld(0)
  <2> SUFFICES ASSUME NEW r \in Ranks, NEW b \in Banks
               PROVE  bankStates[r][b].nextRead + Slack <= bankStates'[r][b].nextRead + Slack' + 0
    BY DEF ReadsHeld
  <2>1. bankStates'[r][b].nextRead \in Nat /\ bankStates[r][b].nextRead <= bankStates'[r][b].nextRead
    BY RowsHold
  <2>2. bankStates \in Table
    BY DEF Inv, CoreInv, TablesInv, BankInv
  <2>3. bankStates[r][b].nextRead \in Nat
    BY <2>2, NextReads
  <2>4. Slack = 0 /\ Slack' = 0
    BY <1>1 DEF Slack
  <2> QED BY <2>1, <2>3, <2>4
<1>7. accepted <= accepted' /\ OneReturns'
  BY <1>0, <1>1 DEF OneReturns
<1>8. GoneInv'
  BY <1>0, <1>2, <1>5, <1>6, <1>7, GoneKept
<1>9. PendInv'
  BY <1>0, SentPend
<1> QED BY <1>2, <1>8, <1>9 DEF OrderInv

\* A read or a write goes.
LEMMA ColumnGone ==
  ASSUME GoneInv, TurnInv, Inv, Inv', NEW p \in Packets, Sent(p), Leaves(p), p.type \in Columns,
         isIssuable(p), bankStates' = Updated(p, Column)
  PROVE  GoneInv'
<1>0. /\ ReadsGone /\ WritesGone /\ WritesHold /\ ReadsBefore /\ ReadsInOrder /\ OneReturns
      /\ QueueInv /\ accepted \in Int
  BY DEF GoneInv, Inv, CoreInv, TrafficInv
<1>1. /\ policy' = policy /\ UNCHANGED <<transactionQueue, accepted, returns>>
      /\ phase = "issue" /\ phase' = "finish"
  BY DEF Sent, traffic, bound
<1>2. Newer /\ Old(p)' /\ WaitsFor(p.addr, p.id) /\ Placed(p)
  <2>1. Newer /\ WaitsFor(p.addr, p.id)
    BY <1>0, <1>1, WaitsLess DEF Newer
  <2>2. Old(p)'
    BY <1>0, <1>1, LeavesTurn
  <2>3. Placed(p)
    BY <2>2 DEF Old, Placed
  <2> QED BY <2>1, <2>2, <2>3
<1>3. p.id \in Nat /\ p.rank \in Ranks /\ p.bank \in Banks /\ accepted <= accepted'
  BY <1>0, <1>1 DEF Packets
<1>4. /\ \A q : \A x \in Int :
            OnTheWay(q, x)' <=> OnTheWay(q, x) \/ (q = p /\ p.type \in Reads /\ x = HalfBL + RL + 1)
      /\ \A w : \A x \in Int :
            OnTheBus(w, x)' <=> OnTheBus(w, x) \/ (w = p /\ p.type \in Writes /\ x = WL + HalfBL)
  BY SentWay
<1>5. \A q : Old(q) /\ q.addr = p.addr => q.id < p.id
  BY <1>2, <1>3 DEF Old
<1>6. ~(p.type \in Reads /\ p.type \in Writes)
  BY DEF Reads, Writes
<1>7. RL \in Int /\ HalfBL \in Int /\ WL \in Int
  BY Latencies
<1>8. \A q : \A x \in Int : OnTheWay(q, x) => x <= HalfBL + RL /\ q.id \in Nat
  BY <1>1, WayFacts
<1>9. ReadsGone'
  <2> SUFFICES ASSUME NEW q, NEW x \in Int, OnTheWay(q, x)' PROVE q.type \in Reads /\ Old(q)'
    BY DEF ReadsGone
  <2>1. CASE OnTheWay(q, x)
    <3>1. q.type \in Reads /\ Old(q) /\ q.id \in Int
      BY <1>0, <1>8, <2>1 DEF ReadsGone
    <3> QED BY <1>0, <1>1, <1>2, <1>3, <3>1, OldStays
  <2>2. CASE q = p /\ p.type \in Reads
    BY <1>2, <2>2
  <2> QED BY <1>4, <2>1, <2>2
<1>10. WritesGone'
  <2> SUFFICES ASSUME NEW w, NEW x \in Int, OnTheBus(w, x)' PROVE w.type \in Writes /\ Old(w)'
    BY DEF WritesGone
  <2>1. CASE OnTheBus(w, x)
    <3>1. w.type \in Writes /\ Old(w)
      BY <1>0, <2>1 DEF WritesGone
    <3>2. w.id \in Int
      BY <2>1, BusFacts
    <3> QED BY <1>0, <1>1, <1>2, <1>3, <3>1, <3>2, OldStays
  <2>2. CASE w = p /\ p.type \in Writes
    BY <1>2, <2>2
  <2> QED BY <1>4, <2>1, <2>2
<1>11. WritesHold'
  <2> SUFFICES ASSUME NEW w, NEW x \in Int, OnTheBus(w, x)', NEW b \in Banks
               PROVE  x <= bankStates'[w.rank][b].nextRead + Slack'
    BY DEF WritesHold
  <2>0. Slack = 0 /\ Slack' = 0
    BY <1>1 DEF Slack
  <2>1. CASE OnTheBus(w, x)
    <3>1. w.rank \in Ranks /\ 1 <= x /\ x <= WL + HalfBL
      BY <2>1, BusFacts
    <3>2. x <= bankStates[w.rank][b].nextRead + Slack
      BY <1>0, <2>1 DEF WritesHold
    <3>3. /\ \/ bankStates[w.rank][b].nextRead <= bankStates'[w.rank][b].nextRead
             \/ bankStates[w.rank][b].nextRead = 0
             \/ WL + HalfBL <= bankStates'[w.rank][b].nextRead
          /\ bankStates'[w.rank][b].nextRead \in Nat
      BY <1>3, <3>1, ColumnHolds
    <3>4. bankStates[w.rank][b].nextRead \in Nat
      <4>1. bankStates \in Table
        BY DEF Inv, CoreInv, TablesInv, BankInv
      <4> QED BY <3>1, <4>1, NextReads
    <3> QED BY <1>7, <2>0, <3>1, <3>2, <3>3, <3>4
  <2>2. CASE w = p /\ p.type \in Writes /\ x = WL + HalfBL
    <3>1. WL + HalfBL <= bankStates'[p.rank][b].nextRead /\ bankStates'[p.rank][b].nextRead \in Nat
      BY <1>3, <2>2, ColumnHolds
    <3> QED BY <1>7, <2>0, <2>2, <3>1
  <2> QED BY <1>4, <2>1, <2>2
<1>12. ASSUME NEW w, NEW y \in Int, OnTheBus(w, y), p.addr = w.addr, p.type \in Reads PROVE FALSE
  <2>1. Placed(w) /\ 1 <= y /\ y <= bankStates[w.rank][p.bank].nextRead + Slack
    BY <1>0, <1>3, <1>12, BusFacts DEF WritesGone, Old, WritesHold
  <2>2. w.rank = p.rank
    BY <1>2, <1>12, <2>1, SamePlace
  <2>3. bankStates[p.rank][p.bank].nextRead = 0
    BY <1>12 DEF isIssuable, ColumnAllowed, BankOf, Reads, Writes
  <2>4. Slack = 0
    BY <1>1 DEF Slack
  <2> QED BY <2>1, <2>2, <2>3, <2>4
<1>13. ReadsBefore'
  <2> SUFFICES ASSUME NEW q, NEW w, NEW x \in Int, NEW y \in Int, OnTheWay(q, x)', OnTheBus(w, y)',
                      q.addr = w.addr
               PROVE  q.id < w.id
    BY DEF ReadsBefore
  <2>1. CASE OnTheWay(q, x) /\ OnTheBus(w, y)
    BY <1>0, <2>1 DEF ReadsBefore
  <2>2. CASE OnTheWay(q, x) /\ w = p
    BY <1>0, <1>5, <2>2 DEF ReadsGone
  <2>3. CASE q = p /\ p.type \in Reads /\ OnTheBus(w, y)
    BY <1>12, <2>3
  <2> QED BY <1>4, <1>6, <2>1, <2>2, <2>3
<1>14. ReadsInOrder'
  <2> SUFFICES ASSUME NEW q, NEW s, NEW x \in Int, NEW y \in Int, OnTheWay(q, x)', OnTheWay(s, y)',
                      q.addr = s.addr, x < y
               PROVE  q.id < s.id
    BY DEF ReadsInOrder
  <2>1. CASE OnTheWay(q, x) /\ OnTheWay(s, y)
    BY <1>0, <2>1 DEF ReadsInOrder
  <2>2. CASE OnTheWay(q, x) /\ s = p
    BY <1>0, <1>5, <2>2 DEF ReadsGone
  <2>3. CASE x = HalfBL + RL + 1
    <3>1. y <= HalfBL + RL + 1
      BY <1>4, <1>7, <1>8
    <3> QED BY <1>7, <2>3, <3>1
  <2> QED BY <1>4, <2>1, <2>2, <2>3
<1>15. OneReturns'
  BY <1>0, <1>1 DEF OneReturns
<1> QED BY <1>9, <1>10, <1>11, <1>13, <1>14, <1>15 DEF GoneInv

LEMMA IssueOrder ==
  ASSUME OrderInv, Inv, Inv', Issue
  PROVE  OrderInv'
<1>0. CoreInv /\ TurnInv /\ GoneInv /\ PendInv /\ OneReturns /\ accepted \in Int
  BY DEF Inv, OrderInv, GoneInv, TrafficInv
<1>1. CASE IssueNothing
  <2>1. /\ policy' = policy /\ UNCHANGED <<queues, transactionQueue, accepted, pendingReads>>
        /\ phase = "issue" /\ phase' = "finish" /\ bankStates' = bankStates
        /\ UNCHANGED <<returns, rankOut, readReturn, cmdBus, dataBus, writeData>>
    BY <1>1 DEF IssueNothing, PopNothing, traffic, bound, rankVars, buses
  <2>2. TurnInv' /\ Newer
    BY <1>0, <2>1, TurnSame
  <2>3. \A p : \A x \in Int : OnTheWay(p, x)' <=> OnTheWay(p, x)
    BY <2>1 DEF OnTheWay
  <2>4. \A p : \A x \in Int : OnTheBus(p, x)' <=> OnTheBus(p, x)
    BY <2>1 DEF OnTheBus
  <2>5. \A x \in Int : x + 0 = x
    OBVIOUS
  <2>6. WayMoves(0) /\ BusMoves(0)
    BY <2>3, <2>4, <2>5 DEF WayMoves, BusMoves
  <2>7. ReadsHeld(0)
    <3> SUFFICES ASSUME NEW r \in Ranks, NEW b \in Banks
                 PROVE  bankStates[r][b].nextRead + Slack <= bankStates'[r][b].nextRead + Slack' + 0
      BY DEF ReadsHeld
    <3>1. bankStates \in Table
      BY DEF Inv, CoreInv, TablesInv, BankInv
    <3>2. bankStates[r][b].nextRead \in Nat
      BY <3>1, NextReads
    <3>3. Slack = 0 /\ Slack' = 0
      BY <2>1 DEF Slack
    <3> QED BY <2>1, <3>2, <3>3
  <2>8. accepted <= accepted' /\ OneReturns'
    BY <1>0, <2>1 DEF OneReturns
  <2>9. GoneInv'
    BY <1>0, <2>2, <2>6, <2>7, <2>8, GoneKept
  <2>10. PendInv'
    BY <1>0, <2>1, <2>3, PendSame
  <2> QED BY <2>2, <2>9, <2>10 DEF OrderInv
<1>2. CASE ~IssueNothing
  <2>1. PICK p \in Packets : Sent(p) /\ Effect(p)
    BY <1>0, <1>2, IssuedWhat
  <2>2. PICK o : Sent(o) /\ (Leaves(o) \/ (queues' = queues /\ o.type \notin Columns))
    BY <1>0, <1>2, IssuedInTurn
  <2>3. o = p
    <3>1. cmdBus' = <<p>> /\ cmdBus' = <<o>>
      BY <2>1, <2>2 DEF Sent
    <3> QED BY <3>1
  <2>4. CASE p.type \notin Columns
    BY <2>1, <2>2, <2>3, <2>4, RowsOrder
  <2>5. CASE p.type \in Columns
    <3>1. Leaves(p)
      BY <2>2, <2>3, <2>5
    <3>2. isIssuable(p) /\ bankStates' = Updated(p, Column)
      BY <2>1, <2>5 DEF Effect, Columns, Reads, Writes
    <3>3. GoneInv'
      BY <1>0, <2>1, <2>5, <3>1, <3>2, ColumnGone
    <3>4. TurnInv'
      <4>1. policy' = policy /\ UNCHANGED <<transactionQueue, accepted>>
        BY <2>1 DEF Sent, traffic, bound
      <4>2. QueueInv
        BY <1>0 DEF CoreInv
      <4> QED BY <1>0, <3>1, <4>1, <4>2, LeavesTurn
    <3>5. PendInv'
      BY <1>0, <2>1, <3>1, SentPend
    <3> QED BY <3>3, <3>4, <3>5 DEF OrderInv
  <2> QED BY <2>4, <2>5
<1> QED BY <1>1, <1>2

\* The pending reads, added to and taken from.
LEMMA ListedAdd ==
  ASSUME NEW q \in Seq(Transactions), NEW e \in Transactions
  PROVE  /\ \A a, n : Listed(Append(q, e), a, n) <=> Listed(q, a, n) \/ (a = e.addr /\ n = e.id)
         /\ Climbing(q) /\ (\A n : Listed(q, e.addr, n) => n < e.id) => Climbing(Append(q, e))
<1> DEFINE new == Append(q, e)
<1>1. Len(new) = Len(q) + 1 /\ Len(q) \in Nat /\ (\A i \in 1..Len(q) : new[i] = q[i]) /\ new[Len(q) + 1] = e
  BY AppendProperties, LenProperties
<1> HIDE DEF new
<1>2. \A i \in 1..Len(new) : i \in 1..Len(q) \/ new[i] = e
  BY <1>1
<1>3. Len(q) + 1 \in 1..Len(new) /\ \A i \in 1..Len(q) : i \in 1..Len(new)
  BY <1>1
<1>4. ASSUME NEW a, NEW n PROVE Listed(new, a, n) <=> Listed(q, a, n) \/ (a = e.addr /\ n = e.id)
  BY <1>1, <1>2, <1>3 DEF Listed
<1>5. ASSUME Climbing(q), \A n : Listed(q, e.addr, n) => n < e.id PROVE Climbing(new)
  <2> SUFFICES ASSUME NEW i \in 1..Len(new), NEW j \in 1..Len(new), i < j, new[i].addr = new[j].addr
               PROVE  new[i].id < new[j].id
    BY DEF Climbing
  <2>1. i \in 1..Len(q) /\ new[i] = q[i]
    BY <1>1
  <2>2. CASE j \in 1..Len(q)
    BY <1>1, <1>5, <2>1, <2>2 DEF Climbing
  <2>3. CASE new[j] = e
    BY <1>5, <2>1, <2>3 DEF Listed
  <2> QED BY <1>2, <2>2, <2>3
<1> QED BY <1>4, <1>5 DEF new

LEMMA ListedRemoved ==
  ASSUME NEW q \in Seq(Transactions), NEW i \in 1..Len(q), Climbing(q)
  PROVE  /\ \A a, n : Listed(RemoveAt(q, i), a, n) <=> Listed(q, a, n) /\ ~(a = q[i].addr /\ n = q[i].id)
         /\ Climbing(RemoveAt(q, i))
<1> DEFINE new == RemoveAt(q, i)
<1>1. Lost(new, q, {i})
  BY LostOne
<1>2. \A k \in 1..Len(q) : q[k].id \in Int
  <2>1. \A k \in 1..Len(q) : q[k] \in Transactions
    BY ElementOfSeq
  <2> QED BY <2>1, ControllerAssumption DEF Transactions
<1>0. Len(q) \in Nat
  BY LenProperties
<1> HIDE DEF new
<1>3. PICK f : Without(new, q, {i}, f)
  BY <1>1 DEF Lost
<1>4. /\ f \in [1..Len(new) -> 1..Len(q)]
      /\ \A j, k \in 1..Len(new) : j < k => f[j] < f[k]
      /\ \A j \in 1..Len(new) : new[j] = q[f[j]] /\ f[j] # i
      /\ \A k \in 1..Len(q) : k = i \/ \E j \in 1..Len(new) : f[j] = k
  BY <1>3 DEF Without
<1>5. ASSUME NEW k \in 1..Len(q), k # i, q[k].addr = q[i].addr PROVE q[k].id # q[i].id
  <2>1. CASE k < i
    BY <1>2, <1>5, <2>1 DEF Climbing
  <2>2. CASE i < k
    BY <1>2, <1>5, <2>2 DEF Climbing
  <2> QED BY <1>0, <1>5, <2>1, <2>2
<1>6. ASSUME NEW a, NEW n, Listed(new, a, n) PROVE Listed(q, a, n) /\ ~(a = q[i].addr /\ n = q[i].id)
  <2>1. PICK j \in 1..Len(new) : a = new[j].addr /\ n = new[j].id
    BY <1>6 DEF Listed
  <2>2. f[j] \in 1..Len(q) /\ new[j] = q[f[j]] /\ f[j] # i
    BY <1>4
  <2> QED BY <1>5, <2>1, <2>2 DEF Listed
<1>7. ASSUME NEW a, NEW n, Listed(q, a, n), ~(a = q[i].addr /\ n = q[i].id) PROVE Listed(new, a, n)
  <2>1. PICK k \in 1..Len(q) : a = q[k].addr /\ n = q[k].id
    BY <1>7 DEF Listed
  <2>2. PICK j \in 1..Len(new) : f[j] = k
    BY <1>4, <1>7, <2>1
  <2> QED BY <1>4, <2>1, <2>2 DEF Listed
<1>8. Climbing(new)
  <2> SUFFICES ASSUME NEW j \in 1..Len(new), NEW k \in 1..Len(new), j < k, new[j].addr = new[k].addr
               PROVE  new[j].id < new[k].id
    BY DEF Climbing
  <2>1. /\ f[j] \in 1..Len(q) /\ f[k] \in 1..Len(q) /\ f[j] < f[k]
        /\ new[j] = q[f[j]] /\ new[k] = q[f[k]]
    BY <1>4
  <2> QED BY <2>1 DEF Climbing
<1> QED BY <1>6, <1>7, <1>8 DEF new

\* Data that has come back.
LEMMA WayZero ==
  ASSUME Inv, NEW p
  PROVE  OnTheWay(p, 0) <=> returns # <<>> /\ p = returns[1]
<1>0. PipeInv /\ RL \in Nat \ {0} /\ HalfBL \in Nat \ {0}
  BY Latencies DEF Inv
<1>1. ASSUME NEW r \in Ranks PROVE ~Holds(rankOut[r], p, 0)
  <2>1. Pipe(rankOut[r], HalfBL)
    BY <1>0, PipesTyped
  <2>2. SUFFICES ASSUME Holds(rankOut[r], p, 0) PROVE FALSE
    OBVIOUS
  <2>3. 0 >= 1
    BY <1>0, <2>1, <2>2, HoldsFew
  <2> QED BY <2>3
<1>2. ASSUME NEW r \in Ranks PROVE ~Holds(readReturn[r], p, 0 - HalfBL)
  <2> DEFINE y == 0 - HalfBL
  <2>1. Pipe(readReturn[r], RL) /\ ~(y >= 1)
    BY <1>0, PipesTyped
  <2> HIDE DEF y
  <2>2. ~Holds(readReturn[r], p, y)
    <3> SUFFICES ASSUME Holds(readReturn[r], p, y) PROVE FALSE
      OBVIOUS
    <3>1. y >= 1
      BY <1>0, <2>1, HoldsFew
    <3> QED BY <2>1, <3>1
  <2> QED BY <2>2 DEF y
<1>3. 0 # HalfBL + RL + (IF phase = "bus" THEN 0 ELSE 1)
  BY <1>0
<1> QED BY <1>1, <1>2, <1>3 DEF OnTheWay

LEMMA FinishWay ==
  ASSUME Inv, OneReturns, Finish
  PROVE  /\ \A p : \A x \in Int : OnTheWay(p, x)' <=> OnTheWay(p, x) /\ x # 0
         /\ WayMoves(0) /\ BusMoves(0) /\ ReadsHeld(0) /\ OneReturns'
<1>1. /\ phase = "finish" /\ phase' = "ranks" /\ bankStates' = Powered(bankStates)
      /\ UNCHANGED <<readReturn, rankOut, cmdBus, dataBus, writeData>>
      /\ returns' = IF returns = <<>> THEN returns ELSE Tail(returns)
  BY DEF Finish, buses, Answer, Power
<1>2. returns' = <<>>
  <2>1. CASE returns = <<>>
    BY <1>1, <2>1
  <2>2. CASE returns # <<>>
    <3>1. returns \in Seq(Packets) /\ Len(returns) <= 1
      BY DEF Inv, TrafficInv, OneReturns
    <3>2. Len(returns) = 1
      <4> DEFINE n == Len(returns)
      <4>1. n \in Nat /\ n # 0 /\ n <= 1
        BY <2>2, <3>1, EmptySeq, LenProperties
      <4> HIDE DEF n
      <4>2. n = 1
        BY <4>1
      <4> QED BY <4>2 DEF n
    <3>3. Len(Tail(returns)) = 0 /\ Tail(returns) \in Seq(Packets)
      BY <2>2, <3>1, <3>2, HeadTailProperties
    <3>4. Tail(returns) = <<>>
      BY <3>3, EmptySeq
    <3> QED BY <1>1, <2>2, <3>4
  <2> QED BY <2>1, <2>2
<1>3. ASSUME NEW p, NEW x \in Int PROVE OnTheWay(p, x)' <=> OnTheWay(p, x) /\ x # 0
  <2> DEFINE sent == \E r \in Ranks : Holds(rankOut[r], p, x) \/ Holds(readReturn[r], p, x - HalfBL)
             asked == /\ cmdBus # <<>> /\ p = cmdBus[1] /\ p.type \in Reads
                      /\ x = HalfBL + RL + 1
  <2>1. OnTheWay(p, x)' <=> sent \/ asked
    BY <1>1, <1>2 DEF OnTheWay
  <2>2. OnTheWay(p, x) <=> (x = 0 /\ returns # <<>> /\ p = returns[1]) \/ sent \/ asked
    BY <1>1 DEF OnTheWay
  <2>3. CASE x # 0
    BY <2>1, <2>2, <2>3
  <2>4. CASE x = 0
    <3>1. ~OnTheWay(p, x)'
      <4>1. ~(sent \/ asked)
        <5>1. RL \in Nat \ {0} /\ HalfBL \in Nat \ {0} /\ PipeInv
          BY Latencies DEF Inv
        <5>2. ~asked
          BY <2>4, <5>1
        <5>3. ASSUME NEW r \in Ranks PROVE ~Holds(rankOut[r], p, x) /\ ~Holds(readReturn[r], p, x - HalfBL)
          <6> DEFINE y == x - HalfBL
          <6>1. Pipe(rankOut[r], HalfBL) /\ Pipe(readReturn[r], RL) /\ ~(x >= 1) /\ ~(y >= 1)
            BY <2>4, <5>1, PipesTyped
          <6> HIDE DEF y
          <6>2. Holds(rankOut[r], p, x) => x >= 1
            BY <5>1, <6>1, HoldsFew
          <6>3. Holds(readReturn[r], p, y) => y >= 1
            BY <5>1, <6>1, HoldsFew
          <6>4. ~Holds(rankOut[r], p, x) /\ ~Holds(readReturn[r], p, y)
            BY <6>1, <6>2, <6>3
          <6> QED BY <6>4 DEF y
        <5> QED BY <5>2, <5>3
      <4> QED BY <2>1, <4>1
    <3> QED BY <2>4, <3>1
  <2> QED BY <2>3, <2>4
<1>4. ASSUME NEW p, NEW x \in Int PROVE OnTheBus(p, x)' <=> OnTheBus(p, x)
  BY <1>1 DEF OnTheBus
<1>5. \A x \in Int : x + 0 = x
  OBVIOUS
<1>6. WayMoves(0) /\ BusMoves(0)
  BY <1>3, <1>4, <1>5 DEF WayMoves, BusMoves
<1>7. ReadsHeld(0)
  <2> SUFFICES ASSUME NEW r \in Ranks, NEW b \in Banks
               PROVE  bankStates[r][b].nextRead + Slack <= bankStates'[r][b].nextRead + Slack' + 0
    BY DEF ReadsHeld
  <2> DEFINE own == bankStates[r][b]
             woken == IF GoesDown(r) THEN PoweredDown(own) ELSE IF GoesUp(r) THEN PoweredUp(own) ELSE own
  <2>1. bankStates \in Table
    BY DEF Inv, CoreInv, TablesInv, BankInv
  <2>2. own \in BankTable /\ own.nextRead \in Nat
    BY <2>1, NextReads
  <2>3. bankStates'[r][b] = TickedBank(woken)
    BY <1>1 DEF Powered
  <2> HIDE DEF own
  <2>4. PoweredDown(own) \in BankTable /\ PoweredUp(own) \in BankTable
    <3>1. tCKE \in Timers /\ tXP \in Timers
      BY DelaysFit DEF Delays
    <3> QED BY <2>2, <3>1 DEF PoweredDown, PoweredUp, BankTable, BankStates
  <2>5. PoweredDown(own).nextRead = own.nextRead /\ PoweredUp(own).nextRead = own.nextRead
    BY <2>2 DEF PoweredDown, PoweredUp, BankTable
  <2>6. woken \in BankTable /\ woken.nextRead = own.nextRead
    BY <2>2, <2>4, <2>5
  <2> HIDE DEF woken
  <2>7. TickedBank(woken).nextRead = Ticked(own.nextRead)
    BY <2>6, TickedFields
  <2>8. own.nextRead <= Ticked(own.nextRead) + 1 /\ Ticked(own.nextRead) \in Nat
    BY <2>2 DEF Ticked
  <2>9. Slack = 0 /\ Slack' = 1
    BY <1>1 DEF Slack
  <2> QED BY <2>2, <2>3, <2>7, <2>8, <2>9 DEF own
<1>8. OneReturns'
  BY <1>2 DEF OneReturns
<1> QED BY <1>3, <1>6, <1>7, <1>8

\* A couple behind a queue.
LEMMA PairAdded ==
  ASSUME NEW q \in Seq(Packets), NEW p1 \in Packets, NEW p2 \in Packets
  PROVE  /\ \A k \in 1..Len(q) : (q \o <<p1, p2>>)[k] = q[k] /\ k \in 1..Len(q \o <<p1, p2>>)
         /\ (q \o <<p1, p2>>)[Len(q) + 1] = p1 /\ (q \o <<p1, p2>>)[Len(q) + 2] = p2
         /\ Len(q) + 1 \in 1..Len(q \o <<p1, p2>>) /\ Len(q) + 2 \in 1..Len(q \o <<p1, p2>>)
         /\ \A j \in 1..Len(q \o <<p1, p2>>) : j \in 1..Len(q) \/ j = Len(q) + 1 \/ j = Len(q) + 2
         /\ Len(q) \in Nat
<1> DEFINE new == q \o <<p1, p2>>
<1>1. Len(q) \in Nat /\ <<p1, p2>> \in Seq(Packets) /\ Len(<<p1, p2>>) = 2
  BY LenProperties
<1>2. /\ Len(new) = Len(q) + 2
      /\ \A j \in 1..(Len(q) + 2) : new[j] = IF j <= Len(q) THEN q[j] ELSE <<p1, p2>>[j - Len(q)]
  BY <1>1, ConcatProperties
<1>3. new[Len(q) + 1] = p1 /\ new[Len(q) + 2] = p2 /\ \A j \in 1..Len(q) : new[j] = q[j]
  BY <1>1, <1>2
<1> HIDE DEF new
<1>4. /\ \A j \in 1..Len(new) : j \in 1..Len(q) \/ j = Len(q) + 1 \/ j = Len(q) + 2
      /\ \A j \in 1..Len(q) : j \in 1..Len(new)
      /\ Len(q) + 1 \in 1..Len(new) /\ Len(q) + 2 \in 1..Len(new)
  BY <1>1, <1>2
<1> QED BY <1>1, <1>3, <1>4 DEF new

LEMMA PairRises ==
  ASSUME NEW q \in Seq(Packets), NEW p1 \in Packets, NEW p2 \in Packets, Rising(q),
         p1.type = "ACTIVATE", p1.addr = p2.addr, p1.id = p2.id,
         \A k \in 1..Len(q) : q[k].addr = p1.addr => q[k].id < p1.id
  PROVE  Rising(q \o <<p1, p2>>)
<1> DEFINE new == q \o <<p1, p2>>
<1>1. /\ \A k \in 1..Len(q) : new[k] = q[k] /\ q[k].id \in Nat
      /\ new[Len(q) + 1] = p1 /\ new[Len(q) + 2] = p2
      /\ \A j \in 1..Len(new) : j \in 1..Len(q) \/ j = Len(q) + 1 \/ j = Len(q) + 2
      /\ Len(q) \in Nat
  <2>1. \A k \in 1..Len(q) : q[k] \in Packets
    BY ElementOfSeq
  <2>2. \A k \in 1..Len(q) : q[k].id \in Nat
    BY <2>1 DEF Packets
  <2> QED BY <2>2, PairAdded
<1>2. p1.id \in Nat
  BY DEF Packets
<1> HIDE DEF new
<1>3. ASSUME NEW i \in 1..Len(new), NEW j \in 1..Len(new), i < j, new[i].addr = new[j].addr
      PROVE  new[i].id <= new[j].id /\ (new[i].type # "ACTIVATE" => new[i].id < new[j].id)
  <2>1. CASE i \in 1..Len(q) /\ j \in 1..Len(q)
    BY <1>1, <1>3, <2>1 DEF Rising
  <2>2. CASE i \in 1..Len(q) /\ j \notin 1..Len(q)
    <3>1. new[j] \in {p1, p2} /\ new[i] = q[i] /\ q[i].id \in Nat
      BY <1>1, <2>2
    <3>2. q[i].id < p1.id
      BY <1>3, <2>2, <3>1
    <3>3. q[i].id <= p1.id
      BY <1>2, <3>1, <3>2
    <3> QED BY <3>1, <3>2, <3>3
  <2>3. CASE i \notin 1..Len(q)
    <3>1. i = Len(q) + 1 /\ j = Len(q) + 2
      BY <1>1, <1>3, <2>3
    <3>2. p1.id <= p2.id
      BY <1>2
    <3> QED BY <1>1, <3>1, <3>2
  <2> QED BY <2>1, <2>2, <2>3
<1>4. Rising(new)
  BY <1>3 DEF Rising
<1> QED BY <1>4 DEF new

\* The transaction that is taken, and those of its address behind it.
TakenRead(a, n) == Fitting # {} /\ Taken.type = "READ" /\ a = Taken.addr /\ n = Taken.id

LEMMA TakenInTurn ==
  ASSUME Inv, TurnInv, Fitting # {}
  PROVE  /\ Min(Fitting) \in 1..Len(transactionQueue) /\ Taken = transactionQueue[Min(Fitting)]
         /\ Taken \in Transactions /\ Taken.id \in Nat /\ Taken.id <= accepted
         /\ WaitsFor(Taken.addr, Taken.id)
         /\ \A k \in 1..Len(transactionQueue) : k # Min(Fitting) /\ transactionQueue[k].addr = Taken.addr
              => Taken.id < transactionQueue[k].id
<1> DEFINE q == transactionQueue
           i == Min(Fitting)
<1>1. /\ TrafficInv /\ q \in Seq(Transactions) /\ Len(q) \in Nat /\ DOMAIN q = 1..Len(q)
  BY LenProperties DEF Inv, TrafficInv
<1>2. i \in Fitting /\ i \in 1..Len(q) /\ Taken \in Transactions /\ Taken = q[i]
  BY <1>1, TakenFacts DEF Taken
<1>3. Fitting \in SUBSET Nat
  BY <1>1 DEF Fitting
<1>4. \A k \in Fitting : i <= k
  BY <1>3, Least
<1>5. Taken.id \in Nat
  BY <1>2, ControllerAssumption DEF Transactions
<1>6. Numbered(q) /\ Taken.id <= accepted
  BY <1>2 DEF TurnInv, TransInv
<1>7. ASSUME NEW k \in 1..Len(q), k # i, q[k].addr = Taken.addr PROVE Taken.id < q[k].id
  <2>1. k \in Fitting
    <3>1. MapOf(q[k]) = MapOf(q[i])
      BY <1>2, <1>7 DEF MapOf
    <3>2. HasRoomForPair(MapOf(q[i]).rank, MapOf(q[i]).bank)
      BY <1>2 DEF Fitting
    <3> HIDE DEF i
    <3> QED BY <1>1, <3>1, <3>2 DEF Fitting
  <2>2. i <= k /\ i \in Int /\ k \in Int
    BY <1>2, <1>4, <2>1
  <2>3. i < k
    BY <1>7, <2>2
  <2> QED BY <1>2, <1>6, <2>3 DEF Numbered
<1>8. WaitsFor(Taken.addr, Taken.id)
  BY <1>2 DEF WaitsFor
<1> QED BY <1>2, <1>5, <1>6, <1>7, <1>8

LEMMA FinishTurn ==
  ASSUME TurnInv, Inv, Finish
  PROVE  /\ TurnInv' /\ Newer
         /\ \A a, n : QueuedRead(a, n)' <=> QueuedRead(a, n) \/ TakenRead(a, n)
<1>1. policy' = policy /\ accepted' = accepted /\ queues' = QueuesAfter /\ TakeTransaction /\ QueueInv /\ TrafficInv
  BY DEF Finish, TakeTransaction, Inv, CoreInv
<1>0. Slots' = Slots
  BY <1>1, SamePolicy
<1>2. CASE Fitting = {}
  <2>1. UNCHANGED <<queues, transactionQueue, accepted>>
    BY <1>1, <1>2 DEF TakeTransaction, QueuesAfter
  <2>2. TurnInv' /\ Newer
    BY <1>1, <2>1, TurnSame
  <2>3. \A a, n : QueuedRead(a, n)' <=> QueuedRead(a, n)
    BY <1>0, <2>1 DEF QueuedRead
  <2> QED BY <1>2, <2>2, <2>3 DEF TakenRead
<1>3. CASE Fitting # {}
  <2> DEFINE t == Taken
             i == Min(Fitting)
             tq == transactionQueue
             p1 == Command("ACTIVATE", t)
             p2 == Command(ColumnType(t.type), t)
             s0 == SlotOf(p1.rank, p1.bank)
             q == queues[s0]
             new == q \o <<p1, p2>>
             newT == RemoveAt(tq, i)
  <2>1. /\ i \in 1..Len(tq) /\ t = tq[i] /\ t \in Transactions /\ t.id \in Nat /\ t.id <= accepted
        /\ WaitsFor(t.addr, t.id)
        /\ \A k \in 1..Len(tq) : k # i /\ tq[k].addr = t.addr => t.id < tq[k].id
    BY <1>3, TakenInTurn
  <2>2. /\ p1 \in Packets /\ p2 \in Packets
    BY <1>1, <1>3, TakenFacts
  <2>3. /\ p1.type = "ACTIVATE" /\ p1.addr = t.addr /\ p1.id = t.id /\ Placed(p1)
        /\ p2.type = ColumnType(t.type) /\ p2.addr = t.addr /\ p2.id = t.id /\ Placed(p2)
    <3>1. t.addr \in Addresses
      BY <2>1 DEF Transactions
    <3>2. \A type : Placed(Command(type, t))
      BY <3>1 DEF Placed, Command, MapOf
    <3> HIDE DEF t
    <3> QED BY <3>2 DEF Command
  <2>4. p2.type \in Reads <=> t.type = "READ"
    <3>1. t.type \in {"READ", "WRITE"}
      BY <2>1 DEF Transactions
    <3> HIDE DEF t
    <3>2. ColumnType(t.type) \in Reads <=> t.type = "READ"
      BY <3>1 DEF ColumnType, Reads
    <3> QED BY <2>3, <3>2
  <2>5. p1.type \notin Reads
    BY <2>3 DEF Reads
  <2>6. /\ queues' = [queues EXCEPT ![s0] = new] /\ transactionQueue' = newT
    BY <1>1, <1>3 DEF TakeTransaction, QueuesAfter, Enqueued
  <2>7. p1.rank \in Ranks /\ p1.bank \in Banks /\ s0 \in Slots /\ queues \in [Slots -> Seq(Packets)]
    BY <1>1, <2>2, SlotFacts DEF Packets, QueueInv
  <2>8. q \in Seq(Packets) /\ tq \in Seq(Transactions)
    BY <1>1, <2>7 DEF TrafficInv
  <2>9. Lost(newT, tq, {i})
    BY <2>1, <2>8, LostOne
  <2>10. /\ \A j \in 1..Len(newT) : \E k \in 1..Len(tq) : k # i /\ newT[j] = tq[k]
         /\ \A k \in 1..Len(tq) : k # i => \E j \in 1..Len(newT) : newT[j] = tq[k]
    <3> HIDE DEF newT, tq, i
    <3> QED BY <2>9, LostFacts
  <2>11. /\ \A s \in Slots : Rising(queues[s]) /\ AllAhead(queues[s], tq, accepted)
         /\ Numbered(tq) /\ \A k \in 1..Len(tq) : tq[k].id <= accepted
    BY DEF TurnInv, TransInv
  <2> HIDE DEF t, i, tq, newT
  <2>12. /\ \A k \in 1..Len(q) : new[k] = q[k] /\ k \in 1..Len(new)
         /\ new[Len(q) + 1] = p1 /\ new[Len(q) + 2] = p2
         /\ Len(q) + 1 \in 1..Len(new) /\ Len(q) + 2 \in 1..Len(new)
         /\ \A j \in 1..Len(new) : j \in 1..Len(q) \/ j = Len(q) + 1 \/ j = Len(q) + 2
    BY <2>2, <2>8, PairAdded
  <2>13. \A k \in 1..Len(q) : q[k].addr = p1.addr => q[k].id < p1.id
    BY <2>1, <2>3, <2>7, <2>11 DEF AllAhead, Ahead
  <2>14. Rising(new)
    <3> HIDE DEF p1, p2, q, s0
    <3> QED BY <2>2, <2>3, <2>8, <2>11, <2>13, <2>7, PairRises DEF q
  <2> HIDE DEF p1, p2, q, s0, new
  <2>15. /\ queues'[s0] = new /\ \A s \in Slots : s # s0 => queues'[s] = queues[s]
    BY <2>6, <2>7
  <2>16. ASSUME NEW p, Ahead(p, tq, accepted) PROVE Ahead(p, newT, accepted)
    <3>1. ASSUME NEW j \in 1..Len(newT), p.addr = newT[j].addr PROVE p.id < newT[j].id
      <4>1. PICK k \in 1..Len(tq) : newT[j] = tq[k]
        BY <2>10
      <4> QED BY <2>16, <3>1, <4>1 DEF Ahead
    <3> QED BY <2>16, <3>1 DEF Ahead
  <2>17. ASSUME NEW p \in {p1, p2} PROVE Ahead(p, newT, accepted)
    <3>1. p.addr = t.addr /\ p.id = t.id /\ Placed(p)
      BY <2>3
    <3>2. ASSUME NEW j \in 1..Len(newT), p.addr = newT[j].addr PROVE p.id < newT[j].id
      <4>1. PICK k \in 1..Len(tq) : k # i /\ newT[j] = tq[k]
        BY <2>10
      <4> QED BY <2>1, <3>1, <3>2, <4>1
    <3>3. p.id <= accepted
      BY <2>1, <3>1
    <3> QED BY <3>1, <3>2, <3>3 DEF Ahead
  <2>18. TurnInv'
    <3>1. TransInv'
      <4>1. Numbered(newT)
        BY <2>9, <2>11, NumberedKept
      <4>2. \A j \in 1..Len(newT) : newT[j].id <= accepted
        BY <2>10, <2>11
      <4> QED BY <1>1, <2>6, <4>1, <4>2 DEF TransInv
    <3>2. ASSUME NEW s \in Slots PROVE Rising(queues'[s]) /\ AllAhead(queues'[s], newT, accepted)
      <4>1. CASE s = s0
        <5>1. \A j \in 1..Len(new) : Ahead(new[j], newT, accepted)
          <6> SUFFICES ASSUME NEW j \in 1..Len(new) PROVE Ahead(new[j], newT, accepted)
            OBVIOUS
          <6>1. CASE j \in 1..Len(q)
            <7>1. new[j] = q[j] /\ Ahead(q[j], tq, accepted)
              BY <2>7, <2>11, <2>12, <6>1 DEF AllAhead, q
            <7> QED BY <2>16, <7>1
          <6>2. CASE j \notin 1..Len(q)
            <7>1. new[j] \in {p1, p2}
              BY <2>12, <6>2
            <7> QED BY <2>17, <7>1
          <6> QED BY <6>1, <6>2
        <5> QED BY <2>14, <2>15, <4>1, <5>1 DEF AllAhead
      <4>2. CASE s # s0
        <5>1. queues'[s] = queues[s] /\ Rising(queues[s]) /\ AllAhead(queues[s], tq, accepted)
          BY <2>11, <2>15, <4>2
        <5> QED BY <2>16, <5>1 DEF AllAhead
      <4> QED BY <4>1, <4>2
    <3>3. \A s \in Slots' : Rising(queues'[s]) /\ AllAhead(queues'[s], transactionQueue', accepted')
      BY <1>0, <1>1, <2>6, <3>2
    <3> QED BY <3>1, <3>3 DEF TurnInv
  <2>19. Newer
    <3> SUFFICES ASSUME NEW b, NEW n \in Nat, WaitsFor(b, n)' PROVE WaitsFor(b, n)
      BY DEF Newer
    <3>1. CASE \E s \in Slots' : \E j \in 1..Len(queues'[s]) : b = queues'[s][j].addr /\ n = queues'[s][j].id
      <4>1. PICK s \in Slots : \E j \in 1..Len(queues'[s]) : b = queues'[s][j].addr /\ n = queues'[s][j].id
        BY <1>0, <3>1
      <4>2. PICK j \in 1..Len(queues'[s]) : b = queues'[s][j].addr /\ n = queues'[s][j].id
        BY <4>1
      <4>3. CASE s # s0
        BY <2>15, <4>2, <4>3 DEF WaitsFor
      <4>4. CASE s = s0 /\ j \in 1..Len(q)
        <5>1. b = q[j].addr /\ n = q[j].id
          BY <2>12, <2>15, <4>2, <4>4
        <5> QED BY <2>7, <4>4, <5>1 DEF WaitsFor, q
      <4>5. CASE s = s0 /\ j \notin 1..Len(q)
        <5>1. queues'[s][j] \in {p1, p2}
          BY <2>12, <2>15, <4>2, <4>5
        <5>2. b = t.addr /\ n = t.id
          BY <2>3, <4>2, <5>1
        <5> QED BY <2>1, <5>2
      <4> QED BY <4>3, <4>4, <4>5
    <3>2. CASE \E j \in 1..Len(newT) : b = newT[j].addr /\ n = newT[j].id
      <4>1. PICK j \in 1..Len(newT) : b = newT[j].addr /\ n = newT[j].id
        BY <3>2
      <4>2. PICK k \in 1..Len(tq) : newT[j] = tq[k]
        BY <2>10
      <4>3. k \in 1..Len(transactionQueue) /\ b = transactionQueue[k].addr /\ n = transactionQueue[k].id
        BY <4>1, <4>2 DEF tq
      <4> QED BY <4>3 DEF WaitsFor
    <3> QED BY <2>6, <3>1, <3>2 DEF WaitsFor
  <2>20. ASSUME NEW a, NEW n, QueuedRead(a, n) \/ TakenRead(a, n) PROVE QueuedRead(a, n)'
    <3>1. CASE QueuedRead(a, n)
      <4>1. PICK s \in Slots : \E k \in 1..Len(queues[s]) :
               queues[s][k].type \in Reads /\ a = queues[s][k].addr /\ n = queues[s][k].id
        BY <3>1 DEF QueuedRead
      <4>2. PICK k \in 1..Len(queues[s]) : queues[s][k].type \in Reads /\ a = queues[s][k].addr /\ n = queues[s][k].id
        BY <4>1
      <4>3. CASE s = s0
        <5>1. k \in 1..Len(queues'[s]) /\ queues'[s][k] = queues[s][k]
          BY <2>12, <2>15, <4>2, <4>3 DEF q
        <5> QED BY <1>0, <4>2, <5>1 DEF QueuedRead
      <4>4. CASE s # s0
        BY <1>0, <2>15, <4>2, <4>4 DEF QueuedRead
      <4> QED BY <4>3, <4>4
    <3>2. CASE TakenRead(a, n)
      <4>1. t.type = "READ" /\ a = t.addr /\ n = t.id
        BY <3>2 DEF TakenRead, t
      <4>2. p2.type \in Reads /\ a = p2.addr /\ n = p2.id
        BY <2>3, <2>4, <4>1
      <4>3. Len(q) + 2 \in 1..Len(queues'[s0]) /\ queues'[s0][Len(q) + 2] = p2 /\ s0 \in Slots'
        BY <1>0, <2>7, <2>12, <2>15
      <4> QED BY <4>2, <4>3 DEF QueuedRead
    <3> QED BY <2>20, <3>1, <3>2
  <2>21. ASSUME NEW a, NEW n, QueuedRead(a, n)' PROVE QueuedRead(a, n) \/ TakenRead(a, n)
    <3>1. PICK s \in Slots : \E k \in 1..Len(queues'[s]) :
             queues'[s][k].type \in Reads /\ a = queues'[s][k].addr /\ n = queues'[s][k].id
      BY <1>0, <2>21 DEF QueuedRead
    <3>2. PICK k \in 1..Len(queues'[s]) : queues'[s][k].type \in Reads /\ a = queues'[s][k].addr /\ n = queues'[s][k].id
      BY <3>1
    <3>3. CASE s # s0
      BY <2>15, <3>2, <3>3 DEF QueuedRead
    <3>4. CASE s = s0 /\ k \in 1..Len(q)
      <4>1. queues'[s][k] = queues[s][k] /\ k \in 1..Len(queues[s])
        BY <2>12, <2>15, <3>4 DEF q
      <4> QED BY <3>2, <4>1 DEF QueuedRead
    <3>5. CASE s = s0 /\ k \notin 1..Len(q)
      <4>1. queues'[s][k] \in {p1, p2}
        BY <2>12, <2>15, <3>2, <3>5
      <4>2. queues'[s][k] = p2
        BY <2>5, <3>2, <4>1
      <4>3. t.type = "READ" /\ a = t.addr /\ n = t.id
        BY <2>3, <2>4, <3>2, <4>2
      <4> QED BY <1>3, <4>3 DEF TakenRead, t
    <3> QED BY <3>3, <3>4, <3>5
  <2> QED BY <2>18, <2>19, <2>20, <2>21
<1> QED BY <1>2, <1>3

LEMMA QueuedWaits ==
  /\ \A a, n : QueuedRead(a, n) => WaitsFor(a, n)
  /\ \A a, n : Wanted(a, n) <=> QueuedRead(a, n) \/ \E p : \E x \in Int : OnTheWay(p, x) /\ a = p.addr /\ n = p.id
BY DEF QueuedRead, WaitsFor, Wanted

LEMMA PendingFacts ==
  ASSUME OrderInv, Inv
  PROVE  /\ Pending \in Seq(Transactions) /\ Climbing(Pending)
         /\ \A a, n : Listed(Pending, a, n) <=> Wanted(a, n) \/ TakenRead(a, n)
<1>0. TurnInv /\ GoneInv /\ PendInv /\ pendingReads \in Seq(Transactions)
  BY DEF OrderInv, Inv, TrafficInv
<1>1. Climbing(pendingReads) /\ \A a, n : Listed(pendingReads, a, n) <=> Wanted(a, n)
  BY <1>0 DEF PendInv
<1>2. CASE ~(Fitting # {} /\ Taken.type = "READ")
  <2>1. Pending = pendingReads
    BY <1>2 DEF Pending
  <2> QED BY <1>0, <1>1, <1>2, <2>1 DEF TakenRead
<1>3. CASE Fitting # {} /\ Taken.type = "READ"
  <2>1. Pending = Append(pendingReads, Taken)
    BY <1>3 DEF Pending
  <2>2. /\ Taken \in Transactions /\ Taken.id \in Nat /\ WaitsFor(Taken.addr, Taken.id)
        /\ Min(Fitting) \in 1..Len(transactionQueue) /\ Taken = transactionQueue[Min(Fitting)]
    BY <1>0, <1>3, TakenInTurn
  <2>3. ASSUME NEW n, Listed(pendingReads, Taken.addr, n) PROVE n < Taken.id
    <3>1. Wanted(Taken.addr, n)
      BY <1>1, <2>3
    <3>2. CASE \E s \in Slots : \E i \in 1..Len(queues[s]) :
                 queues[s][i].type \in Reads /\ Taken.addr = queues[s][i].addr /\ n = queues[s][i].id
      <4>1. PICK s \in Slots : \E i \in 1..Len(queues[s]) :
                 queues[s][i].type \in Reads /\ Taken.addr = queues[s][i].addr /\ n = queues[s][i].id
        BY <3>2
      <4>2. PICK i \in 1..Len(queues[s]) : Taken.addr = queues[s][i].addr /\ n = queues[s][i].id
        BY <4>1
      <4>3. Ahead(queues[s][i], transactionQueue, accepted)
        BY <1>0 DEF TurnInv, AllAhead
      <4> QED BY <2>2, <4>2, <4>3 DEF Ahead
    <3>3. CASE \E p : \E x \in Int : OnTheWay(p, x) /\ Taken.addr = p.addr /\ n = p.id
      <4>1. PICK p : \E x \in Int : OnTheWay(p, x) /\ Taken.addr = p.addr /\ n = p.id
        BY <3>3
      <4>2. Old(p)
        BY <1>0, <4>1 DEF GoneInv, ReadsGone
      <4> QED BY <2>2, <4>1, <4>2 DEF Old
    <3> QED BY <3>1, <3>2, <3>3 DEF Wanted
  <2>4. /\ \A a, n : Listed(Pending, a, n) <=> Listed(pendingReads, a, n) \/ (a = Taken.addr /\ n = Taken.id)
        /\ Climbing(Pending)
    BY <1>0, <1>1, <2>1, <2>2, <2>3, ListedAdd
  <2>5. Pending \in Seq(Transactions)
    BY <1>0, <2>1, <2>2, AppendProperties
  <2> QED BY <1>1, <1>3, <2>4, <2>5 DEF TakenRead
<1> QED BY <1>2, <1>3

\* Data that has come back was asked for before whatever else is wanted at
\* its address.
LEMMA BackFirst ==
  ASSUME OrderInv, Inv, returns # <<>>
  PROVE  /\ OnTheWay(returns[1], 0) /\ returns[1].id \in Nat
         /\ \A n \in Nat : QueuedRead(returns[1].addr, n) \/ TakenRead(returns[1].addr, n) => returns[1].id < n
         /\ \A p : \A x \in Int : OnTheWay(p, x) /\ p.addr = returns[1].addr /\ p.id <= returns[1].id
              => x = 0 /\ p = returns[1]
<1> DEFINE r == returns[1]
<1>0. TurnInv /\ ReadsGone /\ ReadsInOrder
  BY DEF OrderInv, GoneInv
<1>1. OnTheWay(r, 0)
  BY WayZero
<1>2. 0 \in Int
  OBVIOUS
<1>3. r.id \in Nat /\ Old(r)
  BY <1>0, <1>1, <1>2, WayFacts DEF ReadsGone
<1>4. \A p : OnTheWay(p, 0) => p = r
  BY WayZero
<1> HIDE DEF r
<1>5. ASSUME NEW n \in Nat, QueuedRead(r.addr, n) \/ TakenRead(r.addr, n) PROVE r.id < n
  <2>1. WaitsFor(r.addr, n)
    <3>1. CASE QueuedRead(r.addr, n)
      BY <3>1, QueuedWaits
    <3>2. CASE TakenRead(r.addr, n)
      <4>1. Fitting # {} /\ r.addr = Taken.addr /\ n = Taken.id
        BY <3>2 DEF TakenRead
      <4> QED BY <1>0, <4>1, TakenInTurn
    <3> QED BY <1>5, <3>1, <3>2
  <2> QED BY <1>3, <2>1 DEF Old
<1>6. ASSUME NEW p, NEW x \in Int, OnTheWay(p, x), p.addr = r.addr, p.id <= r.id PROVE x = 0 /\ p = r
  <2>1. 0 <= x /\ p.id \in Nat
    BY <1>6, WayFacts
  <2>2. x = 0
    <3> SUFFICES ASSUME 0 < x PROVE FALSE
      BY <2>1
    <3>1. r.id < p.id
      BY <1>0, <1>1, <1>2, <1>6 DEF ReadsInOrder
    <3> QED BY <1>3, <1>6, <2>1, <3>1
  <2> QED BY <1>4, <1>6, <2>2
<1> QED BY <1>1, <1>3, <1>5, <1>6 DEF r

LEMMA AnswersOwn ==
  ASSUME OrderInv, Inv, returns # <<>>
  PROVE  /\ Matching # {} /\ Min(Matching) \in 1..Len(Pending)
         /\ Pending[Min(Matching)].addr = returns[1].addr /\ Pending[Min(Matching)].id = returns[1].id
<1> DEFINE r == returns[1]
           m == Min(Matching)
<1>1. /\ Pending \in Seq(Transactions) /\ Climbing(Pending)
      /\ \A a, n : Listed(Pending, a, n) <=> Wanted(a, n) \/ TakenRead(a, n)
  BY PendingFacts
<1>2. Len(Pending) \in Nat /\ DOMAIN Pending = 1..Len(Pending)
  BY <1>1, LenProperties
<1>3. /\ OnTheWay(r, 0) /\ r.id \in Nat
      /\ \A n \in Nat : QueuedRead(r.addr, n) \/ TakenRead(r.addr, n) => r.id < n
      /\ \A p : \A x \in Int : OnTheWay(p, x) /\ p.addr = r.addr /\ p.id <= r.id => x = 0 /\ p = r
  BY BackFirst
<1>4. Matching = {i \in 1..Len(Pending) : Pending[i].addr = r.addr}
  BY <1>2 DEF Matching
<1> HIDE DEF r
<1>5. Listed(Pending, r.addr, r.id)
  <2>1. Wanted(r.addr, r.id)
    <3>1. 0 \in Int
      OBVIOUS
    <3> QED BY <1>3, <3>1 DEF Wanted
  <2> QED BY <1>1, <2>1
<1>6. PICK k \in 1..Len(Pending) : r.addr = Pending[k].addr /\ r.id = Pending[k].id
  BY <1>5 DEF Listed
<1>7. k \in Matching /\ Matching \in SUBSET Nat
  BY <1>4, <1>6
<1>8. m \in Matching /\ m <= k
  BY <1>7, Least
<1> HIDE DEF m
<1>9. m \in 1..Len(Pending) /\ Pending[m].addr = r.addr
  BY <1>4, <1>8
<1>10. Pending[m].id = r.id
  <2>1. CASE m = k
    BY <1>6, <2>1
  <2>2. CASE m # k
    <3> DEFINE n == Pending[m].id
    <3>1. m < k
      BY <1>8, <1>9, <2>2
    <3>2. n < r.id
      BY <1>1, <1>6, <1>9, <3>1 DEF Climbing
    <3>3. n \in Nat
      <4>1. Pending[m] \in Transactions
        BY <1>1, <1>9, ElementOfSeq
      <4> QED BY <4>1, ControllerAssumption DEF Transactions
    <3>4. Listed(Pending, r.addr, n)
      BY <1>9 DEF Listed
    <3>5. Wanted(r.addr, n) \/ TakenRead(r.addr, n)
      BY <1>1, <3>4
    <3> HIDE DEF n
    <3>6. ~(QueuedRead(r.addr, n) \/ TakenRead(r.addr, n))
      <4> SUFFICES ASSUME QueuedRead(r.addr, n) \/ TakenRead(r.addr, n) PROVE FALSE
        OBVIOUS
      <4>1. r.id < n
        BY <1>3, <3>3
      <4> QED BY <1>3, <3>2, <3>3, <4>1
    <3>7. \E p : \E x \in Int : OnTheWay(p, x) /\ r.addr = p.addr /\ n = p.id
      BY <3>5, <3>6, QueuedWaits
    <3>8. PICK p : \E x \in Int : OnTheWay(p, x) /\ r.addr = p.addr /\ n = p.id
      BY <3>7
    <3>9. p.id <= r.id /\ p.id # r.id
      BY <1>3, <3>2, <3>3, <3>8
    <3> QED BY <1>3, <3>8, <3>9
  <2> QED BY <2>1, <2>2
<1> QED BY <1>7, <1>9, <1>10 DEF r, m

LEMMA FinishPend ==
  ASSUME OrderInv, Inv, Finish
  PROVE  PendInv'
<1>0. TurnInv /\ OneReturns /\ Answer
  BY DEF OrderInv, GoneInv, Finish
<1>1. \A p : \A x \in Int : OnTheWay(p, x)' <=> OnTheWay(p, x) /\ x # 0
  BY <1>0, FinishWay
<1>2. \A a, n : QueuedRead(a, n)' <=> QueuedRead(a, n) \/ TakenRead(a, n)
  BY <1>0, FinishTurn
<1> DEFINE Coming(a, n) == \E p : \E x \in Int : OnTheWay(p, x) /\ a = p.addr /\ n = p.id
           ComingNow(a, n) == \E p : \E x \in Int : OnTheWay(p, x)' /\ a = p.addr /\ n = p.id
<1>3. \A a, n : Wanted(a, n) <=> QueuedRead(a, n) \/ Coming(a, n)
  BY DEF Wanted, QueuedRead
<1>4. \A a, n : Wanted(a, n)' <=> QueuedRead(a, n)' \/ ComingNow(a, n)
  BY DEF Wanted, QueuedRead
<1>5. /\ Pending \in Seq(Transactions) /\ Climbing(Pending)
      /\ \A a, n : Listed(Pending, a, n) <=> Wanted(a, n) \/ TakenRead(a, n)
  BY PendingFacts
<1>6. CASE returns = <<>>
  <2>1. \A p : ~OnTheWay(p, 0)
    BY <1>6, WayZero
  <2>2. \A a, n : ComingNow(a, n) <=> Coming(a, n)
    BY <1>1, <2>1
  <2>3. pendingReads' = Pending
    BY <1>0, <1>6 DEF Answer
  <2> HIDE DEF Coming, ComingNow
  <2>4. \A a, n : Wanted(a, n)' <=> Listed(Pending, a, n)
    BY <1>2, <1>3, <1>4, <1>5, <2>2
  <2> QED BY <1>5, <2>3, <2>4 DEF PendInv
<1>7. CASE returns # <<>>
  <2> DEFINE r == returns[1]
             m == Min(Matching)
             new == RemoveAt(Pending, m)
  <2>1. pendingReads' = new
    BY <1>0, <1>7 DEF Answer
  <2>2. m \in 1..Len(Pending) /\ Pending[m].addr = r.addr /\ Pending[m].id = r.id
    BY <1>7, AnswersOwn
  <2>3. /\ \A a, n : Listed(new, a, n) <=> Listed(Pending, a, n) /\ ~(a = r.addr /\ n = r.id)
        /\ Climbing(new)
    <3> HIDE DEF m, r
    <3> QED BY <1>5, <2>2, ListedRemoved
  <2> HIDE DEF new
  <2>4. /\ OnTheWay(r, 0) /\ r.id \in Nat
        /\ \A n \in Nat : QueuedRead(r.addr, n) \/ TakenRead(r.addr, n) => r.id < n
        /\ \A p : \A x \in Int : OnTheWay(p, x) /\ p.addr = r.addr /\ p.id <= r.id => x = 0 /\ p = r
    BY <1>7, BackFirst
  <2>5. \A p : OnTheWay(p, 0) => p = r
    BY WayZero
  <2> HIDE DEF r
  <2>6. ~(QueuedRead(r.addr, r.id) \/ TakenRead(r.addr, r.id))
    <3> SUFFICES ASSUME QueuedRead(r.addr, r.id) \/ TakenRead(r.addr, r.id) PROVE FALSE
      OBVIOUS
    <3>1. r.id < r.id
      BY <2>4
    <3> QED BY <2>4, <3>1
  <2>7. ~ComingNow(r.addr, r.id)
    <3> SUFFICES ASSUME NEW p, NEW x \in Int, OnTheWay(p, x)', r.addr = p.addr, r.id = p.id PROVE FALSE
      OBVIOUS
    <3>1. OnTheWay(p, x) /\ x # 0
      BY <1>1
    <3>2. p.id <= r.id
      BY <2>4
    <3> QED BY <2>4, <3>1, <3>2
  <2>8. \A a, n : ComingNow(a, n) => Coming(a, n)
    BY <1>1
  <2>9. \A a, n : Coming(a, n) => ComingNow(a, n) \/ (a = r.addr /\ n = r.id)
    BY <1>1, <2>5
  <2> HIDE DEF Coming, ComingNow
  <2>10. ASSUME NEW a, NEW n PROVE Wanted(a, n)' <=> Listed(new, a, n)
    <3>1. Wanted(a, n)' <=> QueuedRead(a, n) \/ TakenRead(a, n) \/ ComingNow(a, n)
      BY <1>2, <1>4
    <3>2. Listed(new, a, n) <=> (QueuedRead(a, n) \/ TakenRead(a, n) \/ Coming(a, n)) /\ ~(a = r.addr /\ n = r.id)
      BY <1>3, <1>5, <2>3
    <3>3. CASE a = r.addr /\ n = r.id
      BY <2>6, <2>7, <3>1, <3>2, <3>3
    <3>4. CASE ~(a = r.addr /\ n = r.id)
      BY <2>8, <2>9, <3>1, <3>2, <3>4
    <3> QED BY <3>3, <3>4
  <2> QED BY <2>1, <2>3, <2>10 DEF PendInv
<1> QED BY <1>6, <1>7

LEMMA FinishOrder ==
  ASSUME OrderInv, Inv, Inv', Finish
  PROVE  OrderInv'
<1>0. TurnInv /\ GoneInv /\ OneReturns /\ accepted \in Int
  BY DEF OrderInv, GoneInv, Inv, TrafficInv
<1>1. TurnInv' /\ Newer
  BY <1>0, FinishTurn
<1>2. WayMoves(0) /\ BusMoves(0) /\ ReadsHeld(0) /\ OneReturns'
  BY <1>0, FinishWay
<1>3. accepted <= accepted'
  BY <1>0 DEF Finish
<1>4. GoneInv'
  BY <1>0, <1>1, <1>2, <1>3, GoneKept
<1>5. PendInv'
  BY FinishPend
<1> QED BY <1>1, <1>4, <1>5 DEF OrderInv

LEMMA InitOrder ==
  ASSUME Init
  PROVE  OrderInv
<1>1. /\ transactionQueue = <<>> /\ pendingReads = <<>> /\ returns = <<>> /\ cmdBus = <<>> /\ dataBus = <<>>
      /\ writeData = <<>> /\ readReturn = [r \in Ranks |-> <<>>] /\ rankOut = [r \in Ranks |-> <<>>]
      /\ queues = [s \in Slots |-> <<>>] /\ accepted = 0
  BY DEF Init, RankInit, CommandQueueInit
<1>2. \A q : q = <<>> => \A i : i \notin 1..Len(q)
  OBVIOUS
<1>3. \A s \in Slots : queues[s] = <<>>
  BY <1>1
<1>4. TurnInv
  <2>1. Numbered(transactionQueue) /\ \A i \in 1..Len(transactionQueue) : transactionQueue[i].id <= accepted
    BY <1>1, <1>2 DEF Numbered
  <2>2. \A s \in Slots : Rising(queues[s]) /\ AllAhead(queues[s], transactionQueue, accepted)
    BY <1>2, <1>3 DEF Rising, AllAhead
  <2> QED BY <2>1, <2>2 DEF TurnInv, TransInv
<1>5. \A p, x : ~OnTheWay(p, x) /\ ~OnTheBus(p, x)
  <2>1. \A r \in Ranks : rankOut[r] = <<>> /\ readReturn[r] = <<>>
    BY <1>1
  <2> QED BY <1>1, <2>1, HoldsOf DEF OnTheWay, OnTheBus
<1>6. GoneInv
  <2>1. ReadsGone /\ WritesGone /\ WritesHold /\ ReadsBefore /\ ReadsInOrder
    BY <1>5 DEF ReadsGone, WritesGone, WritesHold, ReadsBefore, ReadsInOrder
  <2>2. OneReturns
    BY <1>1 DEF OneReturns
  <2> QED BY <2>1, <2>2 DEF GoneInv
<1>7. PendInv
  <2>1. \A a, n : ~Wanted(a, n)
    BY <1>2, <1>3, <1>5 DEF Wanted
  <2>2. \A a, n : ~Listed(pendingReads, a, n)
    BY <1>1, <1>2 DEF Listed
  <2>3. Climbing(pendingReads)
    BY <1>1, <1>2 DEF Climbing
  <2> QED BY <2>1, <2>2, <2>3 DEF PendInv
<1> QED BY <1>4, <1>6, <1>7 DEF OrderInv

LEMMA OrderStep ==
  ASSUME OrderInv, Inv, Inv', BusInv, [Next]_vars
  PROVE  OrderInv'
<1>1. CASE (\E type \in {"READ", "WRITE"}, a \in Addresses : AddTransaction(type, a)) \/ UNCHANGED vars
  BY <1>1, StillOrder
<1>2. CASE UpdateRanks
  BY <1>2, UpdateRanksOrder
<1>3. CASE UpdateBuses
  BY <1>3, UpdateBusesOrder
<1>4. CASE Issue
  BY <1>4, IssueOrder
<1>5. CASE Finish
  BY <1>5, FinishOrder
<1> QED BY <1>1, <1>2, <1>3, <1>4, <1>5 DEF Next

\* What the property speaks of is what the invariant speaks of.
LEMMA PipeHolds ==
  ASSUME NEW n \in Nat, NEW q, Pipe(q, n)
  PROVE  \A e \in Range(q) : Holds(q, e.pkt, e.left) /\ e.left \in Int
<1>1. Len(q) \in Nat /\ DOMAIN q = 1..Len(q) /\ \A i \in 1..Len(q) : q[i].left \in 1..n
  BY PipeFacts
<1> SUFFICES ASSUME NEW e \in Range(q) PROVE Holds(q, e.pkt, e.left) /\ e.left \in Int
  OBVIOUS
<1>2. PICK i \in 1..Len(q) : e = q[i]
  BY <1>1 DEF Range
<1>3. e.left \in 1..n
  BY <1>1, <1>2
<1>4. Holds(q, e.pkt, e.left)
  BY <1>2 DEF Holds
<1> QED BY <1>3, <1>4

LEMMA InFlightHeld ==
  ASSUME Inv, OneReturns
  PROVE  /\ \A w \in InFlightWrites : \E x \in Int : OnTheBus(w, x)
         /\ \A p \in ReadsUnderWay : \E x \in Int : OnTheWay(p, x)
<1>0. PipeInv /\ RL \in Nat /\ WL \in Nat /\ HalfBL \in Nat /\ returns \in Seq(Packets)
  BY Latencies DEF Inv, TrafficInv
<1>1. \A y \in Int : y + HalfBL \in Int /\ (y + HalfBL) - HalfBL = y
  BY <1>0
<1>2. ASSUME NEW w \in InFlightWrites PROVE \E x \in Int : OnTheBus(w, x)
  <2>1. Pipe(dataBus, HalfBL) /\ Pipe(writeData, WL)
    BY <1>0, FirstBank, PipesTyped
  <2>2. CASE w \in {e.pkt : e \in Range(writeData)}
    <3>1. PICK e \in Range(writeData) : w = e.pkt
      BY <2>2
    <3>2. Holds(writeData, w, e.left) /\ e.left \in Int
      BY <1>0, <2>1, <3>1, PipeHolds
    <3>3. OnTheBus(w, e.left + HalfBL)
      BY <1>1, <3>2 DEF OnTheBus
    <3> QED BY <1>1, <3>2, <3>3
  <2>3. CASE w \in {e.pkt : e \in Range(dataBus)}
    <3>1. PICK e \in Range(dataBus) : w = e.pkt
      BY <2>3
    <3>2. Holds(dataBus, w, e.left) /\ e.left \in Int
      BY <1>0, <2>1, <3>1, PipeHolds
    <3> QED BY <3>2 DEF OnTheBus
  <2> QED BY <2>2, <2>3 DEF InFlightWrites
<1>3. ASSUME NEW p \in ReadsUnderWay PROVE \E x \in Int : OnTheWay(p, x)
  <2>1. CASE p \in Range(returns)
    <3>1. PICK i \in DOMAIN returns : p = returns[i]
      BY <2>1 DEF Range
    <3>2. i \in 1..Len(returns) /\ Len(returns) \in Nat /\ Len(returns) <= 1
      BY <1>0, LenProperties DEF OneReturns
    <3>3. i = 1 /\ Len(returns) # 0
      BY <3>2
    <3>4. returns # <<>>
      BY <3>3, EmptySeq
    <3>5. OnTheWay(p, 0)
      BY <3>1, <3>3, <3>4 DEF OnTheWay
    <3>6. 0 \in Int
      OBVIOUS
    <3> QED BY <3>5, <3>6
  <2>2. ASSUME NEW r \in Ranks, p \in {e.pkt : e \in Range(readReturn[r])} PROVE \E x \in Int : OnTheWay(p, x)
    <3>1. PICK e \in Range(readReturn[r]) : p = e.pkt
      BY <2>2
    <3>2. Pipe(readReturn[r], RL)
      BY <1>0, PipesTyped
    <3>3. Holds(readReturn[r], p, e.left) /\ e.left \in Int
      BY <1>0, <3>1, <3>2, PipeHolds
    <3>4. OnTheWay(p, e.left + HalfBL)
      BY <1>1, <3>3 DEF OnTheWay
    <3> QED BY <1>1, <3>3, <3>4
  <2>3. ASSUME NEW r \in Ranks, p \in {e.pkt : e \in Range(rankOut[r])} PROVE \E x \in Int : OnTheWay(p, x)
    <3>1. PICK e \in Range(rankOut[r]) : p = e.pkt
      BY <2>3
    <3>2. Pipe(rankOut[r], HalfBL)
      BY <1>0, PipesTyped
    <3>3. Holds(rankOut[r], p, e.left) /\ e.left \in Int
      BY <1>0, <3>1, <3>2, PipeHolds
    <3>4. OnTheWay(p, e.left)
      BY <3>3 DEF OnTheWay
    <3> QED BY <3>3, <3>4
  <2> DEFINE Under(r) == {e.pkt : e \in Range(readReturn[r])} \cup {e.pkt : e \in Range(rankOut[r])}
  <2>4. CASE \E r \in Ranks : p \in Under(r)
    <3>1. PICK r \in Ranks : p \in Under(r)
      BY <2>4
    <3>2. CASE p \in {e.pkt : e \in Range(readReturn[r])}
      BY <2>2, <3>2
    <3>3. CASE p \in {e.pkt : e \in Range(rankOut[r])}
      BY <2>3, <3>3
    <3> QED BY <3>1, <3>2, <3>3
  <2>5. p \in Range(returns) \/ \E r \in Ranks : p \in Under(r)
    <3>1. p \in Range(returns) \cup UNION {Under(r) : r \in Ranks}
      BY DEF ReadsUnderWay
    <3> HIDE DEF Under
    <3> QED BY <3>1
  <2> QED BY <2>1, <2>4, <2>5
<1> QED BY <1>2, <1>3

LEMMA WaitingWaits ==
  ASSUME Inv, NEW q \in Waiting
  PROVE  WaitsFor(q.addr, q.id) /\ q.id \in Nat
<1>0. /\ QueueInv /\ queues \in [Slots -> Seq(Packets)] /\ transactionQueue \in Seq(Transactions)
  BY DEF Inv, CoreInv, QueueInv, TrafficInv
<1>1. CASE q \in Queued
  <2>1. PICK s \in Slots : q \in Range(queues[s])
    BY <1>1 DEF Queued
  <2>2. queues[s] \in Seq(Packets)
    BY <1>0
  <2>3. PICK i \in DOMAIN queues[s] : q = queues[s][i]
    BY <2>1 DEF Range
  <2>4. i \in 1..Len(queues[s])
    BY <2>2, LenProperties
  <2>5. q \in Packets
    BY <2>2, <2>3, <2>4, ElementOfSeq
  <2> QED BY <2>3, <2>4, <2>5 DEF WaitsFor, Packets
<1>2. CASE q \in Range(transactionQueue)
  <2>1. PICK i \in DOMAIN transactionQueue : q = transactionQueue[i]
    BY <1>2 DEF Range
  <2>2. i \in 1..Len(transactionQueue)
    BY <1>0, LenProperties
  <2>3. q \in Transactions
    BY <1>0, <2>1, <2>2, ElementOfSeq
  <2>4. q.id \in Nat
    BY <2>3, ControllerAssumption DEF Transactions
  <2> QED BY <2>1, <2>2, <2>4 DEF WaitsFor
<1> QED BY <1>1, <1>2 DEF Waiting

LEMMA Ordered ==
  ASSUME OrderInv, Inv
  PROVE  SameAddressInOrder
<1>0. OneReturns /\ ReadsGone /\ WritesGone /\ ReadsBefore
  BY DEF OrderInv, GoneInv
<1>1. /\ \A w \in InFlightWrites : \E x \in Int : OnTheBus(w, x)
      /\ \A p \in ReadsUnderWay : \E x \in Int : OnTheWay(p, x)
  BY <1>0, InFlightHeld
<1>2. ASSUME NEW p \in InFlightWrites \cup ReadsUnderWay, NEW q \in Waiting, p.addr = q.addr
      PROVE  p.id <= q.id
  <2>1. Old(p) /\ p.id \in Nat
    <3>1. CASE p \in InFlightWrites
      BY <1>0, <1>1, <3>1, BusFacts DEF WritesGone
    <3>2. CASE p \in ReadsUnderWay
      BY <1>0, <1>1, <3>2, WayFacts DEF ReadsGone
    <3> QED BY <3>1, <3>2
  <2>2. WaitsFor(q.addr, q.id) /\ q.id \in Nat
    BY WaitingWaits
  <2>3. p.id < q.id
    BY <1>2, <2>1, <2>2 DEF Old
  <2> QED BY <2>1, <2>2, <2>3
<1>3. \A p \in ReadsUnderWay, w \in InFlightWrites : p.addr = w.addr => p.id < w.id
  BY <1>0, <1>1 DEF ReadsBefore
<1>4. phase = "finish" /\ returns # <<>> => Matching # {} /\ Pending[Min(Matching)].id = returns[1].id
  BY AnswersOwn
<1> QED BY <1>2, <1>3, <1>4 DEF SameAddressInOrder

\* Whatever the timing and the policy, the accesses to one address keep their
\* order from the transaction queue to the data that comes back: no command
\* overtakes an older one of its address, no read is with its rank while the
\* data of an older write is still to come, and the read at the front of
\* the pending ones of an address is the one whose data arrives.
THEOREM AddressesInOrder == Spec => []SameAddressInOrder
<1>1. Init => BusInv /\ OrderInv
  BY InitBursts, InitOrder
<1>2. BusInv /\ Inv /\ [Next]_vars => BusInv'
  BY BusStep
<1>3. OrderInv /\ Inv /\ Inv' /\ BusInv /\ [Next]_vars => OrderInv'
  BY OrderStep
<1>4. Inv /\ OrderInv => SameAddressInOrder
  BY Ordered
<1> QED BY <1>1, <1>2, <1>3, <1>4, Invariance, PTL DEF Spec
=============================================================================
