--------------------------- MODULE AddressMapping ---------------------------
(***************************************************************************)
(* The address mapping of DRAMSim2 (AddressMapping.cpp): a physical        *)
(* address is cut into a channel, a rank, a bank, a row and a column, from *)
(* its low bits upwards, in an order the scheme decides.                   *)
(*                                                                         *)
(* Taking w low bits with shifts and an exclusive or is written with % and *)
(* \div.  The alignment warning and the debug output are left out.         *)
(***************************************************************************)
EXTENDS Naturals, Sequences

CONSTANTS
  NumChans, NumRanks, NumBanks, NumRows,
  NumCols,       \* columns a transaction can start at: NUM_COLS without the COL_LOW bits
  OffsetWidth    \* BYTE_OFFSET_WIDTH + COL_LOW_BIT_WIDTH

ASSUME MappingAssumption ==
  /\ {NumChans, NumRanks, NumBanks, NumRows, NumCols} \subseteq Nat \ {0}
  /\ OffsetWidth \in Nat

\* dramsim_log2 rounds up: the width that holds every number below v.
Log2(v) == CHOOSE k \in 0..v : 2^k >= v /\ \A j \in 0..v : 2^j >= v => k <= j

Fields == {"chan", "rank", "bank", "row", "col"}

Size == [chan |-> NumChans, rank |-> NumRanks, bank |-> NumBanks, row |-> NumRows, col |-> NumCols]

Schemes == {"Scheme1", "Scheme2", "Scheme3", "Scheme4", "Scheme5", "Scheme6", "Scheme7"}

\* The fields of an address in the order they are cut off, low bits first.
Layout ==
  [Scheme1 |-> <<"bank", "col", "row", "rank", "chan">>,
   Scheme2 |-> <<"rank", "bank", "col", "row", "chan">>,
   Scheme3 |-> <<"row", "col", "bank", "rank", "chan">>,
   Scheme4 |-> <<"col", "row", "bank", "rank", "chan">>,
   Scheme5 |-> <<"bank", "rank", "col", "row", "chan">>,
   Scheme6 |-> <<"col", "rank", "bank", "row", "chan">>,
   Scheme7 |-> <<"chan", "bank", "rank", "col", "row">>]

\* How many values the i-th field of a scheme can take.
Span(scheme, i) == 2^Log2(Size[Layout[scheme][i]])

\* addressMapping: cut the fields off one after the other.
Mapped(scheme, address) ==
  LET a1 == address \div 2^OffsetWidth
      a2 == a1 \div Span(scheme, 1)
      a3 == a2 \div Span(scheme, 2)
      a4 == a3 \div Span(scheme, 3)
      a5 == a4 \div Span(scheme, 4)
      digits == <<a1 % Span(scheme, 1), a2 % Span(scheme, 2), a3 % Span(scheme, 3),
                  a4 % Span(scheme, 4), a5 % Span(scheme, 5)>>
  IN  [f \in Fields |-> digits[CHOOSE i \in 1..5 : Layout[scheme][i] = f]]

\* findChannelNumber maps nothing when there is one channel.
ChannelOf(scheme, address) == IF NumChans = 1 THEN 0 ELSE Mapped(scheme, address).chan
=============================================================================
