-------------------------- MODULE BranchPredictor --------------------------
(***************************************************************************)
(* The branch predictors of a core (sim/tile/Bpred.cpp) as operators over  *)
(* a record [table, history]: the saturating counters of bht and the       *)
(* global history of gshare.  The probabilistic predictor, which the code  *)
(* keeps for testing, is the only one that draws a number.                 *)
(***************************************************************************)
EXTENDS Integers, FiniteSetsExt

CONSTANTS
  Predictors,           \* TypeBpred: the kinds an instance is checked with
  BhtSize,              \* a power of two
  HistoryBits           \* gshare_global_hist_bits

ASSUME PredictorAssumption ==
  /\ Predictors \subseteq {"none", "always_NT", "always_T", "onebit", "twobit", "gshare",
                           "perfect", "probabilistic"}
  /\ HistoryBits \in Nat
  /\ \E k \in 0..16 : BhtSize = 2^k

\* The top of the counters, and where they start.
Ceiling(kind) == IF kind = "onebit" THEN 1 ELSE 3
Untrained(kind) == IF kind = "twobit" THEN 2 ELSE 1

NewPredictor(kind) == [table |-> [i \in 0..(BhtSize - 1) |-> Untrained(kind)], history |-> 0]

Bits == 0..15
BitOf(n, k) == (n \div 2^k) % 2
Xor(a, b) == MapThenSumSet(LAMBDA k : IF BitOf(a, k) # BitOf(b, k) THEN 2^k ELSE 0, Bits)

Row(kind, p, pc) == (IF kind = "gshare" THEN Xor(pc, p.history) ELSE pc) % BhtSize

\* The predictions a kind can give of a branch that is taken or not.
Predictions(kind, p, pc, taken) ==
  CASE kind = "none"          -> {~taken}
    [] kind = "perfect"       -> {taken}
    [] kind = "always_NT"     -> {FALSE}
    [] kind = "always_T"      -> {TRUE}
    [] kind = "probabilistic" -> BOOLEAN
    [] kind = "onebit"        -> {p.table[Row(kind, p, pc)] = 1}
    [] OTHER                  -> {p.table[Row(kind, p, pc)] >= 2}

\* The predictor once the outcome is known.
Trained(kind, p, pc, taken) ==
  IF kind \notin {"onebit", "twobit", "gshare"} THEN p
  ELSE [table |-> [p.table EXCEPT ![Row(kind, p, pc)] =
                     IF taken THEN Min({@ + 1, Ceiling(kind)}) ELSE Max({@ - 1, 0})],
        history |-> IF kind = "gshare"
                    THEN (2 * p.history + (IF taken THEN 1 ELSE 0)) % 2^HistoryBits
                    ELSE p.history]

PredictorOK(p) ==
  /\ p.table \in [0..(BhtSize - 1) -> 0..3]
  /\ p.history \in 0..(2^HistoryBits - 1)
=============================================================================
