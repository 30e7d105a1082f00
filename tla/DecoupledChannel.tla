--------------------------- MODULE DecoupledChannel ---------------------------
(***************************************************************************)
(* What the DESCQ promises the two cores, without its buffers: a channel   *)
(* of at most Capacity entries, each reserved by the supply core, filled   *)
(* with its value and taken once by the compute core; and a store port     *)
(* that writes in program order, one store per value the compute core      *)
(* supplies, the next value only after the previous write.                 *)
(***************************************************************************)
EXTENDS Integers, FiniteSets

CONSTANTS
  Entries,   \* desc_ids of the loads
  NumWrites, \* stores of the program
  Capacity   \* commQ_size

VARIABLES
  entry,     \* state of each entry
  values,    \* how many values the compute core has supplied
  written    \* how many stores have been written

EntryState == {"free", "reserved", "full", "taken"}

TypeOK ==
  /\ entry \in [Entries -> EntryState]
  /\ values \in 0 .. NumWrites
  /\ written \in 0 .. NumWrites

Held == {p \in Entries : entry[p] \in {"reserved", "full"}}

Init ==
  /\ entry = [p \in Entries |-> "free"]
  /\ values = 0
  /\ written = 0

Reserve(p) ==
  /\ entry[p] = "free"
  /\ Cardinality(Held) < Capacity
  /\ entry' = [entry EXCEPT ![p] = "reserved"]
  /\ UNCHANGED <<values, written>>

\* One step may fill several entries: a store value that forwards to them all.
Fill(P) ==
  /\ \A p \in P : entry[p] = "reserved"
  /\ entry' = [p \in Entries |-> IF p \in P THEN "full" ELSE entry[p]]
  /\ UNCHANGED <<values, written>>

Take(p) ==
  /\ entry[p] = "full"
  /\ entry' = [entry EXCEPT ![p] = "taken"]
  /\ UNCHANGED <<values, written>>

SupplyValue ==
  /\ values = written /\ values < NumWrites
  /\ values' = values + 1
  /\ UNCHANGED <<entry, written>>

Write ==
  /\ written < values
  /\ written' = written + 1
  /\ UNCHANGED <<entry, values>>

Next ==
  \/ \E p \in Entries : Reserve(p) \/ Take(p)
  \/ \E P \in SUBSET Entries : Fill(P)
  \/ SupplyValue
  \/ Write

Spec == Init /\ [][Next]_<<entry, values, written>>
=============================================================================
