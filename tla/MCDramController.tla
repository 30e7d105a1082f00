-------------------------- MODULE MCDramController --------------------------
(* An instance of DramController for TLC.                                  *)
EXTENDS DramController

Policy(rows, structure, scheduling) ==
  [rows |-> rows, structure |-> structure, scheduling |-> scheduling]

\* The packaged configuration (the first) and the other ways to queue.
MCPolicies ==
  {Policy("OpenPage", "PerRank", "RankThenBank"),
   Policy("OpenPage", "PerRankPerBank", "BankThenRank"),
   Policy("ClosePage", "PerRank", "BankThenRank"),
   Policy("ClosePage", "PerRankPerBank", "RankThenBank")}
=============================================================================
