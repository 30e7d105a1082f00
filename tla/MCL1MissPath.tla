---------------------------- MODULE MCL1MissPath ----------------------------
(* Transactions and lines for checking L1MissPath.                         *)
EXTENDS L1MissPath, TLC

CONSTANTS t1, t2, p1, x, y

LinesOf(a, b, p) == (t1 :> a) @@ (t2 :> b) @@ (p1 :> p)

\* The prefetch meets both accesses in one entry, or one of them while the other
\* waits for an entry.
MCPlacements == {LinesOf(x, x, x), LinesOf(x, y, x)}
=============================================================================
