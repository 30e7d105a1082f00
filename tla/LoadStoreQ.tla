----------------------------- MODULE LoadStoreQ -----------------------------
(***************************************************************************)
(* The load/store queue of a core (sim/tile/LoadStoreQ.cpp).  lm and sm,   *)
(* the queues by address, are what lq and sq hold of that address.  The    *)
(* queue knows an address before it is resolved: it comes from the trace.  *)
(* STADDR and LD_PROD are in module DecoupledQueue.                        *)
(***************************************************************************)
EXTENDS CoreProgram

VARIABLES
  lq, sq,               \* sequences of nodes
  unresolvedLd, unresolvedSt,
  windowStart,          \* the position of the first node that has not left the window
  issued                \* the nodes that have the flag issued

lsqVars == <<lq, sq, unresolvedLd, unresolvedSt>>

LsqInit == lq = <<>> /\ sq = <<>> /\ unresolvedLd = {} /\ unresolvedSt = {}

\* A window of one that issues one instruction does not use the queue.
Bypassed == config.width = 1 /\ config.window = 1

LeftRob(d) == Position(d) < windowStart
SameAddress(q, d) == {e \in ToSet(q) : Addr(e) = Addr(d)}

----------------------------------------------------------------------------
(* Admission of a context, and its instructions.                           *)

\* The k-th access of a context has k - 1 of them before it.
MemoryNodes(c, types) ==
  LET accesses == {d \in NodesOf(c) : Type(d) \in types}
  IN  IF Bypassed THEN <<>>
      ELSE [k \in 1..Cardinality(accesses) |->
              CHOOSE d \in accesses : Cardinality({e \in accesses : Older(e, d)}) = k - 1]

\* The entries that must go before n more fit.
Need(q, n) == IF config.lsq = -1 THEN 0 ELSE Max({0, Len(q) + n - config.lsq})

\* Mutant: an entry goes as soon as it has issued.
MayGoMutant(q, k) == k <= Len(q) /\ \A i \in 1..k : q[i] \in issued

\* Only nodes that have left the window go.
MayGo(q, k) == k <= Len(q) /\ \A i \in 1..k : LeftRob(q[i])

\* The counts of a block do not have its atomics (Graph.cpp, addInst).
CountOf(c, type) == Cardinality({i \in DOMAIN Block(c) : Block(c)[i].type = type})
LdNeed(c) == Need(lq, CountOf(c, "LD"))
StNeed(c) == Need(sq, CountOf(c, "ST"))
CheckSize(c) == MayGo(lq, LdNeed(c)) /\ MayGo(sq, StNeed(c))

Without(q, k) == SubSeq(q, k + 1, Len(q))

----------------------------------------------------------------------------
(* The tests an instruction takes before it issues.                        *)

UnresolvedStore(d) ==
  \E e \in unresolvedSt :
     IF config.speculate THEN Older(e, d) /\ Addr(e) = Addr(d) ELSE ~Older(d, e)

UnresolvedLoad(d) == \E e \in unresolvedLd : ~Older(d, e)

\* check_load_issue: -1 wait, 0 speculate, 1 issue.
CheckLoadIssue(d) ==
  IF Bypassed THEN 1
  ELSE IF UnresolvedStore(d) /\ ~config.speculate THEN -1
  ELSE IF SameAddress(sq, d) = {} THEN (IF UnresolvedStore(d) THEN 0 ELSE 1)
  ELSE IF \E e \in SameAddress(sq, d) : Older(e, d) /\ ~LeftRob(e) /\ e \notin issued THEN -1
  ELSE 1

\* Mutant: a store does not wait for the loads before it.
CheckStoreIssueMutant(d) ==
  \/ Bypassed
  \/ /\ ~UnresolvedStore(d)
     /\ \A e \in SameAddress(sq, d) : Older(e, d) => LeftRob(e)

\* check_store_issue, for stores and atomics.
CheckStoreIssue(d) ==
  \/ Bypassed
  \/ /\ ~UnresolvedStore(d) /\ ~UnresolvedLoad(d)
     /\ \A e \in SameAddress(sq, d) \cup SameAddress(lq, d) : Older(e, d) => LeftRob(e)

\* check_forwarding: -1 read memory, 0 forward speculatively, 1 forward.  The
\* candidate is the youngest of the older stores to the address, whatever its
\* state.
Candidates(d) == {e \in SameAddress(sq, d) : Older(e, d)}
CheckForwarding(d) ==
  IF Bypassed \/ Candidates(d) = {} \/ LeftRob(Youngest(Candidates(d))) THEN -1
  ELSE IF \E e \in unresolvedSt : Older(e, d) /\ Older(Youngest(Candidates(d)), e) THEN 0
  ELSE 1

\* resolveAddress, of a set of nodes.
ResolveAddresses(D) ==
  IF Bypassed THEN UNCHANGED <<unresolvedLd, unresolvedSt>>
  ELSE unresolvedLd' = unresolvedLd \ D /\ unresolvedSt' = unresolvedSt \ D
=============================================================================
