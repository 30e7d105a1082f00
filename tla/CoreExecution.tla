--------------------------- MODULE CoreExecution ---------------------------
(***************************************************************************)
(* A core out of program order: Core::process (sim/tile/Core.cpp) and the  *)
(* contexts and nodes it drives (sim/tile/DynamicNode.cpp).  The phases of *)
(* a cycle are those of Core::process: retire what has completed, take the *)
(* answers of the caches, issue in program order, complete, create the     *)
(* contexts that are due.  Latencies are arbitrary: a node leaves pq, and  *)
(* a load memory, in any later cycle.  Barriers, decoupled instructions    *)
(* and accelerators are in modules of their own; statistics are left out.  *)
(***************************************************************************)
EXTENDS LoadStoreQ, BranchPredictor

CONSTANTS
  Units,                \* num_units of each type; -1 is any number
  BranchLookahead,      \* branch_lookahead, 50 in the code
  MaxPorts              \* bound: accesses the cache takes in a cycle

\* A size, or -1 for as many as there are.
Sizes == {-1} \cup (Nat \ {0})

ASSUME CoreAssumption ==
  /\ \A x \in Configs :
        /\ {x.window, x.width, x.lsq, x.active} \subseteq Sizes
        /\ {x.speculate, x.forward, x.allAtOnce} \subseteq BOOLEAN
        /\ x.predictor \in Predictors
  /\ BranchLookahead \in Nat /\ MaxPorts \in Nat \ {0}
  /\ Units \in [{"ALU", "PHI", "TERMINATOR", "LD", "ST", "ATOMIC"} -> Sizes]

VARIABLES
  phase,
  created, toCreate,    \* total_created_contexts, context_to_create
  owner,                \* curr_owner: the youngest context of a block
  activeLeft,           \* outstanding_contexts: the contexts of a block that may still start
  predictor,
  mispredicted,         \* the terminators with the flag
  pending, pendingExt,  \* pending_parents, pending_external_parents
  extDependents,        \* external_dependents
  issueSet, toVisit,    \* the issue sets; what this cycle has still to visit of them
  speculatedSet, speculated, outstanding,
  pq, atMemory,
  completed,
  windowEnd, issueCount,
  availableFUs, ports

contextVars == <<created, toCreate, owner, activeLeft, predictor, mispredicted>>
parentVars == <<pending, pendingExt, extDependents>>
windowVars == <<windowStart, windowEnd, issueCount>>
speculationVars == <<speculatedSet, speculated, outstanding>>
vars == <<program, config, lsqVars, issued, phase, contextVars, parentVars, windowVars,
          issueSet, toVisit, speculationVars, pq, atMemory, completed, availableFUs, ports>>

Blocks == 1..MaxContexts
Types == DOMAIN Units

Init ==
  /\ program \in Programs /\ config \in Configs
  /\ LsqInit
  /\ phase = "retire"
  /\ created = 0 /\ toCreate = 1
  /\ owner = [b \in DOMAIN program.blocks |-> 0]
  /\ activeLeft = [b \in DOMAIN program.blocks |-> config.active]
  /\ predictor = NewPredictor(config.predictor)
  /\ mispredicted = {}
  /\ pending = NoNodes /\ pendingExt = NoNodes
  /\ extDependents = [d \in NodeIds |-> {}]
  /\ issueSet = {} /\ toVisit = {} /\ issued = {} /\ completed = {}
  /\ speculatedSet = {} /\ speculated = {} /\ outstanding = NoNodes
  /\ pq = {} /\ atMemory = {}
  /\ windowStart = 0 /\ windowEnd = 0 /\ issueCount = 0
  /\ availableFUs = Units
  /\ ports = 0

CreatedNodes == UNION {NodesOf(c) : c \in 1..created}
Live == {c \in 1..created : ~(NodesOf(c) \subseteq completed)}

----------------------------------------------------------------------------
(* The window retires in order, and the caches answer.                     *)

WindowAfter ==
  LET open == {Position(d) : d \in CreatedNodes \ completed}
  IN  IF open = {} THEN Cardinality(CreatedNodes) ELSE Min(open)

\* The greatest uint64_t: the end of an infinite window wraps once.
LastPosition == MaxContexts * MaxBlock + BranchLookahead

\* IssueWindow::process, then handleMemoryReturn for what the caches answer.
\* An answer to a load that is still waited for elsewhere only counts.
Retire ==
  /\ phase = "retire" /\ phase' = "issue"
  /\ issueCount' = 0
  /\ windowStart' = WindowAfter
  /\ windowEnd' = IF windowStart' = windowStart THEN windowEnd
                  ELSE IF config.window + windowStart' < 1 THEN LastPosition
                  ELSE config.window + windowStart' - 1
  /\ \E answered \in SUBSET atMemory :
        LET left == [d \in NodeIds |-> IF d \in answered /\ config.speculate /\ outstanding[d] > 0
                                       THEN outstanding[d] - 1 ELSE outstanding[d]]
        IN  /\ atMemory' = atMemory \ answered
            /\ outstanding' = left
            /\ pq' = pq \cup {d \in answered : config.speculate => left[d] = 0}
  /\ toVisit' = issueSet
  /\ ports' \in 0..MaxPorts
  /\ UNCHANGED <<program, config, lsqVars, issued, contextVars, parentVars, issueSet,
                 speculatedSet, speculated, completed, availableFUs>>

----------------------------------------------------------------------------
(* Issue: the issue sets of the live contexts, in program order.           *)

CanIssue(d) ==
  /\ config.width # -1 => issueCount < config.width
  /\ config.window # -1 => Position(d) \in windowStart..windowEnd

Visits(d) == phase = "issue" /\ toVisit # {} /\ d = Oldest(toVisit)

\* The first node the window refuses ends the cycle's issue.
WindowFull(d) ==
  /\ Visits(d) /\ ~CanIssue(d)
  /\ toVisit' = {}
  /\ UNCHANGED <<program, config, lsqVars, issued, phase, contextVars, parentVars, windowVars,
                 issueSet, speculationVars, pq, atMemory, completed, availableFUs, ports>>

\* Mutant: a unit is taken when there is none.
UnitFreeMutant(d) == TRUE

UnitFree(d) == availableFUs[Type(d)] # 0

\* How a load gets its data: from an older store, from one it guesses to be
\* the right one, or from memory, if the queue lets it.
Forwards(d) == Type(d) = "LD" /\ config.forward /\ CheckForwarding(d) = 1
ForwardsOnGuess(d) ==
  Type(d) = "LD" /\ config.forward /\ config.speculate /\ CheckForwarding(d) = 0
\* A guess without speculation reads memory and skips the queue's test.
GoesUnchecked(d) == config.forward /\ CheckForwarding(d) = 0 /\ ~config.speculate
LoadReads(d) == Type(d) = "LD" /\ ~Forwards(d) /\ ~ForwardsOnGuess(d)
                /\ (GoesUnchecked(d) \/ CheckLoadIssue(d) >= 0)
SpeculatesRead(d) == LoadReads(d) /\ ~GoesUnchecked(d) /\ CheckLoadIssue(d) = 0
Writes(d) == Type(d) \in {"ST", "ATOMIC"} /\ CheckStoreIssue(d)

Accepted(d) ==
  IF IsMem(d) THEN ports > 0 /\ (Forwards(d) \/ ForwardsOnGuess(d) \/ LoadReads(d) \/ Writes(d))
  ELSE UnitFree(d)

Refused(d) ==
  /\ Visits(d) /\ CanIssue(d) /\ ~Accepted(d)
  /\ toVisit' = toVisit \ {d}
  /\ UNCHANGED <<program, config, lsqVars, issued, phase, contextVars, parentVars, windowVars,
                 issueSet, speculationVars, pq, atMemory, completed, availableFUs, ports>>

\* What every node that issues does.  A PHI takes no issue slot.
Issues(d) ==
  /\ Visits(d) /\ CanIssue(d) /\ Accepted(d)
  /\ toVisit' = toVisit \ {d} /\ issueSet' = issueSet \ {d}
  /\ issued' = issued \cup {d}
  /\ issueCount' = IF Type(d) = "PHI" THEN issueCount ELSE issueCount + 1
  /\ UNCHANGED <<program, config, lsqVars, phase, contextVars, parentVars, windowStart, windowEnd,
                 completed>>

IssueComp(d) ==
  /\ ~IsMem(d) /\ Issues(d)
  /\ availableFUs' = IF availableFUs[Type(d)] = -1 THEN availableFUs
                     ELSE [availableFUs EXCEPT ![Type(d)] = @ - 1]
  /\ pq' = pq \cup {d}
  /\ UNCHANGED <<speculationVars, atMemory, ports>>

ForwardLoad(d) ==
  /\ IsMem(d) /\ Forwards(d) /\ Issues(d)
  /\ pq' = pq \cup {d} /\ speculated' = speculated \ {d}
  /\ UNCHANGED <<speculatedSet, outstanding, atMemory, availableFUs, ports>>

ForwardOnGuess(d) ==
  /\ IsMem(d) /\ ForwardsOnGuess(d) /\ Issues(d)
  /\ speculatedSet' = speculatedSet \cup {d} /\ speculated' = speculated \cup {d}
  /\ UNCHANGED <<outstanding, pq, atMemory, availableFUs, ports>>

ReadMemory(d) ==
  /\ IsMem(d) /\ LoadReads(d) /\ Issues(d)
  /\ speculated' = IF SpeculatesRead(d) THEN speculated \cup {d} ELSE speculated \ {d}
  /\ outstanding' = IF SpeculatesRead(d) THEN [outstanding EXCEPT ![d] = @ + 1] ELSE outstanding
  /\ atMemory' = atMemory \cup {d} /\ ports' = ports - 1
  /\ UNCHANGED <<speculatedSet, pq, availableFUs>>

\* A store completes by itself; its answer changes nothing.
WriteMemory(d) ==
  /\ IsMem(d) /\ Writes(d) /\ Issues(d)
  /\ speculated' = speculated \ {d} /\ ports' = ports - 1
  /\ IF Type(d) = "ST" THEN pq' = pq \cup {d} /\ UNCHANGED atMemory
     ELSE atMemory' = atMemory \cup {d} /\ UNCHANGED pq
  /\ UNCHANGED <<speculatedSet, outstanding, availableFUs>>

----------------------------------------------------------------------------
(* Completion.                                                             *)

\* must_wait_for_parents.
MustWait(d, flags) == Type(d) # "TERMINATOR" \/ d \in flags

\* The nodes of D that tryActivate puts in the issue set.
Activated(D, inBlock, outside, flags, started) ==
  {d \in D \ started :
     LET waits == inBlock[d] > 0 \/ outside[d] > 0
         near == Position(d) + BranchLookahead <= windowEnd
     IN  waits => ~MustWait(d, flags) /\ near}

\* What a node that completes tells its block, other blocks and the PHIs of
\* the next context.
Dependents(d) == {e \in NodesOf(d[1]) : d[2] \in Instr(e).parents}
PhiDependents(d) ==
  IF d[1] + 1 > created THEN {} ELSE {e \in NodesOf(d[1] + 1) : Static(d) \in Instr(e).phi}
AddressDependents(d) == {e \in NodesOf(d[1]) : d[2] \in Instr(e).addrParents}

\* check_speculation: loads to replay because the store d has completed.  It
\* asks for older loads; the store has waited for those, so there are none.
Misspeculated(d) ==
  {e \in SameAddress(lq, d) : Older(e, d) /\ e \in speculated}
Replayed(D) ==
  IF config.speculate /\ config.width > 1 /\ config.window > 1
  THEN UNION {Misspeculated(d) : d \in {e \in D : Type(e) = "ST"}} ELSE {}

\* Mutant: the PHIs of a context that already exists are not told.
InBlockOrPhiMutant(d) == Dependents(d)

InBlockOrPhi(d) == Dependents(d) \cup PhiDependents(d)

\* finishNode, of all the nodes that complete in this cycle.
FinishNodes(D) ==
  LET again == Replayed(D)
      left == [d \in NodeIds |-> pending[d] - Cardinality({e \in D : d \in InBlockOrPhi(e)})]
      leftExt == [d \in NodeIds |-> pendingExt[d] - Cardinality({e \in D : d \in extDependents[e]})]
      told == again \cup UNION {InBlockOrPhi(d) \cup extDependents[d] : d \in D}
      active == Activated(told, left, leftExt, mispredicted, (issued \cup completed \cup D) \ again)
      over == {c \in Live : NodesOf(c) \subseteq completed'}
  IN  /\ completed' = (completed \cup D) \ again
      /\ issued' = issued \ again
      /\ speculated' = speculated \ (again \cup D)
      /\ pending' = left /\ pendingExt' = leftExt
      /\ extDependents' = [d \in NodeIds |-> IF d \in D THEN {} ELSE extDependents[d]]
      /\ issueSet' = issueSet \cup active
      /\ ResolveAddresses({d \in active : IsMem(d)} \cup UNION {AddressDependents(d) : d \in D})
      /\ availableFUs' = [t \in Types |-> IF availableFUs[t] = -1 THEN -1
                           ELSE availableFUs[t] + Cardinality({d \in D : Type(d) = t})]
      /\ toCreate' = IF config.allAtOnce THEN toCreate
                     ELSE toCreate + Cardinality({d \in D : Type(d) = "TERMINATOR"})
      /\ activeLeft' = [b \in DOMAIN activeLeft |->
           IF config.active = -1 THEN -1
           ELSE activeLeft[b] + Cardinality({c \in over : BB(c) = b})]

\* Mutant: a guess is looked at again only once its flag is gone.
SettledMutant == {d \in speculatedSet : ~(config.speculate /\ d \in speculated)}

\* The guesses that no older store can still prove wrong.
Settled == {d \in speculatedSet :
              ~(config.speculate /\ d \in speculated /\ UnresolvedStore(d))}

Complete ==
  /\ phase = "issue" /\ toVisit = {}
  /\ phase' = "create"
  /\ \E due \in SUBSET pq :
        /\ FinishNodes(due \cup Settled)
        /\ pq' = pq \ due
  /\ speculatedSet' = speculatedSet \ Settled
  /\ UNCHANGED <<program, config, lq, sq, created, owner, predictor, mispredicted, windowVars,
                 toVisit, outstanding, atMemory, ports>>

----------------------------------------------------------------------------
(* Creation of contexts.                                                   *)

\* predict_branch_and_check: the destinations of a block are the blocks the
\* trace has after it; the greater one of two is the taken one.
Destinations(b) == {BB(c + 1) : c \in {k \in 1..(TraceLength - 1) : BB(k) = b}}
Taken(c) ==
  c < TraceLength /\ Cardinality(Destinations(BB(c))) = 2 => BB(c + 1) = Max(Destinations(BB(c)))
Conditional(c) == program.blocks[BB(c)].cond
Wrong(c) ==
  IF ~Conditional(c) THEN {FALSE}
  ELSE {p # Taken(c) : p \in Predictions(config.predictor, predictor, BB(c), Taken(c))}

MayStart(c) == config.active = -1 \/ activeLeft[BB(c)] > 0

CreateContext ==
  LET c == created + 1
      owners == [owner EXCEPT ![BB(c)] = c]
      branch == <<c, Len(Block(c))>>
      \* the parents that have not completed
      merged(d) == {<<c - 1, e[2]>> : e \in {f \in Instr(d).phi : c > 1 /\ f[1] = BB(c - 1)}}
      left(d) == IF Type(d) = "TERMINATOR" /\ config.allAtOnce THEN 0
                 ELSE IF Type(d) # "PHI" THEN Cardinality(Instr(d).parents)
                 ELSE IF merged(d) = {} THEN 0
                 ELSE 1 - Cardinality(merged(d) \cap completed)
      waitedFor(d) == {<<owners[e[1]], e[2]>> : e \in Instr(d).external} \ completed
      leftExt(d) == IF Type(d) = "TERMINATOR" /\ config.allAtOnce THEN 0
                    ELSE Cardinality(waitedFor(d))
  IN  /\ phase = "create" /\ toCreate > 0 /\ c <= TraceLength
      /\ CheckSize(c) /\ MayStart(c)
      /\ phase' = IF toCreate = 1 THEN "retire" ELSE "create"
      /\ created' = c /\ toCreate' = toCreate - 1 /\ owner' = owners
      /\ activeLeft' = IF config.active = -1 THEN activeLeft
                       ELSE [activeLeft EXCEPT ![BB(c)] = @ - 1]
      /\ lq' = Without(lq, LdNeed(c)) \o MemoryNodes(c, {"LD"})
      /\ sq' = Without(sq, StNeed(c)) \o MemoryNodes(c, {"ST", "ATOMIC"})
      /\ pending' = [d \in NodeIds |-> IF d \in NodesOf(c) THEN left(d) ELSE pending[d]]
      /\ pendingExt' = [d \in NodeIds |-> IF d \in NodesOf(c) THEN leftExt(d) ELSE pendingExt[d]]
      /\ extDependents' = [e \in NodeIds |->
           extDependents[e] \cup {d \in NodesOf(c) : e \in waitedFor(d)}]
      /\ \E wrong \in Wrong(c) :
            mispredicted' = IF wrong THEN mispredicted \cup {branch} ELSE mispredicted
      /\ predictor' = IF Conditional(c) THEN Trained(config.predictor, predictor, BB(c), Taken(c))
                      ELSE predictor
      /\ LET active == Activated(NodesOf(c), pending', pendingExt', mispredicted', {})
             mem == {d \in active : IsMem(d)}
         IN  /\ issueSet' = issueSet \cup active
             /\ unresolvedLd' = unresolvedLd \cup (ToSet(MemoryNodes(c, {"LD"})) \ mem)
             /\ unresolvedSt' = unresolvedSt \cup (ToSet(MemoryNodes(c, {"ST", "ATOMIC"})) \ mem)
      /\ UNCHANGED <<program, config, issued, windowVars, toVisit, speculationVars, pq, atMemory,
                     completed, availableFUs, ports>>

\* Nothing is due, the trace has ended, the queue is full, or the block has
\* its limit of contexts; by then the queue has given up its entries.
CreateNone ==
  LET c == created + 1
      asked == toCreate > 0 /\ c <= TraceLength
  IN  /\ phase = "create" /\ phase' = "retire"
      /\ asked => ~CheckSize(c) \/ ~MayStart(c)
      /\ IF asked /\ CheckSize(c)
         THEN lq' = Without(lq, LdNeed(c)) /\ sq' = Without(sq, StNeed(c))
         ELSE UNCHANGED <<lq, sq>>
      /\ UNCHANGED <<program, config, unresolvedLd, unresolvedSt, issued, contextVars, parentVars,
                     windowVars, issueSet, toVisit, speculationVars, pq, atMemory, completed,
                     availableFUs, ports>>

----------------------------------------------------------------------------
Visit(d) ==
  \/ WindowFull(d) \/ Refused(d)
  \/ IssueComp(d) \/ ForwardLoad(d) \/ ForwardOnGuess(d) \/ ReadMemory(d) \/ WriteMemory(d)

Next == Retire \/ (\E d \in toVisit : Visit(d)) \/ Complete \/ CreateContext \/ CreateNone

Spec == Init /\ [][Next]_vars

\* The simulator calls process in every cycle; a unit and the memory take
\* finitely many cycles; the cache takes an access again and again.
ClockRuns == WF_vars(Next)
UnitsFinish == \A d \in NodeIds : []<>(d \notin pq)
MemoryAnswers == \A d \in NodeIds : []<>(d \notin atMemory)
CacheAccepts == []<>(phase = "issue" /\ toVisit = issueSet /\ ports = MaxPorts)

FairSpec == Spec /\ ClockRuns /\ UnitsFinish /\ MemoryAnswers /\ CacheAccepts

----------------------------------------------------------------------------
(* Properties.                                                             *)

\* A node that has issued and not completed is in one place: waiting for its
\* unit, for memory, or for the older stores of a guess.  No read goes to
\* memory as a guess: check_load_issue would need a store of the address that
\* is unresolved and not in the queue.
TypeOK ==
  /\ created \in 0..TraceLength /\ toCreate \in 0..1
  /\ completed \subseteq issued /\ issued \subseteq CreatedNodes
  /\ issued \ completed = pq \cup atMemory \cup speculatedSet
  /\ pq \cap atMemory = {} /\ pq \cap speculatedSet = {} /\ atMemory \cap speculatedSet = {}
  /\ outstanding = NoNodes
  /\ toVisit \subseteq issueSet /\ issueSet \subseteq CreatedNodes \ issued
  /\ windowStart \in 0..Cardinality(CreatedNodes) /\ windowEnd \in 0..LastPosition + Max({config.window, 0})
  /\ PredictorOK(predictor)
  /\ ports \in 0..MaxPorts

\* No instruction issues before the values it uses: those of its block, of
\* the youngest context of another block (curr_owner, Context::initialize),
\* and of the block a PHI was entered from.  Only a terminator whose branch
\* was predicted may.
ParentsFirst ==
  \A d \in issued :
     \/ Uses(d) \subseteq completed
     \/ Type(d) = "TERMINATOR" /\ (d \notin mispredicted \/ config.allAtOnce)

\* No wakeup is lost between a parent that completes (finishNode) and a
\* context that is created meanwhile (initialize): a node whose parents have
\* all completed has been activated.
NoLostWakeup ==
  \A d \in CreatedNodes \ (issued \cup issueSet) : ~(Uses(d) \subseteq completed)

\* Accesses to one address keep program order where it shows: a load is at
\* memory only after the older stores have gone there, and a store goes only
\* after the older accesses have completed (check_load_issue,
\* check_store_issue).  A forwarded load does not go to memory.
MemoryOrder ==
  \A e \in issued : \A d \in CreatedNodes :
     IsMem(e) /\ Addr(d) = Addr(e) /\ Older(d, e) =>
       /\ Type(e) # "LD" => d \in completed
       /\ e \in atMemory /\ Type(d) # "LD" => d \in issued

\* The load queue and the store queue hold the accesses of the program in
\* order, without the first of them, which have left the window (checkSize);
\* they keep their size, but for the atomics of the youngest context, which
\* are not counted.
Accesses(types) == IF Bypassed THEN {} ELSE {d \in CreatedNodes : Type(d) \in types}
IsQueueOf(q, types, spare) ==
  /\ ToSet(q) \subseteq Accesses(types)
  /\ \A i, j \in DOMAIN q : i < j => Older(q[i], q[j])
  /\ \A d \in Accesses(types) \ ToSet(q) :
        LeftRob(d) /\ \A e \in ToSet(q) : Older(d, e)
  /\ config.lsq # -1 => Len(q) <= config.lsq + spare
LsqSound ==
  /\ IsQueueOf(lq, {"LD"}, 0)
  /\ IsQueueOf(sq, {"ST", "ATOMIC"}, IF created = 0 THEN 0 ELSE CountOf(created, "ATOMIC"))
  /\ (unresolvedLd \cup unresolvedSt) \cap issued = {}

\* Every unit is busy with one node, a block has no more live contexts than
\* max_active_contexts_BB, and a context is due exactly when the terminator
\* of the youngest has completed: what is counted down in one place and up in
\* another never drifts (finishNode, Context::complete, createContext).
LimitsHold ==
  /\ TypeOK
  /\ \A t \in Types \ {"LD", "ST", "ATOMIC"} : Units[t] # -1 =>
        /\ availableFUs[t] >= 0
        /\ availableFUs[t] = Units[t] - Cardinality({d \in issued \ completed : Type(d) = t})
  /\ config.active # -1 => \A b \in DOMAIN activeLeft :
        /\ activeLeft[b] >= 0
        /\ activeLeft[b] = config.active - Cardinality({c \in Live : BB(c) = b})
  /\ ~config.allAtOnce =>
        (toCreate = 1 <=> created = 0 \/ <<created, Len(Block(created))>> \in completed)

\* The whole trace is executed.
EventuallyDone == <>(created = TraceLength /\ Live = {})
=============================================================================
