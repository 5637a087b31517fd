------------------------- MODULE DelegationScheduler -------------------------
(***************************************************************************)
(* The permit accounting of src/src/runtime/delegation/scheduler.ts.       *)
(*                                                                         *)
(* A delegated execution needs a permit to run.  Permits are counted per   *)
(* parent, per execution tree and for the whole runtime.  Executions that  *)
(* cannot start, and suspended parents that want their permit back, wait   *)
(* in one queue.  This module holds the scheduler's state and the effect   *)
(* of its primitives on it; AgentRuntime says when they are called.        *)
(***************************************************************************)
EXTENDS Integers, FiniteSets, Sequences

CONSTANTS
  MaxExecutions,                    \* bound of the model: ids ever allocated
  maxConcurrentPerParent,           \* DelegationLimits, execution/types.ts
  maxConcurrentPerTree,
  maxConcurrentDelegatedExecutions

ASSUME SchedulerAssumption ==
  /\ MaxExecutions \in Nat \ {0}
  /\ maxConcurrentPerParent \in Nat
  /\ maxConcurrentPerTree \in Nat
  /\ maxConcurrentDelegatedExecutions \in Nat

Exec == 1 .. MaxExecutions
None == 0                           \* no execution (undefined in the source)

VARIABLES
  parent,             \* [Exec -> Exec or None]: parentExecutionId
  root,               \* [Exec -> Exec or None]: rootExecutionId
  queue,              \* sequence of waiting entries
  runningExecutions,  \* executions that hold a permit
  runningByParent,    \* the three counters the scheduler decides with
  runningByTree,
  runningTotal

identityVars  == <<parent, root>>
counterVars   == <<runningExecutions, runningByParent, runningByTree, runningTotal>>
schedulerVars == <<queue, counterVars>>

(***************************************************************************)
(* A QueueEntry is an execution and what its start() does: call 0 builds   *)
(* and runs a child, call k > 0 resolves the reacquire promise of the k-th *)
(* delegate_task call of a suspended parent.                               *)
(***************************************************************************)
Entry == [exec : Exec, call : Nat]

IsStart(entry) == entry.call = 0

SchedulerTypeOK ==
  /\ parent \in [Exec -> Exec \cup {None}]
  /\ root \in [Exec -> Exec \cup {None}]
  /\ queue \in Seq(Entry)
  /\ runningExecutions \subseteq Exec
  /\ runningByParent \in [Exec -> Nat]
  /\ runningByTree \in [Exec -> Nat]
  /\ runningTotal \in Nat

SchedulerInit ==
  /\ parent = [e \in Exec |-> None]
  /\ root = [e \in Exec |-> None]
  /\ queue = << >>
  /\ runningExecutions = {}
  /\ runningByParent = [e \in Exec |-> 0]
  /\ runningByTree = [e \in Exec |-> 0]
  /\ runningTotal = 0

-----------------------------------------------------------------------------
Delegated(e) == parent[e] # None

(* Mutant: the limit for the whole runtime is exceeded by one.             *)
CanStartOneMore(p, r) ==
  /\ runningByParent[p] < maxConcurrentPerParent
  /\ runningByTree[r] < maxConcurrentPerTree
  /\ runningTotal <= maxConcurrentDelegatedExecutions

(* canStart: the three counters, and nothing else, decide.                 *)
CanStartUnder(p, r) ==
  /\ runningByParent[p] < maxConcurrentPerParent
  /\ runningByTree[r] < maxConcurrentPerTree
  /\ runningTotal < maxConcurrentDelegatedExecutions

CanStart(e) == CanStartUnder(parent[e], root[e])

(* Mutant: a permit that is already held is counted once more.             *)
AcquireAgain(e, p, r) ==
  /\ runningExecutions' = runningExecutions \cup {e}
  /\ runningTotal' = runningTotal + 1
  /\ runningByParent' = [runningByParent EXCEPT ![p] = @ + 1]
  /\ runningByTree' = [runningByTree EXCEPT ![r] = @ + 1]

(* acquire: an execution that already holds a permit is not counted twice. *)
Acquire(e, p, r) ==
  IF e \in runningExecutions
    THEN UNCHANGED counterVars
    ELSE /\ runningExecutions' = runningExecutions \cup {e}
         /\ runningTotal' = runningTotal + 1
         /\ runningByParent' = [runningByParent EXCEPT ![p] = @ + 1]
         /\ runningByTree' = [runningByTree EXCEPT ![r] = @ + 1]

AtLeastZero(n) == IF n < 0 THEN 0 ELSE n

(* release, up to the call of drain, for an execution that holds a permit. *)
Release(e) ==
  /\ runningExecutions' = runningExecutions \ {e}
  /\ runningTotal' = AtLeastZero(runningTotal - 1)
  /\ runningByParent' = [runningByParent EXCEPT ![parent[e]] = AtLeastZero(@ - 1)]
  /\ runningByTree' = [runningByTree EXCEPT ![root[e]] = AtLeastZero(@ - 1)]

Enqueue(e, call) == queue' = Append(queue, [exec |-> e, call |-> call])

(* queue.splice(j, 1).                                                     *)
Without(j) == SubSeq(queue, 1, j - 1) \o SubSeq(queue, j + 1, Len(queue))

EntriesOf(e) == {j \in DOMAIN queue : queue[j].exec = e}

(* The positions from i on that drain would start.                         *)
Startable(i) == {j \in DOMAIN queue : j >= i /\ CanStart(queue[j].exec)}

First(S) == CHOOSE j \in S : \A k \in S : j <= k

-----------------------------------------------------------------------------
Holders(p) == {e \in runningExecutions : parent[e] = p}
HoldersIn(r) == {e \in runningExecutions : root[e] = r}

(* The counters the scheduler decides with always say how many executions  *)
(* really hold a permit: a double acquire, a lost release or a release     *)
(* that is counted twice would make them drift and Math.max would hide it. *)
PermitAccounting ==
  /\ runningTotal = Cardinality(runningExecutions)
  /\ \A p \in Exec : runningByParent[p] = Cardinality(Holders(p))
  /\ \A r \in Exec : runningByTree[r] = Cardinality(HoldersIn(r))

(* No parent, no tree and not the runtime as a whole ever has more permit  *)
(* holders than its limit, whatever order schedule, release, reacquire and *)
(* cancelQueued are called in.                                             *)
PermitBound ==
  /\ Cardinality(runningExecutions) <= maxConcurrentDelegatedExecutions
  /\ \A p \in Exec : Cardinality(Holders(p)) <= maxConcurrentPerParent
  /\ \A r \in Exec : Cardinality(HoldersIn(r)) <= maxConcurrentPerTree
=============================================================================
