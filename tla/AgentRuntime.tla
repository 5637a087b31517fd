----------------------------- MODULE AgentRuntime -----------------------------
(***************************************************************************)
(* The runtime that owns every execution: src/src/runtime/agent/runtime.ts *)
(* with execution/agent-execution.ts, execution/execution-branch.ts,       *)
(* delegation/delegation.ts and the part of agent/agent.ts that calls them.*)
(*                                                                         *)
(* JavaScript runs one callback at a time, but finishing an execution is   *)
(* one long synchronous call that re-enters itself: it frees a permit,     *)
(* which starts queued children, then cancels its own children, which free *)
(* permits in turn.  The variable stack holds the calls in progress, one   *)
(* frame each; a step that models a callback (a tool call, a timer, a      *)
(* promise continuation) waits until the stack is empty, and the steps     *)
(* that run the top frame are the only ones enabled while it is not.       *)
(***************************************************************************)
EXTENDS DelegationScheduler

CONSTANTS
  MaxCalls,                 \* bound: delegate_task calls in one model message
  MaxRoots,                 \* bound: root executions ever started
  maxDepth,                 \* DelegationLimits, execution/types.ts
  maxChildrenPerExecution,
  maxExecutionsPerTree,
  maxHandoffsPerBranch,
  HandoffDepths,            \* depths whose agents are configured with handoffs
  ProgrammaticDelegation    \* startDelegation is also called outside delegate_task

ASSUME RuntimeAssumption ==
  /\ MaxCalls \in Nat
  /\ MaxRoots \in Nat
  /\ maxDepth \in Nat
  /\ maxChildrenPerExecution \in Nat
  /\ maxExecutionsPerTree \in Nat
  /\ maxHandoffsPerBranch \in Nat
  /\ HandoffDepths \subseteq Nat
  /\ ProgrammaticDelegation \in BOOLEAN

VARIABLES
  status,    \* [Exec -> Status]; "none" before the id is allocated
  activity,  \* [Exec -> Activity]
  depth,     \* [Exec -> 0 .. maxDepth]
  branch,    \* [Exec -> Exec or None]: the first execution of its branch
  active,    \* the ids in AgentRuntime.active
  call,      \* [Exec -> [Calls -> Call]]: delegate_task calls of a message
  handoff,   \* [Exec -> HandoffPhase]: the progress of performHandoff
  stack      \* synchronous calls in progress, innermost first

runtimeVars == <<status, activity, depth, branch, active, call, handoff, stack>>
vars == <<identityVars, schedulerVars, runtimeVars>>

Calls == 1 .. MaxCalls

(* "ended" is completed, failed or limit_exceeded, which leave the abort   *)
(* signal alone; "aborted" is cancelled or timed_out, which fire it.       *)
TerminalStatus == {"handed_off", "ended", "aborted"}
Status == {"none", "created", "queued", "running"} \cup TerminalStatus
Activity == {"none", "active", "waiting_for_permit", "waiting_for_children"}

(* Where the delegate_task call is: asked for by the model; child started  *)
(* and waiting for the message's ordinary tools (beforeWait); waiting for  *)
(* the child branch; queued for a permit; permit granted, continuation due.*)
Phase == {"idle", "issued", "started", "waiting", "reacquiring", "reacquired"}
Call == [phase : Phase, child : Exec \cup {None}]
Idle == [phase |-> "idle", child |-> None]

HandoffPhase == {"none", "preparing", "committing"}
Frame == [op : {"terminal", "cancelDescendants"}, arg : Exec] \cup [op : {"drain"}, arg : Nat]

TypeOK ==
  /\ SchedulerTypeOK
  /\ status \in [Exec -> Status]
  /\ activity \in [Exec -> Activity]
  /\ depth \in [Exec -> 0 .. maxDepth]
  /\ branch \in [Exec -> Exec \cup {None}]
  /\ active \subseteq Exec
  /\ call \in [Exec -> [Calls -> Call]]
  /\ handoff \in [Exec -> HandoffPhase]
  /\ stack \in Seq(Frame)

Init ==
  /\ SchedulerInit
  /\ status = [e \in Exec |-> "none"]
  /\ activity = [e \in Exec |-> "none"]
  /\ depth = [e \in Exec |-> 0]
  /\ branch = [e \in Exec |-> None]
  /\ active = {}
  /\ call = [e \in Exec |-> [k \in Calls |-> Idle]]
  /\ handoff = [e \in Exec |-> "none"]
  /\ stack = << >>

-----------------------------------------------------------------------------
Terminal(e) == status[e] \in TerminalStatus
Live(e) == status[e] \in {"created", "queued", "running"}
Quiescent == stack = << >>

(* Ids are handed out in order, so that a larger id is a later execution.  *)
Fresh(e) == status[e] = "none" /\ \A d \in 1 .. e - 1 : status[d] # "none"

(* record.children: a successor is never added to its parent's set.        *)
Children(p) == {c \in Exec : parent[c] = p /\ branch[c] = c}
Tree(r) == {e \in active : root[e] = r}
Members(b) == {e \in Exec : branch[e] = b}
Current(b) == CHOOSE e \in Members(b) : \A d \in Members(b) : d <= e
HandoffCount(b) == Cardinality(Members(b)) - 1

(* Mutant: a cancelled execution does not settle its branch.               *)
SettledByEnd(b) == \E e \in Members(b) : status[e] = "ended"

(* The result promise of a branch resolves with the first execution that   *)
(* reaches a terminal status other than handed_off.                        *)
Settled(b) == \E e \in Members(b) : status[e] \in {"ended", "aborted"}

(* The agent loop of e waits for its model, so it may end or ask for tools:*)
(* _act has returned, and it returns only when every tool call has.        *)
Thinking(e) ==
  /\ status[e] = "running"
  /\ handoff[e] = "none"
  /\ \A k \in Calls : call[e][k].phase = "idle"

At(p, k, phase) == Quiescent /\ call[p][k].phase = phase

SetPhase(p, k, phase) == call' = [call EXCEPT ![p][k].phase = phase]
CallFrame(op, arg) == [op |-> op, arg |-> arg]

-----------------------------------------------------------------------------
(* startRoot, up to queueMicrotask.                                        *)
StartRoot(e) ==
  /\ Quiescent
  /\ Fresh(e)
  /\ Cardinality({r \in Exec : root[r] = r}) < MaxRoots
  /\ status' = [status EXCEPT ![e] = "created"]
  /\ root' = [root EXCEPT ![e] = e]
  /\ branch' = [branch EXCEPT ![e] = e]
  /\ active' = active \cup {e}
  /\ UNCHANGED <<parent, schedulerVars, activity, depth, call, handoff, stack>>

(* The microtask of startRoot and of performHandoff.                       *)
RunMicrotask(e) ==
  /\ Quiescent
  /\ status[e] = "created"
  /\ status' = [status EXCEPT ![e] = "running"]
  /\ activity' = [activity EXCEPT ![e] = "active"]
  /\ UNCHANGED <<identityVars, schedulerVars, depth, branch, active, call, handoff, stack>>

(* finish: the status is set first, then onTerminal runs as a frame.  The  *)
(* delegate_task calls of e are forgotten: every continuation of theirs    *)
(* returns early on a terminal parent.                                     *)
FinishAs(e, terminalStatus) ==
  /\ status' = [status EXCEPT ![e] = terminalStatus]
  /\ activity' = [activity EXCEPT ![e] = "none"]
  /\ call' = [call EXCEPT ![e] = [k \in Calls |-> Idle]]
  /\ stack' = <<CallFrame("terminal", e)>> \o stack

(* The loop ends by completing, failing or reaching a limit.               *)
Finish(e) ==
  /\ Quiescent
  /\ Thinking(e)
  /\ FinishAs(e, "ended")
  /\ UNCHANGED <<identityVars, schedulerVars, depth, branch, active, handoff>>

(* cancelExecution, AgentRun.cancel or the timer of a delegated execution. *)
Abort(e) ==
  /\ Quiescent
  /\ Live(e)
  /\ FinishAs(e, "aborted")
  /\ UNCHANGED <<identityVars, schedulerVars, depth, branch, active, handoff>>

-----------------------------------------------------------------------------
(* _act: the model's message asks for n parallel delegate_task calls.      *)
Act(e, n) ==
  /\ Quiescent
  /\ Thinking(e)
  /\ call' = [call EXCEPT ![e] =
                [k \in Calls |-> IF k <= n THEN [Idle EXCEPT !.phase = "issued"] ELSE Idle]]
  /\ UNCHANGED <<identityVars, schedulerVars, status, activity, depth, branch, active, handoff, stack>>

(* preflight: the limits are checked against the records at this moment.   *)
Preflight(p) ==
  /\ p \in active
  /\ ~Terminal(p)
  /\ depth[p] < maxDepth
  /\ Cardinality(Children(p)) < maxChildrenPerExecution
  /\ Cardinality(Tree(root[p])) < maxExecutionsPerTree

(* startDelegation past preflight, with schedule.  The part of             *)
(* buildAndRunChild before its first await runs inside schedule, so a      *)
(* delegate factory that throws fails the child on the spot (failed).      *)
StartDelegation(p, c, failed) ==
  LET starts == CanStartUnder(p, root[p])
  IN  /\ Preflight(p)
      /\ Fresh(c)
      /\ failed => starts
      /\ parent' = [parent EXCEPT ![c] = p]
      /\ root' = [root EXCEPT ![c] = root[p]]
      /\ depth' = [depth EXCEPT ![c] = depth[p] + 1]
      /\ branch' = [branch EXCEPT ![c] = c]
      /\ active' = active \cup {c}
      /\ IF starts THEN Acquire(c, p, root[p]) /\ UNCHANGED queue
                   ELSE Enqueue(c, 0) /\ UNCHANGED counterVars
      /\ status' = [status EXCEPT ![c] = IF ~starts THEN "queued"
                                         ELSE IF failed THEN "ended" ELSE "running"]
      /\ activity' = [activity EXCEPT ![c] = IF ~starts THEN "waiting_for_permit"
                                             ELSE IF failed THEN "none" ELSE "active"]
      /\ stack' = IF failed THEN <<CallFrame("terminal", c)>> ELSE stack
      /\ UNCHANGED handoff

Delegate(p, k, c, failed) ==
  /\ At(p, k, "issued")
  /\ StartDelegation(p, c, failed)
  /\ call' = [call EXCEPT ![p][k] = [phase |-> "started", child |-> c]]

(* A refused request returns at once.  The delegate's name, its ancestors  *)
(* and the token usage are left out, so any request may be refused.        *)
Refuse(p, k) ==
  /\ At(p, k, "issued")
  /\ SetPhase(p, k, "idle")
  /\ UNCHANGED <<identityVars, schedulerVars, status, activity, depth, branch, active, handoff, stack>>

(* startDelegation called by an application, which does not wait.  A root  *)
(* or a successor may delegate before it runs; a queued execution has no   *)
(* delegates until its factory has run.                                    *)
DelegateProgrammatically(p, c, failed) ==
  /\ ProgrammaticDelegation
  /\ Quiescent
  /\ status[p] \in {"created", "running"}
  /\ StartDelegation(p, c, failed)
  /\ UNCHANGED call

(* Mutant: the parent keeps its permit while it waits for the child.       *)
SuspendHolding(p, k) ==
  /\ At(p, k, "started")
  /\ SetPhase(p, k, "waiting")
  /\ activity' = [activity EXCEPT ![p] = IF Delegated(p) THEN "waiting_for_children" ELSE @]
  /\ UNCHANGED <<identityVars, schedulerVars, status, depth, branch, active, handoff, stack>>

(* suspendForChildWait after its await: only a delegated parent gives its  *)
(* permit up, and only if it still has it.                                 *)
Suspend(p, k) ==
  /\ At(p, k, "started")
  /\ SetPhase(p, k, "waiting")
  /\ activity' = [activity EXCEPT ![p] = IF Delegated(p) THEN "waiting_for_children" ELSE @]
  /\ IF p \in runningExecutions
       THEN Release(p) /\ stack' = <<CallFrame("drain", 1)>>
       ELSE UNCHANGED <<counterVars, stack>>
  /\ UNCHANGED <<identityVars, queue, status, depth, branch, active, handoff>>

ChildDone(p, k) == At(p, k, "waiting") /\ Settled(call[p][k].child)

ReturnToRoot(p, k) ==
  /\ ChildDone(p, k)
  /\ ~Delegated(p)
  /\ call' = [call EXCEPT ![p][k] = Idle]
  /\ UNCHANGED <<identityVars, schedulerVars, status, activity, depth, branch, active, handoff, stack>>

(* Mutant: the parent goes on without its permit.                          *)
ReacquireNothing(p, k) ==
  /\ ChildDone(p, k)
  /\ Delegated(p)
  /\ activity' = [activity EXCEPT ![p] = "active"]
  /\ SetPhase(p, k, "reacquired")
  /\ UNCHANGED <<identityVars, schedulerVars, status, depth, branch, active, handoff, stack>>

(* Mutant: the parent takes a permit back whether there is room or not.    *)
ReacquireAnyway(p, k) ==
  /\ ChildDone(p, k)
  /\ Delegated(p)
  /\ Acquire(p, parent[p], root[p])
  /\ activity' = [activity EXCEPT ![p] = "active"]
  /\ SetPhase(p, k, "reacquired")
  /\ UNCHANGED <<identityVars, queue, status, depth, branch, active, handoff, stack>>

(* reacquire with room for the parent: it does not look at the queue.      *)
Reacquire(p, k) ==
  /\ ChildDone(p, k)
  /\ Delegated(p)
  /\ CanStart(p)
  /\ Acquire(p, parent[p], root[p])
  /\ activity' = [activity EXCEPT ![p] = "active"]
  /\ SetPhase(p, k, "reacquired")
  /\ UNCHANGED <<identityVars, queue, status, depth, branch, active, handoff, stack>>

AwaitPermit(p, k) ==
  /\ ChildDone(p, k)
  /\ Delegated(p)
  /\ ~CanStart(p)
  /\ Enqueue(p, k)
  /\ activity' = [activity EXCEPT ![p] = "waiting_for_permit"]
  /\ SetPhase(p, k, "reacquiring")
  /\ UNCHANGED <<identityVars, counterVars, status, depth, branch, active, handoff, stack>>

(* resumeAfterChildWait after its await.                                   *)
Resume(p, k) ==
  /\ At(p, k, "reacquired")
  /\ activity' = [activity EXCEPT ![p] = "active"]
  /\ call' = [call EXCEPT ![p][k] = Idle]
  /\ UNCHANGED <<identityVars, schedulerVars, status, depth, branch, active, handoff, stack>>

-----------------------------------------------------------------------------
MayHandOff(e) ==
  /\ ~Terminal(e)
  /\ Current(branch[e]) = e
  /\ Cardinality(Tree(root[e])) < maxExecutionsPerTree

(* handoff up to its first await; in _act the tool use is the only one.    *)
RequestHandoff(e) ==
  /\ Quiescent
  /\ Thinking(e)
  /\ depth[e] \in HandoffDepths
  /\ e \in active
  /\ HandoffCount(branch[e]) < maxHandoffsPerBranch
  /\ MayHandOff(e)
  /\ handoff' = [handoff EXCEPT ![e] = "preparing"]
  /\ UNCHANGED <<identityVars, schedulerVars, status, activity, depth, branch, active, call, stack>>

(* After beforeHandoff, the target's factory and the context filter the    *)
(* source is examined once more; the handoff_committed checkpoint follows. *)
PrepareHandoff(e) ==
  /\ Quiescent
  /\ handoff[e] = "preparing"
  /\ MayHandOff(e)
  /\ handoff' = [handoff EXCEPT ![e] = "committing"]
  /\ UNCHANGED <<identityVars, schedulerVars, status, activity, depth, branch, active, call, stack>>

RejectHandoff(e) ==
  /\ Quiescent
  /\ handoff[e] = "preparing"
  /\ handoff' = [handoff EXCEPT ![e] = "none"]
  /\ UNCHANGED <<identityVars, schedulerVars, status, activity, depth, branch, active, call, stack>>

(* Mutant: the source is not ended when its successor takes over.          *)
CommitBesideSource(e, s) ==
  /\ Quiescent
  /\ handoff[e] = "committing"
  /\ Fresh(s)
  /\ parent' = [parent EXCEPT ![s] = parent[e]]
  /\ root' = [root EXCEPT ![s] = root[e]]
  /\ depth' = [depth EXCEPT ![s] = depth[e]]
  /\ branch' = [branch EXCEPT ![s] = branch[e]]
  /\ active' = active \cup {s}
  /\ handoff' = [handoff EXCEPT ![e] = "none"]
  /\ status' = [status EXCEPT ![s] = "created"]
  /\ UNCHANGED <<schedulerVars, activity, call, stack>>

(* The checkpoint has been saved: the successor is created and attached,   *)
(* whatever has become of the source meanwhile (finish ignores a terminal  *)
(* one).                                                                   *)
CommitHandoff(e, s) ==
  /\ Quiescent
  /\ handoff[e] = "committing"
  /\ Fresh(s)
  /\ parent' = [parent EXCEPT ![s] = parent[e]]
  /\ root' = [root EXCEPT ![s] = root[e]]
  /\ depth' = [depth EXCEPT ![s] = depth[e]]
  /\ branch' = [branch EXCEPT ![s] = branch[e]]
  /\ active' = active \cup {s}
  /\ handoff' = [handoff EXCEPT ![e] = "none"]
  /\ status' = [status EXCEPT ![s] = "created", ![e] = IF Terminal(e) THEN @ ELSE "handed_off"]
  /\ activity' = [activity EXCEPT ![e] = "none"]
  /\ stack' = IF Terminal(e) THEN stack ELSE <<CallFrame("terminal", e)>>
  /\ UNCHANGED <<schedulerVars, call>>

(* The checkpoint failed: runExecution fails the source.                   *)
FailCheckpoint(e) ==
  /\ Quiescent
  /\ handoff[e] = "committing"
  /\ handoff' = [handoff EXCEPT ![e] = "none"]
  /\ IF Terminal(e) THEN UNCHANGED <<status, activity, call, stack>> ELSE FinishAs(e, "ended")
  /\ UNCHANGED <<identityVars, schedulerVars, depth, branch, active>>

-----------------------------------------------------------------------------
(* The frames.  Top(op) and Below are the frame in control and its caller. *)
Top(op) == stack # << >> /\ stack[1].op = op
Below == Tail(stack)
Arg == stack[1].arg

(* onTerminal: cancelQueued takes out the entries of the execution ...     *)
CancelQueued ==
  /\ Top("terminal")
  /\ EntriesOf(Arg) # {}
  /\ queue' = Without(First(EntriesOf(Arg)))
  /\ UNCHANGED <<identityVars, counterVars, runtimeVars>>

(* Mutant: release forgets to drain the queue.                             *)
ReleaseWithoutDrain ==
  /\ Top("terminal")
  /\ EntriesOf(Arg) = {}
  /\ IF Arg \in runningExecutions THEN Release(Arg) ELSE UNCHANGED counterVars
  /\ stack' = <<CallFrame("cancelDescendants", Arg)>> \o Below
  /\ UNCHANGED <<identityVars, queue, status, activity, depth, branch, active, call, handoff>>

(* ... then release gives its permit back and drains the queue, and        *)
(* cancelDescendants comes next.                                           *)
ReleasePermit ==
  /\ Top("terminal")
  /\ EntriesOf(Arg) = {}
  /\ IF Arg \in runningExecutions
       THEN /\ Release(Arg)
            /\ stack' = <<CallFrame("drain", 1), CallFrame("cancelDescendants", Arg)>> \o Below
       ELSE /\ stack' = <<CallFrame("cancelDescendants", Arg)>> \o Below
            /\ UNCHANGED counterVars
  /\ UNCHANGED <<identityVars, queue, status, activity, depth, branch, active, call, handoff>>

(* drain: take out the next entry that can start and start it.  A child    *)
(* whose factory throws ends inside this very call.  The skip of entries   *)
(* of terminal executions is left out: cancelQueued has removed them.      *)
DrainChild(failed) ==
  /\ Top("drain")
  /\ Startable(Arg) # {}
  /\ LET j == First(Startable(Arg))
         e == queue[j].exec
     IN  /\ IsStart(queue[j])
         /\ queue' = Without(j)
         /\ Acquire(e, parent[e], root[e])
         /\ status' = [status EXCEPT ![e] = IF failed THEN "ended" ELSE "running"]
         /\ activity' = [activity EXCEPT ![e] = IF failed THEN "none" ELSE "active"]
         /\ stack' = IF failed
                       THEN <<CallFrame("terminal", e), CallFrame("drain", j)>> \o Below
                       ELSE <<CallFrame("drain", j)>> \o Below
  /\ UNCHANGED <<identityVars, depth, branch, active, call, handoff>>

DrainParent ==
  /\ Top("drain")
  /\ Startable(Arg) # {}
  /\ LET j == First(Startable(Arg))
         e == queue[j].exec
     IN  /\ ~IsStart(queue[j])
         /\ queue' = Without(j)
         /\ Acquire(e, parent[e], root[e])
         /\ activity' = [activity EXCEPT ![e] = "active"]
         /\ SetPhase(e, queue[j].call, "reacquired")
         /\ stack' = <<CallFrame("drain", j)>> \o Below
  /\ UNCHANGED <<identityVars, status, depth, branch, active, handoff>>

DrainDone ==
  /\ Top("drain")
  /\ Startable(Arg) = {}
  /\ stack' = Below
  /\ UNCHANGED <<identityVars, schedulerVars, status, activity, depth, branch, active, call, handoff>>

(* Mutant: children that are still queued are not cancelled.               *)
RunningChildren(p) == {c \in Children(p) \cap active : status[c] = "running"}

(* The children cancelDescendants still has to cancel.                     *)
LiveChildren(p) == {c \in Children(p) \cap active : ~Terminal(c)}

(* cancelDescendants: the next child that has not ended is cancelled.      *)
CancelChild ==
  /\ Top("cancelDescendants")
  /\ Arg \in active
  /\ LiveChildren(Arg) # {}
  /\ FinishAs(First(LiveChildren(Arg)), "aborted")
  /\ UNCHANGED <<identityVars, schedulerVars, depth, branch, active, handoff>>

(* Mutant: only the first root execution drops the records, so a root that *)
(* has handed off keeps its tree for ever.                                 *)
LeaveTerminalOfFirstRoot ==
  /\ Top("cancelDescendants")
  /\ Arg \in active => LiveChildren(Arg) = {}
  /\ active' = IF Arg # root[Arg] \/ status[Arg] = "handed_off"
                 THEN active
                 ELSE {e \in active : root[e] # root[Arg] \/ ~Terminal(e)}
  /\ stack' = Below
  /\ UNCHANGED <<identityVars, schedulerVars, status, activity, depth, branch, call, handoff>>

(* The rest of onTerminal: the end of a root that has not handed off drops *)
(* the terminal records of its tree.                                       *)
LeaveTerminal ==
  /\ Top("cancelDescendants")
  /\ Arg \in active => LiveChildren(Arg) = {}
  /\ active' = IF Delegated(Arg) \/ status[Arg] = "handed_off"
                 THEN active
                 ELSE {e \in active : root[e] # root[Arg] \/ ~Terminal(e)}
  /\ stack' = Below
  /\ UNCHANGED <<identityVars, schedulerVars, status, activity, depth, branch, call, handoff>>

-----------------------------------------------------------------------------
Lifecycle(e) == StartRoot(e) \/ RunMicrotask(e) \/ Finish(e) \/ Abort(e)

Delegation(p) ==
  \/ \E n \in Calls : Act(p, n)
  \/ \E c \in Exec, failed \in BOOLEAN : DelegateProgrammatically(p, c, failed)
  \/ \E k \in Calls :
       \/ \E c \in Exec, failed \in BOOLEAN : Delegate(p, k, c, failed)
       \/ Refuse(p, k)
       \/ Suspend(p, k)
       \/ ReturnToRoot(p, k)
       \/ Reacquire(p, k)
       \/ AwaitPermit(p, k)
       \/ Resume(p, k)

Handoff(e) ==
  \/ RequestHandoff(e)
  \/ PrepareHandoff(e)
  \/ RejectHandoff(e)
  \/ \E s \in Exec : CommitHandoff(e, s)
  \/ FailCheckpoint(e)

Synchronous ==
  \/ CancelQueued
  \/ ReleasePermit
  \/ \E failed \in BOOLEAN : DrainChild(failed)
  \/ DrainParent
  \/ DrainDone
  \/ CancelChild
  \/ LeaveTerminal

Next == Synchronous \/ \E e \in Exec : Lifecycle(e) \/ Delegation(e) \/ Handoff(e)

Spec == Init /\ [][Next]_vars

(***************************************************************************)
(* Fairness.  The event loop runs every callback that is due.  An agent    *)
(* loop makes at most maxSteps steps, so it does not ask for tools for     *)
(* ever: strong fairness of Finish.  Nothing obliges anyone to cancel.     *)
(***************************************************************************)
Continue(p, k) ==
  \/ \E c \in Exec, failed \in BOOLEAN : Delegate(p, k, c, failed)
  \/ Refuse(p, k)
  \/ Suspend(p, k)
  \/ ReturnToRoot(p, k)
  \/ Reacquire(p, k)
  \/ AwaitPermit(p, k)
  \/ Resume(p, k)

ContinueHandoff(e) ==
  \/ PrepareHandoff(e)
  \/ RejectHandoff(e)
  \/ \E s \in Exec : CommitHandoff(e, s)
  \/ FailCheckpoint(e)

Fairness ==
  /\ WF_vars(Synchronous)
  /\ \A e \in Exec : /\ WF_vars(RunMicrotask(e))
                     /\ SF_vars(Finish(e))
                     /\ WF_vars(ContinueHandoff(e))
                     /\ \A k \in Calls : WF_vars(Continue(e, k))

FairSpec == Spec /\ Fairness

-----------------------------------------------------------------------------
(* Between two callbacks nobody waits in vain: a queued child has exactly  *)
(* one start entry, a suspended parent that wants its permit back exactly  *)
(* one entry for that call (none lost by cancelQueued, drain or the abort  *)
(* listener, none left behind by an execution that has ended), and no      *)
(* entry that could start is in the queue, for every path that frees a     *)
(* permit has drained it.                                                  *)
QueueServed ==
  Quiescent =>
    /\ \A e \in Exec :
         Cardinality({j \in EntriesOf(e) : IsStart(queue[j])}) = IF status[e] = "queued" THEN 1 ELSE 0
    /\ \A e \in Exec, k \in Calls :
         Cardinality({j \in EntriesOf(e) : queue[j].call = k})
           = IF call[e][k].phase = "reacquiring" THEN 1 ELSE 0
    /\ Startable(1) = {}

(* A delegated agent works while its model or its own tools run and no     *)
(* delegate_task call is pending.                                          *)
Working(e) ==
  Delegated(e) /\ status[e] = "running" /\ (\A k \in Calls : call[e][k].phase = "idle")

(* Who works holds a permit: nobody goes on after a suspension without     *)
(* having got it back.  And between two callbacks a permit belongs to a    *)
(* delegated execution that is running: none leaks when an execution ends  *)
(* while its factory, its tool calls or its reacquire promise are still in *)
(* flight.  This is what makes the limits of PermitBound limits on work.   *)
PermitsWhereWork ==
  /\ \A e \in Exec : Working(e) => e \in runningExecutions
  /\ Quiescent => \A e \in runningExecutions : Delegated(e) /\ status[e] = "running"

(* Between two callbacks every live delegated execution has a live parent: *)
(* the cascade of onTerminal and cancelDescendants has reached the whole   *)
(* subtree of whatever has ended.                                          *)
NoOrphan ==
  Quiescent => \A e \in Exec : Delegated(e) /\ Live(e) => Live(parent[e])

(* Control of a branch is with one execution at a time.                    *)
OneLivePerBranch ==
  Quiescent => \A b \in Exec : Cardinality({e \in Members(b) : Live(e)}) <= 1

(* Terminal records stay in active until the root of their tree ends, and  *)
(* then go: a tree without a live execution has no record in active left.  *)
(* The other maps of a tree (branches, reports, usage, the retained trees) *)
(* are not modelled.                                                       *)
FinishedTreesReleased ==
  Quiescent => \A r \in Exec : (\A e \in Exec : root[e] = r => ~Live(e)) => Tree(r) = {}

(* Every delegated execution ends: none waits for ever for a permit, for a *)
(* child or for a call whose continuation was lost.                        *)
DelegationEnds == \A e \in Exec : Delegated(e) /\ Live(e) ~> Terminal(e)

(* Every delegate_task call returns, or its caller is cancelled.           *)
CallsReturn ==
  \A p \in Exec, k \in Calls : call[p][k].phase # "idle" ~> call[p][k].phase = "idle"

(* The scheduler implements the pool of permits.                           *)
Pool == INSTANCE PermitPool WITH
  Task <- Exec, NoGroup <- None, parentOf <- parent, treeOf <- root,
  holders <- runningExecutions, PerParent <- maxConcurrentPerParent,
  PerTree <- maxConcurrentPerTree, InAll <- maxConcurrentDelegatedExecutions

PoolSpec == Pool!Spec
=============================================================================
