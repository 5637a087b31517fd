-------------------------- MODULE AgentRuntimeProofs --------------------------
(***************************************************************************)
(* Proofs about AgentRuntime, for every value of the constants, in five    *)
(* parts: the types of its variables, the permits of the scheduler, the    *)
(* records and the queue, the drain of the queue, and the trees of         *)
(* executions with their branches.                                         *)
(***************************************************************************)
EXTENDS AgentRuntime, FiniteSetTheorems, SequenceTheorems, WellFoundedInduction, TLAPS

-----------------------------------------------------------------------------
(***************************************************************************)
(* Every variable of AgentRuntime always has its type.  TypeOK is          *)
(* inductive, so there is one step per action; the work is in the queue    *)
(* and the stack, which are spliced and prepended to, and in First, whose  *)
(* CHOOSE must be shown to have something to choose.                       *)
(***************************************************************************)

(* A set of naturals that is not empty has a first element, and First is   *)
(* that element: drain and cancelDescendants always have one to take.      *)
LEMMA FirstIsFirst ==
  ASSUME NEW S \in SUBSET Nat, S # {}
  PROVE  First(S) \in S /\ \A k \in S : First(S) <= k
<1> DEFINE R == {ss \in Nat \X Nat : ss[1] < ss[2]}
<1>1. IsWellFoundedOn(R, Nat)
  BY NatLessThanWellFounded DEF OpToRel
<1>2. \E x \in S : \A y \in S : ~ (<<y, x>> \in R)
  <2> HIDE DEF R
  <2> QED BY <1>1, WFMin
<1>3. PICK x \in S : \A y \in S : ~ (<<y, x>> \in R)
  BY <1>2
<1>4. ASSUME NEW y \in S  PROVE x <= y
  <2>1. y < x => <<y, x>> \in R
    BY SMT
  <2>2. ~ (y < x)
    BY <1>3, <2>1
  <2> QED
    BY <2>2, SMT
<1>5. QED
  BY <1>4 DEF First

(* Taking one entry out of the queue leaves a queue whose entries are      *)
(* entries of the old one.                                                 *)
LEMMA WithoutType ==
  ASSUME queue \in Seq(Entry), NEW j \in DOMAIN queue
  PROVE  /\ Without(j) \in Seq(Entry)
         /\ \A i \in DOMAIN Without(j) : \E k \in DOMAIN queue : Without(j)[i] = queue[k]
<1> DEFINE before == SubSeq(queue, 1, j - 1)
           after == SubSeq(queue, j + 1, Len(queue))
<1>1. /\ j \in Nat /\ 1 <= j /\ j <= Len(queue) /\ Len(queue) \in Nat
      /\ DOMAIN queue = 1 .. Len(queue)
      /\ \A i \in 1 .. Len(queue) : queue[i] \in Entry
  BY LenProperties
<1>2. /\ before \in Seq(Entry)
      /\ Len(before) = j - 1
      /\ \A i \in 1 .. j - 1 : before[i] = queue[i]
  BY <1>1, SMT
<1>3. /\ after \in Seq(Entry)
      /\ Len(after) = Len(queue) - j
      /\ \A i \in 1 .. Len(queue) - j : after[i] = queue[i + j]
  BY <1>1, SMT
<1>4. Without(j) = before \o after
  BY DEF Without
<1> HIDE DEF before, after
<1>5. /\ Without(j) \in Seq(Entry)
      /\ Len(Without(j)) = Len(queue) - 1
      /\ \A i \in 1 .. Len(queue) - 1 :
            Without(j)[i] = IF i <= j - 1 THEN before[i] ELSE after[i - (j - 1)]
  <2>1. /\ Without(j) \in Seq(Entry)
        /\ Len(Without(j)) = Len(before) + Len(after)
        /\ \A i \in 1 .. Len(before) + Len(after) :
              Without(j)[i] = IF i <= Len(before) THEN before[i] ELSE after[i - Len(before)]
    <3>1. before \in Seq(Entry) /\ after \in Seq(Entry)
      BY <1>2, <1>3
    <3>2. /\ before \o after \in Seq(Entry)
          /\ Len(before \o after) = Len(before) + Len(after)
          /\ \A i \in 1 .. Len(before) + Len(after) :
                (before \o after)[i] = IF i <= Len(before) THEN before[i] ELSE after[i - Len(before)]
      BY ONLY <3>1, ConcatProperties
    <3> QED
      BY ONLY <1>4, <3>2
  <2>2. Len(before) + Len(after) = Len(queue) - 1
    BY <1>1, <1>2, <1>3, SMT
  <2>3. Len(before) = j - 1
    BY <1>2
  <2> QED
    BY ONLY <2>1, <2>2, <2>3
<1>6. ASSUME NEW i \in DOMAIN Without(j)
      PROVE  \E k \in DOMAIN queue : Without(j)[i] = queue[k]
  <2>1. i \in 1 .. Len(queue) - 1
    BY <1>5, LenProperties
  <2>2. CASE i <= j - 1
    BY <1>1, <1>2, <1>5, <2>1, <2>2, SMT
  <2>3. CASE ~ (i <= j - 1)
    <3>1. i - (j - 1) \in 1 .. Len(queue) - j /\ i + 1 \in 1 .. Len(queue)
      BY <1>1, <2>1, <2>3, SMT
    <3>2. Without(j)[i] = queue[(i - (j - 1)) + j]
      BY <1>3, <1>5, <2>1, <2>3, <3>1
    <3>3. (i - (j - 1)) + j = i + 1
      BY <1>1, <2>1, SMT
    <3> QED
      BY <1>1, <3>1, <3>2, <3>3
  <2> QED
    BY <2>2, <2>3
<1>7. QED
  BY <1>5, <1>6
-----------------------------------------------------------------------------
(* The frames are executions and queue positions: putting frames on top of *)
(* the stack or of the caller below keeps it a sequence of frames.         *)
LEMMA StackType ==
  ASSUME TypeOK
  PROVE  /\ \A e \in Exec : CallFrame("terminal", e) \in Frame /\ CallFrame("cancelDescendants", e) \in Frame
         /\ \A i \in Nat : CallFrame("drain", i) \in Frame
         /\ \A f \in Frame : <<f>> \o stack \in Seq(Frame) /\ <<f>> \in Seq(Frame)
         /\ stack # << >> => /\ Below \in Seq(Frame)
                             /\ Arg \in Nat
                             /\ stack[1].op # "drain" => Arg \in Exec
                             /\ \A f \in Frame : <<f>> \o Below \in Seq(Frame)
                             /\ \A f, g \in Frame : <<f, g>> \o Below \in Seq(Frame)
<1>1. /\ \A e \in Exec : CallFrame("terminal", e) \in Frame /\ CallFrame("cancelDescendants", e) \in Frame
      /\ \A i \in Nat : CallFrame("drain", i) \in Frame
  BY SchedulerAssumption DEF CallFrame, Frame, Exec
<1>2. stack \in Seq(Frame)
  BY DEF TypeOK
<1>3. \A f, g \in Frame : <<f>> \in Seq(Frame) /\ <<f, g>> \in Seq(Frame)
  BY SMT
<1>4. \A f \in Frame : <<f>> \o stack \in Seq(Frame)
  BY <1>2, <1>3, ConcatProperties
<1>5. ASSUME stack # << >>
      PROVE  Below \in Seq(Frame) /\ Arg \in Nat /\ (stack[1].op # "drain" => Arg \in Exec)
  <2>1. Below \in Seq(Frame)
    BY <1>2, <1>5, HeadTailProperties DEF Below
  <2>2. stack[1] \in Frame
    BY <1>2, <1>5, SMT
  <2>3. Exec \subseteq Nat
    BY SchedulerAssumption DEF Exec
  <2> QED
    BY <2>1, <2>2, <2>3 DEF Arg, Frame
<1>6. stack # << >> => /\ \A f \in Frame : <<f>> \o Below \in Seq(Frame)
                       /\ \A f, g \in Frame : <<f, g>> \o Below \in Seq(Frame)
  BY <1>3, <1>5, ConcatProperties
<1> QED
  BY <1>1, <1>3, <1>4, <1>5, <1>6

(* The entry drain takes is an entry of the queue, and so is the one       *)
(* cancelQueued takes.                                                     *)
LEMMA FirstOfQueue ==
  ASSUME SchedulerTypeOK
  PROVE  /\ \A i : Startable(i) # {} =>
              /\ First(Startable(i)) \in DOMAIN queue
              /\ CanStart(queue[First(Startable(i))].exec)
         /\ \A e : EntriesOf(e) # {} => First(EntriesOf(e)) \in DOMAIN queue
         /\ \A j \in DOMAIN queue : /\ j \in Nat
                                    /\ queue[j].exec \in Exec
                                    /\ queue[j].call \in Nat
<1>1. DOMAIN queue \in SUBSET Nat /\ \A j \in DOMAIN queue : queue[j] \in Entry
  BY LenProperties DEF SchedulerTypeOK
<1>2. \A i : Startable(i) \in SUBSET Nat
  BY <1>1 DEF Startable
<1>3. \A e : EntriesOf(e) \in SUBSET Nat
  BY <1>1 DEF EntriesOf
<1>4. \A i : Startable(i) # {} => First(Startable(i)) \in Startable(i)
  BY <1>2, FirstIsFirst
<1>5. \A e : EntriesOf(e) # {} => First(EntriesOf(e)) \in EntriesOf(e)
  BY <1>3, FirstIsFirst
<1>6. \A j \in DOMAIN queue : queue[j].exec \in Exec /\ queue[j].call \in Nat
  BY <1>1 DEF Entry
<1> QED
  BY <1>1, <1>4, <1>5, <1>6 DEF Startable, EntriesOf

(* Acquire and Release keep the types of the counters.                     *)
LEMMA CounterType ==
  ASSUME NEW f \in [Exec -> Nat], NEW p
  PROVE  /\ [f EXCEPT ![p] = @ + 1] \in [Exec -> Nat]
         /\ [f EXCEPT ![p] = AtLeastZero(@ - 1)] \in [Exec -> Nat]
<1>1. \A x \in Exec : f[x] + 1 \in Nat /\ AtLeastZero(f[x] - 1) \in Nat
  BY SMT DEF AtLeastZero
<1> QED
  BY <1>1

(* What CounterType says of one counter, for all the counters that acquire *)
(* and release write.                                                      *)
LEMMA CountersType ==
  ASSUME SchedulerTypeOK
  PROVE  /\ \A e \in Exec : \A p, r : Acquire(e, p, r) =>
              /\ runningExecutions' \subseteq Exec
              /\ runningByParent' \in [Exec -> Nat]
              /\ runningByTree' \in [Exec -> Nat]
              /\ runningTotal' \in Nat
         /\ \A e : Release(e) =>
              /\ runningExecutions' \subseteq Exec
              /\ runningByParent' \in [Exec -> Nat]
              /\ runningByTree' \in [Exec -> Nat]
              /\ runningTotal' \in Nat
<1> USE DEF SchedulerTypeOK
<1>1. ASSUME NEW e \in Exec, NEW p, NEW r, Acquire(e, p, r)
      PROVE  /\ runningExecutions' \subseteq Exec
             /\ runningByParent' \in [Exec -> Nat]
             /\ runningByTree' \in [Exec -> Nat]
             /\ runningTotal' \in Nat
  <2>1. CASE e \in runningExecutions
    BY <1>1, <2>1 DEF Acquire, counterVars
  <2>2. CASE e \notin runningExecutions
    <3>1. /\ runningExecutions' = runningExecutions \cup {e}
          /\ runningTotal' = runningTotal + 1
          /\ runningByParent' = [runningByParent EXCEPT ![p] = @ + 1]
          /\ runningByTree' = [runningByTree EXCEPT ![r] = @ + 1]
      BY <1>1, <2>2 DEF Acquire
    <3>2. runningByParent' \in [Exec -> Nat] /\ runningByTree' \in [Exec -> Nat]
      BY <3>1, CounterType
    <3> QED
      BY <3>1, <3>2
  <2> QED
    BY <2>1, <2>2
<1>2. ASSUME NEW e, Release(e)
      PROVE  /\ runningExecutions' \subseteq Exec
             /\ runningByParent' \in [Exec -> Nat]
             /\ runningByTree' \in [Exec -> Nat]
             /\ runningTotal' \in Nat
  <2>1. runningTotal' \in Nat
    BY <1>2, SMT DEF Release, AtLeastZero
  <2> QED
    BY <1>2, <2>1, CounterType DEF Release
<1> QED
  BY <1>1, <1>2
-----------------------------------------------------------------------------
(* Changing one call, or all the calls of one execution, keeps the type.   *)
LEMMA CallType ==
  ASSUME TypeOK
  PROVE  /\ \A e \in Exec : [call EXCEPT ![e] = [k \in Calls |-> Idle]] \in [Exec -> [Calls -> Call]]
         /\ \A e, k, ph : ph \in Phase => [call EXCEPT ![e][k].phase = ph] \in [Exec -> [Calls -> Call]]
         /\ \A e, k, v : v \in Call => [call EXCEPT ![e][k] = v] \in [Exec -> [Calls -> Call]]
         /\ Idle \in Call
<1>1. Idle \in Call
  BY DEF Idle, Call, Phase
<1>2. call \in [Exec -> [Calls -> Call]]
  BY DEF TypeOK
<1>3. ASSUME NEW e, NEW k, NEW v \in Call
      PROVE  [call EXCEPT ![e][k] = v] \in [Exec -> [Calls -> Call]]
  <2>1. \A x \in Exec : [call[x] EXCEPT ![k] = v] \in [Calls -> Call]
    BY <1>2
  <2> QED
    BY <1>2, <2>1
<1>4. ASSUME NEW e, NEW k, NEW ph \in Phase
      PROVE  [call EXCEPT ![e][k].phase = ph] \in [Exec -> [Calls -> Call]]
  <2>1. \A x \in Exec, y \in Calls : [call[x][y] EXCEPT !.phase = ph] \in Call
    BY <1>2 DEF Call
  <2>2. \A x \in Exec : [call[x] EXCEPT ![k] = [call[x][k] EXCEPT !.phase = ph]] \in [Calls -> Call]
    BY <1>2, <2>1
  <2> QED
    BY <1>2, <2>2
<1> QED
  BY <1>1, <1>2, <1>3, <1>4

(* A new entry goes to the end of the queue.                               *)
LEMMA EnqueueType ==
  ASSUME SchedulerTypeOK, NEW e \in Exec, NEW k \in Nat, Enqueue(e, k)
  PROVE  /\ queue' \in Seq(Entry)
         /\ \A j \in DOMAIN queue' :
              queue'[j] = [exec |-> e, call |-> k] \/ \E i \in DOMAIN queue : queue'[j] = queue[i]
<1>1. [exec |-> e, call |-> k] \in Entry /\ queue \in Seq(Entry)
  BY DEF Entry, SchedulerTypeOK
<1>2. queue' = Append(queue, [exec |-> e, call |-> k])
  BY DEF Enqueue
<1>3. /\ queue' \in Seq(Entry)
      /\ Len(queue') = Len(queue) + 1
      /\ \A i \in 1 .. Len(queue) : queue'[i] = queue[i]
      /\ queue'[Len(queue) + 1] = [exec |-> e, call |-> k]
  BY ONLY <1>1, <1>2, AppendProperties
<1>4. /\ DOMAIN queue' = 1 .. Len(queue')
      /\ DOMAIN queue = 1 .. Len(queue)
      /\ Len(queue) \in Nat
  BY <1>1, <1>3, LenProperties
<1>5. ASSUME NEW j \in DOMAIN queue'
      PROVE  j \in 1 .. Len(queue) \/ j = Len(queue) + 1
  BY <1>3, <1>4, SMT
<1> QED
  BY <1>3, <1>4, <1>5

(* What startDelegation does is well typed.                                *)
LEMMA StartDelegationType ==
  ASSUME TypeOK, NEW p \in Exec, NEW c \in Exec, NEW failed \in BOOLEAN,
         StartDelegation(p, c, failed)
  PROVE  /\ SchedulerTypeOK'
         /\ status' \in [Exec -> Status]
         /\ activity' \in [Exec -> Activity]
         /\ depth' \in [Exec -> 0 .. maxDepth]
         /\ branch' \in [Exec -> Exec \cup {None}]
         /\ active' \subseteq Exec
         /\ handoff' \in [Exec -> HandoffPhase]
         /\ stack' \in Seq(Frame)
<1> DEFINE starts == CanStartUnder(p, root[p])
<1>1. /\ parent' = [parent EXCEPT ![c] = p]
      /\ root' = [root EXCEPT ![c] = root[p]]
      /\ depth' = [depth EXCEPT ![c] = depth[p] + 1]
      /\ branch' = [branch EXCEPT ![c] = c]
      /\ active' = active \cup {c}
      /\ IF starts THEN Acquire(c, p, root[p]) /\ UNCHANGED queue
                   ELSE Enqueue(c, 0) /\ UNCHANGED counterVars
      /\ status' = [status EXCEPT ![c] = IF ~starts THEN "queued"
                                         ELSE IF failed THEN "ended" ELSE "running"]
      /\ activity' = [activity EXCEPT ![c] = IF ~starts THEN "waiting_for_permit"
                                             ELSE IF failed THEN "none" ELSE "active"]
      /\ stack' = IF failed THEN <<CallFrame("terminal", c)>> ELSE stack
      /\ UNCHANGED handoff
  BY DEF StartDelegation
<1> HIDE DEF starts
<1>2. /\ parent' \in [Exec -> Exec \cup {None}]
      /\ root' \in [Exec -> Exec \cup {None}]
      /\ branch' \in [Exec -> Exec \cup {None}]
      /\ active' \subseteq Exec
      /\ handoff' \in [Exec -> HandoffPhase]
  BY <1>1 DEF TypeOK, SchedulerTypeOK
<1>3. depth' \in [Exec -> 0 .. maxDepth]
  <2>1. depth[p] + 1 \in 0 .. maxDepth
    BY RuntimeAssumption DEF TypeOK, StartDelegation, Preflight
  <2> QED
    BY <1>1, <2>1 DEF TypeOK
<1>4. status' \in [Exec -> Status] /\ activity' \in [Exec -> Activity]
  BY <1>1 DEF TypeOK, Status, TerminalStatus, Activity
<1>5. stack' \in Seq(Frame)
  BY <1>1, StackType DEF TypeOK
<1>6. queue' \in Seq(Entry)
  <2>1. CASE starts
    BY <1>1, <2>1 DEF TypeOK, SchedulerTypeOK
  <2>2. CASE ~starts
    BY <1>1, <2>2, EnqueueType DEF TypeOK
  <2> QED
    BY <2>1, <2>2
<1>7. /\ runningExecutions' \subseteq Exec
      /\ runningByParent' \in [Exec -> Nat]
      /\ runningByTree' \in [Exec -> Nat]
      /\ runningTotal' \in Nat
  <2>1. CASE starts
    BY <1>1, <2>1, CountersType DEF TypeOK
  <2>2. CASE ~starts
    BY <1>1, <2>2 DEF TypeOK, SchedulerTypeOK, counterVars
  <2> QED
    BY <2>1, <2>2
<1> QED
  BY <1>2, <1>3, <1>4, <1>5, <1>6, <1>7 DEF SchedulerTypeOK

(* Ending an execution is well typed.                                      *)
LEMMA FinishAsType ==
  ASSUME TypeOK, NEW e \in Exec, NEW s \in Status, FinishAs(e, s)
  PROVE  /\ status' \in [Exec -> Status]
         /\ activity' \in [Exec -> Activity]
         /\ call' \in [Exec -> [Calls -> Call]]
         /\ stack' \in Seq(Frame)
<1>1. status' \in [Exec -> Status] /\ activity' \in [Exec -> Activity]
  BY DEF FinishAs, TypeOK, Activity
<1>2. call' \in [Exec -> [Calls -> Call]]
  BY CallType DEF FinishAs
<1>3. stack' \in Seq(Frame)
  BY StackType DEF FinishAs
<1> QED
  BY <1>1, <1>2, <1>3

(* Every callback keeps the types.                                         *)
LEMMA LifecycleType ==
  ASSUME TypeOK, NEW e \in Exec, Lifecycle(e)
  PROVE  TypeOK'
<1> USE DEF TypeOK, SchedulerTypeOK
<1>1. CASE StartRoot(e)
  BY <1>1 DEF StartRoot, Status, schedulerVars, counterVars
<1>2. CASE RunMicrotask(e)
  BY <1>2 DEF RunMicrotask, Status, Activity, identityVars, schedulerVars, counterVars
<1>3. CASE Finish(e) \/ Abort(e)
  <2>1. \E s \in Status : FinishAs(e, s)
    BY <1>3 DEF Finish, Abort, Status, TerminalStatus
  <2>2. UNCHANGED <<identityVars, schedulerVars, depth, branch, active, handoff>>
    BY <1>3 DEF Finish, Abort
  <2> QED
    BY <2>1, <2>2, FinishAsType DEF identityVars, schedulerVars, counterVars
<1> QED
  BY <1>1, <1>2, <1>3 DEF Lifecycle

(* Every step of a delegate_task call keeps the types.                     *)
LEMMA DelegationType ==
  ASSUME TypeOK, NEW p \in Exec, Delegation(p)
  PROVE  TypeOK'
<1>1. ASSUME NEW n \in Calls, Act(p, n)  PROVE TypeOK'
  <2>1. [k \in Calls |-> IF k <= n THEN [Idle EXCEPT !.phase = "issued"] ELSE Idle] \in [Calls -> Call]
    BY DEF Idle, Call, Phase
  <2>2. call' \in [Exec -> [Calls -> Call]]
    BY <1>1, <2>1 DEF Act, TypeOK
  <2> QED
    BY <1>1, <2>2 DEF Act, TypeOK, SchedulerTypeOK, identityVars, schedulerVars, counterVars
<1>2. ASSUME NEW c \in Exec, NEW failed \in BOOLEAN, DelegateProgrammatically(p, c, failed)
      PROVE  TypeOK'
  <2>1. StartDelegation(p, c, failed) /\ call' = call
    BY <1>2 DEF DelegateProgrammatically
  <2> QED
    BY <2>1, StartDelegationType DEF TypeOK
<1>3. ASSUME NEW k \in Calls, NEW c \in Exec, NEW failed \in BOOLEAN, Delegate(p, k, c, failed)
      PROVE  TypeOK'
  <2>1. StartDelegation(p, c, failed)
    BY <1>3 DEF Delegate
  <2>2. [phase |-> "started", child |-> c] \in Call
    BY DEF Call, Phase
  <2>3. call' \in [Exec -> [Calls -> Call]]
    BY <1>3, <2>2, CallType DEF Delegate
  <2> QED
    BY <2>1, <2>3, StartDelegationType DEF TypeOK
<1>4. ASSUME NEW k \in Calls, Refuse(p, k) \/ ReturnToRoot(p, k)
      PROVE  TypeOK'
  <2>1. call' \in [Exec -> [Calls -> Call]]
    <3>1. CASE Refuse(p, k)
      BY <3>1, CallType DEF Refuse, SetPhase, Phase
    <3>2. CASE ReturnToRoot(p, k)
      BY <3>2, CallType DEF ReturnToRoot
    <3> QED
      BY <1>4, <3>1, <3>2
  <2> QED
    BY <1>4, <2>1 DEF Refuse, ReturnToRoot, TypeOK, SchedulerTypeOK, identityVars, schedulerVars, counterVars
<1>5. ASSUME NEW k \in Calls, Suspend(p, k)
      PROVE  TypeOK'
  <2>1. call' \in [Exec -> [Calls -> Call]]
    BY <1>5, CallType DEF Suspend, SetPhase, Phase
  <2>2. activity' \in [Exec -> Activity]
    BY <1>5 DEF Suspend, TypeOK, Activity
  <2>3. stack' \in Seq(Frame)
    <3>1. CallFrame("drain", 1) \in Frame
      BY StackType
    <3> QED
      BY <1>5, <3>1, StackType DEF Suspend, TypeOK
  <2>4. /\ runningExecutions' \subseteq Exec
        /\ runningByParent' \in [Exec -> Nat]
        /\ runningByTree' \in [Exec -> Nat]
        /\ runningTotal' \in Nat
    BY <1>5, CountersType DEF Suspend, TypeOK, SchedulerTypeOK, counterVars
  <2>5. UNCHANGED <<identityVars, queue, status, depth, branch, active, handoff>>
    BY <1>5 DEF Suspend
  <2> QED
    BY <2>1, <2>2, <2>3, <2>4, <2>5 DEF TypeOK, SchedulerTypeOK, identityVars
<1>6. ASSUME NEW k \in Calls, Reacquire(p, k)
      PROVE  TypeOK'
  <2>1. call' \in [Exec -> [Calls -> Call]]
    BY <1>6, CallType DEF Reacquire, SetPhase, Phase
  <2>2. activity' \in [Exec -> Activity]
    BY <1>6 DEF Reacquire, TypeOK, Activity
  <2>3. /\ runningExecutions' \subseteq Exec
        /\ runningByParent' \in [Exec -> Nat]
        /\ runningByTree' \in [Exec -> Nat]
        /\ runningTotal' \in Nat
    BY <1>6, CountersType DEF Reacquire, TypeOK
  <2>4. UNCHANGED <<identityVars, queue, status, depth, branch, active, handoff, stack>>
    BY <1>6 DEF Reacquire
  <2> QED
    BY <2>1, <2>2, <2>3, <2>4 DEF TypeOK, SchedulerTypeOK, identityVars
<1>7. ASSUME NEW k \in Calls, AwaitPermit(p, k)
      PROVE  TypeOK'
  <2>1. call' \in [Exec -> [Calls -> Call]]
    BY <1>7, CallType DEF AwaitPermit, SetPhase, Phase
  <2>2. activity' \in [Exec -> Activity]
    BY <1>7 DEF AwaitPermit, TypeOK, Activity
  <2>3. queue' \in Seq(Entry)
    <3>1. k \in Nat
      BY DEF Calls
    <3>2. Enqueue(p, k)
      BY <1>7 DEF AwaitPermit
    <3> QED
      BY <3>1, <3>2, EnqueueType DEF TypeOK
  <2>4. UNCHANGED <<identityVars, counterVars, status, depth, branch, active, handoff, stack>>
    BY <1>7 DEF AwaitPermit
  <2> QED
    BY <2>1, <2>2, <2>3, <2>4 DEF TypeOK, SchedulerTypeOK, identityVars, counterVars
<1>8. ASSUME NEW k \in Calls, Resume(p, k)
      PROVE  TypeOK'
  <2>1. call' \in [Exec -> [Calls -> Call]]
    BY <1>8, CallType DEF Resume
  <2>2. activity' \in [Exec -> Activity]
    BY <1>8 DEF Resume, TypeOK, Activity
  <2> QED
    BY <1>8, <2>1, <2>2 DEF Resume, TypeOK, SchedulerTypeOK, identityVars, schedulerVars, counterVars
<1> QED
  BY <1>1, <1>2, <1>3, <1>4, <1>5, <1>6, <1>7, <1>8 DEF Delegation

(* Every step of a handoff keeps the types.                                *)
LEMMA HandoffType ==
  ASSUME TypeOK, NEW e \in Exec, Handoff(e)
  PROVE  TypeOK'
<1>1. CASE RequestHandoff(e) \/ PrepareHandoff(e) \/ RejectHandoff(e)
  <2>1. handoff' \in [Exec -> HandoffPhase]
    BY <1>1 DEF RequestHandoff, PrepareHandoff, RejectHandoff, TypeOK, HandoffPhase
  <2> QED
    BY <1>1, <2>1 DEF RequestHandoff, PrepareHandoff, RejectHandoff, TypeOK, SchedulerTypeOK,
                      identityVars, schedulerVars, counterVars
<1>2. ASSUME NEW s \in Exec, CommitHandoff(e, s)
      PROVE  TypeOK'
  <2>1. SchedulerTypeOK'
    BY <1>2 DEF CommitHandoff, TypeOK, SchedulerTypeOK, schedulerVars, counterVars
  <2>2. /\ status' \in [Exec -> Status]
        /\ activity' \in [Exec -> Activity]
        /\ handoff' \in [Exec -> HandoffPhase]
    BY <1>2 DEF CommitHandoff, TypeOK, Status, TerminalStatus, Activity, HandoffPhase
  <2>3. /\ depth' \in [Exec -> 0 .. maxDepth]
        /\ branch' \in [Exec -> Exec \cup {None}]
        /\ active' \subseteq Exec
        /\ call' \in [Exec -> [Calls -> Call]]
    BY <1>2 DEF CommitHandoff, TypeOK
  <2>4. stack' \in Seq(Frame)
    BY <1>2, StackType DEF CommitHandoff, TypeOK
  <2> QED
    BY <2>1, <2>2, <2>3, <2>4 DEF TypeOK
<1>3. CASE FailCheckpoint(e)
  <2>1. handoff' \in [Exec -> HandoffPhase]
    BY <1>3 DEF FailCheckpoint, TypeOK, HandoffPhase
  <2>2. "ended" \in Status
    BY DEF Status, TerminalStatus
  <2>3. /\ status' \in [Exec -> Status]
        /\ activity' \in [Exec -> Activity]
        /\ call' \in [Exec -> [Calls -> Call]]
        /\ stack' \in Seq(Frame)
    BY <1>3, <2>2, FinishAsType DEF FailCheckpoint, TypeOK
  <2> QED
    BY <1>3, <2>1, <2>3 DEF FailCheckpoint, TypeOK, SchedulerTypeOK,
                            identityVars, schedulerVars, counterVars
<1> QED
  BY <1>1, <1>2, <1>3 DEF Handoff

(* Every step of a synchronous call keeps the types.                       *)
LEMMA SynchronousType ==
  ASSUME TypeOK, Synchronous
  PROVE  TypeOK'
<1>1. CASE CancelQueued
  <2>1. queue' \in Seq(Entry)
    BY <1>1, FirstOfQueue, WithoutType DEF CancelQueued, TypeOK, SchedulerTypeOK
  <2> QED
    BY <1>1, <2>1 DEF CancelQueued, TypeOK, SchedulerTypeOK, identityVars, counterVars, runtimeVars
<1>2. CASE ReleasePermit
  <2>1. Arg \in Exec /\ stack # << >>
    BY <1>2, StackType DEF ReleasePermit, Top
  <2>2. stack' \in Seq(Frame)
    <3>1. CallFrame("drain", 1) \in Frame /\ CallFrame("cancelDescendants", Arg) \in Frame
      BY <2>1, StackType
    <3> QED
      BY <1>2, <2>1, <3>1, StackType DEF ReleasePermit
  <2>3. /\ runningExecutions' \subseteq Exec
        /\ runningByParent' \in [Exec -> Nat]
        /\ runningByTree' \in [Exec -> Nat]
        /\ runningTotal' \in Nat
    BY <1>2, CountersType DEF ReleasePermit, TypeOK, SchedulerTypeOK, counterVars
  <2>4. UNCHANGED <<identityVars, queue, status, activity, depth, branch, active, call, handoff>>
    BY <1>2 DEF ReleasePermit
  <2> QED
    BY <2>2, <2>3, <2>4 DEF TypeOK, SchedulerTypeOK, identityVars
<1>3. ASSUME NEW failed \in BOOLEAN, DrainChild(failed)
      PROVE  TypeOK'
  <2> DEFINE j == First(Startable(Arg))
             e == queue[j].exec
  <2>1. /\ j \in DOMAIN queue
        /\ j \in Nat
        /\ e \in Exec
    BY <1>3, FirstOfQueue DEF DrainChild, TypeOK
  <2>2. /\ queue' = Without(j)
        /\ Acquire(e, parent[e], root[e])
        /\ status' = [status EXCEPT ![e] = IF failed THEN "ended" ELSE "running"]
        /\ activity' = [activity EXCEPT ![e] = IF failed THEN "none" ELSE "active"]
        /\ stack' = IF failed
                      THEN <<CallFrame("terminal", e), CallFrame("drain", j)>> \o Below
                      ELSE <<CallFrame("drain", j)>> \o Below
        /\ UNCHANGED <<identityVars, depth, branch, active, call, handoff>>
        /\ stack # << >>
    BY <1>3 DEF DrainChild, Top
  <2> HIDE DEF j, e
  <2>3. queue' \in Seq(Entry)
    BY <2>1, <2>2, WithoutType DEF TypeOK, SchedulerTypeOK
  <2>4. /\ runningExecutions' \subseteq Exec
        /\ runningByParent' \in [Exec -> Nat]
        /\ runningByTree' \in [Exec -> Nat]
        /\ runningTotal' \in Nat
    BY <2>1, <2>2, CountersType DEF TypeOK
  <2>5. status' \in [Exec -> Status] /\ activity' \in [Exec -> Activity]
    BY <2>2 DEF TypeOK, Status, TerminalStatus, Activity
  <2>6. stack' \in Seq(Frame)
    <3>1. CallFrame("terminal", e) \in Frame /\ CallFrame("drain", j) \in Frame
      BY <2>1, StackType
    <3> QED
      BY <2>2, <3>1, StackType
  <2> QED
    BY <2>2, <2>3, <2>4, <2>5, <2>6 DEF TypeOK, SchedulerTypeOK, identityVars
<1>4. CASE DrainParent
  <2> DEFINE j == First(Startable(Arg))
             e == queue[j].exec
  <2>1. /\ j \in DOMAIN queue
        /\ j \in Nat
        /\ e \in Exec
    BY <1>4, FirstOfQueue DEF DrainParent, TypeOK
  <2>2. /\ queue' = Without(j)
        /\ Acquire(e, parent[e], root[e])
        /\ activity' = [activity EXCEPT ![e] = "active"]
        /\ SetPhase(e, queue[j].call, "reacquired")
        /\ stack' = <<CallFrame("drain", j)>> \o Below
        /\ UNCHANGED <<identityVars, status, depth, branch, active, handoff>>
        /\ stack # << >>
    BY <1>4 DEF DrainParent, Top
  <2> HIDE DEF j, e
  <2>3. queue' \in Seq(Entry)
    BY <2>1, <2>2, WithoutType DEF TypeOK, SchedulerTypeOK
  <2>4. /\ runningExecutions' \subseteq Exec
        /\ runningByParent' \in [Exec -> Nat]
        /\ runningByTree' \in [Exec -> Nat]
        /\ runningTotal' \in Nat
    BY <2>1, <2>2, CountersType DEF TypeOK
  <2>5. activity' \in [Exec -> Activity]
    BY <2>2 DEF TypeOK, Activity
  <2>6. call' \in [Exec -> [Calls -> Call]]
    BY <2>2, CallType DEF SetPhase, Phase
  <2>7. stack' \in Seq(Frame)
    BY <2>1, <2>2, StackType
  <2> QED
    BY <2>2, <2>3, <2>4, <2>5, <2>6, <2>7 DEF TypeOK, SchedulerTypeOK, identityVars
<1>5. CASE DrainDone
  <2>1. stack' \in Seq(Frame)
    BY <1>5, StackType DEF DrainDone, Top
  <2> QED
    BY <1>5, <2>1 DEF DrainDone, TypeOK, SchedulerTypeOK, identityVars, schedulerVars, counterVars
<1>6. CASE CancelChild
  <2>1. First(LiveChildren(Arg)) \in Exec
    <3>1. LiveChildren(Arg) \in SUBSET Exec /\ Exec \subseteq Nat
      BY SchedulerAssumption DEF LiveChildren, Children, Exec
    <3>2. LiveChildren(Arg) # {}
      BY <1>6 DEF CancelChild
    <3> QED
      BY <3>1, <3>2, FirstIsFirst
  <2>2. FinishAs(First(LiveChildren(Arg)), "aborted") /\ "aborted" \in Status
    BY <1>6 DEF CancelChild, Status, TerminalStatus
  <2>3. UNCHANGED <<identityVars, schedulerVars, depth, branch, active, handoff>>
    BY <1>6 DEF CancelChild
  <2> QED
    BY <2>1, <2>2, <2>3, FinishAsType DEF TypeOK, SchedulerTypeOK, identityVars, schedulerVars, counterVars
<1>7. CASE LeaveTerminal
  <2>1. stack' \in Seq(Frame)
    BY <1>7, StackType DEF LeaveTerminal, Top
  <2>2. active' \subseteq Exec
    BY <1>7 DEF LeaveTerminal, TypeOK
  <2> QED
    BY <1>7, <2>1, <2>2 DEF LeaveTerminal, TypeOK, SchedulerTypeOK, identityVars, schedulerVars, counterVars
<1> QED
  BY <1>1, <1>2, <1>3, <1>4, <1>5, <1>6, <1>7 DEF Synchronous

(* The first state is well typed.                                          *)
LEMMA InitType == Init => TypeOK
<1>1. \A n \in {"none"} : n \in Status /\ n \in Activity /\ n \in HandoffPhase
  BY DEF Status, Activity, HandoffPhase
<1>2. << >> \in Seq(Entry) /\ << >> \in Seq(Frame)
  BY SMT
<1>3. Idle \in Call
  BY DEF Idle, Call, Phase
<1>4. 0 \in 0 .. maxDepth
  BY RuntimeAssumption
<1> QED
  BY <1>1, <1>2, <1>3, <1>4 DEF Init, TypeOK, SchedulerInit, SchedulerTypeOK

(* Every step keeps the types.                                             *)
LEMMA StepType == TypeOK /\ [Next]_vars => TypeOK'
<1>1. CASE UNCHANGED vars
  BY <1>1 DEF TypeOK, SchedulerTypeOK, vars, runtimeVars, identityVars, schedulerVars, counterVars
<1> QED
  BY <1>1, LifecycleType, DelegationType, HandoffType, SynchronousType DEF Next

(* Every variable always has its type: in particular the queue holds only  *)
(* entries of executions, and the counters never become negative.          *)
THEOREM TypeCorrect == Spec => []TypeOK
BY InitType, StepType, PTL DEF Spec

-----------------------------------------------------------------------------
(***************************************************************************)
(* The permits of the scheduler, for every value of the constants: the     *)
(* counters say how many permits are held, no limit is exceeded, and the   *)
(* runtime implements the pool of permits of PermitPool.                   *)
(*                                                                         *)
(* The argument: whatever callback runs, the scheduler's state makes one   *)
(* of four small steps (SchedulerStep).  That needs to know that ids which *)
(* are not allocated are in nobody's group and that whoever holds or waits *)
(* for a permit is a delegated execution of a tree (Allocation).           *)
(***************************************************************************)

Allocation ==
  /\ \A e \in Exec : status[e] = "none" => parent[e] = None /\ root[e] = None
  /\ \A e \in Exec : parent[e] # None \/ e \in active \/ handoff[e] # "none" => root[e] # None
  /\ \A e \in runningExecutions : parent[e] # None
  /\ \A j \in DOMAIN queue : parent[queue[j].exec] # None

(* A new execution joins its groups and, if there is room, starts.         *)
JoinStep(c, p, r) ==
  /\ root[c] = None
  /\ c \notin runningExecutions
  /\ parent' = [parent EXCEPT ![c] = p]
  /\ root' = [root EXCEPT ![c] = r]
  /\ \/ UNCHANGED counterVars
     \/ p # None /\ CanStartUnder(p, r) /\ Acquire(c, p, r)

(* An execution that waited, or a parent that comes back, gets a permit.   *)
GrantStep(e) ==
  /\ UNCHANGED identityVars
  /\ parent[e] # None
  /\ CanStart(e)
  /\ Acquire(e, parent[e], root[e])

ReturnStep(e) ==
  /\ UNCHANGED identityVars
  /\ e \in runningExecutions
  /\ Release(e)

SchedulerStep ==
  \/ UNCHANGED <<identityVars, counterVars>>
  \/ \E c, r \in Exec, p \in Exec \cup {None} : JoinStep(c, p, r)
  \/ \E e \in Exec : GrantStep(e) \/ ReturnStep(e)

IInv == TypeOK /\ Allocation /\ PermitAccounting /\ PermitBound
-----------------------------------------------------------------------------
(* An id that has not been allocated can join: it is in no group yet and   *)
(* holds no permit.                                                        *)
LEMMA FreshIsFree ==
  ASSUME TypeOK, Allocation, NEW c \in Exec, Fresh(c)
  PROVE  root[c] = None /\ parent[c] = None /\ c \notin runningExecutions
BY DEF Allocation, Fresh

(* startDelegation makes the child join its parent's group and tree.       *)
LEMMA StartDelegationStep ==
  ASSUME TypeOK, Allocation, NEW p \in Exec, NEW c \in Exec, NEW failed \in BOOLEAN,
         StartDelegation(p, c, failed)
  PROVE  root[p] \in Exec /\ JoinStep(c, p, root[p])
<1>1. root[p] \in Exec
  BY DEF StartDelegation, Preflight, Allocation, TypeOK, SchedulerTypeOK
<1>2. root[c] = None /\ c \notin runningExecutions
  BY FreshIsFree DEF StartDelegation
<1>3. p # None
  BY SchedulerAssumption DEF Exec, None
<1>4. \/ UNCHANGED counterVars
      \/ CanStartUnder(p, root[p]) /\ Acquire(c, p, root[p])
  BY DEF StartDelegation
<1>5. parent' = [parent EXCEPT ![c] = p] /\ root' = [root EXCEPT ![c] = root[p]]
  BY DEF StartDelegation
<1> QED
  BY <1>1, <1>2, <1>3, <1>4, <1>5 DEF JoinStep

(* Whatever callback or synchronous step runs, the scheduler makes one of  *)
(* its four steps.                                                         *)
LEMMA EveryStepIsASchedulerStep ==
  ASSUME TypeOK, Allocation, [Next]_vars
  PROVE  SchedulerStep
<1>1. CASE UNCHANGED vars
  BY <1>1 DEF SchedulerStep, vars, schedulerVars
<1>2. ASSUME NEW e \in Exec, Lifecycle(e)
      PROVE  SchedulerStep
  <2>1. CASE StartRoot(e)
    <3>1. root[e] = None /\ parent[e] = None /\ e \notin runningExecutions
      BY <2>1, FreshIsFree DEF StartRoot
    <3>2. parent' = [parent EXCEPT ![e] = None]
      BY <2>1, <3>1 DEF StartRoot, TypeOK, SchedulerTypeOK
    <3>3. root' = [root EXCEPT ![e] = e] /\ UNCHANGED counterVars
      BY <2>1 DEF StartRoot, schedulerVars
    <3>4. JoinStep(e, None, e)
      BY <3>1, <3>2, <3>3 DEF JoinStep
    <3> QED
      BY <3>4 DEF SchedulerStep
  <2>2. CASE RunMicrotask(e) \/ Finish(e) \/ Abort(e)
    BY <2>2 DEF RunMicrotask, Finish, Abort, SchedulerStep, schedulerVars
  <2> QED
    BY <1>2, <2>1, <2>2 DEF Lifecycle
<1>3. ASSUME NEW p \in Exec, Delegation(p)
      PROVE  SchedulerStep
  <2>1. CASE \E c \in Exec, failed \in BOOLEAN : StartDelegation(p, c, failed)
    BY <2>1, StartDelegationStep DEF SchedulerStep
  <2>2. ASSUME NEW k \in Calls, Suspend(p, k)  PROVE SchedulerStep
    <3>1. UNCHANGED identityVars
      BY <2>2 DEF Suspend
    <3>2. UNCHANGED counterVars \/ (p \in runningExecutions /\ Release(p))
      BY <2>2 DEF Suspend
    <3> QED
      BY <3>1, <3>2 DEF SchedulerStep, ReturnStep
  <2>3. ASSUME NEW k \in Calls, Reacquire(p, k)  PROVE SchedulerStep
    <3>1. GrantStep(p)
      BY <2>3 DEF Reacquire, GrantStep, Delegated
    <3> QED
      BY <3>1 DEF SchedulerStep
  <2>4. ASSUME NEW k \in Calls, AwaitPermit(p, k) \/ Refuse(p, k) \/ ReturnToRoot(p, k) \/ Resume(p, k)
        PROVE  SchedulerStep
    BY <2>4 DEF AwaitPermit, Refuse, ReturnToRoot, Resume, SchedulerStep, schedulerVars
  <2>5. ASSUME NEW n \in Calls, Act(p, n)  PROVE SchedulerStep
    BY <2>5 DEF Act, SchedulerStep, schedulerVars
  <2> QED
    BY <1>3, <2>1, <2>2, <2>3, <2>4, <2>5 DEF Delegation, Delegate, DelegateProgrammatically
<1>4. ASSUME NEW e \in Exec, Handoff(e)
      PROVE  SchedulerStep
  <2>1. ASSUME NEW s \in Exec, CommitHandoff(e, s)  PROVE SchedulerStep
    <3>1. root[e] \in Exec /\ parent[e] \in Exec \cup {None}
      BY <2>1 DEF CommitHandoff, Allocation, TypeOK, SchedulerTypeOK
    <3>2. root[s] = None /\ s \notin runningExecutions
      BY <2>1, FreshIsFree DEF CommitHandoff
    <3>3. JoinStep(s, parent[e], root[e])
      BY <2>1, <3>2 DEF CommitHandoff, JoinStep, schedulerVars
    <3> QED
      BY <3>1, <3>3 DEF SchedulerStep
  <2>2. CASE RequestHandoff(e) \/ PrepareHandoff(e) \/ RejectHandoff(e) \/ FailCheckpoint(e)
    BY <2>2 DEF RequestHandoff, PrepareHandoff, RejectHandoff, FailCheckpoint, SchedulerStep, schedulerVars
  <2> QED
    BY <1>4, <2>1, <2>2 DEF Handoff
<1>5. ASSUME Synchronous
      PROVE  SchedulerStep
  <2>1. CASE ReleasePermit
    <3>1. Arg \in Exec
      BY <2>1, StackType DEF ReleasePermit, Top
    <3>2. UNCHANGED identityVars /\ (UNCHANGED counterVars \/ (Arg \in runningExecutions /\ Release(Arg)))
      BY <2>1 DEF ReleasePermit
    <3> QED
      BY <3>1, <3>2 DEF SchedulerStep, ReturnStep
  <2>2. CASE DrainParent \/ \E failed \in BOOLEAN : DrainChild(failed)
    <3> DEFINE j == First(Startable(Arg))
               e == queue[j].exec
    <3>1. j \in DOMAIN queue /\ e \in Exec /\ CanStart(e)
      BY <2>2, FirstOfQueue DEF DrainChild, DrainParent, TypeOK
    <3>2. UNCHANGED identityVars /\ Acquire(e, parent[e], root[e])
      BY <2>2 DEF DrainChild, DrainParent
    <3>3. parent[e] # None
      BY <3>1 DEF Allocation
    <3> HIDE DEF e, j
    <3> QED
      BY <3>1, <3>2, <3>3 DEF SchedulerStep, GrantStep
  <2>3. CASE CancelQueued \/ DrainDone \/ CancelChild \/ LeaveTerminal
    BY <2>3 DEF CancelQueued, DrainDone, CancelChild, LeaveTerminal, SchedulerStep, schedulerVars
  <2> QED
    BY <1>5, <2>1, <2>2, <2>3 DEF Synchronous
<1> QED
  BY <1>1, <1>2, <1>3, <1>4, <1>5 DEF Next
-----------------------------------------------------------------------------
(* A step that leaves the groups alone keeps Allocation if whoever it      *)
(* touches was allocated already.                                          *)
LEMMA SameGroups ==
  ASSUME TypeOK, Allocation, UNCHANGED identityVars,
         \A e \in Exec : status'[e] = "none" => status[e] = "none",
         \A e \in Exec : e \in active' \/ handoff'[e] # "none" => root[e] # None,
         \A e \in runningExecutions' : parent[e] # None,
         \A j \in DOMAIN queue' : parent[queue'[j].exec] # None
  PROVE  Allocation'
BY DEF Allocation, identityVars

(* Ending an execution that is allocated keeps Allocation.                 *)
LEMMA FinishAsAllocation ==
  ASSUME TypeOK, Allocation, NEW e \in Exec, NEW s \in TerminalStatus, FinishAs(e, s),
         UNCHANGED <<identityVars, schedulerVars, active>>,
         \A x \in Exec : handoff'[x] # "none" => handoff[x] # "none"
  PROVE  Allocation'
<1>1. \A x \in Exec : status'[x] = "none" => status[x] = "none"
  BY DEF FinishAs, TypeOK, TerminalStatus
<1>2. \A x \in Exec : x \in active' \/ handoff'[x] # "none" => root[x] # None
  BY DEF Allocation
<1> QED
  BY <1>1, <1>2, SameGroups DEF Allocation, schedulerVars, counterVars

(* A new child is in its groups from the moment it is queued or started.   *)
LEMMA StartDelegationAllocation ==
  ASSUME TypeOK, Allocation, NEW p \in Exec, NEW c \in Exec, NEW failed \in BOOLEAN,
         StartDelegation(p, c, failed)
  PROVE  Allocation'
<1>1. /\ parent' = [parent EXCEPT ![c] = p]
      /\ root' = [root EXCEPT ![c] = root[p]]
      /\ active' = active \cup {c}
      /\ (UNCHANGED counterVars \/ Acquire(c, p, root[p]))
      /\ (UNCHANGED queue \/ Enqueue(c, 0))
      /\ \E s \in Status \ {"none"} : status' = [status EXCEPT ![c] = s]
      /\ UNCHANGED handoff
  BY DEF StartDelegation, Status, TerminalStatus
<1>2. root[p] \in Exec /\ p # None /\ root[p] # None
  BY StartDelegationStep, SchedulerAssumption DEF Exec, None
<1>3. root[c] = None /\ parent[c] = None /\ c \notin runningExecutions
  BY FreshIsFree DEF StartDelegation
<1>4. \A e \in Exec : status'[e] = "none" => parent'[e] = None /\ root'[e] = None
  BY <1>1 DEF Allocation, TypeOK, SchedulerTypeOK
<1>5. \A e \in Exec : parent'[e] # None \/ e \in active' \/ handoff'[e] # "none" => root'[e] # None
  BY <1>1, <1>2 DEF Allocation, TypeOK, SchedulerTypeOK
<1>6. \A e \in Exec : parent[e] # None => parent'[e] # None
  BY <1>1, <1>2 DEF TypeOK, SchedulerTypeOK
<1>7. parent'[c] # None
  BY <1>1, <1>2 DEF TypeOK, SchedulerTypeOK
<1>8. \A e \in runningExecutions' : parent'[e] # None
  <2>1. runningExecutions' \subseteq runningExecutions \cup {c}
    BY <1>1 DEF Acquire, counterVars
  <2> QED
    BY <1>6, <1>7, <2>1 DEF Allocation, TypeOK, SchedulerTypeOK
<1>9. \A j \in DOMAIN queue' : parent'[queue'[j].exec] # None
  <2>1. \A j \in DOMAIN queue : parent'[queue[j].exec] # None
    BY <1>6, FirstOfQueue DEF Allocation, TypeOK
  <2>2. CASE UNCHANGED queue
    BY <2>1, <2>2
  <2>3. CASE Enqueue(c, 0)
    <3>1. \A j \in DOMAIN queue' :
            queue'[j] = [exec |-> c, call |-> 0] \/ \E i \in DOMAIN queue : queue'[j] = queue[i]
      BY <2>3, EnqueueType DEF TypeOK
    <3> QED
      BY <1>7, <2>1, <3>1
  <2> QED
    BY <1>1, <2>2, <2>3
<1> QED
  BY <1>4, <1>5, <1>8, <1>9 DEF Allocation

(* A successor takes the groups of its source, which has groups.           *)
LEMMA CommitHandoffAllocation ==
  ASSUME TypeOK, Allocation, NEW e \in Exec, NEW s \in Exec, CommitHandoff(e, s)
  PROVE  Allocation'
<1>1. /\ parent' = [parent EXCEPT ![s] = parent[e]]
      /\ root' = [root EXCEPT ![s] = root[e]]
      /\ active' = active \cup {s}
      /\ handoff' = [handoff EXCEPT ![e] = "none"]
      /\ status' = [status EXCEPT ![s] = "created", ![e] = IF Terminal(e) THEN @ ELSE "handed_off"]
      /\ UNCHANGED <<queue, runningExecutions>>
  BY DEF CommitHandoff, schedulerVars, counterVars
<1>2. root[e] # None
  BY DEF CommitHandoff, Allocation
<1>3. parent[s] = None /\ s \notin runningExecutions
  BY FreshIsFree DEF CommitHandoff
<1>4. \A x \in Exec : status'[x] = "none" => status[x] = "none" /\ x # s
  BY <1>1, Zenon DEF TypeOK, Terminal, TerminalStatus
<1>5. \A x \in Exec : status'[x] = "none" => parent'[x] = None /\ root'[x] = None
  BY <1>1, <1>4 DEF Allocation, TypeOK, SchedulerTypeOK
<1>6. \A x \in Exec : parent'[x] # None \/ x \in active' \/ handoff'[x] # "none" => root'[x] # None
  BY <1>1, <1>2 DEF Allocation, TypeOK, SchedulerTypeOK
<1>7. \A x \in Exec : parent[x] # None => parent'[x] # None
  BY <1>1, <1>3 DEF TypeOK, SchedulerTypeOK
<1>8. \A x \in runningExecutions' : parent'[x] # None
  BY <1>1, <1>7 DEF Allocation, TypeOK, SchedulerTypeOK
<1>9. \A j \in DOMAIN queue' : parent'[queue'[j].exec] # None
  BY <1>1, <1>7, FirstOfQueue DEF Allocation, TypeOK
<1> QED
  BY <1>5, <1>6, <1>8, <1>9 DEF Allocation

(* Whatever runs, who holds or waits for a permit stays a delegated        *)
(* execution of a tree.                                                    *)
LEMMA AllocationStep ==
  ASSUME TypeOK, Allocation, [Next]_vars
  PROVE  Allocation'
<1>1. CASE UNCHANGED vars
  BY <1>1 DEF Allocation, vars, identityVars, schedulerVars, counterVars, runtimeVars
<1>2. ASSUME NEW e \in Exec, Lifecycle(e)
      PROVE  Allocation'
  <2>1. CASE StartRoot(e)
    <3>1. /\ root' = [root EXCEPT ![e] = e]
          /\ active' = active \cup {e}
          /\ status' = [status EXCEPT ![e] = "created"]
          /\ UNCHANGED <<parent, queue, runningExecutions, handoff>>
      BY <2>1 DEF StartRoot, schedulerVars, counterVars
    <3>2. e # None
      BY SchedulerAssumption DEF Exec, None
    <3> QED
      BY <3>1, <3>2 DEF Allocation, TypeOK, SchedulerTypeOK
  <2>2. CASE RunMicrotask(e)
    BY <2>2, SameGroups DEF RunMicrotask, Allocation, TypeOK, schedulerVars, counterVars
  <2>3. CASE Finish(e) \/ Abort(e)
    <3>1. \E s \in TerminalStatus : FinishAs(e, s)
      BY <2>3 DEF Finish, Abort, TerminalStatus
    <3> QED
      BY <2>3, <3>1, FinishAsAllocation DEF Finish, Abort
  <2> QED
    BY <1>2, <2>1, <2>2, <2>3 DEF Lifecycle
<1>3. ASSUME NEW p \in Exec, Delegation(p)
      PROVE  Allocation'
  <2>1. CASE \E c \in Exec, failed \in BOOLEAN : StartDelegation(p, c, failed)
    BY <2>1, StartDelegationAllocation
  <2>2. ASSUME NEW k \in Calls, Suspend(p, k)  PROVE Allocation'
    <3>1. /\ UNCHANGED <<identityVars, queue, status, active, handoff>>
          /\ runningExecutions' \subseteq runningExecutions
      BY <2>2 DEF Suspend, Release, counterVars
    <3> QED
      BY <3>1, SameGroups DEF Allocation
  <2>3. ASSUME NEW k \in Calls, Reacquire(p, k)  PROVE Allocation'
    <3>1. /\ UNCHANGED <<identityVars, queue, status, active, handoff>>
          /\ runningExecutions' \subseteq runningExecutions \cup {p}
          /\ parent[p] # None
      BY <2>3 DEF Reacquire, Acquire, counterVars, Delegated
    <3> QED
      BY <3>1, SameGroups DEF Allocation
  <2>4. ASSUME NEW k \in Calls, AwaitPermit(p, k)  PROVE Allocation'
    <3>1. /\ UNCHANGED <<identityVars, counterVars, status, active, handoff>>
          /\ parent[p] # None
          /\ Enqueue(p, k)
      BY <2>4 DEF AwaitPermit, Delegated
    <3>2. \A j \in DOMAIN queue' : parent[queue'[j].exec] # None
      <4>1. \A j \in DOMAIN queue' :
              queue'[j] = [exec |-> p, call |-> k] \/ \E i \in DOMAIN queue : queue'[j] = queue[i]
        BY <3>1, EnqueueType DEF TypeOK, Calls
      <4> QED
        BY <3>1, <4>1 DEF Allocation
    <3> QED
      BY <3>1, <3>2, SameGroups DEF Allocation, counterVars
  <2>5. ASSUME NEW k \in Calls, Refuse(p, k) \/ ReturnToRoot(p, k) \/ Resume(p, k)
        PROVE  Allocation'
    BY <2>5 DEF Refuse, ReturnToRoot, Resume, Allocation, identityVars, schedulerVars, counterVars
  <2>6. ASSUME NEW n \in Calls, Act(p, n)  PROVE Allocation'
    BY <2>6 DEF Act, Allocation, identityVars, schedulerVars, counterVars
  <2> QED
    BY <1>3, <2>1, <2>2, <2>3, <2>4, <2>5, <2>6 DEF Delegation, Delegate, DelegateProgrammatically
<1>4. ASSUME NEW e \in Exec, Handoff(e)
      PROVE  Allocation'
  <2>1. ASSUME NEW s \in Exec, CommitHandoff(e, s)  PROVE Allocation'
    BY <2>1, CommitHandoffAllocation
  <2>2. CASE RequestHandoff(e) \/ PrepareHandoff(e) \/ RejectHandoff(e)
    <3>1. /\ UNCHANGED <<identityVars, schedulerVars, status, active>>
          /\ \A x \in Exec : handoff'[x] # "none" => handoff[x] # "none" \/ x \in active
      BY <2>2 DEF RequestHandoff, PrepareHandoff, RejectHandoff, TypeOK
    <3> QED
      BY <3>1, SameGroups DEF Allocation, schedulerVars, counterVars
  <2>3. CASE FailCheckpoint(e)
    <3>1. /\ UNCHANGED <<identityVars, schedulerVars, active>>
          /\ \A x \in Exec : handoff'[x] # "none" => handoff[x] # "none"
          /\ UNCHANGED status \/ FinishAs(e, "ended")
      BY <2>3 DEF FailCheckpoint, TypeOK
    <3>2. CASE UNCHANGED status
      BY <3>1, <3>2, SameGroups DEF Allocation, schedulerVars, counterVars
    <3>3. CASE FinishAs(e, "ended")
      BY <3>1, <3>3, FinishAsAllocation DEF TerminalStatus
    <3> QED
      BY <3>1, <3>2, <3>3
  <2> QED
    BY <1>4, <2>1, <2>2, <2>3 DEF Handoff
<1>5. ASSUME Synchronous
      PROVE  Allocation'
  <2>1. CASE CancelQueued
    <3>1. /\ UNCHANGED <<identityVars, counterVars, status, active, handoff>>
          /\ queue' = Without(First(EntriesOf(Arg)))
          /\ First(EntriesOf(Arg)) \in DOMAIN queue
      BY <2>1, FirstOfQueue DEF CancelQueued, runtimeVars, TypeOK
    <3>2. \A j \in DOMAIN queue' : parent[queue'[j].exec] # None
      BY <3>1, WithoutType DEF Allocation, TypeOK, SchedulerTypeOK
    <3> QED
      BY <3>1, <3>2, SameGroups DEF Allocation, counterVars
  <2>2. CASE ReleasePermit
    <3>1. /\ UNCHANGED <<identityVars, queue, status, active, handoff>>
          /\ runningExecutions' \subseteq runningExecutions
      BY <2>2 DEF ReleasePermit, Release, counterVars
    <3> QED
      BY <3>1, SameGroups DEF Allocation
  <2>3. CASE DrainParent \/ \E failed \in BOOLEAN : DrainChild(failed)
    <3> DEFINE j == First(Startable(Arg))
               e == queue[j].exec
    <3>1. /\ j \in DOMAIN queue
          /\ e \in Exec
          /\ parent[e] # None
      BY <2>3, FirstOfQueue DEF DrainChild, DrainParent, TypeOK, Allocation
    <3>2. /\ UNCHANGED <<identityVars, active, handoff>>
          /\ queue' = Without(j)
          /\ Acquire(e, parent[e], root[e])
          /\ UNCHANGED status \/ \E s \in {"ended", "running"} : status' = [status EXCEPT ![e] = s]
      BY <2>3 DEF DrainChild, DrainParent
    <3> HIDE DEF j, e
    <3>3. \A x \in Exec : status'[x] = "none" => status[x] = "none"
      BY <3>2 DEF TypeOK
    <3>4. \A i \in DOMAIN queue' : parent[queue'[i].exec] # None
      BY <3>1, <3>2, WithoutType, SMTT(30) DEF Allocation, TypeOK, SchedulerTypeOK
    <3>5. \A x \in runningExecutions' : parent[x] # None
      BY <3>1, <3>2 DEF Allocation, Acquire, counterVars
    <3> QED
      BY <3>2, <3>3, <3>4, <3>5, SameGroups DEF Allocation
  <2>4. CASE DrainDone \/ LeaveTerminal
    <3>1. /\ UNCHANGED <<identityVars, schedulerVars, status, handoff>>
          /\ active' \subseteq active
      BY <2>4 DEF DrainDone, LeaveTerminal
    <3> QED
      BY <3>1, SameGroups DEF Allocation, schedulerVars, counterVars
  <2>5. CASE CancelChild
    <3>1. First(LiveChildren(Arg)) \in Exec
      <4>1. LiveChildren(Arg) \in SUBSET Exec /\ Exec \subseteq Nat
        BY SchedulerAssumption DEF LiveChildren, Children, Exec
      <4> QED
        BY <2>5, <4>1, FirstIsFirst DEF CancelChild
    <3> QED
      BY <2>5, <3>1, FinishAsAllocation DEF CancelChild, TerminalStatus
  <2> QED
    BY <1>5, <2>1, <2>2, <2>3, <2>4, <2>5 DEF Synchronous
<1> QED
  BY <1>1, <1>2, <1>3, <1>4, <1>5 DEF Next
-----------------------------------------------------------------------------
(* Sets of executions are finite, and counting works on them.              *)
LEMMA Counting ==
  /\ \A S \in SUBSET Exec : IsFiniteSet(S) /\ Cardinality(S) \in Nat
  /\ \A S \in SUBSET Exec, e \in Exec : e \notin S => Cardinality(S \cup {e}) = Cardinality(S) + 1
  /\ \A S \in SUBSET Exec : \A e \in S : Cardinality(S \ {e}) = Cardinality(S) - 1
  /\ Cardinality({}) = 0
<1>1. IsFiniteSet(Exec)
  BY SchedulerAssumption, FS_Interval DEF Exec
<1>2. \A S \in SUBSET Exec : IsFiniteSet(S) /\ Cardinality(S) \in Nat
  BY <1>1, FS_Subset, FS_CardinalityType
<1> QED
  BY <1>2, FS_AddElement, FS_RemoveElement, FS_EmptySet

(* A step that changes no counter and moves no holder to another group.    *)
LEMMA SameCounters ==
  ASSUME TypeOK, PermitAccounting, PermitBound, UNCHANGED counterVars,
         \A e \in runningExecutions : parent'[e] = parent[e] /\ root'[e] = root[e]
  PROVE  PermitAccounting' /\ PermitBound'
<1>1. UNCHANGED <<runningExecutions, runningByParent, runningByTree, runningTotal>>
  BY DEF counterVars
<1>2. \A p : Holders(p)' = Holders(p) /\ HoldersIn(p)' = HoldersIn(p)
  BY <1>1 DEF Holders, HoldersIn
<1> QED
  BY <1>1, <1>2 DEF PermitAccounting, PermitBound

(* acquire under canStart: one more holder, counted once in each group.    *)
LEMMA AcquireCounts ==
  ASSUME TypeOK, PermitAccounting, PermitBound,
         NEW e \in Exec, NEW p \in Exec, NEW r \in Exec,
         CanStartUnder(p, r), Acquire(e, p, r),
         parent'[e] = p, root'[e] = r,
         \A x \in runningExecutions : parent'[x] = parent[x] /\ root'[x] = root[x]
  PROVE  PermitAccounting' /\ PermitBound'
<1>1. CASE e \in runningExecutions
  BY <1>1, SameCounters DEF Acquire
<1>2. CASE e \notin runningExecutions
  <2>1. /\ runningExecutions' = runningExecutions \cup {e}
        /\ runningTotal' = runningTotal + 1
        /\ runningByParent' = [runningByParent EXCEPT ![p] = @ + 1]
        /\ runningByTree' = [runningByTree EXCEPT ![r] = @ + 1]
    BY <1>2 DEF Acquire
  <2>2. /\ runningExecutions \in SUBSET Exec
        /\ \A q : Holders(q) \in SUBSET Exec /\ HoldersIn(q) \in SUBSET Exec
        /\ \A q : e \notin Holders(q) /\ e \notin HoldersIn(q)
    BY <1>2 DEF TypeOK, SchedulerTypeOK, Holders, HoldersIn
  <2>3. /\ \A q \in Exec : Holders(q)' = IF q = p THEN Holders(q) \cup {e} ELSE Holders(q)
        /\ \A q \in Exec : HoldersIn(q)' = IF q = r THEN HoldersIn(q) \cup {e} ELSE HoldersIn(q)
    BY <1>2, <2>1 DEF Holders, HoldersIn
  <2>4. /\ Cardinality(runningExecutions') = Cardinality(runningExecutions) + 1
        /\ \A q \in Exec : Cardinality(Holders(q)')
             = IF q = p THEN Cardinality(Holders(q)) + 1 ELSE Cardinality(Holders(q))
        /\ \A q \in Exec : Cardinality(HoldersIn(q)')
             = IF q = r THEN Cardinality(HoldersIn(q)) + 1 ELSE Cardinality(HoldersIn(q))
    <3>1. Cardinality(runningExecutions') = Cardinality(runningExecutions) + 1
      BY <1>2, <2>1, <2>2, Counting
    <3>2. ASSUME NEW q \in Exec
          PROVE  /\ Cardinality(Holders(q) \cup {e}) = Cardinality(Holders(q)) + 1
                 /\ Cardinality(HoldersIn(q) \cup {e}) = Cardinality(HoldersIn(q)) + 1
      BY <2>2, Counting
    <3> QED
      BY <2>3, <3>1, <3>2
  <2>5. /\ \A q \in Exec : runningByParent'[q] = IF q = p THEN runningByParent[q] + 1 ELSE runningByParent[q]
        /\ \A q \in Exec : runningByTree'[q] = IF q = r THEN runningByTree[q] + 1 ELSE runningByTree[q]
    BY <2>1 DEF TypeOK, SchedulerTypeOK
  <2>6. PermitAccounting'
    BY <2>1, <2>4, <2>5 DEF PermitAccounting
  <2>7. /\ Cardinality(runningExecutions) < maxConcurrentDelegatedExecutions
        /\ Cardinality(Holders(p)) < maxConcurrentPerParent
        /\ Cardinality(HoldersIn(r)) < maxConcurrentPerTree
    BY DEF CanStartUnder, PermitAccounting
  <2>8. PermitBound'
    <3>1. /\ Cardinality(runningExecutions) \in Nat
          /\ \A q \in Exec : Cardinality(Holders(q)) \in Nat /\ Cardinality(HoldersIn(q)) \in Nat
      BY <2>2, Counting
    <3>2. Cardinality(runningExecutions') <= maxConcurrentDelegatedExecutions
      BY <2>4, <2>7, <3>1, SchedulerAssumption
    <3>3. \A q \in Exec : Cardinality(Holders(q)') <= maxConcurrentPerParent
      BY <2>4, <2>7, <3>1, SchedulerAssumption DEF PermitBound
    <3>4. \A q \in Exec : Cardinality(HoldersIn(q)') <= maxConcurrentPerTree
      BY <2>4, <2>7, <3>1, SchedulerAssumption DEF PermitBound
    <3> QED
      BY <3>2, <3>3, <3>4 DEF PermitBound
  <2> QED
    BY <2>6, <2>8
<1> QED
  BY <1>1, <1>2

(* release of a permit that is held: Math.max never hides anything.        *)
LEMMA ReleaseCounts ==
  ASSUME TypeOK, PermitAccounting, PermitBound, UNCHANGED identityVars,
         NEW e \in runningExecutions, parent[e] \in Exec, root[e] \in Exec, Release(e)
  PROVE  PermitAccounting' /\ PermitBound'
<1> DEFINE p == parent[e]
           r == root[e]
<1>1. /\ runningExecutions' = runningExecutions \ {e}
      /\ runningTotal' = AtLeastZero(runningTotal - 1)
      /\ runningByParent' = [runningByParent EXCEPT ![p] = AtLeastZero(@ - 1)]
      /\ runningByTree' = [runningByTree EXCEPT ![r] = AtLeastZero(@ - 1)]
  BY DEF Release
<1>2. /\ runningExecutions \in SUBSET Exec
      /\ \A q : Holders(q) \in SUBSET Exec /\ HoldersIn(q) \in SUBSET Exec
      /\ e \in Holders(p) /\ e \in HoldersIn(r)
  BY DEF TypeOK, SchedulerTypeOK, Holders, HoldersIn
<1>3. /\ \A q \in Exec : Holders(q)' = IF q = p THEN Holders(q) \ {e} ELSE Holders(q)
      /\ \A q \in Exec : HoldersIn(q)' = IF q = r THEN HoldersIn(q) \ {e} ELSE HoldersIn(q)
  BY <1>1 DEF Holders, HoldersIn, identityVars
<1>4. p \in Exec /\ r \in Exec
  OBVIOUS
<1> HIDE DEF p, r
<1>5. /\ Cardinality(runningExecutions') = Cardinality(runningExecutions) - 1
      /\ Cardinality(Holders(p) \ {e}) = Cardinality(Holders(p)) - 1
      /\ Cardinality(HoldersIn(r) \ {e}) = Cardinality(HoldersIn(r)) - 1
  BY <1>1, <1>2, Counting
<1>6. /\ Cardinality(runningExecutions) \in Nat /\ Cardinality(runningExecutions') \in Nat
      /\ \A q \in Exec : Cardinality(Holders(q)) \in Nat /\ Cardinality(HoldersIn(q)) \in Nat
      /\ Cardinality(Holders(p) \ {e}) \in Nat /\ Cardinality(HoldersIn(r) \ {e}) \in Nat
  BY <1>1, <1>2, Counting
<1>7. /\ runningTotal' = Cardinality(runningExecutions')
      /\ \A q \in Exec : runningByParent'[q] = Cardinality(Holders(q)')
      /\ \A q \in Exec : runningByTree'[q] = Cardinality(HoldersIn(q)')
  <2>1. runningTotal' = Cardinality(runningExecutions')
    BY <1>1, <1>5, <1>6 DEF PermitAccounting, AtLeastZero
  <2>2. AtLeastZero(runningByParent[p] - 1) = Cardinality(Holders(p) \ {e})
    BY <1>4, <1>5, <1>6 DEF PermitAccounting, AtLeastZero
  <2>3. AtLeastZero(runningByTree[r] - 1) = Cardinality(HoldersIn(r) \ {e})
    BY <1>4, <1>5, <1>6 DEF PermitAccounting, AtLeastZero
  <2> QED
    BY <1>1, <1>3, <1>4, <2>1, <2>2, <2>3 DEF PermitAccounting, TypeOK, SchedulerTypeOK
<1>8. PermitAccounting'
  BY <1>7 DEF PermitAccounting
<1>9. PermitBound'
  <2>1. Cardinality(runningExecutions') <= maxConcurrentDelegatedExecutions
    BY <1>5, <1>6, SchedulerAssumption DEF PermitBound
  <2>2. \A q \in Exec : Cardinality(Holders(q)') <= maxConcurrentPerParent
    BY <1>3, <1>5, <1>6, SchedulerAssumption, SMTT(30) DEF PermitBound
  <2>3. \A q \in Exec : Cardinality(HoldersIn(q)') <= maxConcurrentPerTree
    BY <1>3, <1>5, <1>6, SchedulerAssumption, SMTT(30) DEF PermitBound
  <2> QED
    BY <2>1, <2>2, <2>3 DEF PermitBound
<1> QED
  BY <1>8, <1>9

(* Each of the four steps keeps the accounting and the limits.             *)
LEMMA SchedulerStepKeeps ==
  ASSUME TypeOK, Allocation, PermitAccounting, PermitBound, SchedulerStep
  PROVE  PermitAccounting' /\ PermitBound'
<1>1. CASE UNCHANGED <<identityVars, counterVars>>
  BY <1>1, SameCounters DEF identityVars
<1>2. ASSUME NEW c \in Exec, NEW r \in Exec, NEW p \in Exec \cup {None}, JoinStep(c, p, r)
      PROVE  PermitAccounting' /\ PermitBound'
  <2>1. \A x \in runningExecutions : parent'[x] = parent[x] /\ root'[x] = root[x]
    BY <1>2 DEF JoinStep, TypeOK, SchedulerTypeOK
  <2>2. parent'[c] = p /\ root'[c] = r
    BY <1>2 DEF JoinStep, TypeOK, SchedulerTypeOK
  <2>3. CASE UNCHANGED counterVars
    BY <2>1, <2>3, SameCounters
  <2>4. CASE p # None /\ CanStartUnder(p, r) /\ Acquire(c, p, r)
    <3>1. p \in Exec
      BY <2>4
    <3> QED
      BY <2>1, <2>2, <2>4, <3>1, AcquireCounts
  <2> QED
    BY <1>2, <2>3, <2>4 DEF JoinStep
<1>3. ASSUME NEW e \in Exec, GrantStep(e)
      PROVE  PermitAccounting' /\ PermitBound'
  <2>1. parent[e] \in Exec /\ root[e] \in Exec
    BY <1>3 DEF GrantStep, Allocation, TypeOK, SchedulerTypeOK
  <2>2. /\ CanStartUnder(parent[e], root[e])
        /\ Acquire(e, parent[e], root[e])
        /\ parent' = parent /\ root' = root
    BY <1>3 DEF GrantStep, CanStart, identityVars
  <2> QED
    BY <2>1, <2>2, AcquireCounts
<1>4. ASSUME NEW e \in Exec, ReturnStep(e)
      PROVE  PermitAccounting' /\ PermitBound'
  <2>1. parent[e] \in Exec /\ root[e] \in Exec
    BY <1>4 DEF ReturnStep, Allocation, TypeOK, SchedulerTypeOK
  <2> QED
    BY <1>4, <2>1, ReleaseCounts DEF ReturnStep
<1> QED
  BY <1>1, <1>2, <1>3, <1>4 DEF SchedulerStep

(* The inductive invariant.                                                *)
LEMMA Invariance == Spec => []IInv
<1>1. Init => IInv
  <2>1. Init => TypeOK
    BY InitType
  <2>2. ASSUME Init
        PROVE  /\ runningExecutions = {} /\ runningTotal = 0 /\ queue = << >> /\ active = {}
               /\ \A e \in Exec : /\ parent[e] = None /\ root[e] = None /\ handoff[e] = "none"
                                  /\ runningByParent[e] = 0 /\ runningByTree[e] = 0
    BY <2>2 DEF Init, SchedulerInit
  <2>3. Init => Allocation
    BY <2>2 DEF Allocation
  <2>4. ASSUME Init
        PROVE  /\ \A q : Cardinality(Holders(q)) = 0 /\ Cardinality(HoldersIn(q)) = 0
               /\ Cardinality(runningExecutions) = 0
    <3>1. \A q : Holders(q) = {} /\ HoldersIn(q) = {}
      BY <2>2, <2>4 DEF Holders, HoldersIn
    <3> QED
      BY <2>2, <2>4, <3>1, Counting
  <2>5. Init => PermitAccounting /\ PermitBound
    BY <2>2, <2>4, SchedulerAssumption DEF PermitAccounting, PermitBound
  <2> QED
    BY <2>1, <2>3, <2>5 DEF IInv
<1>2. IInv /\ [Next]_vars => IInv'
  <2> SUFFICES ASSUME TypeOK, Allocation, PermitAccounting, PermitBound, [Next]_vars
               PROVE  IInv'
    BY DEF IInv
  <2>1. TypeOK'
    BY StepType
  <2>2. Allocation'
    BY AllocationStep
  <2>3. PermitAccounting' /\ PermitBound'
    BY EveryStepIsASchedulerStep, SchedulerStepKeeps
  <2> QED
    BY <2>1, <2>2, <2>3 DEF IInv
<1> QED
  BY <1>1, <1>2, PTL DEF Spec

(* The counters canStart reads always count the permits that are held, for *)
(* any number of executions, any limits, and whatever order schedule,      *)
(* release, reacquire and cancelQueued are called in.                      *)
THEOREM AccountingHolds == Spec => []PermitAccounting
<1>1. IInv => PermitAccounting
  BY DEF IInv
<1> QED
  BY <1>1, Invariance, PTL

(* No parent, no tree and not the runtime ever exceeds its limit.          *)
THEOREM BoundHolds == Spec => []PermitBound
<1>1. IInv => PermitBound
  BY DEF IInv
<1> QED
  BY <1>1, Invariance, PTL

(* The pool counts as the runtime does.                                    *)
LEMMA SameCount == \A S : Pool!Cardinality(S) = Cardinality(S)
BY DEF Cardinality, Pool!Cardinality, IsFiniteSet, Pool!IsFiniteSet

(* Every step of the runtime is a step of the pool of permits, or leaves   *)
(* it alone: the queue, the re-entrant drain and the counters implement    *)
(* what PermitPool promises.                                               *)
THEOREM ImplementsPool == Spec => PoolSpec
<1>1. Init => Pool!Init
  BY DEF Init, SchedulerInit, Pool!Init
<1>2. ASSUME IInv, [Next]_vars
      PROVE  [Pool!Next]_<<parent, root, runningExecutions>>
  <2>1. TypeOK /\ Allocation /\ PermitAccounting
    BY <1>2 DEF IInv
  <2>2. ASSUME NEW p \in Exec, NEW r \in Exec, CanStartUnder(p, r)
        PROVE  Pool!HasRoom(p, r)
    <3>1. /\ Cardinality(Holders(p)) < maxConcurrentPerParent
          /\ Cardinality(HoldersIn(r)) < maxConcurrentPerTree
          /\ Cardinality(runningExecutions) < maxConcurrentDelegatedExecutions
      BY <2>1, <2>2 DEF CanStartUnder, PermitAccounting
    <3> QED
      BY <3>1, SameCount DEF Holders, HoldersIn, Pool!HasRoom
  <2>3. CASE UNCHANGED <<identityVars, counterVars>>
    BY <2>3 DEF identityVars, counterVars
  <2>4. ASSUME NEW c \in Exec, NEW r \in Exec, NEW p \in Exec \cup {None}, JoinStep(c, p, r)
        PROVE  Pool!Join(c, p, r)
    <3>1. /\ root[c] = None
          /\ parent' = [parent EXCEPT ![c] = p]
          /\ root' = [root EXCEPT ![c] = r]
          /\ c \notin runningExecutions
      BY <2>4 DEF JoinStep
    <3>2. CASE UNCHANGED counterVars
      BY <3>1, <3>2 DEF Pool!Join, counterVars
    <3>3. CASE p # None /\ CanStartUnder(p, r) /\ Acquire(c, p, r)
      BY <2>2, <3>1, <3>3 DEF Pool!Join, Acquire
    <3> QED
      BY <2>4, <3>2, <3>3 DEF JoinStep
  <2>5. ASSUME NEW e \in Exec, GrantStep(e)
        PROVE  Pool!Grant(e) \/ UNCHANGED <<parent, root, runningExecutions>>
    <3>1. /\ parent[e] \in Exec /\ root[e] \in Exec
          /\ CanStartUnder(parent[e], root[e])
          /\ Acquire(e, parent[e], root[e])
          /\ parent' = parent /\ root' = root
          /\ parent[e] # None
      BY <2>1, <2>5 DEF GrantStep, CanStart, identityVars, Allocation, TypeOK, SchedulerTypeOK
    <3> QED
      BY <2>2, <3>1 DEF Pool!Grant, Acquire, counterVars
  <2>6. ASSUME NEW e \in Exec, ReturnStep(e)
        PROVE  Pool!Return(e)
    BY <2>6 DEF ReturnStep, Release, Pool!Return, identityVars
  <2>7. SchedulerStep
    BY <1>2, <2>1, EveryStepIsASchedulerStep
  <2> QED
    BY <2>3, <2>4, <2>5, <2>6, <2>7 DEF SchedulerStep, Pool!Next
<1> QED
  BY <1>1, <1>2, Invariance, PTL DEF Spec, PoolSpec, Pool!Spec, Pool!poolVars

-----------------------------------------------------------------------------
(***************************************************************************)
(* The records of the executions and the entries of the queue, for every   *)
(* value of the constants: the first half of what QueueServed rests on.    *)
(*                                                                         *)
(* QueueServed speaks of the moments between two callbacks; the invariant  *)
(* has to say what is true while a callback is at work: an execution that  *)
(* has just ended may have entries and a permit as long as its terminal    *)
(* frame is on top of the stack.                                           *)
(***************************************************************************)

(* Ids are handed out in order.                                            *)
InOrder ==
  \A e \in Exec : \A d \in 1 .. e - 1 : status[e] # "none" => status[d] # "none"

(* What an execution may have in each status: a record, a branch that      *)
(* began with it or before it, calls in progress, children.                *)
Records ==
  /\ \A e \in Exec : status[e] = "none" => branch[e] = None /\ handoff[e] = "none" /\ e \notin active
  /\ \A e \in Exec : status[e] # "none" => branch[e] \in 1 .. e
  /\ \A e \in Exec : Live(e) => e \in active
  /\ \A e \in Exec, k \in Calls :
       call[e][k].phase # "idle" => status[e] = "running" /\ handoff[e] = "none"
  /\ \A e, x \in Exec : status[e] \in {"none", "queued"} => parent[x] # e

(* onTerminal of e has not yet come to the release of its permit.          *)
Finishing(e) == Top("terminal") /\ Arg = e

(* What an entry is there for: the start of a queued child, or a suspended *)
(* parent's call that wants the permit back.                               *)
Waits(e, k) ==
  IF k = 0 THEN status[e] = "queued" ELSE k \in Calls /\ call[e][k].phase = "reacquiring"

QueueSound ==
  \A j \in DOMAIN queue : Waits(queue[j].exec, queue[j].call) \/ Finishing(queue[j].exec)
QueueComplete ==
  \A e \in Exec, k \in Calls \cup {0} :
    Waits(e, k) => \E j \in DOMAIN queue : queue[j] = [exec |-> e, call |-> k]
QueueUnique == \A i, j \in DOMAIN queue : queue[i] = queue[j] => i = j

(* The entries and the places of those who wait, in one formula.           *)
QueueRight == QueueSound /\ QueueComplete /\ QueueUnique

(* onTerminal and cancelDescendants run for executions that have ended.    *)
FramesEnded == \A i \in DOMAIN stack : stack[i].op # "drain" => Terminal(stack[i].arg)

-----------------------------------------------------------------------------
(* The queue without its j-th entry, position by position.                 *)
LEMMA WithoutIs ==
  ASSUME queue \in Seq(Entry), NEW j \in DOMAIN queue
  PROVE  /\ DOMAIN queue = 1 .. Len(queue)
         /\ Len(queue) \in Nat
         /\ j \in 1 .. Len(queue)
         /\ DOMAIN Without(j) = 1 .. Len(queue) - 1
         /\ \A i \in 1 .. Len(queue) - 1 : Without(j)[i] = IF i < j THEN queue[i] ELSE queue[i + 1]
<1> DEFINE before == SubSeq(queue, 1, j - 1)
           after == SubSeq(queue, j + 1, Len(queue))
<1>1. /\ j \in Nat /\ 1 <= j /\ j <= Len(queue) /\ Len(queue) \in Nat
      /\ DOMAIN queue = 1 .. Len(queue)
      /\ \A i \in 1 .. Len(queue) : queue[i] \in Entry
  BY LenProperties
<1>2. /\ before \in Seq(Entry)
      /\ Len(before) = j - 1
      /\ \A i \in 1 .. j - 1 : before[i] = queue[i]
  BY <1>1, SMT
<1>3. /\ after \in Seq(Entry)
      /\ Len(after) = Len(queue) - j
      /\ \A i \in 1 .. Len(queue) - j : after[i] = queue[i + j]
  BY <1>1, SMT
<1>4. Without(j) = before \o after
  BY DEF Without
<1> HIDE DEF before, after
<1>5. /\ before \o after \in Seq(Entry)
      /\ Len(before \o after) = Len(before) + Len(after)
      /\ \A i \in 1 .. Len(before) + Len(after) :
            (before \o after)[i] = IF i <= Len(before) THEN before[i] ELSE after[i - Len(before)]
  <2>1. before \in Seq(Entry) /\ after \in Seq(Entry)
    BY <1>2, <1>3
  <2> QED
    BY ONLY <2>1, ConcatProperties
<1>6. Len(before) + Len(after) = Len(queue) - 1
  BY <1>1, <1>2, <1>3, SMT
<1>7. DOMAIN Without(j) = 1 .. Len(queue) - 1
  BY <1>4, <1>5, <1>6, LenProperties
<1>8. ASSUME NEW i \in 1 .. Len(queue) - 1
      PROVE  Without(j)[i] = IF i < j THEN queue[i] ELSE queue[i + 1]
  <2>1. Without(j)[i] = IF i <= j - 1 THEN before[i] ELSE after[i - (j - 1)]
    BY <1>2, <1>4, <1>5, <1>6
  <2>2. CASE i < j
    BY <1>1, <1>2, <2>1, <2>2, SMT
  <2>3. CASE ~ (i < j)
    <3>1. i - (j - 1) \in 1 .. Len(queue) - j /\ (i - (j - 1)) + j = i + 1
      BY <1>1, <2>3, SMT
    <3>2. Without(j)[i] = queue[(i - (j - 1)) + j]
      BY <1>1, <1>3, <2>1, <2>3, <3>1
    <3> QED
      BY <2>3, <3>1, <3>2
  <2> QED
    BY <2>2, <2>3
<1> QED
  BY <1>1, <1>7, <1>8

(* The queue with an entry at its end.                                     *)
LEMMA EnqueueIs ==
  ASSUME queue \in Seq(Entry), NEW e \in Exec, NEW k \in Nat, Enqueue(e, k)
  PROVE  /\ DOMAIN queue = 1 .. Len(queue)
         /\ Len(queue) \in Nat
         /\ DOMAIN queue' = 1 .. Len(queue) + 1
         /\ \A i \in 1 .. Len(queue) : queue'[i] = queue[i]
         /\ queue'[Len(queue) + 1] = [exec |-> e, call |-> k]
<1>1. [exec |-> e, call |-> k] \in Entry
  BY DEF Entry
<1>2. queue' = Append(queue, [exec |-> e, call |-> k])
  BY DEF Enqueue
<1>3. /\ queue' \in Seq(Entry)
      /\ Len(queue') = Len(queue) + 1
      /\ \A i \in 1 .. Len(queue) : queue'[i] = queue[i]
      /\ queue'[Len(queue) + 1] = [exec |-> e, call |-> k]
  BY ONLY <1>1, <1>2, queue \in Seq(Entry), AppendProperties
<1> QED
  BY <1>3, LenProperties

(* One or two frames put on a stack, position by position.                 *)
LEMMA PushIs ==
  ASSUME NEW s \in Seq(Frame), NEW f \in Frame
  PROVE  /\ Len(s) \in Nat /\ DOMAIN s = 1 .. Len(s)
         /\ <<f>> \o s \in Seq(Frame)
         /\ <<f>> \o s # << >>
         /\ Len(<<f>> \o s) = Len(s) + 1
         /\ DOMAIN (<<f>> \o s) = 1 .. Len(s) + 1
         /\ (<<f>> \o s)[1] = f
         /\ \A i \in 1 .. Len(s) : (<<f>> \o s)[i + 1] = s[i]
         /\ \A g \in Frame : <<g, f>> \o s = <<g>> \o (<<f>> \o s)
<1>1. <<f>> \in Seq(Frame) /\ Len(<<f>>) = 1 /\ <<f>>[1] = f
  BY SMT
<1>2. /\ <<f>> \o s \in Seq(Frame)
      /\ Len(<<f>> \o s) = Len(<<f>>) + Len(s)
      /\ \A i \in 1 .. Len(<<f>>) + Len(s) :
           (<<f>> \o s)[i] = IF i <= Len(<<f>>) THEN <<f>>[i] ELSE s[i - Len(<<f>>)]
  BY ONLY <1>1, s \in Seq(Frame), ConcatProperties
<1>3. Len(s) \in Nat /\ DOMAIN s = 1 .. Len(s)
  BY LenProperties
<1>4. DOMAIN (<<f>> \o s) = 1 .. Len(s) + 1
  BY <1>1, <1>2, <1>3, LenProperties
<1>5. \A i \in 1 .. Len(s) : (<<f>> \o s)[i + 1] = s[i]
  BY <1>1, <1>2, <1>3
<1>6. ASSUME NEW g \in Frame
      PROVE  <<g, f>> \o s = <<g>> \o (<<f>> \o s)
  <2>1. <<g>> \in Seq(Frame) /\ <<g, f>> = <<g>> \o <<f>>
    BY SMT
  <2> QED
    BY <1>1, <2>1, ConcatAssociative
<1> QED
  BY <1>1, <1>2, <1>3, <1>4, <1>5, <1>6

(* The stack is its top frame on what is below.                            *)
LEMMA BelowIs ==
  ASSUME TypeOK, stack # << >>
  PROVE  /\ Below \in Seq(Frame)
         /\ stack[1] \in Frame
         /\ Len(stack) \in Nat /\ Len(stack) >= 1
         /\ DOMAIN stack = 1 .. Len(stack)
         /\ Len(Below) = Len(stack) - 1
         /\ DOMAIN Below = 1 .. Len(stack) - 1
         /\ \A i \in 1 .. Len(stack) - 1 : Below[i] = stack[i + 1]
<1>1. stack \in Seq(Frame)
  BY DEF TypeOK
<1>2. /\ Below \in Seq(Frame)
      /\ Len(Below) = Len(stack) - 1
      /\ \A i \in 1 .. Len(Below) : Below[i] = stack[i + 1]
  BY <1>1, HeadTailProperties DEF Below
<1>3. Len(stack) \in Nat /\ DOMAIN stack = 1 .. Len(stack) /\ DOMAIN Below = 1 .. Len(Below)
  BY <1>1, <1>2, LenProperties
<1>4. Len(stack) >= 1
  BY <1>1, <1>3, EmptySeq
<1>5. stack[1] \in Frame
  BY <1>1, <1>3, <1>4, ElementOfSeq
<1> QED
  BY <1>2, <1>3, <1>4, <1>5

-----------------------------------------------------------------------------
(* Ending e, which is in progress, keeps the records in order.             *)
LEMMA FinishAsRecords ==
  ASSUME TypeOK, InOrder, Records, NEW e \in Exec, NEW s \in TerminalStatus, FinishAs(e, s),
         status[e] # "none", UNCHANGED <<identityVars, branch, active>>,
         \A x \in Exec : handoff'[x] # "none" => handoff[x] # "none"
  PROVE  InOrder' /\ Records'
<1>1. /\ status' = [status EXCEPT ![e] = s]
      /\ call' = [call EXCEPT ![e] = [k \in Calls |-> Idle]]
  BY DEF FinishAs
<1>2. /\ \A x \in Exec : status'[x] = "none" <=> status[x] = "none"
      /\ \A x \in Exec : Live(x)' => Live(x)
      /\ \A x \in Exec : status'[x] \in {"none", "queued"} => status[x] = status'[x]
  BY <1>1 DEF TypeOK, TerminalStatus, Live
<1>3. \A x \in Exec, k \in Calls :
        call'[x][k].phase # "idle" => call[x][k].phase # "idle" /\ status'[x] = status[x]
  BY <1>1 DEF TypeOK, Idle
<1>4. InOrder'
  BY <1>2, SchedulerAssumption DEF InOrder, Exec
<1>5. UNCHANGED <<parent, branch, active>>
  BY DEF identityVars
<1>6. Records'
  BY <1>2, <1>3, <1>5 DEF Records
<1> QED
  BY <1>4, <1>6

(* A child begins a branch of its own, under a parent that is not queued.  *)
LEMMA StartDelegationRecords ==
  ASSUME TypeOK, Allocation, InOrder, Records,
         NEW p \in Exec, NEW c \in Exec, NEW failed \in BOOLEAN,
         StartDelegation(p, c, failed), status[p] \in {"created", "running"},
         \A x \in Exec, k \in Calls : call'[x][k].phase # "idle" => call[x][k].phase # "idle"
  PROVE  InOrder' /\ Records'
<1>1. /\ parent' = [parent EXCEPT ![c] = p]
      /\ branch' = [branch EXCEPT ![c] = c]
      /\ active' = active \cup {c}
      /\ handoff' = handoff
      /\ status[c] = "none"
      /\ \A d \in 1 .. c - 1 : status[d] # "none"
      /\ \E s \in Status \ {"none", "created"} : status' = [status EXCEPT ![c] = s]
  BY DEF StartDelegation, Fresh, Status, TerminalStatus
<1>2. PICK s \in Status \ {"none", "created"} : status' = [status EXCEPT ![c] = s]
  BY <1>1
<1>3. c # p /\ c \in Nat /\ c \in 1 .. c /\ c # None /\ Exec \subseteq Nat
  BY <1>1, SchedulerAssumption DEF Exec, None
<1>4. InOrder'
  BY <1>1, <1>2, <1>3 DEF InOrder, TypeOK
<1>5. \A x \in Exec : /\ x # c => status'[x] = status[x] /\ parent'[x] = parent[x] /\ branch'[x] = branch[x]
                      /\ status'[c] # "none" /\ status'[c] # "created" /\ parent'[c] = p /\ branch'[c] = c
  BY <1>1, <1>2 DEF TypeOK, SchedulerTypeOK
<1>6. \A x \in Exec, k \in Calls :
        call'[x][k].phase # "idle" => status'[x] = "running" /\ handoff'[x] = "none"
  BY <1>1, <1>5 DEF Records
<1>7. \A e, x \in Exec : status'[e] \in {"none", "queued"} => parent'[x] # e
  BY <1>1, <1>5 DEF Records
<1>8. \A e \in Exec : Live(e)' => e \in active'
  BY <1>1, <1>5 DEF Records, Live
<1>9. Records'
  BY <1>1, <1>3, <1>5, <1>6, <1>7, <1>8 DEF Records
<1> QED
  BY <1>4, <1>9

(* A step that changes at most calls and permits.                          *)
LEMMA SameRecords ==
  ASSUME TypeOK, InOrder, Records, UNCHANGED <<identityVars, status, branch, active, handoff>>,
         \A x \in Exec, k \in Calls :
           call'[x][k].phase # "idle" => \/ call[x][k].phase # "idle"
                                         \/ status[x] = "running" /\ handoff[x] = "none"
  PROVE  InOrder' /\ Records'
<1>1. UNCHANGED <<parent, status, branch, active, handoff>>
  BY DEF identityVars
<1> QED
  BY <1>1 DEF InOrder, Records, Live

(* Every step keeps the records in order.                                  *)
LEMMA RecordsStep ==
  ASSUME TypeOK, Allocation, InOrder, Records, QueueSound, [Next]_vars
  PROVE  InOrder' /\ Records'
<1>1. CASE UNCHANGED vars
  BY <1>1, SameRecords DEF vars, runtimeVars
<1>2. ASSUME NEW e \in Exec, Lifecycle(e)
      PROVE  InOrder' /\ Records'
  <2>1. CASE StartRoot(e)
    <3>1. /\ status' = [status EXCEPT ![e] = "created"]
          /\ branch' = [branch EXCEPT ![e] = e]
          /\ active' = active \cup {e}
          /\ UNCHANGED <<parent, call, handoff>>
          /\ status[e] = "none"
          /\ \A d \in 1 .. e - 1 : status[d] # "none"
      BY <2>1 DEF StartRoot, Fresh
    <3>2. e \in 1 .. e /\ Exec \subseteq Nat /\ e # None
      BY SchedulerAssumption DEF Exec, None
    <3>3. InOrder'
      BY <3>1, <3>2 DEF InOrder, TypeOK
    <3>4. Records'
      BY <3>1, <3>2 DEF Records, Live, TypeOK
    <3> QED
      BY <3>3, <3>4
  <2>2. CASE RunMicrotask(e)
    <3>1. /\ status' = [status EXCEPT ![e] = "running"]
          /\ UNCHANGED <<parent, call, branch, active, handoff>>
          /\ status[e] = "created"
      BY <2>2 DEF RunMicrotask, identityVars
    <3>2. InOrder'
      BY <3>1, SchedulerAssumption DEF InOrder, TypeOK, Exec
    <3>3. Records'
      BY <3>1 DEF Records, Live, TypeOK
    <3> QED
      BY <3>2, <3>3
  <2>3. CASE Finish(e) \/ Abort(e)
    <3>1. \E s \in TerminalStatus : FinishAs(e, s)
      BY <2>3 DEF Finish, Abort, TerminalStatus
    <3>2. status[e] # "none" /\ UNCHANGED <<identityVars, branch, active, handoff>>
      BY <2>3 DEF Finish, Abort, Thinking, Live
    <3> QED
      BY <3>1, <3>2, FinishAsRecords
  <2> QED
    BY <1>2, <2>1, <2>2, <2>3 DEF Lifecycle
<1>3. ASSUME NEW p \in Exec, Delegation(p)
      PROVE  InOrder' /\ Records'
  <2>1. ASSUME NEW c \in Exec, NEW failed \in BOOLEAN, DelegateProgrammatically(p, c, failed)
        PROVE  InOrder' /\ Records'
    BY <2>1, StartDelegationRecords DEF DelegateProgrammatically
  <2>2. ASSUME NEW k \in Calls, NEW c \in Exec, NEW failed \in BOOLEAN, Delegate(p, k, c, failed)
        PROVE  InOrder' /\ Records'
    <3>1. call' = [call EXCEPT ![p][k] = [phase |-> "started", child |-> c]] /\ call[p][k].phase = "issued"
      BY <2>2 DEF Delegate, At
    <3>2. \A x \in Exec, l \in Calls : call'[x][l].phase # "idle" => call[x][l].phase # "idle"
      BY <3>1 DEF TypeOK
    <3>3. status[p] = "running"
      BY <3>1 DEF Records
    <3> QED
      BY <2>2, <3>2, <3>3, StartDelegationRecords DEF Delegate
  <2>3. ASSUME NEW k \in Calls,
               \/ Refuse(p, k) \/ Suspend(p, k) \/ ReturnToRoot(p, k)
               \/ Reacquire(p, k) \/ AwaitPermit(p, k) \/ Resume(p, k)
        PROVE  InOrder' /\ Records'
    <3>1. /\ UNCHANGED <<identityVars, status, branch, active, handoff>>
          /\ call[p][k].phase # "idle"
          /\ call' = [call EXCEPT ![p][k] = Idle] \/ \E ph \in Phase : SetPhase(p, k, ph)
      BY <2>3 DEF Refuse, Suspend, ReturnToRoot, Reacquire, AwaitPermit, Resume, At, ChildDone, Phase
    <3>2. \A x \in Exec, l \in Calls : call'[x][l].phase # "idle" => call[x][l].phase # "idle"
      <4>1. \A x \in Exec, l \in Calls : x # p \/ l # k => call'[x][l] = call[x][l]
        BY <3>1 DEF TypeOK, SetPhase
      <4> QED
        BY <3>1, <4>1
    <3> QED
      BY <3>1, <3>2, SameRecords
  <2>4. ASSUME NEW n \in Calls, Act(p, n)  PROVE InOrder' /\ Records'
    <3>1. /\ UNCHANGED <<identityVars, status, branch, active, handoff>>
          /\ status[p] = "running" /\ handoff[p] = "none"
          /\ \A x \in Exec : x # p => call'[x] = call[x]
      BY <2>4 DEF Act, Thinking, TypeOK
    <3> QED
      BY <3>1, SameRecords
  <2> QED
    BY <1>3, <2>1, <2>2, <2>3, <2>4 DEF Delegation
<1>4. ASSUME NEW e \in Exec, Handoff(e)
      PROVE  InOrder' /\ Records'
  <2>1. CASE RequestHandoff(e) \/ PrepareHandoff(e) \/ RejectHandoff(e)
    <3>1. /\ UNCHANGED <<identityVars, status, branch, active, call>>
          /\ \E h \in HandoffPhase : handoff' = [handoff EXCEPT ![e] = h]
          /\ \A k \in Calls : call[e][k].phase = "idle"
          /\ status[e] # "none"
      BY <2>1 DEF RequestHandoff, PrepareHandoff, RejectHandoff, Thinking, Records, HandoffPhase
    <3>2. UNCHANGED parent
      BY <3>1 DEF identityVars
    <3> QED
      BY <3>1, <3>2 DEF InOrder, Records, Live, TypeOK
  <2>2. ASSUME NEW s \in Exec, CommitHandoff(e, s)  PROVE InOrder' /\ Records'
    <3>1. /\ parent' = [parent EXCEPT ![s] = parent[e]]
          /\ branch' = [branch EXCEPT ![s] = branch[e]]
          /\ active' = active \cup {s}
          /\ handoff' = [handoff EXCEPT ![e] = "none"]
          /\ call' = call
          /\ status[s] = "none"
          /\ \A d \in 1 .. s - 1 : status[d] # "none"
          /\ handoff[e] # "none"
          /\ e # s
          /\ status'[s] = "created"
          /\ status'[e] \in TerminalStatus
          /\ \A x \in Exec : x # s /\ x # e => status'[x] = status[x]
      BY <2>2 DEF CommitHandoff, Fresh, Records, Terminal, TypeOK, TerminalStatus
    <3>2. status[e] # "none" /\ branch[e] \in 1 .. e /\ \A k \in Calls : call[e][k].phase = "idle"
      BY <3>1 DEF Records
    <3>3. e \in Nat /\ s \in Nat /\ Exec \subseteq Nat
      BY SchedulerAssumption DEF Exec
    <3>4. e < s
      BY <3>1, <3>2, <3>3 DEF InOrder, Exec
    <3>5. branch'[s] \in 1 .. s /\ \A x \in Exec : x # s => branch'[x] = branch[x] /\ parent'[x] = parent[x]
      BY <3>1, <3>2, <3>3, <3>4 DEF TypeOK, SchedulerTypeOK
    <3>6. InOrder'
      <4>1. \A x \in Exec : x # s => (status'[x] = "none" <=> status[x] = "none")
        BY <3>1, <3>2, Zenon DEF TerminalStatus
      <4>2. \A x \in Exec : \A d \in 1 .. x - 1 : d \in Exec
        BY SchedulerAssumption DEF Exec
      <4>3. status'[s] # "none"
        BY <3>1
      <4> QED
        BY <3>1, <4>1, <4>2, <4>3 DEF InOrder
    <3>7. \A x, y \in Exec : status'[x] \in {"none", "queued"} => parent'[y] # x
      <4>1. parent'[s] = parent[e]
        BY <3>1 DEF TypeOK, SchedulerTypeOK
      <4> QED
        BY <3>1, <3>5, <4>1 DEF Records, TerminalStatus
    <3>8. /\ \A x \in Exec : Live(x)' => x \in active'
          /\ \A x \in Exec : status'[x] = "none" => x # s /\ x # e
      BY <3>1 DEF Live, Records, TerminalStatus
    <3>9. \A x \in Exec : handoff'[x] # "none" => handoff[x] # "none"
      BY <3>1 DEF TypeOK
    <3>10. \A x \in Exec, k \in Calls :
             call'[x][k].phase # "idle" => status'[x] = "running" /\ handoff'[x] = "none"
      BY <3>1, <3>2, <3>9 DEF Records
    <3>11. Records'
      BY <3>1, <3>5, <3>7, <3>8, <3>9, <3>10 DEF Records, TerminalStatus
    <3> QED
      BY <3>6, <3>11
  <2>3. CASE FailCheckpoint(e)
    <3>1. UNCHANGED <<identityVars, branch, active>> /\ handoff' = [handoff EXCEPT ![e] = "none"]
      BY <2>3 DEF FailCheckpoint
    <3>2. \A x \in Exec : handoff'[x] # "none" => handoff[x] # "none"
      BY <3>1 DEF TypeOK
    <3>3. status[e] # "none"
      BY <2>3 DEF FailCheckpoint, Records
    <3>4. CASE Terminal(e)
      <4>1. UNCHANGED <<parent, status, call, branch, active>>
        BY <2>3, <3>1, <3>4 DEF FailCheckpoint, identityVars
      <4> QED
        BY <3>2, <4>1 DEF InOrder, Records, Live, TypeOK
    <3>5. CASE ~Terminal(e)
      BY <2>3, <3>1, <3>2, <3>3, <3>5, FinishAsRecords DEF FailCheckpoint, TerminalStatus
    <3> QED
      BY <3>4, <3>5
  <2> QED
    BY <1>4, <2>1, <2>2, <2>3 DEF Handoff
<1>5. ASSUME Synchronous
      PROVE  InOrder' /\ Records'
  <2>1. CASE CancelQueued \/ ReleasePermit \/ DrainDone
    BY <2>1, SameRecords DEF CancelQueued, ReleasePermit, DrainDone, runtimeVars
  <2>2. ASSUME NEW failed \in BOOLEAN, DrainChild(failed)  PROVE InOrder' /\ Records'
    <3> DEFINE j == First(Startable(Arg))
               e == queue[j].exec
    <3>1. /\ status' = [status EXCEPT ![e] = IF failed THEN "ended" ELSE "running"]
          /\ UNCHANGED <<parent, depth, branch, active, call, handoff>>
          /\ queue[j].call = 0 /\ ~Top("terminal")
      BY <2>2 DEF DrainChild, identityVars, IsStart, Top
    <3>2. j \in DOMAIN queue /\ e \in Exec
      BY <2>2, FirstOfQueue DEF DrainChild, TypeOK
    <3>3. status[e] = "queued"
      BY <3>1, <3>2 DEF QueueSound, Waits, Finishing
    <3> HIDE DEF e, j
    <3>4. InOrder'
      BY <3>1, <3>2, <3>3, SchedulerAssumption DEF InOrder, TypeOK, Exec
    <3>5. Records'
      BY <3>1, <3>2, <3>3 DEF Records, TypeOK, Live
    <3> QED
      BY <3>4, <3>5
  <2>3. CASE DrainParent
    <3> DEFINE j == First(Startable(Arg))
               e == queue[j].exec
               k == queue[j].call
    <3>1. /\ SetPhase(e, k, "reacquired")
          /\ UNCHANGED <<identityVars, status, branch, active, handoff>>
          /\ k # 0 /\ ~Top("terminal")
      BY <2>3 DEF DrainParent, IsStart, Top
    <3>2. j \in DOMAIN queue /\ e \in Exec
      BY <2>3, FirstOfQueue DEF DrainParent, TypeOK
    <3>3. k \in Calls /\ call[e][k].phase = "reacquiring"
      BY <3>1, <3>2 DEF QueueSound, Waits, Finishing
    <3> HIDE DEF e, j, k
    <3>4. \A x \in Exec, l \in Calls : call'[x][l].phase # "idle" => call[x][l].phase # "idle"
      BY <3>1, <3>3 DEF SetPhase, TypeOK
    <3> QED
      BY <3>1, <3>4, SameRecords
  <2>4. CASE CancelChild
    <3>1. First(LiveChildren(Arg)) \in LiveChildren(Arg) /\ First(LiveChildren(Arg)) \in Exec
      <4>1. LiveChildren(Arg) \in SUBSET Exec /\ Exec \subseteq Nat
        BY SchedulerAssumption DEF LiveChildren, Children, Exec
      <4> QED
        BY <2>4, <4>1, FirstIsFirst DEF CancelChild
    <3>2. status[First(LiveChildren(Arg))] # "none"
      BY <3>1 DEF LiveChildren, Records
    <3>3. UNCHANGED <<identityVars, branch, active, handoff>>
      BY <2>4 DEF CancelChild
    <3> QED
      BY <2>4, <3>1, <3>2, <3>3, FinishAsRecords DEF CancelChild, TerminalStatus
  <2>5. CASE LeaveTerminal
    <3>1. UNCHANGED <<parent, status, branch, call, handoff>>
      BY <2>5 DEF LeaveTerminal, identityVars
    <3>2. active' \subseteq active /\ \A x \in active : Live(x) => x \in active'
      BY <2>5 DEF LeaveTerminal, Live, Terminal, TerminalStatus
    <3> QED
      BY <3>1, <3>2 DEF InOrder, Records, Live
  <2> QED
    BY <1>5, <2>1, <2>2, <2>3, <2>4, <2>5 DEF Synchronous
<1> QED
  BY <1>1, <1>2, <1>3, <1>4, <1>5 DEF Next
-----------------------------------------------------------------------------
(* A step that leaves the queue alone, where nobody begins to wait and who *)
(* stops waiting is about to lose its entries.                             *)
LEMMA QueueKept ==
  ASSUME TypeOK, QueueRight, UNCHANGED queue,
         \A x \in Exec, k \in Nat : Waits(x, k)' => Waits(x, k),
         \A x \in Exec, k \in Nat : Waits(x, k) => Waits(x, k)' \/ Finishing(x)',
         \A x \in Exec : Finishing(x) => Finishing(x)' \/ EntriesOf(x) = {}
  PROVE  QueueRight'
<1>1. QueueSound'
  <2> SUFFICES ASSUME NEW j \in DOMAIN queue
               PROVE  \E x \in Exec, k \in Nat : /\ queue[j].exec = x /\ queue[j].call = k
                                                 /\ Waits(x, k)' \/ Finishing(x)'
    BY DEF QueueSound, Waits, Finishing, Top, Arg
  <2>1. PICK x \in Exec, k \in Nat : queue[j].exec = x /\ queue[j].call = k
    BY FirstOfQueue DEF TypeOK
  <2>2. j \in EntriesOf(x)
    BY <2>1 DEF EntriesOf
  <2>3. Waits(x, k) \/ Finishing(x)
    BY <2>1 DEF QueueRight, QueueSound
  <2> QED
    BY <2>1, <2>2, <2>3
<1>2. QueueComplete'
  <2> SUFFICES ASSUME NEW x \in Exec, NEW k \in Calls \cup {0}, Waits(x, k)'
               PROVE  \E j \in DOMAIN queue : queue[j] = [exec |-> x, call |-> k]
    BY DEF QueueComplete
  <2>1. k \in Nat
    BY DEF Calls
  <2>2. Waits(x, k)
    BY <2>1
  <2> QED
    BY <2>2 DEF QueueRight, QueueComplete
<1> QED
  BY <1>1, <1>2 DEF QueueRight, QueueUnique

(* A step that takes out one entry of somebody who then waits no more.     *)
LEMMA QueueTaken ==
  ASSUME TypeOK, QueueRight, NEW j \in DOMAIN queue, queue' = Without(j),
         \A x \in Exec, k \in Nat :
           Waits(x, k)' <=> Waits(x, k) /\ [exec |-> x, call |-> k] # queue[j],
         \A x \in Exec : Finishing(x) => Finishing(x)'
  PROVE  QueueRight' /\ \A i \in DOMAIN queue' : queue'[i] # queue[j]
<1>1. /\ DOMAIN queue = 1 .. Len(queue)
      /\ Len(queue) \in Nat
      /\ j \in 1 .. Len(queue)
      /\ DOMAIN queue' = 1 .. Len(queue) - 1
      /\ \A i \in 1 .. Len(queue) - 1 : queue'[i] = IF i < j THEN queue[i] ELSE queue[i + 1]
  BY WithoutIs DEF TypeOK, SchedulerTypeOK
<1> DEFINE old(i) == IF i < j THEN i ELSE i + 1
<1>2. /\ \A i \in DOMAIN queue' : old(i) \in DOMAIN queue /\ old(i) # j /\ queue'[i] = queue[old(i)]
      /\ \A i, l \in DOMAIN queue' : old(i) = old(l) => i = l
      /\ \A l \in DOMAIN queue : l # j => \E i \in DOMAIN queue' : old(i) = l
  <2>1. ASSUME NEW l \in DOMAIN queue, l # j
        PROVE  \E i \in DOMAIN queue' : old(i) = l
    <3>1. CASE l < j
      BY <1>1, <2>1, <3>1
    <3>2. CASE ~ (l < j)
      <4>1. l - 1 \in DOMAIN queue' /\ old(l - 1) = l
        BY <1>1, <2>1, <3>2
      <4> QED
        BY <4>1
    <3> QED
      BY <3>1, <3>2
  <2> QED
    BY <1>1, <2>1
<1> HIDE DEF old
<1>3. \A i \in DOMAIN queue' : queue'[i] # queue[j]
  BY <1>2 DEF QueueRight, QueueUnique
<1>4. QueueUnique'
  BY <1>2 DEF QueueRight, QueueUnique
<1>5. QueueComplete'
  <2> SUFFICES ASSUME NEW x \in Exec, NEW k \in Calls \cup {0}, Waits(x, k)'
               PROVE  \E i \in DOMAIN queue' : queue'[i] = [exec |-> x, call |-> k]
    BY DEF QueueComplete
  <2>1. k \in Nat
    BY DEF Calls
  <2>2. Waits(x, k) /\ [exec |-> x, call |-> k] # queue[j]
    BY <2>1
  <2>3. PICK l \in DOMAIN queue : queue[l] = [exec |-> x, call |-> k]
    BY <2>2 DEF QueueRight, QueueComplete
  <2>4. PICK i \in DOMAIN queue' : old(i) = l
    BY <1>2, <2>2, <2>3
  <2> QED
    BY <1>2, <2>3, <2>4
<1>6. QueueSound'
  <2> SUFFICES ASSUME NEW i \in DOMAIN queue'
               PROVE  \E x \in Exec, k \in Nat : /\ queue'[i].exec = x /\ queue'[i].call = k
                                                 /\ Waits(x, k)' \/ Finishing(x)'
    BY DEF QueueSound, Waits, Finishing, Top, Arg
  <2>1. PICK x \in Exec, k \in Nat : queue[old(i)].exec = x /\ queue[old(i)].call = k
    BY <1>2, FirstOfQueue DEF TypeOK
  <2>2. queue[old(i)] = [exec |-> x, call |-> k]
    <3>1. queue \in Seq(Entry) /\ old(i) \in 1 .. Len(queue)
      BY <1>1, <1>2 DEF TypeOK, SchedulerTypeOK
    <3>2. queue[old(i)] \in Entry
      BY <3>1, ElementOfSeq
    <3> QED
      BY <2>1, <3>2 DEF Entry
  <2>3. Waits(x, k) \/ Finishing(x)
    BY <1>2, <2>1 DEF QueueRight, QueueSound
  <2>4. [exec |-> x, call |-> k] # queue[j]
    BY <1>2, <1>3, <2>2
  <2> QED
    BY <1>2, <2>1, <2>3, <2>4
<1> QED
  BY <1>3, <1>4, <1>5, <1>6 DEF QueueRight

(* A step that adds the entry of somebody who begins to wait.              *)
LEMMA QueueAdded ==
  ASSUME TypeOK, QueueRight, NEW e \in Exec, NEW n \in Nat, Enqueue(e, n), ~Waits(e, n),
         \A x \in Exec, k \in Nat :
           Waits(x, k)' <=> Waits(x, k) \/ (x = e /\ k = n),
         \A x \in Exec : ~Finishing(x)
  PROVE  QueueRight'
<1>1. /\ DOMAIN queue = 1 .. Len(queue)
      /\ Len(queue) \in Nat
      /\ DOMAIN queue' = 1 .. Len(queue) + 1
      /\ \A i \in 1 .. Len(queue) : queue'[i] = queue[i]
      /\ queue'[Len(queue) + 1] = [exec |-> e, call |-> n]
  BY EnqueueIs DEF TypeOK, SchedulerTypeOK
<1>2. /\ \A i \in DOMAIN queue : i \in DOMAIN queue' /\ queue'[i] = queue[i]
      /\ Len(queue) + 1 \in DOMAIN queue'
      /\ \A i \in DOMAIN queue' : i \in DOMAIN queue \/ i = Len(queue) + 1
  BY <1>1
<1>3. \A i \in DOMAIN queue : queue[i] # [exec |-> e, call |-> n]
  <2> SUFFICES ASSUME NEW i \in DOMAIN queue, queue[i] = [exec |-> e, call |-> n]
               PROVE  FALSE
    OBVIOUS
  <2>1. queue[i].exec = e /\ queue[i].call = n
    OBVIOUS
  <2> QED
    BY <2>1 DEF QueueRight, QueueSound
<1>4. QueueUnique'
  BY <1>1, <1>2, <1>3 DEF QueueRight, QueueUnique
<1>5. QueueComplete'
  <2> SUFFICES ASSUME NEW x \in Exec, NEW k \in Calls \cup {0}, Waits(x, k)'
               PROVE  \E i \in DOMAIN queue' : queue'[i] = [exec |-> x, call |-> k]
    BY DEF QueueComplete
  <2>1. k \in Nat
    BY DEF Calls
  <2>2. CASE Waits(x, k)
    BY <1>2, <2>2 DEF QueueRight, QueueComplete
  <2>3. CASE x = e /\ k = n
    BY <1>1, <1>2, <2>3
  <2> QED
    BY <2>1, <2>2, <2>3
<1>6. QueueSound'
  <2> SUFFICES ASSUME NEW i \in DOMAIN queue'
               PROVE  \E x \in Exec, k \in Nat : /\ queue'[i].exec = x /\ queue'[i].call = k
                                                 /\ Waits(x, k)'
    BY DEF QueueSound, Waits, Finishing, Top, Arg
  <2>1. CASE i \in DOMAIN queue
    <3>1. PICK x \in Exec, k \in Nat : queue[i].exec = x /\ queue[i].call = k
      BY <2>1, FirstOfQueue DEF TypeOK
    <3>2. Waits(x, k)
      BY <2>1, <3>1 DEF QueueRight, QueueSound
    <3> QED
      BY <1>2, <2>1, <3>1, <3>2
  <2>2. CASE i = Len(queue) + 1
    BY <1>1, <2>2
  <2> QED
    BY <1>2, <2>1, <2>2
<1> QED
  BY <1>4, <1>5, <1>6 DEF QueueRight

(* Ending e: the entries it has belong now to its terminal frame.          *)
LEMMA FinishAsQueue ==
  ASSUME TypeOK, QueueRight, FramesEnded, NEW e \in Exec, NEW s \in TerminalStatus, FinishAs(e, s),
         UNCHANGED queue, \A x \in Exec : ~Finishing(x)
  PROVE  QueueRight' /\ FramesEnded'
<1>1. /\ status' = [status EXCEPT ![e] = s]
      /\ call' = [call EXCEPT ![e] = [k \in Calls |-> Idle]]
      /\ stack' = <<CallFrame("terminal", e)>> \o stack
  BY DEF FinishAs
<1>2. CallFrame("terminal", e) \in Frame /\ stack \in Seq(Frame)
  BY StackType DEF TypeOK
<1>3. /\ stack' # << >> /\ stack'[1] = CallFrame("terminal", e)
      /\ Len(stack) \in Nat
      /\ DOMAIN stack = 1 .. Len(stack)
      /\ DOMAIN stack' = 1 .. Len(stack) + 1
      /\ \A i \in 1 .. Len(stack) : stack'[i + 1] = stack[i]
  BY <1>1, <1>2, PushIs
<1>4. Finishing(e)'
  BY <1>3 DEF Finishing, Top, Arg, CallFrame
<1>5. \A x \in Exec : x # e => status'[x] = status[x] /\ call'[x] = call[x]
  BY <1>1 DEF TypeOK
<1>6. status'[e] = s /\ \A k \in Calls : call'[e][k].phase = "idle"
  BY <1>1 DEF TypeOK, Idle
<1>7. /\ \A x \in Exec, k \in Nat : Waits(x, k)' => Waits(x, k)
      /\ \A x \in Exec, k \in Nat : Waits(x, k) => Waits(x, k)' \/ Finishing(x)'
  BY <1>4, <1>5, <1>6 DEF Waits, TerminalStatus
<1>8. QueueRight'
  BY <1>7, QueueKept
<1>9. FramesEnded'
  <2> SUFFICES ASSUME NEW i \in DOMAIN stack', stack'[i].op # "drain"
               PROVE  status'[stack'[i].arg] \in TerminalStatus
    BY DEF FramesEnded, Terminal
  <2>1. CASE i = 1
    BY <1>3, <1>6, <2>1 DEF CallFrame
  <2>2. CASE i # 1
    <3>1. i - 1 \in 1 .. Len(stack) /\ (i - 1) + 1 = i
      BY <1>3, <2>2
    <3>2. stack'[i] = stack[i - 1]
      BY <1>3, <3>1
    <3>3. stack[i - 1] \in Frame
      BY <1>2, <3>1, ElementOfSeq
    <3>4. stack[i - 1].arg \in Exec
      BY <3>2, <3>3 DEF Frame
    <3> QED
      BY <1>3, <1>5, <1>6, <3>1, <3>2, <3>4 DEF FramesEnded, Terminal
  <2> QED
    BY <2>1, <2>2
<1> QED
  BY <1>8, <1>9

(* Between two callbacks the stack is empty, so no frame is at work.       *)
LEMMA QuiescentFrames ==
  ASSUME TypeOK, Quiescent
  PROVE  /\ DOMAIN stack = {}
         /\ \A x : ~Finishing(x)
         /\ \A f \in Frame : /\ <<f>> \o stack = <<f>>
                             /\ DOMAIN <<f>> = {1} /\ <<f>> # << >> /\ <<f>>[1] = f
<1>1. stack = << >> /\ stack \in Seq(Frame)
  BY DEF Quiescent, TypeOK
<1>2. ASSUME NEW f \in Frame
      PROVE  <<f>> \o stack = <<f>> /\ DOMAIN <<f>> = {1} /\ <<f>> # << >> /\ <<f>>[1] = f
  <2>1. <<f>> \in Seq(Frame) /\ Len(<<f>>) = 1 /\ <<f>>[1] = f
    BY SMT
  <2>2. <<f>> \o stack = <<f>>
    BY ONLY <1>1, <2>1, ConcatEmptySeq
  <2> QED
    BY <2>1, <2>2, SMT
<1>3. DOMAIN stack = {}
  BY <1>1, SMT
<1> QED
  BY <1>1, <1>2, <1>3 DEF Finishing, Top

(* Everything a callback may do to the queue except end an execution: it   *)
(* changes who waits by adding an entry, or not at all.                    *)
LEMMA SameWaits ==
  ASSUME TypeOK, QueueRight, Quiescent, UNCHANGED queue,
         \A x \in Exec, k \in Nat : Waits(x, k)' <=> Waits(x, k)
  PROVE  QueueRight'
BY QueueKept, QuiescentFrames

(* A child begins: it starts, or waits with one start entry.               *)
LEMMA StartDelegationQueue ==
  ASSUME TypeOK, Allocation, Records, QueueRight, Quiescent,
         NEW p \in Exec, NEW c \in Exec, NEW failed \in BOOLEAN, StartDelegation(p, c, failed),
         \A x \in Exec, k \in Calls :
           call'[x][k].phase = "reacquiring" <=> call[x][k].phase = "reacquiring"
  PROVE  QueueRight' /\ FramesEnded'
<1> DEFINE starts == CanStartUnder(p, root[p])
<1>1. /\ Fresh(c)
      /\ failed => starts
      /\ IF starts THEN UNCHANGED queue ELSE Enqueue(c, 0)
      /\ status' = [status EXCEPT ![c] = IF ~starts THEN "queued"
                                         ELSE IF failed THEN "ended" ELSE "running"]
      /\ stack' = IF failed THEN <<CallFrame("terminal", c)>> ELSE stack
  BY DEF StartDelegation
<1> HIDE DEF starts
<1>2. status[c] = "none" /\ CallFrame("terminal", c) \in Frame
  BY <1>1, StackType DEF Fresh
<1>3. /\ \A x \in Exec : x # c => status'[x] = status[x]
      /\ status'[c] = IF ~starts THEN "queued" ELSE IF failed THEN "ended" ELSE "running"
  BY <1>1 DEF TypeOK
<1>4. QueueRight'
  <2>1. CASE starts
    <3>1. \A x \in Exec, k \in Nat : Waits(x, k)' <=> Waits(x, k)
      BY <1>2, <1>3, <2>1 DEF Waits
    <3> QED
      BY <1>1, <2>1, <3>1, SameWaits
  <2>2. CASE ~starts
    <3>1. \A x \in Exec, k \in Nat : Waits(x, k)' <=> Waits(x, k) \/ (x = c /\ k = 0)
      BY <1>2, <1>3, <2>2 DEF Waits
    <3>2. ~Waits(c, 0) /\ Enqueue(c, 0)
      BY <1>1, <1>2, <2>2 DEF Waits
    <3> QED
      BY <3>1, <3>2, QueueAdded, QuiescentFrames
  <2> QED
    BY <2>1, <2>2
<1>5. FramesEnded'
  <2>1. CASE failed
    <3>1. DOMAIN stack' = {1} /\ stack'[1].arg = c
      BY <1>1, <1>2, <2>1, QuiescentFrames DEF CallFrame
    <3> QED
      BY <1>1, <1>3, <2>1, <3>1 DEF FramesEnded, Terminal, TerminalStatus
  <2>2. CASE ~failed
    BY <1>1, <2>2, QuiescentFrames DEF FramesEnded
  <2> QED
    BY <2>1, <2>2
<1> QED
  BY <1>4, <1>5

(* What the steps of a callback leave of the queue and the frames.         *)
LEMMA CallbackQueue ==
  ASSUME TypeOK, Allocation, Records, QueueRight, FramesEnded, NEW e \in Exec,
         Lifecycle(e) \/ Delegation(e) \/ Handoff(e)
  PROVE  QueueRight' /\ FramesEnded'
<1>0. Quiescent
  BY DEF Lifecycle, Delegation, Handoff, StartRoot, RunMicrotask, Finish, Abort, Act, Delegate,
         DelegateProgrammatically, Refuse, Suspend, ReturnToRoot, Reacquire, AwaitPermit, Resume,
         At, ChildDone, RequestHandoff, PrepareHandoff, RejectHandoff, CommitHandoff, FailCheckpoint
<1>1. CASE StartRoot(e) \/ RunMicrotask(e)
  <2>1. /\ UNCHANGED <<queue, call, stack>>
        /\ \E s \in Status \ {"queued"} : status' = [status EXCEPT ![e] = s]
        /\ status[e] # "queued"
    BY <1>1 DEF StartRoot, RunMicrotask, schedulerVars, Status, Fresh
  <2>2. \A x \in Exec, k \in Nat : Waits(x, k)' <=> Waits(x, k)
    BY <2>1 DEF Waits, TypeOK
  <2>3. FramesEnded'
    BY <1>0, <2>1, QuiescentFrames DEF FramesEnded
  <2> QED
    BY <1>0, <2>1, <2>2, <2>3, SameWaits
<1>2. CASE Finish(e) \/ Abort(e)
  <2>1. (\E s \in TerminalStatus : FinishAs(e, s)) /\ UNCHANGED queue
    BY <1>2 DEF Finish, Abort, TerminalStatus, schedulerVars
  <2> QED
    BY <1>0, <2>1, FinishAsQueue, QuiescentFrames
<1>3. ASSUME NEW n \in Calls, Act(e, n)  PROVE QueueRight' /\ FramesEnded'
  <2>1. UNCHANGED <<queue, status, stack>> /\ \A k \in Calls : call[e][k].phase = "idle"
    BY <1>3 DEF Act, Thinking, schedulerVars
  <2>2. \A x \in Exec, k \in Calls : call'[x][k].phase = "reacquiring" <=> call[x][k].phase = "reacquiring"
    <3>1. call' = [call EXCEPT ![e] =
                     [k \in Calls |-> IF k <= n THEN [Idle EXCEPT !.phase = "issued"] ELSE Idle]]
      BY <1>3 DEF Act
    <3>2. \A k \in Calls : call'[e][k].phase \in {"idle", "issued"}
      BY <3>1 DEF TypeOK, Idle
    <3>3. \A x \in Exec : x # e => call'[x] = call[x]
      BY <3>1 DEF TypeOK
    <3> QED
      BY <2>1, <3>2, <3>3
  <2>3. \A x \in Exec, k \in Nat : Waits(x, k)' <=> Waits(x, k)
    BY <2>1, <2>2 DEF Waits
  <2>4. FramesEnded'
    BY <1>0, <2>1, QuiescentFrames DEF FramesEnded
  <2> QED
    BY <1>0, <2>1, <2>3, <2>4, SameWaits
<1>4. ASSUME NEW c \in Exec, NEW failed \in BOOLEAN, DelegateProgrammatically(e, c, failed)
      PROVE  QueueRight' /\ FramesEnded'
  BY <1>0, <1>4, StartDelegationQueue DEF DelegateProgrammatically
<1>5. ASSUME NEW k \in Calls, NEW c \in Exec, NEW failed \in BOOLEAN, Delegate(e, k, c, failed)
      PROVE  QueueRight' /\ FramesEnded'
  <2>1. call' = [call EXCEPT ![e][k] = [phase |-> "started", child |-> c]] /\ call[e][k].phase = "issued"
    BY <1>5 DEF Delegate, At
  <2>2. \A x \in Exec, l \in Calls : call'[x][l].phase = "reacquiring" <=> call[x][l].phase = "reacquiring"
    BY <2>1 DEF TypeOK
  <2> QED
    BY <1>0, <1>5, <2>2, StartDelegationQueue DEF Delegate
<1>6. ASSUME NEW k \in Calls,
             Refuse(e, k) \/ Suspend(e, k) \/ ReturnToRoot(e, k) \/ Reacquire(e, k) \/ Resume(e, k)
      PROVE  QueueRight' /\ FramesEnded'
  <2>1. /\ UNCHANGED <<queue, status>>
        /\ call[e][k].phase # "reacquiring"
        /\ \/ call' = [call EXCEPT ![e][k] = Idle]
           \/ \E ph \in Phase \ {"reacquiring"} : SetPhase(e, k, ph)
        /\ stack' = stack \/ stack' = <<CallFrame("drain", 1)>>
    BY <1>6 DEF Refuse, Suspend, ReturnToRoot, Reacquire, Resume, At, ChildDone, Phase, schedulerVars
  <2>2. \A x \in Exec, l \in Calls : call'[x][l].phase = "reacquiring" <=> call[x][l].phase = "reacquiring"
    <3>1. \A x \in Exec, l \in Calls : x # e \/ l # k => call'[x][l] = call[x][l]
      BY <2>1 DEF TypeOK, SetPhase
    <3>2. call'[e][k].phase # "reacquiring"
      <4>1. CASE call' = [call EXCEPT ![e][k] = Idle]
        BY <4>1 DEF TypeOK, Idle
      <4>2. ASSUME NEW ph \in Phase \ {"reacquiring"}, SetPhase(e, k, ph)
            PROVE  call'[e][k].phase # "reacquiring"
        BY <4>2 DEF TypeOK, SetPhase, Call
      <4> QED
        BY <2>1, <4>1, <4>2
    <3> QED
      BY <2>1, <3>1, <3>2
  <2>3. \A x \in Exec, l \in Nat : Waits(x, l)' <=> Waits(x, l)
    BY <2>1, <2>2 DEF Waits
  <2>4. FramesEnded'
    <3>1. CallFrame("drain", 1) \in Frame
      BY StackType
    <3>2. CASE stack' = stack
      BY <1>0, <3>2, QuiescentFrames DEF FramesEnded
    <3>3. CASE stack' = <<CallFrame("drain", 1)>>
      <4>1. DOMAIN stack' = {1} /\ stack'[1].op = "drain"
        BY <1>0, <3>1, <3>3, QuiescentFrames DEF CallFrame
      <4> QED
        BY <4>1 DEF FramesEnded
    <3> QED
      BY <2>1, <3>2, <3>3
  <2> QED
    BY <1>0, <2>1, <2>3, <2>4, SameWaits
<1>7. ASSUME NEW k \in Calls, AwaitPermit(e, k)
      PROVE  QueueRight' /\ FramesEnded'
  <2>1. /\ Enqueue(e, k)
        /\ UNCHANGED <<status, stack>>
        /\ call[e][k].phase = "waiting"
        /\ SetPhase(e, k, "reacquiring")
    BY <1>7 DEF AwaitPermit, ChildDone, At
  <2>2. k \in Nat /\ k # 0
    BY DEF Calls
  <2>3. \A x \in Exec, l \in Calls :
          call'[x][l].phase = "reacquiring" <=> call[x][l].phase = "reacquiring" \/ (x = e /\ l = k)
    BY <2>1 DEF TypeOK, SetPhase
  <2>4. \A x \in Exec, l \in Nat : Waits(x, l)' <=> Waits(x, l) \/ (x = e /\ l = k)
    BY <2>1, <2>2, <2>3 DEF Waits
  <2>5. ~Waits(e, k)
    BY <2>1, <2>2 DEF Waits
  <2>6. FramesEnded'
    BY <1>0, <2>1, QuiescentFrames DEF FramesEnded
  <2>7. \A x \in Exec : ~Finishing(x)
    BY <1>0, QuiescentFrames
  <2>8. QueueRight'
    BY <2>1, <2>2, <2>4, <2>5, <2>7, QueueAdded
  <2> QED
    BY <2>6, <2>8
<1>8. CASE RequestHandoff(e) \/ PrepareHandoff(e) \/ RejectHandoff(e)
  <2>1. UNCHANGED <<queue, status, call, stack>>
    BY <1>8 DEF RequestHandoff, PrepareHandoff, RejectHandoff, schedulerVars
  <2>2. \A x \in Exec, l \in Nat : Waits(x, l)' <=> Waits(x, l)
    BY <2>1 DEF Waits
  <2>3. FramesEnded'
    BY <1>0, <2>1, QuiescentFrames DEF FramesEnded
  <2> QED
    BY <1>0, <2>1, <2>2, <2>3, SameWaits
<1>9. ASSUME NEW s \in Exec, CommitHandoff(e, s)
      PROVE  QueueRight' /\ FramesEnded'
  <2>1. /\ UNCHANGED <<queue, call>>
        /\ status' = [status EXCEPT ![s] = "created", ![e] = IF Terminal(e) THEN @ ELSE "handed_off"]
        /\ stack' = IF Terminal(e) THEN stack ELSE <<CallFrame("terminal", e)>>
        /\ status[s] = "none"
        /\ handoff[e] # "none"
    BY <1>9 DEF CommitHandoff, schedulerVars, Fresh
  <2>2. CallFrame("terminal", e) \in Frame /\ s # e
    BY <2>1, StackType DEF Records
  <2>3. /\ \A x \in Exec : x # s /\ x # e => status'[x] = status[x]
        /\ status'[s] = "created"
        /\ status'[e] = IF Terminal(e) THEN status[e] ELSE "handed_off"
    BY <2>1, <2>2 DEF TypeOK
  <2>4. ~Terminal(e) => Finishing(e)'
    BY <1>0, <2>1, <2>2, QuiescentFrames DEF Finishing, Top, Arg, CallFrame
  <2>5. /\ \A x \in Exec, k \in Nat : Waits(x, k)' => Waits(x, k)
        /\ \A x \in Exec, k \in Nat : Waits(x, k) => Waits(x, k)' \/ Finishing(x)'
    <3>1. ASSUME NEW x \in Exec
          PROVE  \/ status'[x] = "queued" <=> status[x] = "queued"
                 \/ Finishing(x)' /\ status'[x] # "queued"
      <4>1. CASE x = e /\ ~Terminal(e)
        BY <2>3, <2>4, <4>1
      <4>2. CASE x = s
        BY <2>1, <2>3, <4>2
      <4>3. CASE x # s /\ ~(x = e /\ ~Terminal(e))
        BY <2>3, <4>3
      <4> QED
        BY <4>1, <4>2, <4>3
    <3> QED
      BY <2>1, <3>1 DEF Waits
  <2>6. QueueRight'
    BY <1>0, <2>1, <2>5, QueueKept, QuiescentFrames
  <2>7. FramesEnded'
    <3>1. CASE Terminal(e)
      BY <1>0, <2>1, <3>1, QuiescentFrames DEF FramesEnded
    <3>2. CASE ~Terminal(e)
      <4>1. DOMAIN stack' = {1} /\ stack'[1].arg = e
        BY <1>0, <2>1, <2>2, <3>2, QuiescentFrames DEF CallFrame
      <4> QED
        BY <2>3, <3>2, <4>1 DEF FramesEnded, Terminal, TerminalStatus
    <3> QED
      BY <3>1, <3>2
  <2> QED
    BY <2>6, <2>7
<1>10. CASE FailCheckpoint(e)
  <2>1. UNCHANGED queue
    BY <1>10 DEF FailCheckpoint, schedulerVars
  <2>2. CASE Terminal(e)
    <3>1. UNCHANGED <<status, call, stack>>
      BY <1>10, <2>2 DEF FailCheckpoint
    <3>2. \A x \in Exec, l \in Nat : Waits(x, l)' <=> Waits(x, l)
      BY <3>1 DEF Waits
    <3>3. FramesEnded'
      BY <1>0, <3>1, QuiescentFrames DEF FramesEnded
    <3> QED
      BY <1>0, <2>1, <3>2, <3>3, SameWaits
  <2>3. CASE ~Terminal(e)
    <3>1. FinishAs(e, "ended") /\ "ended" \in TerminalStatus
      BY <1>10, <2>3 DEF FailCheckpoint, TerminalStatus
    <3> QED
      BY <1>0, <2>1, <3>1, FinishAsQueue, QuiescentFrames
  <2> QED
    BY <2>2, <2>3
<1> QED
  BY <1>1, <1>2, <1>3, <1>4, <1>5, <1>6, <1>7, <1>8, <1>9, <1>10 DEF Lifecycle, Delegation, Handoff

(* A frame goes, and others whose executions have ended may take its place.*)
LEMMA ReplacedFrames ==
  ASSUME TypeOK, FramesEnded, stack # << >>,
         \A x \in Exec : status[x] \in TerminalStatus => status'[x] \in TerminalStatus,
         \/ stack' = Below
         \/ \E f \in Frame : /\ stack' = <<f>> \o Below
                             /\ f.op = "drain" \/ status'[f.arg] \in TerminalStatus
         \/ \E f, g \in Frame : /\ stack' = <<f, g>> \o Below
                                /\ f.op = "drain" \/ status'[f.arg] \in TerminalStatus
                                /\ g.op = "drain" \/ status'[g.arg] \in TerminalStatus
  PROVE  FramesEnded'
<1>1. /\ Below \in Seq(Frame)
      /\ Len(stack) \in Nat
      /\ DOMAIN stack = 1 .. Len(stack)
      /\ DOMAIN Below = 1 .. Len(stack) - 1
      /\ \A i \in 1 .. Len(stack) - 1 : Below[i] = stack[i + 1]
  BY BelowIs
<1>2. \A i \in DOMAIN Below : Below[i] \in Frame /\ (Below[i].op = "drain" \/ status'[Below[i].arg] \in TerminalStatus)
  <2> SUFFICES ASSUME NEW i \in DOMAIN Below
               PROVE  Below[i] \in Frame /\ (Below[i].op = "drain" \/ status'[Below[i].arg] \in TerminalStatus)
    OBVIOUS
  <2>1. i + 1 \in DOMAIN stack /\ Below[i] = stack[i + 1]
    BY <1>1
  <2>2. Below[i] \in Frame
    BY <1>1, LenProperties, ElementOfSeq
  <2>3. Below[i].op # "drain" => Below[i].arg \in Exec
    BY <2>2 DEF Frame
  <2> QED
    BY <2>1, <2>2, <2>3 DEF FramesEnded, Terminal
<1>3. ASSUME NEW s \in Seq(Frame), NEW f \in Frame, f.op = "drain" \/ status'[f.arg] \in TerminalStatus,
             \A i \in DOMAIN s : s[i] \in Frame /\ (s[i].op = "drain" \/ status'[s[i].arg] \in TerminalStatus)
      PROVE  /\ <<f>> \o s \in Seq(Frame)
             /\ \A i \in DOMAIN (<<f>> \o s) :
                  /\ (<<f>> \o s)[i] \in Frame
                  /\ (<<f>> \o s)[i].op = "drain" \/ status'[(<<f>> \o s)[i].arg] \in TerminalStatus
  <2>1. /\ <<f>> \o s \in Seq(Frame)
        /\ Len(s) \in Nat
        /\ DOMAIN s = 1 .. Len(s)
        /\ DOMAIN (<<f>> \o s) = 1 .. Len(s) + 1
        /\ (<<f>> \o s)[1] = f
        /\ \A i \in 1 .. Len(s) : (<<f>> \o s)[i + 1] = s[i]
    BY PushIs
  <2>2. ASSUME NEW i \in DOMAIN (<<f>> \o s), i # 1
        PROVE  \E h \in DOMAIN s : (<<f>> \o s)[i] = s[h]
    <3>1. i - 1 \in 1 .. Len(s) /\ (i - 1) + 1 = i
      BY <2>1, <2>2
    <3> QED
      BY <2>1, <3>1
  <2>3. \A i \in DOMAIN (<<f>> \o s) : \/ (<<f>> \o s)[i] = f
                                       \/ \E h \in DOMAIN s : (<<f>> \o s)[i] = s[h]
    BY <2>1, <2>2
  <2> QED
    BY <1>3, <2>1, <2>3
<1> SUFFICES \A i \in DOMAIN stack' : stack'[i].op = "drain" \/ status'[stack'[i].arg] \in TerminalStatus
  BY DEF FramesEnded, Terminal
<1>4. CASE stack' = Below
  BY <1>2, <1>4
<1>5. ASSUME NEW f \in Frame, stack' = <<f>> \o Below, f.op = "drain" \/ status'[f.arg] \in TerminalStatus
      PROVE  \A i \in DOMAIN stack' : stack'[i].op = "drain" \/ status'[stack'[i].arg] \in TerminalStatus
  BY <1>1, <1>2, <1>3, <1>5
<1>6. ASSUME NEW f \in Frame, NEW g \in Frame, stack' = <<f, g>> \o Below,
             f.op = "drain" \/ status'[f.arg] \in TerminalStatus, g.op = "drain" \/ status'[g.arg] \in TerminalStatus
      PROVE  \A i \in DOMAIN stack' : stack'[i].op = "drain" \/ status'[stack'[i].arg] \in TerminalStatus
  <2>1. /\ <<g>> \o Below \in Seq(Frame)
        /\ \A i \in DOMAIN (<<g>> \o Below) :
             /\ (<<g>> \o Below)[i] \in Frame
             /\ (<<g>> \o Below)[i].op = "drain" \/ status'[(<<g>> \o Below)[i].arg] \in TerminalStatus
    BY <1>1, <1>2, <1>3, <1>6
  <2>2. stack' = <<f>> \o (<<g>> \o Below)
    BY <1>1, <1>6, PushIs
  <2> QED
    BY <1>3, <1>6, <2>1, <2>2
<1> QED
  BY <1>4, <1>5, <1>6

(* The frames work the queue off without losing or inventing an entry.     *)
LEMMA SynchronousQueue ==
  ASSUME TypeOK, Records, QueueRight, FramesEnded, Synchronous
  PROVE  QueueRight' /\ FramesEnded'
<1>1. CASE CancelQueued
  <2> DEFINE j == First(EntriesOf(Arg))
  <2>1. /\ Finishing(Arg) /\ EntriesOf(Arg) # {} /\ queue' = Without(j)
        /\ UNCHANGED <<status, call, stack>>
    BY <1>1 DEF CancelQueued, Finishing, runtimeVars
  <2>2. j \in EntriesOf(Arg) /\ j \in DOMAIN queue
    <3>1. EntriesOf(Arg) \in SUBSET Nat
      BY FirstOfQueue DEF EntriesOf, TypeOK
    <3> QED
      BY <2>1, <3>1, FirstIsFirst DEF EntriesOf
  <2>3. queue[j].exec = Arg
    BY <2>2 DEF EntriesOf
  <2> HIDE DEF j
  <2>4. Arg \in Exec
    BY <2>1, StackType DEF Finishing, Top
  <2>5. Terminal(Arg)
    <3>1. stack # << >> /\ stack[1].op = "terminal" /\ 1 \in DOMAIN stack
      BY <2>1, BelowIs DEF Finishing, Top
    <3> QED
      BY <3>1 DEF FramesEnded, Arg
  <2>6. \A k \in Nat : ~Waits(Arg, k)
    BY <2>4, <2>5 DEF Waits, Terminal, TerminalStatus, Records
  <2>7. \A x \in Exec, k \in Nat : Waits(x, k)' <=> Waits(x, k) /\ [exec |-> x, call |-> k] # queue[j]
    <3>1. \A x \in Exec, k \in Nat : Waits(x, k)' <=> Waits(x, k)
      BY <2>1 DEF Waits
    <3> QED
      BY <2>3, <2>6, <3>1
  <2>8. \A x \in Exec : Finishing(x) => Finishing(x)'
    BY <2>1 DEF Finishing, Top, Arg
  <2>9. QueueRight'
    BY <2>1, <2>2, <2>7, <2>8, QueueTaken
  <2>10. FramesEnded'
    BY <2>1 DEF FramesEnded, Terminal
  <2> QED
    BY <2>9, <2>10
<1>2. CASE ReleasePermit
  <2>1. /\ Top("terminal") /\ EntriesOf(Arg) = {}
        /\ UNCHANGED <<queue, status, call>>
    BY <1>2 DEF ReleasePermit
  <2>2. \A x \in Exec, k \in Nat : Waits(x, k)' <=> Waits(x, k)
    BY <2>1 DEF Waits
  <2>3. QueueRight'
    BY <2>1, <2>2, QueueKept DEF Finishing
  <2>4. Arg \in Exec /\ stack # << >> /\ Terminal(Arg)
    <3>1. stack # << >> /\ stack[1].op = "terminal" /\ 1 \in DOMAIN stack /\ Arg \in Exec
      BY <2>1, BelowIs, StackType DEF Top
    <3> QED
      BY <3>1 DEF FramesEnded, Arg
  <2> DEFINE d == CallFrame("drain", 1)
             c == CallFrame("cancelDescendants", Arg)
  <2>5. d \in Frame /\ c \in Frame /\ d.op = "drain" /\ c.arg = Arg
    BY <2>4, StackType DEF CallFrame
  <2>6. stack' = <<d, c>> \o Below \/ stack' = <<c>> \o Below
    BY <1>2 DEF ReleasePermit
  <2> HIDE DEF d, c
  <2>7. /\ \A x \in Exec : status[x] \in TerminalStatus => status'[x] \in TerminalStatus
        /\ status'[c.arg] \in TerminalStatus
    BY <2>1, <2>4, <2>5 DEF Terminal
  <2>8. FramesEnded'
    BY <2>4, <2>5, <2>6, <2>7, ReplacedFrames
  <2> QED
    BY <2>3, <2>8
<1>3. ASSUME NEW failed \in BOOLEAN, DrainChild(failed)
      PROVE  QueueRight' /\ FramesEnded'
  <2> DEFINE j == First(Startable(Arg))
             e == queue[j].exec
             d == CallFrame("drain", j)
             t == CallFrame("terminal", e)
  <2>1. /\ Top("drain") /\ Startable(Arg) # {}
        /\ queue' = Without(j)
        /\ queue[j].call = 0
        /\ status' = [status EXCEPT ![e] = IF failed THEN "ended" ELSE "running"]
        /\ stack' = IF failed THEN <<t, d>> \o Below ELSE <<d>> \o Below
        /\ UNCHANGED call
    BY <1>3 DEF DrainChild, IsStart
  <2>2. j \in DOMAIN queue /\ j \in Nat /\ e \in Exec
    BY <2>1, FirstOfQueue DEF TypeOK
  <2>3. queue[j] = [exec |-> e, call |-> 0]
    <3>1. queue \in Seq(Entry) /\ j \in 1 .. Len(queue)
      BY <2>2, LenProperties DEF TypeOK, SchedulerTypeOK
    <3>2. queue[j] \in Entry
      BY <3>1, ElementOfSeq
    <3> QED
      BY <2>1, <3>2 DEF Entry
  <2>4. d \in Frame /\ t \in Frame /\ d.op = "drain" /\ t.arg = e
    BY <2>2, StackType DEF CallFrame
  <2> HIDE DEF j, d, t
  <2>5. \A x \in Exec : ~Finishing(x)
    BY <2>1 DEF Finishing, Top
  <2>6. status[e] = "queued"
    <3>1. Waits(e, 0)
      BY <2>1, <2>2, <2>5 DEF QueueRight, QueueSound
    <3> QED
      BY <3>1 DEF Waits
  <2>7. \A x \in Exec : x # e => status'[x] = status[x]
    BY <2>1 DEF TypeOK
  <2>8. status'[e] = IF failed THEN "ended" ELSE "running"
    BY <2>1, <2>2 DEF TypeOK
  <2>9. \A x \in Exec, k \in Nat : Waits(x, k)' <=> Waits(x, k) /\ [exec |-> x, call |-> k] # queue[j]
    BY <2>1, <2>3, <2>7, <2>8 DEF Waits
  <2>10. QueueRight'
    BY <2>1, <2>2, <2>5, <2>9, QueueTaken
  <2>11. \A x \in Exec : status[x] \in TerminalStatus => status'[x] \in TerminalStatus
    BY <2>6, <2>7 DEF Terminal, TerminalStatus
  <2>12. failed => status'[t.arg] \in TerminalStatus
    BY <2>4, <2>8 DEF Terminal, TerminalStatus
  <2>13. FramesEnded'
    BY <2>1, <2>4, <2>11, <2>12, ReplacedFrames DEF Top
  <2> QED
    BY <2>10, <2>13
<1>4. CASE DrainParent
  <2> DEFINE j == First(Startable(Arg))
             e == queue[j].exec
             n == queue[j].call
             d == CallFrame("drain", j)
  <2>1. /\ Top("drain") /\ Startable(Arg) # {}
        /\ queue' = Without(j)
        /\ n # 0
        /\ SetPhase(e, n, "reacquired")
        /\ stack' = <<d>> \o Below
        /\ UNCHANGED status
    BY <1>4 DEF DrainParent, IsStart
  <2>2. j \in DOMAIN queue /\ j \in Nat /\ e \in Exec /\ n \in Nat
    BY <2>1, FirstOfQueue DEF TypeOK
  <2>3. queue[j] = [exec |-> e, call |-> n]
    <3>1. queue \in Seq(Entry) /\ j \in 1 .. Len(queue)
      BY <2>2, LenProperties DEF TypeOK, SchedulerTypeOK
    <3>2. queue[j] \in Entry
      BY <3>1, ElementOfSeq
    <3> QED
      BY <2>1, <3>2 DEF Entry
  <2>4. d \in Frame /\ d.op = "drain"
    BY <2>2, StackType DEF CallFrame
  <2> HIDE DEF j, d, n
  <2>5. \A x \in Exec : ~Finishing(x)
    BY <2>1 DEF Finishing, Top
  <2>6. n \in Calls /\ call[e][n].phase = "reacquiring"
    <3>1. Waits(e, n)
      BY <2>2, <2>3, <2>5 DEF QueueRight, QueueSound
    <3> QED
      BY <2>1, <3>1 DEF Waits
  <2>7. \A x \in Exec, k \in Calls :
          call'[x][k].phase = "reacquiring" <=> call[x][k].phase = "reacquiring" /\ ~(x = e /\ k = n)
    BY <2>1, <2>2, <2>6 DEF SetPhase, TypeOK, Call
  <2>8. \A x \in Exec, k \in Nat : Waits(x, k)' <=> Waits(x, k) /\ [exec |-> x, call |-> k] # queue[j]
    <3>1. 0 \notin Calls
      BY DEF Calls
    <3> QED
      BY <2>1, <2>3, <2>7, <3>1 DEF Waits
  <2>9. QueueRight'
    BY <2>1, <2>2, <2>5, <2>8, QueueTaken
  <2>10. FramesEnded'
    BY <2>1, <2>4, ReplacedFrames DEF Top, Terminal
  <2> QED
    BY <2>9, <2>10
<1>5. CASE DrainDone \/ LeaveTerminal
  <2>1. /\ stack # << >> /\ ~Top("terminal")
        /\ stack' = Below
        /\ UNCHANGED <<queue, status, call>>
    BY <1>5 DEF DrainDone, LeaveTerminal, Top, schedulerVars
  <2>2. \A x \in Exec, k \in Nat : Waits(x, k)' <=> Waits(x, k)
    BY <2>1 DEF Waits
  <2>3. QueueRight'
    BY <2>1, <2>2, QueueKept DEF Finishing
  <2>4. FramesEnded'
    BY <2>1, ReplacedFrames DEF Terminal
  <2> QED
    BY <2>3, <2>4
<1>6. CASE CancelChild
  <2>1. First(LiveChildren(Arg)) \in Exec
    <3>1. LiveChildren(Arg) \in SUBSET Exec /\ Exec \subseteq Nat
      BY SchedulerAssumption DEF LiveChildren, Children, Exec
    <3> QED
      BY <1>6, <3>1, FirstIsFirst DEF CancelChild
  <2>2. /\ FinishAs(First(LiveChildren(Arg)), "aborted") /\ "aborted" \in TerminalStatus
        /\ UNCHANGED queue
        /\ \A x \in Exec : ~Finishing(x)
    BY <1>6 DEF CancelChild, TerminalStatus, Finishing, Top, schedulerVars
  <2> QED
    BY <2>1, <2>2, FinishAsQueue
<1> QED
  BY <1>1, <1>2, <1>3, <1>4, <1>5, <1>6 DEF Synchronous

-----------------------------------------------------------------------------
(***************************************************************************)
(* The drain of the queue, for every value of the constants: QueueServed   *)
(* and PermitsWhereWork.                                                   *)
(*                                                                         *)
(* drain walks the queue once, and the children it starts may end, give    *)
(* their permits back and drain the queue again inside this very call.     *)
(* That it passes nobody over rests on what is said below of the calls on  *)
(* the stack: the entries that could start are ahead of the innermost      *)
(* drain (Drained), because whatever ends inside a drain has no entry and  *)
(* no child, and so moves none that the drain has passed (Nested).  QInv   *)
(* collects it, with the records and the queue that precede; Backed adds   *)
(* where the permits of the executions at work are.                        *)
(***************************************************************************)

(* A permit is with an execution that runs, or that is about to give it    *)
(* back.                                                                   *)
HoldersRun == \A e \in runningExecutions : status[e] = "running" \/ Finishing(e)

(* The innermost drain has still to look at every entry that could start.  *)
NoDrainAbove(i) == \A h \in 1 .. i - 1 : stack[h].op # "drain"
Drained ==
  \A j \in Startable(1) : \E i \in DOMAIN stack :
    stack[i].op = "drain" /\ stack[i].arg <= j /\ NoDrainAbove(i)

(* What ends inside a drain has no entry and no child, so that its own end *)
(* moves no entry the drain has passed.                                    *)
Childless(e) == EntriesOf(e) = {} /\ \A x \in Exec : parent[x] # e
Nested ==
  \A i, h \in DOMAIN stack :
    i < h /\ stack[h].op = "drain" /\ stack[i].op # "drain" => Childless(stack[i].arg)

QueueInv == TypeOK /\ Allocation /\ InOrder /\ Records /\ QueueRight /\ FramesEnded

-----------------------------------------------------------------------------
(* A step of a callback that acquires, releases or leaves the permits.     *)
LEMMA CallbackHolders ==
  ASSUME QueueInv, HoldersRun, NEW e \in Exec, Lifecycle(e) \/ Delegation(e) \/ Handoff(e)
  PROVE  HoldersRun'
<1> USE DEF QueueInv
<1>0. Quiescent
  BY DEF Lifecycle, Delegation, Handoff, StartRoot, RunMicrotask, Finish, Abort, Act, Delegate,
         DelegateProgrammatically, Refuse, Suspend, ReturnToRoot, Reacquire, AwaitPermit, Resume,
         At, ChildDone, RequestHandoff, PrepareHandoff, RejectHandoff, CommitHandoff, FailCheckpoint
<1>1. \A x \in runningExecutions : status[x] = "running" /\ x \in Exec
  BY <1>0, QuiescentFrames DEF HoldersRun, TypeOK, SchedulerTypeOK
<1>2. ASSUME \A x \in runningExecutions : status'[x] = "running",
             UNCHANGED runningExecutions
      PROVE  HoldersRun'
  BY <1>2 DEF HoldersRun
<1>3. ASSUME NEW x \in Exec, NEW s \in TerminalStatus, FinishAs(x, s), UNCHANGED runningExecutions
      PROVE  HoldersRun'
  <2>1. /\ \A y \in Exec : y # x => status'[y] = status[y]
        /\ stack' = <<CallFrame("terminal", x)>>
        /\ CallFrame("terminal", x) \in Frame
    BY <1>0, <1>3, StackType, QuiescentFrames DEF FinishAs, TypeOK
  <2>2. Finishing(x)'
    BY <1>0, <2>1, QuiescentFrames DEF Finishing, Top, Arg, CallFrame
  <2> QED
    BY <1>1, <1>3, <2>1, <2>2 DEF HoldersRun
<1>4. ASSUME NEW c \in Exec, NEW failed \in BOOLEAN, StartDelegation(e, c, failed)
      PROVE  HoldersRun'
  <2> DEFINE starts == CanStartUnder(e, root[e])
  <2>1. /\ status[c] = "none"
        /\ failed => starts
        /\ status' = [status EXCEPT ![c] = IF ~starts THEN "queued"
                                           ELSE IF failed THEN "ended" ELSE "running"]
        /\ stack' = IF failed THEN <<CallFrame("terminal", c)>> ELSE stack
        /\ \/ runningExecutions' = runningExecutions
           \/ starts /\ runningExecutions' = runningExecutions \cup {c}
    BY <1>4 DEF StartDelegation, Fresh, Acquire, counterVars
  <2> HIDE DEF starts
  <2>2. \A x \in Exec : x # c => status'[x] = status[x]
    BY <2>1 DEF TypeOK
  <2>3. starts /\ ~failed => status'[c] = "running"
    BY <2>1 DEF TypeOK
  <2>4. failed => Finishing(c)'
    <3>1. CallFrame("terminal", c) \in Frame
      BY StackType
    <3> QED
      BY <1>0, <2>1, <3>1, QuiescentFrames DEF Finishing, Top, Arg, CallFrame
  <2>5. \A x \in runningExecutions' : x \in runningExecutions \/ (x = c /\ starts)
    BY <2>1
  <2> QED
    BY <1>1, <2>1, <2>2, <2>3, <2>4, <2>5 DEF HoldersRun
<1>5. CASE StartRoot(e) \/ RunMicrotask(e)
  <2>1. /\ UNCHANGED runningExecutions
        /\ status[e] # "running"
        /\ \E s \in Status : status' = [status EXCEPT ![e] = s]
    BY <1>5 DEF StartRoot, RunMicrotask, Fresh, Status, schedulerVars, counterVars
  <2> QED
    BY <1>1, <1>2, <2>1 DEF TypeOK
<1>6. CASE Finish(e) \/ Abort(e)
  <2>1. (\E s \in TerminalStatus : FinishAs(e, s)) /\ UNCHANGED runningExecutions
    BY <1>6 DEF Finish, Abort, TerminalStatus, schedulerVars, counterVars
  <2> QED
    BY <1>3, <2>1
<1>7. ASSUME NEW c \in Exec, NEW failed \in BOOLEAN, NEW k \in Calls, Delegate(e, k, c, failed)
      PROVE  HoldersRun'
  BY <1>4, <1>7 DEF Delegate
<1>8. ASSUME NEW c \in Exec, NEW failed \in BOOLEAN, DelegateProgrammatically(e, c, failed)
      PROVE  HoldersRun'
  BY <1>4, <1>8 DEF DelegateProgrammatically
<1>9. CASE \E n \in Calls : Act(e, n)
  BY <1>1, <1>2, <1>9 DEF Act, schedulerVars, counterVars
<1>10. ASSUME NEW k \in Calls,
              \/ Refuse(e, k) \/ Suspend(e, k) \/ ReturnToRoot(e, k)
              \/ Reacquire(e, k) \/ AwaitPermit(e, k) \/ Resume(e, k)
       PROVE  HoldersRun'
  <2>1. /\ UNCHANGED status
        /\ call[e][k].phase # "idle"
        /\ runningExecutions' \subseteq runningExecutions \cup {e}
    BY <1>10 DEF Refuse, Suspend, ReturnToRoot, Reacquire, AwaitPermit, Resume, At, ChildDone,
                 Acquire, Release, schedulerVars, counterVars
  <2>2. status[e] = "running"
    BY <2>1 DEF Records
  <2> QED
    BY <1>1, <2>1, <2>2 DEF HoldersRun
<1>11. CASE RequestHandoff(e) \/ PrepareHandoff(e) \/ RejectHandoff(e)
  BY <1>1, <1>2, <1>11 DEF RequestHandoff, PrepareHandoff, RejectHandoff, schedulerVars, counterVars
<1>12. ASSUME NEW s \in Exec, CommitHandoff(e, s)
       PROVE  HoldersRun'
  <2>1. /\ UNCHANGED runningExecutions
        /\ status' = [status EXCEPT ![s] = "created", ![e] = IF Terminal(e) THEN @ ELSE "handed_off"]
        /\ stack' = IF Terminal(e) THEN stack ELSE <<CallFrame("terminal", e)>>
        /\ status[s] = "none"
    BY <1>12 DEF CommitHandoff, Fresh, schedulerVars, counterVars
  <2>2. \A x \in Exec : x # e /\ x # s => status'[x] = status[x]
    BY <2>1 DEF TypeOK
  <2>3. CASE Terminal(e)
    <3>1. status[e] # "running"
      BY <2>3 DEF Terminal, TerminalStatus
    <3> QED
      BY <1>1, <1>2, <2>1, <2>2, <3>1
  <2>4. CASE ~Terminal(e)
    <3>1. CallFrame("terminal", e) \in Frame
      BY StackType
    <3>2. Finishing(e)'
      BY <1>0, <2>1, <2>4, <3>1, QuiescentFrames DEF Finishing, Top, Arg, CallFrame
    <3> QED
      BY <1>1, <2>1, <2>2, <3>2 DEF HoldersRun
  <2> QED
    BY <2>3, <2>4
<1>13. CASE FailCheckpoint(e)
  <2>1. UNCHANGED runningExecutions
    BY <1>13 DEF FailCheckpoint, schedulerVars, counterVars
  <2>2. UNCHANGED status \/ FinishAs(e, "ended")
    BY <1>13 DEF FailCheckpoint
  <2> QED
    BY <1>1, <1>2, <1>3, <2>1, <2>2 DEF TerminalStatus
<1> QED
  BY <1>5, <1>6, <1>7, <1>8, <1>9, <1>10, <1>11, <1>12, <1>13 DEF Lifecycle, Delegation, Handoff

(* A step of a frame: what it ends keeps its permit until its own terminal *)
(* frame has come to release.                                              *)
LEMMA SynchronousHolders ==
  ASSUME QueueInv, HoldersRun, Synchronous
  PROVE  HoldersRun'
<1> USE DEF QueueInv
<1>0. runningExecutions \subseteq Exec
  BY DEF TypeOK, SchedulerTypeOK
<1>1. CASE CancelQueued
  BY <1>1 DEF CancelQueued, HoldersRun, Finishing, Top, Arg, counterVars, runtimeVars
<1>2. CASE ReleasePermit
  <2>1. UNCHANGED status /\ runningExecutions' = runningExecutions \ {Arg}
    BY <1>2 DEF ReleasePermit, Release, counterVars
  <2> QED
    BY <2>1 DEF HoldersRun, Finishing
<1>3. ASSUME NEW failed \in BOOLEAN, DrainChild(failed)
      PROVE  HoldersRun'
  <2>1. PICK e \in Exec, j \in Nat :
        /\ Top("drain")
        /\ status' = [status EXCEPT ![e] = IF failed THEN "ended" ELSE "running"]
        /\ stack' = IF failed THEN <<CallFrame("terminal", e), CallFrame("drain", j)>> \o Below
                              ELSE <<CallFrame("drain", j)>> \o Below
        /\ runningExecutions' \subseteq runningExecutions \cup {e}
    <3>1. queue[First(Startable(Arg))].exec \in Exec /\ First(Startable(Arg)) \in Nat
      BY <1>3, FirstOfQueue DEF DrainChild, TypeOK
    <3> QED
      BY <1>3, <3>1 DEF DrainChild, Acquire, counterVars
  <2>3. status' = [status EXCEPT ![e] = "running"] \/ Finishing(e)'
    <3>1. CASE failed
      <4>1. CallFrame("terminal", e) \in Frame /\ CallFrame("drain", j) \in Frame /\ Below \in Seq(Frame)
        BY <2>1, StackType DEF Top
      <4>2. <<CallFrame("drain", j)>> \o Below \in Seq(Frame)
        BY <4>1, PushIs
      <4>3. stack' = <<CallFrame("terminal", e)>> \o (<<CallFrame("drain", j)>> \o Below)
        BY <2>1, <3>1, <4>1, PushIs
      <4>4. stack' # << >> /\ stack'[1] = CallFrame("terminal", e)
        BY <4>1, <4>2, <4>3, PushIs
      <4> QED
        BY <4>4 DEF Finishing, Top, Arg, CallFrame
    <3> QED
      BY <2>1, <3>1
  <2>4. \A x \in Exec : x # e => status'[x] = status[x]
    BY <2>1 DEF TypeOK
  <2>5. status'[e] = "running" \/ Finishing(e)'
    BY <2>3 DEF TypeOK
  <2>6. \A x \in runningExecutions : status[x] = "running"
    BY <2>1 DEF HoldersRun, Finishing, Top
  <2> QED
    BY <1>0, <2>1, <2>4, <2>5, <2>6 DEF HoldersRun
<1>4. CASE DrainParent
  <2> DEFINE j == First(Startable(Arg))
             e == queue[j].exec
             n == queue[j].call
  <2>1. /\ Top("drain") /\ n # 0
        /\ UNCHANGED status
        /\ runningExecutions' \subseteq runningExecutions \cup {e}
    BY <1>4 DEF DrainParent, Acquire, IsStart, counterVars
  <2>2. j \in DOMAIN queue /\ e \in Exec
    BY <1>4, FirstOfQueue DEF DrainParent, TypeOK
  <2>3. Waits(e, n)
    BY <2>1, <2>2 DEF QueueRight, QueueSound, Finishing, Top
  <2>4. status[e] = "running"
    BY <2>1, <2>2, <2>3 DEF Waits, Records
  <2> HIDE DEF e, n, j
  <2> QED
    BY <2>1, <2>4 DEF HoldersRun, Finishing, Top
<1>5. CASE DrainDone \/ LeaveTerminal
  BY <1>5 DEF DrainDone, LeaveTerminal, HoldersRun, Finishing, Top, schedulerVars, counterVars
<1>6. CASE CancelChild
  <2>1. First(LiveChildren(Arg)) \in Exec
    <3>1. LiveChildren(Arg) \in SUBSET Exec /\ Exec \subseteq Nat
      BY SchedulerAssumption DEF LiveChildren, Children, Exec
    <3> QED
      BY <1>6, <3>1, FirstIsFirst DEF CancelChild
  <2>2. PICK c \in Exec :
        /\ status' = [status EXCEPT ![c] = "aborted"]
        /\ stack' = <<CallFrame("terminal", c)>> \o stack
        /\ UNCHANGED runningExecutions
        /\ Top("cancelDescendants")
    BY <1>6, <2>1 DEF CancelChild, FinishAs, schedulerVars, counterVars
  <2>3. Finishing(c)'
    <3>1. CallFrame("terminal", c) \in Frame /\ stack \in Seq(Frame)
      BY StackType DEF TypeOK
    <3>2. stack' # << >> /\ stack'[1] = CallFrame("terminal", c)
      BY <2>2, <3>1, PushIs
    <3> QED
      BY <3>2 DEF Finishing, Top, Arg, CallFrame
  <2>4. \A x \in Exec : x # c => status'[x] = status[x]
    BY <2>2 DEF TypeOK
  <2> QED
    BY <1>0, <2>2, <2>3, <2>4 DEF HoldersRun, Finishing, Top
<1> QED
  BY <1>1, <1>2, <1>3, <1>4, <1>5, <1>6 DEF Synchronous

-----------------------------------------------------------------------------
(* An entry that could not start before cannot start now, unless a permit  *)
(* has been given back.                                                    *)
MoreHeld == \A p, r \in Exec : CanStartUnder(p, r)' => CanStartUnder(p, r)
SamePlace == \A x \in Exec : parent[x] # None => parent'[x] = parent[x] /\ root'[x] = root[x]

(* A step that takes a permit, or touches none, makes room for nobody.     *)
LEMMA AcquireHolds ==
  ASSUME TypeOK, UNCHANGED counterVars \/ \E e, p, r : Acquire(e, p, r)
  PROVE  MoreHeld
<1>1. CASE UNCHANGED counterVars
  BY <1>1 DEF MoreHeld, CanStartUnder, counterVars
<1>2. ASSUME NEW e, NEW p, NEW r, Acquire(e, p, r)  PROVE MoreHeld
  <2>1. CASE e \in runningExecutions
    BY <1>2, <2>1 DEF Acquire, MoreHeld, CanStartUnder, counterVars
  <2>2. CASE e \notin runningExecutions
    <3>1. /\ runningTotal' = runningTotal + 1
          /\ runningByParent' = [runningByParent EXCEPT ![p] = @ + 1]
          /\ runningByTree' = [runningByTree EXCEPT ![r] = @ + 1]
          /\ runningTotal \in Nat /\ runningByParent \in [Exec -> Nat] /\ runningByTree \in [Exec -> Nat]
      BY <1>2, <2>2 DEF Acquire, TypeOK, SchedulerTypeOK
    <3>2. \A q \in Exec : runningByParent'[q] >= runningByParent[q] /\ runningByTree'[q] >= runningByTree[q]
      BY <3>1
    <3>3. \A q \in Exec : runningByParent'[q] \in Int /\ runningByTree'[q] \in Int
      BY <3>1
    <3> QED
      BY <3>1, <3>2, <3>3, SchedulerAssumption DEF MoreHeld, CanStartUnder
  <2> QED
    BY <2>1, <2>2
<1> QED
  BY <1>1, <1>2

(* A child keeps its parent and its tree: its limits stay the same ones.   *)
LEMMA PlacesStay ==
  ASSUME TypeOK, Allocation, [Next]_vars
  PROVE  SamePlace
<1>1. SchedulerStep
  BY EveryStepIsASchedulerStep
<1>2. UNCHANGED identityVars \/ \E c, r \in Exec, p \in Exec \cup {None} : JoinStep(c, p, r)
  BY <1>1 DEF SchedulerStep, GrantStep, ReturnStep
<1>3. ASSUME NEW c \in Exec, NEW r \in Exec, NEW p \in Exec \cup {None}, JoinStep(c, p, r)
      PROVE  SamePlace
  <2>1. parent[c] = None
    BY <1>3 DEF JoinStep, Allocation
  <2> QED
    BY <1>3, <2>1 DEF JoinStep, SamePlace, TypeOK, SchedulerTypeOK
<1> QED
  BY <1>2, <1>3 DEF SamePlace, identityVars

(* Where no permit has been released, an entry that can start now could    *)
(* start before.                                                           *)
LEMMA StartNeedsRoom ==
  ASSUME TypeOK, Allocation, MoreHeld, SamePlace, NEW x \in Exec, parent[x] # None, CanStart(x)'
  PROVE  CanStart(x)
<1>1. parent[x] \in Exec /\ root[x] \in Exec
  BY DEF Allocation, TypeOK, SchedulerTypeOK
<1>2. parent'[x] = parent[x] /\ root'[x] = root[x]
  BY DEF SamePlace
<1>3. CanStartUnder(parent[x], root[x])'
  BY <1>2 DEF CanStart
<1> DEFINE p == parent[x]
           r == root[x]
<1>4. ASSUME NEW q \in Exec, NEW t \in Exec, q = parent'[x], t = root'[x]
      PROVE  CanStartUnder(q, t)
  <2>1. CanStartUnder(q, t)'
    BY <1>4 DEF CanStart, CanStartUnder
  <2> QED
    BY <2>1 DEF MoreHeld
<1> QED
  BY <1>1, <1>2, <1>4 DEF CanStart

(* What a step of a callback does to the counters, the queue and the stack.*)
LEMMA CallbackEffect ==
  ASSUME QueueInv, NEW e \in Exec, Lifecycle(e) \/ Delegation(e) \/ Handoff(e)
  PROVE  /\ stack' = << >> \/ \E f \in Frame : stack' = <<f>>
         /\ MoreHeld \/ stack' = <<CallFrame("drain", 1)>>
         /\ UNCHANGED queue \/ \E x \in Exec, k \in Nat : Enqueue(x, k) /\ ~CanStart(x)'
<1> USE DEF QueueInv
<1>0. Quiescent
  BY DEF Lifecycle, Delegation, Handoff, StartRoot, RunMicrotask, Finish, Abort, Act, Delegate,
         DelegateProgrammatically, Refuse, Suspend, ReturnToRoot, Reacquire, AwaitPermit, Resume,
         At, ChildDone, RequestHandoff, PrepareHandoff, RejectHandoff, CommitHandoff, FailCheckpoint
<1>a. stack = << >> /\ \A x \in Exec : <<CallFrame("terminal", x)>> \o stack = <<CallFrame("terminal", x)>>
  BY <1>0, StackType, QuiescentFrames DEF Quiescent
<1>b. \A x \in Exec : CallFrame("terminal", x) \in Frame
  BY StackType
<1>c. CallFrame("drain", 1) \in Frame
  BY StackType
<1> HIDE DEF QueueInv
<1>1. CASE StartRoot(e) \/ RunMicrotask(e) \/ RequestHandoff(e) \/ PrepareHandoff(e) \/ RejectHandoff(e)
           \/ \E n \in Calls : Act(e, n)
  <2>1. UNCHANGED <<counterVars, queue, stack>>
    BY <1>1 DEF StartRoot, RunMicrotask, RequestHandoff, PrepareHandoff, RejectHandoff, Act, schedulerVars
  <2> QED
    BY <1>a, <2>1, AcquireHolds DEF QueueInv
<1>2. CASE Finish(e) \/ Abort(e) \/ FailCheckpoint(e) \/ \E s \in Exec : CommitHandoff(e, s)
  <2>1. UNCHANGED <<counterVars, queue>>
    BY <1>2 DEF Finish, Abort, FailCheckpoint, CommitHandoff, schedulerVars
  <2>2. stack' = stack \/ stack' = <<CallFrame("terminal", e)>>
    BY <1>2, <1>a DEF Finish, Abort, FailCheckpoint, CommitHandoff, FinishAs
  <2> QED
    BY <1>a, <1>b, <2>1, <2>2, AcquireHolds DEF QueueInv
<1>3. ASSUME NEW c \in Exec, NEW failed \in BOOLEAN, StartDelegation(e, c, failed)
      PROVE  /\ stack' = << >> \/ \E f \in Frame : stack' = <<f>>
             /\ MoreHeld
             /\ UNCHANGED queue \/ \E x \in Exec, k \in Nat : Enqueue(x, k) /\ ~CanStart(x)'
  <2>1. stack' = stack \/ stack' = <<CallFrame("terminal", c)>>
    BY <1>3 DEF StartDelegation
  <2>2. UNCHANGED counterVars \/ Acquire(c, e, root[e])
    BY <1>3 DEF StartDelegation
  <2>3. \/ UNCHANGED queue
        \/ Enqueue(c, 0) /\ UNCHANGED counterVars /\ ~CanStartUnder(e, root[e])
    BY <1>3 DEF StartDelegation
  <2>4. parent'[c] = e /\ root'[c] = root[e]
    BY <1>3 DEF StartDelegation, QueueInv, TypeOK, SchedulerTypeOK
  <2>5. UNCHANGED counterVars /\ ~CanStartUnder(e, root[e]) => ~CanStart(c)'
    BY <2>4 DEF CanStart, CanStartUnder, counterVars
  <2> QED
    BY <1>a, <1>b, <2>1, <2>2, <2>3, <2>5, AcquireHolds DEF QueueInv
<1>4. ASSUME NEW k \in Calls, Refuse(e, k) \/ ReturnToRoot(e, k) \/ Reacquire(e, k) \/ Resume(e, k)
      PROVE  stack' = << >> /\ MoreHeld /\ UNCHANGED queue
  <2>1. UNCHANGED <<queue, stack>> /\ (UNCHANGED counterVars \/ Acquire(e, parent[e], root[e]))
    BY <1>4 DEF Refuse, ReturnToRoot, Reacquire, Resume, schedulerVars
  <2> QED
    BY <1>a, <2>1, AcquireHolds DEF QueueInv
<1>5. ASSUME NEW k \in Calls, Suspend(e, k)
      PROVE  /\ (stack' = << >> /\ MoreHeld) \/ stack' = <<CallFrame("drain", 1)>>
             /\ UNCHANGED queue
  BY <1>a, <1>5, AcquireHolds DEF QueueInv, Suspend
<1>6. ASSUME NEW k \in Calls, AwaitPermit(e, k)
      PROVE  stack' = << >> /\ MoreHeld /\ \E n \in Nat : Enqueue(e, n) /\ ~CanStart(e)'
  <2>1. /\ UNCHANGED <<parent, root, counterVars, stack>>
        /\ Enqueue(e, k) /\ ~CanStart(e) /\ k \in Nat
    BY <1>6 DEF AwaitPermit, identityVars, Calls
  <2>2. ~CanStart(e)'
    BY <2>1 DEF CanStart, CanStartUnder, counterVars
  <2> QED
    BY <1>a, <2>1, <2>2, AcquireHolds DEF QueueInv
<1>7. CASE Lifecycle(e) \/ Handoff(e)
  BY <1>1, <1>2, <1>7 DEF Lifecycle, Handoff
<1>8. CASE \E c \in Exec, failed \in BOOLEAN :
             DelegateProgrammatically(e, c, failed) \/ \E k \in Calls : Delegate(e, k, c, failed)
  BY <1>3, <1>8 DEF DelegateProgrammatically, Delegate
<1>9. ASSUME NEW k \in Calls, Suspend(e, k) \/ AwaitPermit(e, k) \/ Refuse(e, k) \/ ReturnToRoot(e, k)
                                            \/ Reacquire(e, k) \/ Resume(e, k)
      PROVE  /\ stack' = << >> \/ \E f \in Frame : stack' = <<f>>
             /\ MoreHeld \/ stack' = <<CallFrame("drain", 1)>>
             /\ UNCHANGED queue \/ \E x \in Exec, n \in Nat : Enqueue(x, n) /\ ~CanStart(x)'
  BY <1>c, <1>4, <1>5, <1>6, <1>9
<1>10. CASE Delegation(e)
  BY <1>1, <1>8, <1>9, <1>10 DEF Delegation
<1> QED
  BY <1>7, <1>10

(* An entry of the new queue that could start is that of an execution      *)
(* which could start.                                                      *)
LEMMA StartableNext ==
  ASSUME SchedulerTypeOK', NEW j \in Startable(1)'
  PROVE  /\ j \in DOMAIN queue' /\ j \in Nat
         /\ \E x \in Exec : x = queue'[j].exec /\ CanStart(x)'
<1>1. j \in DOMAIN queue'
  BY DEF Startable
<1>2. queue' \in Seq(Entry) /\ DOMAIN queue' = 1 .. Len(queue')
  BY LenProperties DEF SchedulerTypeOK
<1>3. queue'[j] \in Entry /\ j \in Nat
  BY <1>1, <1>2, ElementOfSeq
<1>4. ASSUME NEW x \in Exec, x = queue'[j].exec  PROVE CanStart(x)'
  BY <1>4 DEF Startable, CanStart, CanStartUnder
<1> QED
  BY <1>1, <1>3, <1>4 DEF Entry

(* Between two callbacks no entry can start; a step of a callback leaves   *)
(* it so, or begins to drain from the first entry.                         *)
LEMMA CallbackDrained ==
  ASSUME QueueInv, Drained, NEW e \in Exec, Lifecycle(e) \/ Delegation(e) \/ Handoff(e)
  PROVE  Drained' /\ Nested'
<1>0. Quiescent
  BY DEF Lifecycle, Delegation, Handoff, StartRoot, RunMicrotask, Finish, Abort, Act, Delegate,
         DelegateProgrammatically, Refuse, Suspend, ReturnToRoot, Reacquire, AwaitPermit, Resume,
         At, ChildDone, RequestHandoff, PrepareHandoff, RejectHandoff, CommitHandoff, FailCheckpoint
<1>1. /\ stack' = << >> \/ \E f \in Frame : stack' = <<f>>
      /\ MoreHeld \/ stack' = <<CallFrame("drain", 1)>>
      /\ UNCHANGED queue \/ \E x \in Exec, k \in Nat : Enqueue(x, k) /\ ~CanStart(x)'
  BY CallbackEffect
<1>2. TypeOK /\ Allocation /\ TypeOK' /\ SamePlace
  BY StepType, PlacesStay DEF QueueInv, Next
<1>3. Startable(1) = {}
  BY <1>0, <1>2, QuiescentFrames DEF Drained
<1>4. Nested'
  <2>1. DOMAIN stack' \subseteq {1}
    BY <1>1, SMT
  <2> QED
    BY <2>1 DEF Nested
<1>5. Drained'
  <2>1. CASE stack' = <<CallFrame("drain", 1)>>
    <3>1. DOMAIN stack' = {1} /\ stack'[1] = CallFrame("drain", 1)
      BY <2>1, SMT
    <3>2. NoDrainAbove(1)'
      BY DEF NoDrainAbove
    <3>3. \A j \in Startable(1)' : 1 <= j
      BY DEF Startable
    <3> QED
      BY <3>1, <3>2, <3>3 DEF Drained, CallFrame
  <2>2. CASE MoreHeld
    <3> SUFFICES ASSUME NEW j \in Startable(1)'
                 PROVE  FALSE
      BY DEF Drained
    <3>1. j \in DOMAIN queue' /\ j \in Nat
      BY <1>2, StartableNext DEF TypeOK
    <3>2. PICK x \in Exec : x = queue'[j].exec /\ CanStart(x)'
      BY <1>2, StartableNext DEF TypeOK
    <3>3. CASE j \in DOMAIN queue /\ queue'[j] = queue[j]
      <4>1. parent[x] # None
        BY <1>2, <3>2, <3>3 DEF Allocation
      <4>2. CanStart(x)
        BY <1>2, <2>2, <3>2, <4>1, StartNeedsRoom
      <4>3. j \in Startable(1)
        <5>1. j \in Nat /\ j >= 1
          <6>1. queue \in Seq(Entry)
            BY <1>2 DEF TypeOK, SchedulerTypeOK
          <6>2. DOMAIN queue = 1 .. Len(queue) /\ Len(queue) \in Nat
            BY <6>1, LenProperties
          <6> QED
            BY <3>3, <6>2
        <5> QED
          BY <3>2, <3>3, <4>2, <5>1 DEF Startable
      <4> QED
        BY <1>3, <4>3
    <3>4. CASE ~ (j \in DOMAIN queue /\ queue'[j] = queue[j])
      <4>1. PICK y \in Exec, k \in Nat : Enqueue(y, k) /\ ~CanStart(y)'
        BY <1>1, <3>1, <3>4
      <4>2. queue'[j] = [exec |-> y, call |-> k]
        <5>1. queue \in Seq(Entry)
          BY <1>2 DEF TypeOK, SchedulerTypeOK
        <5>2. /\ DOMAIN queue = 1 .. Len(queue)
              /\ Len(queue) \in Nat
              /\ DOMAIN queue' = 1 .. Len(queue) + 1
              /\ \A i \in 1 .. Len(queue) : queue'[i] = queue[i]
              /\ queue'[Len(queue) + 1] = [exec |-> y, call |-> k]
          BY <4>1, <5>1, EnqueueIs
        <5>3. j \in 1 .. Len(queue) + 1
          BY <3>1, <5>2
        <5>4. j \notin 1 .. Len(queue)
          <6> SUFFICES ASSUME j \in 1 .. Len(queue)  PROVE FALSE
            OBVIOUS
          <6>1. queue'[j] = queue[j] /\ j \in DOMAIN queue
            BY <5>2
          <6> QED
            BY <3>4, <6>1
        <5>5. j = Len(queue) + 1
          BY <5>2, <5>3, <5>4
        <5> QED
          BY <5>2, <5>5
      <4> QED
        BY <3>2, <4>1, <4>2
    <3> QED
      BY <3>3, <3>4
  <2> QED
    BY <1>1, <2>1, <2>2
<1> QED
  BY <1>4, <1>5

-----------------------------------------------------------------------------
(* The four things a synchronous step does to the stack, by position.      *)
LEMMA StackMoves ==
  ASSUME TypeOK, stack # << >>
  PROVE  /\ DOMAIN stack \subseteq Nat /\ 1 \in DOMAIN stack
         /\ \A i, h \in Nat : i \in DOMAIN stack /\ h \in 1 .. i => h \in DOMAIN stack
         /\ \A i \in DOMAIN stack : i = 1 \/ (i - 1 \in DOMAIN Below /\ Below[i - 1] = stack[i])
         /\ \A i \in DOMAIN Below : i \in Nat \ {0} /\ i + 1 \in DOMAIN stack /\ Below[i] = stack[i + 1]
         /\ \A f \in Frame : \A s \in {stack, Below} :
              /\ <<f>> \o s \in Seq(Frame)
              /\ 1 \in DOMAIN (<<f>> \o s) /\ (<<f>> \o s)[1] = f
              /\ \A i \in DOMAIN s : i \in Nat \ {0} /\ i + 1 \in DOMAIN (<<f>> \o s)
                                     /\ (<<f>> \o s)[i + 1] = s[i]
              /\ \A i \in DOMAIN (<<f>> \o s) :
                   i = 1 \/ (i - 1 \in DOMAIN s /\ i \in Nat \ {0} /\ (<<f>> \o s)[i] = s[i - 1])
         /\ \A f, g \in Frame : <<f, g>> \o Below = <<f>> \o (<<g>> \o Below)
<1>1. /\ Below \in Seq(Frame)
      /\ Len(stack) \in Nat /\ Len(stack) >= 1
      /\ DOMAIN stack = 1 .. Len(stack)
      /\ DOMAIN Below = 1 .. Len(stack) - 1
      /\ \A i \in 1 .. Len(stack) - 1 : Below[i] = stack[i + 1]
  BY BelowIs
<1>2. ASSUME NEW f \in Frame, NEW s \in Seq(Frame)
      PROVE   /\ <<f>> \o s \in Seq(Frame)
              /\ 1 \in DOMAIN (<<f>> \o s) /\ (<<f>> \o s)[1] = f
              /\ \A i \in DOMAIN s : i \in Nat \ {0} /\ i + 1 \in DOMAIN (<<f>> \o s)
                                     /\ (<<f>> \o s)[i + 1] = s[i]
              /\ \A i \in DOMAIN (<<f>> \o s) :
                   i = 1 \/ (i - 1 \in DOMAIN s /\ i \in Nat \ {0} /\ (<<f>> \o s)[i] = s[i - 1])
  <2>1. /\ <<f>> \o s \in Seq(Frame)
        /\ Len(s) \in Nat
        /\ DOMAIN s = 1 .. Len(s)
        /\ DOMAIN (<<f>> \o s) = 1 .. Len(s) + 1
        /\ (<<f>> \o s)[1] = f
        /\ \A i \in 1 .. Len(s) : (<<f>> \o s)[i + 1] = s[i]
    BY PushIs
  <2>2. ASSUME NEW i \in DOMAIN (<<f>> \o s), i # 1
        PROVE  i - 1 \in DOMAIN s /\ i \in Nat \ {0} /\ (<<f>> \o s)[i] = s[i - 1]
    <3>1. i \in Nat /\ i - 1 \in 1 .. Len(s) /\ (i - 1) + 1 = i
      BY <2>1, <2>2
    <3> QED
      BY <2>1, <3>1
  <2> QED
    BY <2>1, <2>2
<1>3. ASSUME NEW i \in DOMAIN stack, i # 1
      PROVE  i - 1 \in DOMAIN Below /\ Below[i - 1] = stack[i]
  <2>1. i - 1 \in 1 .. Len(stack) - 1 /\ (i - 1) + 1 = i
    BY <1>1, <1>3
  <2> QED
    BY <1>1, <2>1
<1>4. \A f, g \in Frame : <<f, g>> \o Below = <<f>> \o (<<g>> \o Below)
  BY <1>1, PushIs
<1>5. stack \in Seq(Frame)
  BY DEF TypeOK
<1>6. /\ DOMAIN stack \subseteq Nat /\ 1 \in DOMAIN stack
      /\ \A i, h \in Nat : i \in DOMAIN stack /\ h \in 1 .. i => h \in DOMAIN stack
      /\ \A i \in DOMAIN Below : i \in Nat \ {0} /\ i + 1 \in DOMAIN stack /\ Below[i] = stack[i + 1]
  BY <1>1
<1>7. \A f \in Frame : \A s \in {stack, Below} :
        /\ <<f>> \o s \in Seq(Frame)
        /\ 1 \in DOMAIN (<<f>> \o s) /\ (<<f>> \o s)[1] = f
        /\ \A i \in DOMAIN s : i \in Nat \ {0} /\ i + 1 \in DOMAIN (<<f>> \o s)
                               /\ (<<f>> \o s)[i + 1] = s[i]
        /\ \A i \in DOMAIN (<<f>> \o s) :
             i = 1 \/ (i - 1 \in DOMAIN s /\ i \in Nat \ {0} /\ (<<f>> \o s)[i] = s[i - 1])
  <2> TAKE f \in Frame
  <2> TAKE s \in {stack, Below}
  <2>1. s \in Seq(Frame)
    BY <1>1, <1>5
  <2> QED
    BY <1>2, <2>1
<1> QED
  BY <1>3, <1>4, <1>6, <1>7

(* A step that moves the frames keeps the entries with the innermost drain.*)
LEMMA DrainMoves ==
  ASSUME Drained, Startable(1)' \subseteq Startable(1),
         \A i \in DOMAIN stack : stack[i].op = "drain" /\ NoDrainAbove(i) =>
           \E n \in DOMAIN stack' : /\ stack'[n].op = "drain" /\ stack'[n].arg = stack[i].arg
                                    /\ \A h \in 1 .. n - 1 : stack'[h].op # "drain"
  PROVE  Drained'
<1> SUFFICES ASSUME NEW j \in Startable(1)'
             PROVE  \E n \in DOMAIN stack' : /\ stack'[n].op = "drain" /\ stack'[n].arg <= j
                                             /\ \A h \in 1 .. n - 1 : stack'[h].op # "drain"
  BY DEF Drained, NoDrainAbove
<1>1. PICK i \in DOMAIN stack : stack[i].op = "drain" /\ stack[i].arg <= j /\ NoDrainAbove(i)
  BY DEF Drained
<1> QED
  BY <1>1

(* What ends inside a drain, after a step, did so before it or is a child  *)
(* that has just been started.                                             *)
LEMMA NestMoves ==
  ASSUME Nested,
         \A x : Childless(x) => Childless(x)',
         \A i, h \in DOMAIN stack' : i < h /\ stack'[h].op = "drain" /\ stack'[i].op # "drain" =>
           \/ \E x \in Exec : x = stack'[i].arg /\ Childless(x)'
           \/ \E n, m \in DOMAIN stack : /\ n < m /\ stack[m].op = "drain" /\ stack[n].op # "drain"
                                         /\ stack[n].arg = stack'[i].arg
  PROVE  Nested'
<1> SUFFICES ASSUME NEW i \in DOMAIN stack', NEW h \in DOMAIN stack',
                    i < h, stack'[h].op = "drain", stack'[i].op # "drain"
             PROVE  \E x : x = stack'[i].arg /\ Childless(x)'
  BY DEF Nested, Childless, EntriesOf
<1>1. CASE \E x \in Exec : x = stack'[i].arg /\ Childless(x)'
  BY <1>1
<1>2. ASSUME NEW n \in DOMAIN stack, NEW m \in DOMAIN stack,
             n < m, stack[m].op = "drain", stack[n].op # "drain", stack[n].arg = stack'[i].arg
      PROVE  \E x : x = stack'[i].arg /\ Childless(x)'
  <2>1. Childless(stack[n].arg)
    BY <1>2 DEF Nested
  <2>2. PICK x : x = stack[n].arg
    OBVIOUS
  <2> QED
    BY <1>2, <2>1, <2>2
<1> QED
  BY <1>1, <1>2

(* Without entries and children it stays, while entries only go.           *)
LEMMA ChildlessStays ==
  ASSUME UNCHANGED parent, \A i \in DOMAIN queue' : \E j \in DOMAIN queue : queue'[i] = queue[j]
  PROVE  \A x : Childless(x) => Childless(x)'
<1> SUFFICES ASSUME NEW x, Childless(x), NEW i \in DOMAIN queue', queue'[i].exec = x
             PROVE  FALSE
  BY DEF Childless, EntriesOf
<1>1. PICK j \in DOMAIN queue : queue'[i] = queue[j]
  OBVIOUS
<1> QED
  BY <1>1 DEF Childless, EntriesOf

(* The frames above a drain, and the entries it has still to look at.      *)
LEMMA SynchronousDrained ==
  ASSUME QueueInv, Drained, Nested, Synchronous
  PROVE  Drained' /\ Nested'
<1>0. /\ TypeOK /\ Allocation /\ TypeOK' /\ SamePlace /\ Allocation'
      /\ Records /\ QueueRight /\ FramesEnded
      /\ UNCHANGED <<parent, root>>
  <2>1. UNCHANGED <<parent, root>>
    BY DEF Synchronous, CancelQueued, ReleasePermit, DrainChild, DrainParent, DrainDone, CancelChild,
           LeaveTerminal, identityVars
  <2> QED
    BY <2>1, StepType, PlacesStay, AllocationStep DEF QueueInv, Next
<1>1. stack # << >>
  BY DEF Synchronous, CancelQueued, ReleasePermit, DrainChild, DrainParent, DrainDone, CancelChild,
         LeaveTerminal, Top
<1>2. /\ DOMAIN stack \subseteq Nat /\ 1 \in DOMAIN stack
      /\ \A i, h \in Nat : i \in DOMAIN stack /\ h \in 1 .. i => h \in DOMAIN stack
      /\ \A i \in DOMAIN stack : i = 1 \/ (i - 1 \in DOMAIN Below /\ Below[i - 1] = stack[i])
      /\ \A i \in DOMAIN Below : i \in Nat \ {0} /\ i + 1 \in DOMAIN stack /\ Below[i] = stack[i + 1]
      /\ Arg = stack[1].arg
  BY <1>0, <1>1, StackMoves DEF Arg
<1>3. ASSUME NEW f \in Frame, NEW s \in {stack, Below}
      PROVE  /\ <<f>> \o s \in Seq(Frame)
             /\ 1 \in DOMAIN (<<f>> \o s) /\ (<<f>> \o s)[1] = f
             /\ \A i \in DOMAIN s : i \in Nat \ {0} /\ i + 1 \in DOMAIN (<<f>> \o s)
                                    /\ (<<f>> \o s)[i + 1] = s[i]
             /\ \A i \in DOMAIN (<<f>> \o s) :
                  i = 1 \/ (i - 1 \in DOMAIN s /\ i \in Nat \ {0} /\ (<<f>> \o s)[i] = s[i - 1])
  BY <1>0, <1>1, StackMoves, SMTT(30)
<1>4. UNCHANGED <<queue, counterVars>> => Startable(1)' = Startable(1) /\ \A x : Childless(x) => Childless(x)'
  <2> SUFFICES ASSUME UNCHANGED <<queue, counterVars>>
               PROVE  Startable(1)' = Startable(1) /\ \A x : Childless(x) => Childless(x)'
    OBVIOUS
  <2>1. \A x : Childless(x) => Childless(x)'
    BY <1>0, ChildlessStays
  <2>2. Startable(1)' = Startable(1)
    BY <1>0 DEF Startable, CanStart, CanStartUnder, counterVars
  <2> QED
    BY <2>1, <2>2
<1>5. CASE CancelChild
  <2>1. PICK c \in Exec : /\ stack' = <<CallFrame("terminal", c)>> \o stack
                          /\ parent[c] = Arg
                          /\ Top("cancelDescendants")
                          /\ UNCHANGED <<queue, counterVars>>
    <3>1. First(LiveChildren(Arg)) \in LiveChildren(Arg)
      <4>1. LiveChildren(Arg) \in SUBSET Nat
        BY SchedulerAssumption DEF LiveChildren, Children, Exec
      <4> QED
        BY <1>5, <4>1, FirstIsFirst DEF CancelChild
    <3> QED
      BY <1>5, <3>1 DEF CancelChild, FinishAs, LiveChildren, Children, schedulerVars
  <2>2. CallFrame("terminal", c) \in Frame /\ CallFrame("terminal", c).op # "drain"
    BY <1>0, StackType DEF CallFrame
  <2>3. /\ 1 \in DOMAIN stack' /\ stack'[1].op # "drain"
        /\ \A i \in DOMAIN stack : i \in Nat \ {0} /\ i + 1 \in DOMAIN stack' /\ stack'[i + 1] = stack[i]
        /\ \A i \in DOMAIN stack' : i = 1 \/ (i - 1 \in DOMAIN stack /\ i \in Nat \ {0} /\ stack'[i] = stack[i - 1])
    BY <1>3, <2>1, <2>2
  <2>4. Drained'
    <3>1. ASSUME NEW i \in DOMAIN stack, stack[i].op = "drain", NoDrainAbove(i)
          PROVE  \A h \in 1 .. (i + 1) - 1 : stack'[h].op # "drain"
      <4> TAKE h \in 1 .. (i + 1) - 1
      <4>1. CASE h = 1
        BY <2>3, <4>1
      <4>2. CASE h # 1
        <5>1. i \in Nat /\ h - 1 \in 1 .. i - 1 /\ (h - 1) + 1 = h /\ h - 1 \in 1 .. i /\ h - 1 \in Nat
          BY <2>3, <4>2
        <5>2. h - 1 \in DOMAIN stack
          BY <1>2, <5>1
        <5> QED
          BY <2>3, <3>1, <5>1, <5>2 DEF NoDrainAbove
      <4> QED
        BY <4>1, <4>2
    <3>2. \A i \in DOMAIN stack : stack[i].op = "drain" /\ NoDrainAbove(i) =>
            \E n \in DOMAIN stack' : /\ stack'[n].op = "drain" /\ stack'[n].arg = stack[i].arg
                                     /\ \A h \in 1 .. n - 1 : stack'[h].op # "drain"
      BY <2>3, <3>1
    <3> QED
      BY <1>4, <2>1, <3>2, DrainMoves
  <2>5. Nested'
    <3>1. \A i \in DOMAIN stack : stack[i].op # "drain"
      <4> SUFFICES ASSUME NEW i \in DOMAIN stack, stack[i].op = "drain"
                   PROVE  FALSE
        OBVIOUS
      <4>1. 1 < i
        BY <2>1, <2>3 DEF Top
      <4>2. Childless(stack[1].arg)
        BY <1>2, <2>1, <4>1 DEF Nested, Top
      <4> QED
        BY <1>2, <2>1, <4>2 DEF Childless
    <3> QED
      BY <2>3, <3>1 DEF Nested
  <2> QED
    BY <2>4, <2>5
<1>6. CASE LeaveTerminal
  <2>1. stack' = Below /\ stack[1].op # "drain" /\ UNCHANGED <<queue, counterVars>>
    BY <1>6 DEF LeaveTerminal, Top, schedulerVars
  <2>2. Drained'
    <3>1. ASSUME NEW i \in DOMAIN stack, stack[i].op = "drain", NoDrainAbove(i)
          PROVE  /\ i - 1 \in DOMAIN stack' /\ stack'[i - 1] = stack[i]
                 /\ \A h \in 1 .. (i - 1) - 1 : stack'[h].op # "drain"
      <4>1. i \in Nat /\ i - 1 \in DOMAIN stack' /\ stack'[i - 1] = stack[i]
        BY <1>2, <2>1, <3>1
      <4>2. ASSUME NEW h \in 1 .. (i - 1) - 1  PROVE stack'[h].op # "drain"
        <5>1. h + 1 \in 1 .. i - 1 /\ h + 1 \in 1 .. i /\ h + 1 \in Nat /\ (h + 1) - 1 = h /\ h + 1 # 1
          BY <4>1
        <5>2. h + 1 \in DOMAIN stack
          BY <1>2, <4>1, <5>1
        <5> QED
          BY <1>2, <2>1, <3>1, <5>1, <5>2 DEF NoDrainAbove
      <4> QED
        BY <4>1, <4>2
    <3>2. \A i \in DOMAIN stack : stack[i].op = "drain" /\ NoDrainAbove(i) =>
            \E n \in DOMAIN stack' : /\ stack'[n].op = "drain" /\ stack'[n].arg = stack[i].arg
                                     /\ \A h \in 1 .. n - 1 : stack'[h].op # "drain"
      BY <3>1
    <3> QED
      BY <1>4, <2>1, <3>2, DrainMoves
  <2>3. Nested'
    <3>1. \A i, h \in DOMAIN stack' : i < h => i + 1 < h + 1
      BY <1>2, <2>1
    <3> QED
      BY <1>2, <1>4, <2>1, <3>1, NestMoves
  <2> QED
    BY <2>2, <2>3
<1>7. CASE DrainDone
  <2>1. stack' = Below /\ Top("drain") /\ Startable(Arg) = {} /\ UNCHANGED <<queue, counterVars>>
    BY <1>7 DEF DrainDone, schedulerVars
  <2>2. Startable(1) = {}
    <3> SUFFICES ASSUME NEW j \in Startable(1)  PROVE FALSE
      OBVIOUS
    <3>1. PICK i \in DOMAIN stack : stack[i].op = "drain" /\ stack[i].arg <= j /\ NoDrainAbove(i)
      BY DEF Drained
    <3>2. i = 1
      <4>1. i # 1 => 1 \in 1 .. i - 1
        BY <1>2
      <4> QED
        BY <2>1, <3>1, <4>1 DEF NoDrainAbove, Top
    <3>3. j \in Startable(Arg)
      BY <1>2, <3>1, <3>2 DEF Startable
    <3> QED
      BY <2>1, <3>3
  <2>3. Drained'
    BY <1>4, <2>1, <2>2 DEF Drained
  <2>4. Nested'
    <3>1. \A i, h \in DOMAIN stack' : i < h => i + 1 < h + 1
      BY <1>2, <2>1
    <3> QED
      BY <1>2, <1>4, <2>1, <3>1, NestMoves
  <2> QED
    BY <2>3, <2>4
<1>8. CASE CancelQueued
  <2>1. PICK j \in EntriesOf(Arg) : queue' = Without(j)
    <3>1. EntriesOf(Arg) \in SUBSET Nat
      BY <1>0, FirstOfQueue DEF EntriesOf, TypeOK
    <3> QED
      BY <1>8, <3>1, FirstIsFirst DEF CancelQueued
  <2>2. Top("terminal") /\ UNCHANGED <<counterVars, stack>>
    BY <1>8 DEF CancelQueued, runtimeVars
  <2>3. \A i \in DOMAIN stack : stack[i].op # "drain"
    <3> SUFFICES ASSUME NEW i \in DOMAIN stack, stack[i].op = "drain"
                 PROVE  FALSE
      OBVIOUS
    <3>1. 1 < i
      BY <1>2, <2>2 DEF Top
    <3>2. Childless(stack[1].arg)
      BY <1>2, <2>2, <3>1 DEF Nested, Top
    <3> QED
      BY <1>2, <2>1, <3>2 DEF Childless
  <2>4. Startable(1) = {}
    BY <2>3 DEF Drained
  <2>5. \A i \in DOMAIN queue' : \E k \in DOMAIN queue : queue'[i] = queue[k]
    <3>1. j \in DOMAIN queue /\ queue \in Seq(Entry)
      BY <1>0 DEF EntriesOf, TypeOK, SchedulerTypeOK
    <3> QED
      BY <2>1, <3>1, WithoutType
  <2>6. Startable(1)' = {}
    <3> SUFFICES ASSUME NEW i \in Startable(1)'  PROVE FALSE
      OBVIOUS
    <3>1. i \in DOMAIN queue'
      BY <1>0, StartableNext DEF TypeOK
    <3>2. PICK x \in Exec : x = queue'[i].exec /\ CanStart(x)'
      BY <1>0, StartableNext DEF TypeOK
    <3>3. PICK k \in DOMAIN queue : queue'[i] = queue[k]
      BY <2>5, <3>1
    <3>4. CanStart(x)
      BY <1>0, <2>2, <3>2 DEF CanStart, CanStartUnder, counterVars
    <3>5. k \in Nat /\ k >= 1
      <4>1. queue \in Seq(Entry)
        BY <1>0 DEF TypeOK, SchedulerTypeOK
      <4>2. DOMAIN queue = 1 .. Len(queue) /\ Len(queue) \in Nat
        BY <4>1, LenProperties
      <4> QED
        BY <4>2
    <3>6. k \in Startable(1)
      BY <3>2, <3>3, <3>4, <3>5 DEF Startable
    <3> QED
      BY <2>4, <3>6
  <2>7. Drained'
    BY <2>6 DEF Drained
  <2>8. Nested'
    BY <2>2, <2>3 DEF Nested
  <2> QED
    BY <2>7, <2>8
<1>9. CASE ReleasePermit
  <2> DEFINE d == CallFrame("drain", 1)
             c == CallFrame("cancelDescendants", Arg)
  <2>1. /\ Top("terminal") /\ UNCHANGED queue
        /\ \/ stack' = <<d, c>> \o Below
           \/ stack' = <<c>> \o Below /\ UNCHANGED counterVars
    BY <1>9 DEF ReleasePermit
  <2>2. d \in Frame /\ c \in Frame /\ d.op = "drain" /\ d.arg = 1 /\ c.op # "drain" /\ c.arg = stack[1].arg
    BY <1>0, <1>2, <2>1, StackType DEF CallFrame, Top
  <2> HIDE DEF d, c
  <2>3. \A x : Childless(x) => Childless(x)'
    BY <1>0, <2>1, ChildlessStays
  <2> DEFINE t == <<c>> \o Below
  <2>4. /\ t \in Seq(Frame)
        /\ 1 \in DOMAIN t /\ t[1] = c
        /\ \A i \in DOMAIN Below : i \in Nat \ {0} /\ i + 1 \in DOMAIN t /\ t[i + 1] = Below[i]
        /\ \A i \in DOMAIN t : i = 1 \/ (i - 1 \in DOMAIN Below /\ i \in Nat \ {0} /\ t[i] = Below[i - 1])
    BY <1>3, <2>2
  <2> HIDE DEF t
  <2>5. \A i \in DOMAIN t : /\ i \in DOMAIN stack /\ (i # 1 => t[i] = stack[i])
                            /\ i \in Nat \ {0}
    BY <1>2, <2>4
  <2>6. \A i \in DOMAIN stack : i \in DOMAIN t /\ (i # 1 => t[i] = stack[i])
    <3> TAKE i \in DOMAIN stack
    <3>1. CASE i = 1
      BY <2>4, <3>1
    <3>2. CASE i # 1
      <4>1. i - 1 \in DOMAIN Below /\ Below[i - 1] = stack[i] /\ (i - 1) + 1 = i
        BY <1>2, <3>2
      <4> QED
        BY <2>4, <4>1
    <3> QED
      BY <3>1, <3>2
  <2>7. CASE stack' = t /\ UNCHANGED counterVars
    <3>1. Drained'
      <4>1. \A i \in DOMAIN stack : stack[i].op = "drain" /\ NoDrainAbove(i) =>
              \E n \in DOMAIN stack' : /\ stack'[n].op = "drain" /\ stack'[n].arg = stack[i].arg
                                       /\ \A h \in 1 .. n - 1 : stack'[h].op # "drain"
        <5> SUFFICES ASSUME NEW i \in DOMAIN stack, stack[i].op = "drain", NoDrainAbove(i)
                     PROVE  /\ i \in DOMAIN stack' /\ stack'[i] = stack[i]
                            /\ \A h \in 1 .. i - 1 : stack'[h].op # "drain"
          OBVIOUS
        <5>1. i # 1 /\ i \in Nat
          BY <1>2, <2>1 DEF Top
        <5>2. ASSUME NEW h \in 1 .. i - 1  PROVE stack'[h].op # "drain"
          <6>1. h \in DOMAIN stack
            BY <1>2, <5>1
          <6>2. CASE h = 1
            BY <2>2, <2>4, <2>7, <6>2
          <6>3. CASE h # 1
            BY <2>6, <2>7, <6>1, <6>3 DEF NoDrainAbove
          <6> QED
            BY <6>2, <6>3
        <5> QED
          BY <2>6, <2>7, <5>1, <5>2
      <4> QED
        BY <1>4, <2>1, <2>7, <4>1, DrainMoves
    <3>2. Nested'
      <4>1. ASSUME NEW i \in DOMAIN stack', NEW h \in DOMAIN stack',
                   i < h, stack'[h].op = "drain", stack'[i].op # "drain"
            PROVE  \E n, m \in DOMAIN stack : /\ n < m /\ stack[m].op = "drain" /\ stack[n].op # "drain"
                                              /\ stack[n].arg = stack'[i].arg
        <5>1. h # 1 /\ i \in DOMAIN stack /\ h \in DOMAIN stack /\ stack'[h] = stack[h]
          BY <2>2, <2>4, <2>5, <2>7, <4>1
        <5>2. stack[i].op # "drain" /\ stack[i].arg = stack'[i].arg
          BY <2>1, <2>2, <2>4, <2>5, <2>7, <4>1 DEF Top
        <5> QED
          BY <4>1, <5>1, <5>2
      <4> QED
        BY <2>3, <4>1, NestMoves
    <3> QED
      BY <3>1, <3>2
  <2>8. CASE stack' = <<d, c>> \o Below
    <3>1. stack' = <<d>> \o t /\ t \in Seq(Frame)
      BY <1>0, <1>1, <2>2, <2>4, <2>8, StackMoves DEF t
    <3>2. /\ DOMAIN stack' = 1 .. Len(t) + 1 /\ stack'[1] = d
          /\ Len(t) \in Nat /\ DOMAIN t = 1 .. Len(t)
          /\ \A i \in 1 .. Len(t) : stack'[i + 1] = t[i]
      BY <2>2, <3>1, PushIs
    <3>3. \A i \in DOMAIN stack' : i # 1 => i - 1 \in DOMAIN t /\ stack'[i] = t[i - 1] /\ i \in Nat
      <4> SUFFICES ASSUME NEW i \in DOMAIN stack', i # 1
                   PROVE  i - 1 \in DOMAIN t /\ stack'[i] = t[i - 1] /\ i \in Nat
        OBVIOUS
      <4>1. i - 1 \in 1 .. Len(t) /\ (i - 1) + 1 = i /\ i \in Nat
        BY <3>2
      <4> QED
        BY <3>2, <4>1
    <3>4. Drained'
      <4>1. 1 \in DOMAIN stack' /\ stack'[1].op = "drain" /\ stack'[1].arg = 1 /\ NoDrainAbove(1)'
        BY <2>2, <3>2 DEF NoDrainAbove
      <4>2. \A j \in Startable(1)' : 1 <= j
        BY DEF Startable
      <4> QED
        BY <4>1, <4>2 DEF Drained
    <3>5. Nested'
      <4>1. ASSUME NEW i \in DOMAIN stack', NEW h \in DOMAIN stack',
                   i < h, stack'[h].op = "drain", stack'[i].op # "drain"
            PROVE  \E n, m \in DOMAIN stack : /\ n < m /\ stack[m].op = "drain" /\ stack[n].op # "drain"
                                              /\ stack[n].arg = stack'[i].arg
        <5>1. i # 1 /\ h # 1 /\ i \in Nat /\ h \in Nat
          BY <2>2, <3>2, <4>1
        <5>2. /\ i - 1 \in DOMAIN t /\ h - 1 \in DOMAIN t /\ i - 1 < h - 1
              /\ stack'[i] = t[i - 1] /\ stack'[h] = t[h - 1]
          BY <3>3, <4>1, <5>1
        <5>3. h - 1 # 1 /\ i - 1 \in DOMAIN stack /\ h - 1 \in DOMAIN stack /\ t[h - 1] = stack[h - 1]
          BY <2>5, <5>1, <5>2
        <5>4. stack[i - 1].op # "drain" /\ stack[i - 1].arg = stack'[i].arg
          BY <2>1, <2>2, <2>4, <2>5, <4>1, <5>2 DEF Top
        <5> QED
          BY <4>1, <5>2, <5>3, <5>4
      <4> QED
        BY <2>3, <4>1, NestMoves
    <3> QED
      BY <3>4, <3>5
  <2> QED
    BY <2>1, <2>7, <2>8 DEF t
<1>10. ASSUME NEW e \in Exec, Top("drain"), Startable(Arg) # {},
              queue' = Without(First(Startable(Arg))), MoreHeld,
              \/ stack' = <<CallFrame("drain", First(Startable(Arg)))>> \o Below
              \/ /\ stack' = <<CallFrame("terminal", e), CallFrame("drain", First(Startable(Arg)))>> \o Below
                 /\ Childless(e)'
       PROVE  Drained' /\ Nested'
  <2>1. PICK j \in DOMAIN queue : j = First(Startable(Arg)) /\ j \in Nat /\ \A k \in Startable(Arg) : j <= k
    <3>1. Startable(Arg) \in SUBSET Nat
      BY <1>0, FirstOfQueue DEF Startable, TypeOK
    <3>2. First(Startable(Arg)) \in Startable(Arg) /\ \A k \in Startable(Arg) : First(Startable(Arg)) <= k
      BY <1>10, <3>1, FirstIsFirst
    <3> QED
      BY <3>1, <3>2 DEF Startable
  <2> DEFINE d == CallFrame("drain", j)
             t == CallFrame("terminal", e)
  <2>2. d \in Frame /\ t \in Frame /\ d.op = "drain" /\ d.arg = j /\ t.op # "drain" /\ t.arg = e
    BY <1>0, <2>1, StackType DEF CallFrame
  <2>3. stack' = <<d>> \o Below \/ (stack' = <<t, d>> \o Below /\ Childless(e)')
    BY <1>10, <2>1
  <2> HIDE DEF d, t
  <2>4. /\ DOMAIN queue = 1 .. Len(queue)
        /\ Len(queue) \in Nat
        /\ DOMAIN queue' = 1 .. Len(queue) - 1
        /\ \A i \in 1 .. Len(queue) - 1 : queue'[i] = IF i < j THEN queue[i] ELSE queue[i + 1]
    BY <1>0, <1>10, <2>1, WithoutIs DEF TypeOK, SchedulerTypeOK
  <2>5. \A x : Childless(x) => Childless(x)'
    <3>1. \A i \in DOMAIN queue' : \E k \in DOMAIN queue : queue'[i] = queue[k]
      BY <2>1, <2>4
    <3> QED
      BY <1>0, <3>1, ChildlessStays
  <2>6. \A i \in Startable(1)' : j <= i
    <3> SUFFICES ASSUME NEW i \in Startable(1)', i < j  PROVE FALSE
      <4>1. \A i \in Startable(1)' : i \in Nat
        BY <1>0, StartableNext DEF TypeOK
      <4> QED
        BY <2>1, <4>1
    <3>1. i \in DOMAIN queue' /\ i \in Nat
      BY <1>0, StartableNext DEF TypeOK
    <3>2. PICK x \in Exec : x = queue'[i].exec /\ CanStart(x)'
      BY <1>0, StartableNext DEF TypeOK
    <3>3. i \in DOMAIN queue /\ queue'[i] = queue[i] /\ i >= 1
      BY <2>4, <3>1
    <3>4. parent[x] # None
      BY <1>0, <3>2, <3>3 DEF Allocation
    <3>5. CanStart(x)
      BY <1>0, <1>10, <3>2, <3>4, StartNeedsRoom
    <3>6. i \in Startable(1)
      BY <3>2, <3>3, <3>5 DEF Startable
    <3>7. PICK n \in DOMAIN stack : stack[n].op = "drain" /\ stack[n].arg <= i /\ NoDrainAbove(n)
      BY <3>6 DEF Drained
    <3>8. n = 1
      <4>1. n # 1 => 1 \in 1 .. n - 1
        BY <1>2
      <4> QED
        BY <1>10, <3>7, <4>1 DEF NoDrainAbove, Top
    <3>9. i \in Startable(Arg)
      BY <1>2, <3>6, <3>7, <3>8 DEF Startable
    <3> QED
      BY <2>1, <3>1, <3>9
  <2> DEFINE b == <<d>> \o Below
  <2>7. /\ b \in Seq(Frame)
        /\ 1 \in DOMAIN b /\ b[1] = d
        /\ \A i \in DOMAIN b : i = 1 \/ (i - 1 \in DOMAIN Below /\ i \in Nat \ {0} /\ b[i] = Below[i - 1])
    BY <1>3, <2>2
  <2> HIDE DEF b
  <2>8. \A i \in DOMAIN b : i \in DOMAIN stack /\ i \in Nat \ {0} /\ (i # 1 => b[i] = stack[i])
    BY <1>2, <2>7
  <2>9. CASE stack' = b
    <3>1. Drained'
      <4>1. 1 \in DOMAIN stack' /\ stack'[1].op = "drain" /\ stack'[1].arg = j /\ NoDrainAbove(1)'
        BY <2>2, <2>7, <2>9 DEF NoDrainAbove
      <4> QED
        BY <2>6, <4>1 DEF Drained
    <3>2. Nested'
      <4>1. ASSUME NEW i \in DOMAIN stack', NEW h \in DOMAIN stack',
                   i < h, stack'[h].op = "drain", stack'[i].op # "drain"
            PROVE  \E n, m \in DOMAIN stack : /\ n < m /\ stack[m].op = "drain" /\ stack[n].op # "drain"
                                              /\ stack[n].arg = stack'[i].arg
        <5>1. i # 1 /\ h # 1
          BY <2>2, <2>7, <2>8, <2>9, <4>1
        <5>2. i \in DOMAIN stack /\ h \in DOMAIN stack /\ stack'[h] = stack[h] /\ stack'[i] = stack[i]
          BY <2>8, <2>9, <4>1, <5>1
        <5> QED
          BY <4>1, <5>2
      <4> QED
        BY <2>5, <4>1, NestMoves
    <3> QED
      BY <3>1, <3>2
  <2>10. CASE stack' = <<t, d>> \o Below /\ Childless(e)'
    <3>1. stack' = <<t>> \o b /\ b \in Seq(Frame)
      BY <1>0, <1>1, <2>2, <2>7, <2>10, StackMoves DEF b
    <3>2. /\ DOMAIN stack' = 1 .. Len(b) + 1 /\ stack'[1] = t
          /\ Len(b) \in Nat /\ DOMAIN b = 1 .. Len(b)
          /\ \A i \in 1 .. Len(b) : stack'[i + 1] = b[i]
      BY <2>2, <3>1, PushIs
    <3>3. \A i \in DOMAIN stack' : i # 1 => i - 1 \in DOMAIN b /\ stack'[i] = b[i - 1] /\ i \in Nat
      <4> SUFFICES ASSUME NEW i \in DOMAIN stack', i # 1
                   PROVE  i - 1 \in DOMAIN b /\ stack'[i] = b[i - 1] /\ i \in Nat
        OBVIOUS
      <4>1. i - 1 \in 1 .. Len(b) /\ (i - 1) + 1 = i /\ i \in Nat
        BY <3>2
      <4> QED
        BY <3>2, <4>1
    <3>4. Drained'
      <4>1. 2 \in DOMAIN stack' /\ stack'[2] = d
        <5>1. 1 \in 1 .. Len(b) /\ 2 = 1 + 1
          BY <2>7, <3>2
        <5>2. 1 + 1 \in 1 .. Len(b) + 1
          BY <3>2, <5>1
        <5> QED
          BY <2>7, <3>2, <5>1, <5>2
      <4>2. \A h \in 1 .. 2 - 1 : stack'[h].op # "drain"
        BY <2>2, <3>2
      <4> QED
        BY <2>2, <2>6, <4>1, <4>2 DEF Drained, NoDrainAbove
    <3>5. Nested'
      <4>1. ASSUME NEW i \in DOMAIN stack', NEW h \in DOMAIN stack',
                   i < h, stack'[h].op = "drain", stack'[i].op # "drain", i # 1
            PROVE  \E n, m \in DOMAIN stack : /\ n < m /\ stack[m].op = "drain" /\ stack[n].op # "drain"
                                              /\ stack[n].arg = stack'[i].arg
        <5>1. i \in Nat /\ h \in Nat /\ h # 1
          BY <3>2, <4>1
        <5>2. /\ i - 1 \in DOMAIN b /\ h - 1 \in DOMAIN b /\ i - 1 < h - 1
              /\ stack'[i] = b[i - 1] /\ stack'[h] = b[h - 1]
          BY <3>3, <4>1, <5>1
        <5>3. i - 1 # 1
          BY <2>2, <2>7, <4>1, <5>2
        <5>4. h - 1 # 1
          BY <2>8, <5>2
        <5>5. /\ i - 1 \in DOMAIN stack /\ b[i - 1] = stack[i - 1]
              /\ h - 1 \in DOMAIN stack /\ b[h - 1] = stack[h - 1]
          BY <2>8, <5>2, <5>3, <5>4
        <5> QED
          BY <4>1, <5>2, <5>5
      <4>2. stack'[1].arg = e
        BY <2>2, <3>2
      <4> QED
        BY <2>5, <2>10, <4>1, <4>2, NestMoves
    <3> QED
      BY <3>4, <3>5
  <2> QED
    BY <2>3, <2>9, <2>10 DEF b
<1>11. CASE DrainParent
  <2>1. /\ Top("drain") /\ Startable(Arg) # {}
        /\ queue' = Without(First(Startable(Arg)))
        /\ stack' = <<CallFrame("drain", First(Startable(Arg)))>> \o Below
        /\ \E e, p, r : Acquire(e, p, r)
    BY <1>11 DEF DrainParent
  <2>2. MoreHeld
    BY <1>0, <2>1, AcquireHolds
  <2>3. queue[First(Startable(Arg))].exec \in Exec
    BY <1>0, <2>1, FirstOfQueue DEF TypeOK
  <2> QED
    BY <1>10, <2>1, <2>2, <2>3
<1>12. ASSUME NEW failed \in BOOLEAN, DrainChild(failed)
       PROVE  Drained' /\ Nested'
  <2>1. PICK e \in Exec, j \in DOMAIN queue :
          /\ j = First(Startable(Arg)) /\ queue[j].exec = e /\ queue[j].call = 0
          /\ Top("drain") /\ Startable(Arg) # {}
          /\ queue' = Without(First(Startable(Arg)))
          /\ IF failed
               THEN stack' = <<CallFrame("terminal", e), CallFrame("drain", First(Startable(Arg)))>> \o Below
               ELSE stack' = <<CallFrame("drain", First(Startable(Arg)))>> \o Below
          /\ \E x, p, r : Acquire(x, p, r)
    <3>1. First(Startable(Arg)) \in DOMAIN queue /\ queue[First(Startable(Arg))].exec \in Exec
      BY <1>0, <1>12, FirstOfQueue DEF DrainChild, TypeOK
    <3> QED
      BY <1>12, <3>1 DEF DrainChild, IsStart
  <2>2. MoreHeld
    BY <1>0, <2>1, AcquireHolds
  <2>3. \A k \in DOMAIN queue : queue[k].exec \in Exec /\ (Waits(queue[k].exec, queue[k].call))
    BY <1>0, <2>1, FirstOfQueue DEF TypeOK, QueueRight, QueueSound, Finishing, Top
  <2>4. status[e] = "queued"
    BY <2>1, <2>3 DEF Waits
  <2>5. \A k \in DOMAIN queue : queue[k].exec = e => queue[k] = queue[j]
    <3> SUFFICES ASSUME NEW k \in DOMAIN queue, queue[k].exec = e
                 PROVE  queue[k] = queue[j]
      OBVIOUS
    <3>1. queue[k].call = 0
      BY <1>0, <2>3, <2>4 DEF Waits, Records
    <3>2. queue[k] \in Entry /\ queue[j] \in Entry
      <4>1. queue \in Seq(Entry)
        BY <1>0 DEF TypeOK, SchedulerTypeOK
      <4>2. DOMAIN queue = 1 .. Len(queue)
        BY <4>1, LenProperties
      <4> QED
        BY <4>1, <4>2, ElementOfSeq
    <3> QED
      BY <2>1, <3>1, <3>2 DEF Entry
  <2>6. Childless(e)'
    <3>1. \A x \in Exec : parent[x] # e
      BY <1>0, <2>4 DEF Records
    <3>2. /\ DOMAIN queue = 1 .. Len(queue)
          /\ Len(queue) \in Nat
          /\ DOMAIN queue' = 1 .. Len(queue) - 1
          /\ \A i \in 1 .. Len(queue) - 1 : queue'[i] = IF i < j THEN queue[i] ELSE queue[i + 1]
      BY <1>0, <2>1, WithoutIs DEF TypeOK, SchedulerTypeOK
    <3>3. \A i \in DOMAIN queue' : queue'[i].exec # e
      <4> SUFFICES ASSUME NEW i \in DOMAIN queue', queue'[i].exec = e
                   PROVE  FALSE
        OBVIOUS
      <4>1. PICK k \in DOMAIN queue : k # j /\ queue'[i] = queue[k]
        BY <2>1, <3>2
      <4>2. queue[k] = queue[j]
        BY <2>5, <4>1
      <4> QED
        BY <1>0, <4>1, <4>2 DEF QueueRight, QueueUnique
    <3> QED
      BY <1>0, <3>1, <3>3 DEF Childless, EntriesOf
  <2> QED
    BY <1>10, <2>1, <2>2, <2>6
<1> QED
  BY <1>5, <1>6, <1>7, <1>8, <1>9, <1>11, <1>12 DEF Synchronous

-----------------------------------------------------------------------------
QInv == QueueInv /\ HoldersRun /\ Drained /\ Nested

(* The inductive invariant holds at the start.                             *)
LEMMA QInvInit == Init => QInv
<1> SUFFICES ASSUME Init  PROVE QInv
  OBVIOUS
<1>1. TypeOK
  BY InitType
<1>2. Allocation
  BY DEF Init, SchedulerInit, Allocation
<1>3. /\ \A e \in Exec : /\ status[e] = "none" /\ branch[e] = None /\ handoff[e] = "none" /\ parent[e] = None
                         /\ \A k \in Calls : call[e][k].phase = "idle"
      /\ active = {} /\ queue = << >> /\ stack = << >> /\ runningExecutions = {}
  BY DEF Init, SchedulerInit, Idle
<1>4. InOrder
  BY <1>3, SchedulerAssumption DEF InOrder, Exec
<1>5. Records
  BY <1>3, SchedulerAssumption DEF Records, Live, None, Exec
<1>6. QueueRight
  BY <1>3 DEF QueueRight, QueueSound, QueueComplete, QueueUnique, Waits
<1>7. FramesEnded /\ Drained /\ Nested /\ HoldersRun
  <2>1. DOMAIN stack = {} /\ DOMAIN queue = {}
    BY <1>3
  <2> QED
    BY <1>3, <2>1 DEF FramesEnded, Drained, Nested, HoldersRun, Startable
<1> QED
  BY <1>1, <1>2, <1>4, <1>5, <1>6, <1>7 DEF QInv, QueueInv

(* Every step keeps it.                                                    *)
LEMMA QInvStep == QInv /\ [Next]_vars => QInv'
<1> SUFFICES ASSUME QInv, [Next]_vars  PROVE QInv'
  OBVIOUS
<1>1. TypeOK' /\ Allocation'
  BY StepType, AllocationStep DEF QInv, QueueInv
<1>2. InOrder' /\ Records'
  BY RecordsStep DEF QInv, QueueInv, QueueRight
<1>3. CASE UNCHANGED vars
  <2>1. UNCHANGED <<parent, root, queue, counterVars, status, call, stack>>
    BY <1>3 DEF vars, identityVars, schedulerVars, runtimeVars
  <2>2. UNCHANGED <<runningExecutions, runningByParent, runningByTree, runningTotal>>
    BY <2>1 DEF counterVars
  <2>3. QueueRight' /\ FramesEnded' /\ HoldersRun'
    BY <2>1, <2>2 DEF QInv, QueueInv, QueueRight, QueueSound, QueueComplete, QueueUnique, Waits, Finishing,
                      Top, Arg, FramesEnded, Terminal, HoldersRun
  <2>4. Drained' /\ Nested'
    BY <2>1, <2>2 DEF QInv, Drained, Nested, NoDrainAbove, Startable, CanStart, CanStartUnder, Childless, EntriesOf
  <2> QED
    BY <1>1, <1>2, <2>3, <2>4 DEF QInv, QueueInv
<1>4. ASSUME NEW e \in Exec, Lifecycle(e) \/ Delegation(e) \/ Handoff(e)
      PROVE  QInv'
  BY <1>1, <1>2, <1>4, CallbackQueue, CallbackHolders, CallbackDrained DEF QInv, QueueInv
<1>5. CASE Synchronous
  BY <1>1, <1>2, <1>5, SynchronousQueue, SynchronousHolders, SynchronousDrained DEF QInv, QueueInv
<1> QED
  BY <1>3, <1>4, <1>5 DEF Next

(* It holds in every reachable state.                                      *)
LEMMA QInvHolds == Spec => []QInv
BY QInvInit, QInvStep, PTL DEF Spec

(* Between two callbacks nobody waits in vain, for any limits and any      *)
(* number of executions and calls.                                         *)
THEOREM QueueIsServed == Spec => []QueueServed
<1>1. QInv => QueueServed
  <2> SUFFICES ASSUME QInv, Quiescent
               PROVE  /\ \A e \in Exec :
                           Cardinality({j \in EntriesOf(e) : IsStart(queue[j])})
                             = IF status[e] = "queued" THEN 1 ELSE 0
                      /\ \A e \in Exec, k \in Calls :
                           Cardinality({j \in EntriesOf(e) : queue[j].call = k})
                             = IF call[e][k].phase = "reacquiring" THEN 1 ELSE 0
                      /\ Startable(1) = {}
    BY DEF QueueServed
  <2>1. TypeOK /\ QueueRight /\ Drained /\ (\A x \in Exec : ~Finishing(x)) /\ DOMAIN stack = {}
    BY QuiescentFrames DEF QInv, QueueInv
  <2>2. ASSUME NEW e \in Exec, NEW k \in Calls \cup {0}
        PROVE  Cardinality({j \in EntriesOf(e) : queue[j].call = k}) = IF Waits(e, k) THEN 1 ELSE 0
    <3> DEFINE S == {j \in EntriesOf(e) : queue[j].call = k}
    <3>1. \A i, j \in S : i = j
      <4> SUFFICES ASSUME NEW i \in S, NEW j \in S  PROVE i = j
        OBVIOUS
      <4>1. queue \in Seq(Entry) /\ i \in DOMAIN queue /\ j \in DOMAIN queue
        BY <2>1 DEF EntriesOf, TypeOK, SchedulerTypeOK
      <4>2. DOMAIN queue = 1 .. Len(queue)
        BY <4>1, LenProperties
      <4>3. queue[i] \in Entry /\ queue[j] \in Entry
        BY <4>1, <4>2, ElementOfSeq
      <4>4. queue[i] = queue[j]
        BY <4>3 DEF Entry, EntriesOf
      <4> QED
        BY <2>1, <4>1, <4>4 DEF QueueRight, QueueUnique
    <3>2. CASE Waits(e, k)
      <4>1. PICK j \in DOMAIN queue : queue[j] = [exec |-> e, call |-> k]
        BY <2>1, <3>2 DEF QueueRight, QueueComplete
      <4>2. j \in S
        BY <4>1 DEF EntriesOf
      <4>3. S = {j}
        BY <3>1, <4>2
      <4> QED
        BY <3>2, <4>3, FS_Singleton
    <3>3. CASE ~Waits(e, k)
      <4>1. S = {}
        BY <2>1, <3>3 DEF QueueRight, QueueSound, EntriesOf
      <4> QED
        BY <3>3, <4>1, FS_EmptySet
    <3> QED
      BY <3>2, <3>3
  <2>3. \A e \in Exec : {j \in EntriesOf(e) : IsStart(queue[j])} = {j \in EntriesOf(e) : queue[j].call = 0}
    BY DEF IsStart
  <2>4. \A e \in Exec : Waits(e, 0) <=> status[e] = "queued"
    BY DEF Waits
  <2>5. \A e \in Exec, k \in Calls : Waits(e, k) <=> call[e][k].phase = "reacquiring"
    BY DEF Waits, Calls
  <2>6. Startable(1) = {}
    BY <2>1 DEF Drained
  <2> QED
    BY <2>2, <2>3, <2>4, <2>5, <2>6
<1> QED
  BY <1>1, QInvHolds, PTL

-----------------------------------------------------------------------------
(* A delegated execution waits for a child or for its permit.              *)
Suspended(e) == \E k \in Calls : call[e][k].phase \in {"waiting", "reacquiring"}

(* An execution that was delegated, and did not take over by a handoff,    *)
(* has its permit or has given it up for a child.                          *)
Own(e) == Delegated(e) /\ branch[e] = e
Backed ==
  \A e \in Exec : Own(e) =>
    /\ status[e] # "created"
    /\ status[e] = "running" => e \in runningExecutions \/ Suspended(e)

(* Ending an execution, which then runs no more.                           *)
LEMMA FinishAsBacked ==
  ASSUME TypeOK, Backed, NEW e \in Exec, NEW s \in TerminalStatus, FinishAs(e, s),
         UNCHANGED <<identityVars, runningExecutions, branch>>
  PROVE  Backed'
<1>1. /\ \A x \in Exec : x # e => status'[x] = status[x] /\ call'[x] = call[x]
      /\ status'[e] = s
      /\ UNCHANGED <<parent, runningExecutions, branch>>
  BY DEF FinishAs, TypeOK, identityVars
<1>2. s # "running" /\ s # "created"
  BY DEF TerminalStatus
<1>3. \A x \in Exec : Own(x)' <=> Own(x)
  BY <1>1 DEF Own, Delegated
<1>4. \A x \in Exec : x # e => (Suspended(x)' <=> Suspended(x))
  BY <1>1 DEF Suspended
<1> QED
  BY <1>1, <1>2, <1>3, <1>4 DEF Backed

(* A callback takes no permit away from an execution that goes on working. *)
LEMMA CallbackBacked ==
  ASSUME QInv, Backed, NEW e \in Exec, Lifecycle(e) \/ Delegation(e) \/ Handoff(e)
  PROVE  Backed'
<1>0. /\ TypeOK /\ Allocation /\ InOrder /\ Records /\ QueueRight /\ FramesEnded
      /\ \A x \in Exec : status[x] = "none" => parent[x] = None
  BY DEF QInv, QueueInv, Allocation
<1>1. ASSUME NEW c \in Exec, NEW failed \in BOOLEAN, StartDelegation(e, c, failed),
             \A x \in Exec : Suspended(x) => Suspended(x)'
      PROVE  Backed'
  <2> DEFINE starts == CanStartUnder(e, root[e])
  <2>1. /\ status[c] = "none"
        /\ parent' = [parent EXCEPT ![c] = e]
        /\ branch' = [branch EXCEPT ![c] = c]
        /\ status' = [status EXCEPT ![c] = IF ~starts THEN "queued" ELSE IF failed THEN "ended" ELSE "running"]
        /\ runningExecutions \subseteq runningExecutions'
        /\ starts => c \in runningExecutions'
    BY <1>1 DEF StartDelegation, Fresh, Acquire, counterVars
  <2> HIDE DEF starts
  <2>2. /\ \A x \in Exec : x # c => status'[x] = status[x] /\ parent'[x] = parent[x] /\ branch'[x] = branch[x]
        /\ status'[c] = IF ~starts THEN "queued" ELSE IF failed THEN "ended" ELSE "running"
    BY <1>0, <2>1 DEF TypeOK, SchedulerTypeOK
  <2> SUFFICES ASSUME NEW x \in Exec, Own(x)'
               PROVE  /\ status'[x] # "created"
                      /\ status'[x] = "running" => x \in runningExecutions' \/ Suspended(x)'
    BY DEF Backed, Own, Delegated, Suspended
  <2>3. CASE x = c
    BY <2>1, <2>2, <2>3
  <2>4. CASE x # c
    <3>1. Own(x) /\ status'[x] = status[x]
      BY <2>2, <2>4 DEF Own, Delegated
    <3> QED
      BY <1>1, <2>1, <3>1 DEF Backed
  <2> QED
    BY <2>3, <2>4
<1>2. CASE StartRoot(e)
  <2>1. /\ status' = [status EXCEPT ![e] = "created"]
        /\ branch' = [branch EXCEPT ![e] = e]
        /\ UNCHANGED <<parent, runningExecutions, call>>
        /\ parent[e] = None
    BY <1>0, <1>2 DEF StartRoot, Fresh, schedulerVars, counterVars
  <2>2. \A x \in Exec : x # e => status'[x] = status[x] /\ branch'[x] = branch[x]
    BY <1>0, <2>1 DEF TypeOK
  <2> SUFFICES ASSUME NEW x \in Exec, Own(x)'
               PROVE  /\ status'[x] # "created"
                      /\ status'[x] = "running" => x \in runningExecutions' \/ Suspended(x)'
    BY DEF Backed, Own, Delegated, Suspended
  <2>3. x # e
    BY <2>1 DEF Own, Delegated
  <2>4. Own(x) /\ status'[x] = status[x]
    BY <2>1, <2>2, <2>3 DEF Own, Delegated
  <2> QED
    BY <2>1, <2>4 DEF Backed, Suspended
<1>3. CASE RunMicrotask(e)
  <2>1. /\ status' = [status EXCEPT ![e] = "running"] /\ status[e] = "created"
        /\ UNCHANGED <<parent, branch, runningExecutions, call>>
    BY <1>3 DEF RunMicrotask, identityVars, schedulerVars, counterVars
  <2>2. \A x \in Exec : x # e => status'[x] = status[x]
    BY <1>0, <2>1 DEF TypeOK
  <2>3. ~Own(e)
    BY <2>1 DEF Backed
  <2> QED
    BY <2>1, <2>2, <2>3 DEF Backed, Own, Delegated, Suspended
<1>4. CASE Finish(e) \/ Abort(e)
  <2>1. (\E s \in TerminalStatus : FinishAs(e, s)) /\ UNCHANGED <<identityVars, runningExecutions, branch>>
    BY <1>4 DEF Finish, Abort, TerminalStatus, schedulerVars, counterVars
  <2> QED
    BY <1>0, <2>1, FinishAsBacked
<1>5. CASE FailCheckpoint(e)
  <2>1. UNCHANGED <<identityVars, runningExecutions, branch>>
    BY <1>5 DEF FailCheckpoint, schedulerVars, counterVars
  <2>2. CASE Terminal(e)
    <3>1. UNCHANGED <<parent, status, call>>
      BY <1>5, <2>1, <2>2 DEF FailCheckpoint, identityVars
    <3> QED
      BY <2>1, <3>1 DEF Backed, Own, Delegated, Suspended
  <2>3. CASE ~Terminal(e)
    BY <1>0, <1>5, <2>1, <2>3, FinishAsBacked DEF FailCheckpoint, TerminalStatus
  <2> QED
    BY <2>2, <2>3
<1>6. ASSUME NEW n \in Calls, Act(e, n)  PROVE Backed'
  <2>1. /\ UNCHANGED <<parent, branch, status, runningExecutions>>
        /\ \A k \in Calls : call[e][k].phase = "idle"
        /\ \A x \in Exec : x # e => call'[x] = call[x]
    BY <1>0, <1>6 DEF Act, Thinking, identityVars, schedulerVars, counterVars, TypeOK
  <2>2. ~Suspended(e)
    BY <2>1 DEF Suspended
  <2>3. \A x \in Exec : Suspended(x) => Suspended(x)'
    BY <2>1, <2>2 DEF Suspended
  <2> QED
    BY <2>1, <2>3 DEF Backed, Own, Delegated
<1>7. ASSUME NEW c \in Exec, NEW failed \in BOOLEAN, DelegateProgrammatically(e, c, failed)
      PROVE  Backed'
  BY <1>1, <1>7 DEF DelegateProgrammatically, Suspended
<1>8. ASSUME NEW c \in Exec, NEW failed \in BOOLEAN, NEW k \in Calls, Delegate(e, k, c, failed)
      PROVE  Backed'
  <2>1. call' = [call EXCEPT ![e][k] = [phase |-> "started", child |-> c]] /\ call[e][k].phase = "issued"
    BY <1>8 DEF Delegate, At
  <2>2. \A x \in Exec, l \in Calls : x # e \/ l # k => call'[x][l] = call[x][l]
    BY <1>0, <2>1 DEF TypeOK
  <2>3. \A x \in Exec : Suspended(x) => Suspended(x)'
    BY <2>1, <2>2 DEF Suspended
  <2> QED
    BY <1>1, <1>8, <2>3 DEF Delegate
<1>9. ASSUME NEW k \in Calls, Refuse(e, k) \/ ReturnToRoot(e, k) \/ Resume(e, k)
      PROVE  Backed'
  <2>1. /\ UNCHANGED <<parent, branch, status, runningExecutions>>
        /\ call[e][k].phase \notin {"waiting", "reacquiring"} \/ ~Delegated(e)
        /\ call' = [call EXCEPT ![e][k] = Idle] \/ SetPhase(e, k, "idle")
    BY <1>9 DEF Refuse, ReturnToRoot, Resume, At, ChildDone, identityVars, schedulerVars, counterVars
  <2>2. \A x \in Exec, l \in Calls : x # e \/ l # k => call'[x][l] = call[x][l]
    BY <1>0, <2>1 DEF TypeOK, SetPhase
  <2>3. \A x \in Exec : Suspended(x) => Suspended(x)' \/ ~Delegated(x)
    BY <2>1, <2>2 DEF Suspended
  <2> QED
    BY <2>1, <2>3 DEF Backed, Own, Delegated
<1>10. ASSUME NEW k \in Calls, Suspend(e, k) \/ Reacquire(e, k) \/ AwaitPermit(e, k)
       PROVE  Backed'
  <2>1. /\ UNCHANGED <<parent, branch, status>>
        /\ \A x \in runningExecutions : x # e => x \in runningExecutions'
        /\ \E ph \in Phase : /\ SetPhase(e, k, ph)
                             /\ ph \in {"waiting", "reacquiring"} \/ e \in runningExecutions'
    BY <1>10 DEF Suspend, Reacquire, AwaitPermit, identityVars, counterVars, Acquire, Release, Phase
  <2>2. \A x \in Exec, l \in Calls : x # e \/ l # k => call'[x][l] = call[x][l]
    BY <1>0, <2>1 DEF TypeOK, SetPhase
  <2>3. e \in runningExecutions' \/ Suspended(e)'
    <3>1. ASSUME NEW ph \in {"waiting", "reacquiring"}, SetPhase(e, k, ph)
          PROVE  call'[e][k].phase = ph
      BY <1>0, <3>1 DEF TypeOK, SetPhase, Call
    <3> QED
      BY <2>1, <3>1 DEF Suspended
  <2>4. \A x \in Exec : x # e => (Suspended(x)' <=> Suspended(x))
    BY <2>2 DEF Suspended
  <2> QED
    BY <2>1, <2>3, <2>4 DEF Backed, Own, Delegated
<1>11. CASE RequestHandoff(e) \/ PrepareHandoff(e) \/ RejectHandoff(e)
  <2>1. UNCHANGED <<parent, branch, status, runningExecutions, call>>
    BY <1>11 DEF RequestHandoff, PrepareHandoff, RejectHandoff, identityVars, schedulerVars, counterVars
  <2> QED
    BY <2>1 DEF Backed, Own, Delegated, Suspended
<1>12. ASSUME NEW s \in Exec, CommitHandoff(e, s)
       PROVE  Backed'
  <2>1. /\ parent' = [parent EXCEPT ![s] = parent[e]]
        /\ branch' = [branch EXCEPT ![s] = branch[e]]
        /\ status' = [status EXCEPT ![s] = "created", ![e] = IF Terminal(e) THEN @ ELSE "handed_off"]
        /\ UNCHANGED <<runningExecutions, call>>
        /\ status[s] = "none" /\ \A d \in 1 .. s - 1 : status[d] # "none"
        /\ status[e] # "none"
    BY <1>0, <1>12 DEF CommitHandoff, Fresh, schedulerVars, counterVars, Records
  <2>2. e \in Nat /\ s \in Nat /\ e < s
    BY <1>0, <2>1, SchedulerAssumption DEF InOrder, Exec
  <2>3. branch[e] \in 1 .. e
    BY <1>0, <2>1 DEF Records
  <2>4. branch'[s] # s
    BY <1>0, <2>1, <2>2, <2>3 DEF TypeOK
  <2>5. \A x \in Exec : x # s => parent'[x] = parent[x] /\ branch'[x] = branch[x]
    BY <1>0, <2>1 DEF TypeOK, SchedulerTypeOK
  <2>6. \A x \in Exec : x # s => status'[x] = status[x] \/ status'[x] = "handed_off"
    BY <1>0, <2>1 DEF TypeOK
  <2> SUFFICES ASSUME NEW x \in Exec, Own(x)'
               PROVE  /\ status'[x] # "created"
                      /\ status'[x] = "running" => x \in runningExecutions' \/ Suspended(x)'
    BY DEF Backed, Own, Delegated, Suspended
  <2>7. x # s
    BY <2>4 DEF Own
  <2>8. Own(x)
    BY <2>5, <2>7 DEF Own, Delegated
  <2> QED
    BY <2>1, <2>6, <2>7, <2>8 DEF Backed, Suspended
<1> QED
  BY <1>2, <1>3, <1>4, <1>5, <1>6, <1>7, <1>8, <1>9, <1>10, <1>11, <1>12 DEF Lifecycle, Delegation, Handoff

(* Nor does a frame: the permit it releases is that of an execution that   *)
(* has ended.                                                              *)
LEMMA SynchronousBacked ==
  ASSUME QInv, Backed, Synchronous
  PROVE  Backed'
<1>0. /\ TypeOK /\ Allocation /\ Records /\ QueueRight /\ FramesEnded
      /\ UNCHANGED <<parent, branch>>
  BY DEF QInv, QueueInv, Synchronous, CancelQueued, ReleasePermit, DrainChild, DrainParent, DrainDone,
         CancelChild, LeaveTerminal, identityVars, runtimeVars
<1>1. CASE CancelQueued \/ DrainDone \/ LeaveTerminal
  <2>1. UNCHANGED <<status, runningExecutions, call>>
    BY <1>1 DEF CancelQueued, DrainDone, LeaveTerminal, schedulerVars, counterVars, runtimeVars
  <2> QED
    BY <1>0, <2>1 DEF Backed, Own, Delegated, Suspended
<1>2. CASE ReleasePermit
  <2>1. /\ UNCHANGED <<status, call>> /\ runningExecutions' = runningExecutions \ {Arg} /\ Top("terminal")
    BY <1>2 DEF ReleasePermit, Release, counterVars
  <2>2. Terminal(Arg)
    BY <1>0, <2>1, BelowIs DEF FramesEnded, Top, Arg
  <2>3. status[Arg] # "running"
    BY <2>2 DEF Terminal, TerminalStatus
  <2> QED
    BY <1>0, <2>1, <2>3 DEF Backed, Own, Delegated, Suspended
<1>3. ASSUME NEW e \in Exec, NEW failed \in BOOLEAN,
             status' = [status EXCEPT ![e] = IF failed THEN "ended" ELSE "running"],
             runningExecutions \subseteq runningExecutions', e \in runningExecutions', UNCHANGED call
      PROVE  Backed'
  <2>1. /\ \A x \in Exec : x # e => status'[x] = status[x]
        /\ status'[e] # "created"
    BY <1>0, <1>3 DEF TypeOK
  <2> QED
    BY <1>0, <1>3, <2>1 DEF Backed, Own, Delegated, Suspended
<1>4. ASSUME NEW failed \in BOOLEAN, DrainChild(failed)  PROVE Backed'
  <2>1. queue[First(Startable(Arg))].exec \in Exec
    BY <1>0, <1>4, FirstOfQueue DEF DrainChild, TypeOK
  <2> QED
    BY <1>3, <1>4, <2>1 DEF DrainChild, Acquire, counterVars
<1>5. CASE DrainParent
  <2>1. PICK e \in Exec, n \in Nat : /\ SetPhase(e, n, "reacquired")
                                     /\ Acquire(e, parent[e], root[e])
                                     /\ UNCHANGED status
    <3>1. queue[First(Startable(Arg))].exec \in Exec /\ queue[First(Startable(Arg))].call \in Nat
      BY <1>0, <1>5, FirstOfQueue DEF DrainParent, TypeOK
    <3> QED
      BY <1>5, <3>1 DEF DrainParent
  <2>2. runningExecutions \subseteq runningExecutions' /\ e \in runningExecutions'
    BY <2>1 DEF Acquire, counterVars
  <2>3. \A x \in Exec : x # e => call'[x] = call[x]
    BY <1>0, <2>1 DEF SetPhase, TypeOK
  <2> QED
    BY <1>0, <2>1, <2>2, <2>3 DEF Backed, Own, Delegated, Suspended
<1>6. CASE CancelChild
  <2>1. First(LiveChildren(Arg)) \in Exec
    <3>1. LiveChildren(Arg) \in SUBSET Exec /\ Exec \subseteq Nat
      BY SchedulerAssumption DEF LiveChildren, Children, Exec
    <3> QED
      BY <1>6, <3>1, FirstIsFirst DEF CancelChild
  <2>2. UNCHANGED <<identityVars, runningExecutions, branch>> /\ "aborted" \in TerminalStatus
    BY <1>6 DEF CancelChild, schedulerVars, counterVars, TerminalStatus
  <2> QED
    BY <1>0, <1>6, <2>1, <2>2, FinishAsBacked DEF CancelChild
<1> QED
  BY <1>1, <1>2, <1>4, <1>5, <1>6 DEF Synchronous

-----------------------------------------------------------------------------
(* Only an agent at a depth with handoffs hands off; a delegated execution *)
(* is below its root.                                                      *)
Depths ==
  /\ \A e \in Exec : Delegated(e) => depth[e] # 0
  /\ \A e \in Exec : handoff[e] # "none" => depth[e] \in HandoffDepths

(* Who was delegated began its own branch: it is nobody's successor.       *)
Flat == \A e \in Exec : Delegated(e) => branch[e] = e

(* Depths is kept, and so is Flat where only agents at depth 0 hand off:   *)
(* an execution that hands off is then no child, and its successor is      *)
(* none.                                                                   *)
LEMMA DepthsStep ==
  ASSUME QInv, Depths, [Next]_vars
  PROVE  Depths' /\ (HandoffDepths \subseteq {0} /\ Flat => Flat')
<1>0. /\ TypeOK /\ Records
      /\ \A x \in Exec : status[x] = "none" => parent[x] = None /\ handoff[x] = "none"
  BY DEF QInv, QueueInv, Allocation, Records
<1>1. ASSUME UNCHANGED <<parent, depth, branch>>,
             \A x \in Exec : handoff'[x] # "none" => handoff[x] # "none" \/ depth[x] \in HandoffDepths
      PROVE  Depths' /\ (HandoffDepths \subseteq {0} /\ Flat => Flat')
  BY <1>1 DEF Depths, Flat, Delegated
<1>2. ASSUME NEW e \in Exec, NEW c \in Exec, NEW failed \in BOOLEAN, StartDelegation(e, c, failed)
      PROVE  Depths' /\ (HandoffDepths \subseteq {0} /\ Flat => Flat')
  <2>1. /\ parent' = [parent EXCEPT ![c] = e]
        /\ depth' = [depth EXCEPT ![c] = depth[e] + 1]
        /\ branch' = [branch EXCEPT ![c] = c]
        /\ handoff' = handoff /\ handoff[c] = "none"
    BY <1>0, <1>2 DEF StartDelegation, Fresh
  <2>2. /\ \A x \in Exec : x # c => depth'[x] = depth[x] /\ parent'[x] = parent[x] /\ branch'[x] = branch[x]
        /\ depth'[c] = depth[e] + 1 /\ branch'[c] = c
        /\ depth[e] \in Nat
    BY <1>0, <2>1, RuntimeAssumption DEF TypeOK, SchedulerTypeOK
  <2>3. depth'[c] # 0
    BY <2>2
  <2> QED
    BY <2>1, <2>2, <2>3 DEF Depths, Flat, Delegated
<1>3. ASSUME NEW e \in Exec, StartRoot(e)
      PROVE  Depths' /\ (HandoffDepths \subseteq {0} /\ Flat => Flat')
  <2>1. branch' = [branch EXCEPT ![e] = e] /\ UNCHANGED <<parent, depth, handoff>>
    BY <1>3 DEF StartRoot
  <2>2. \A x \in Exec : x # e => branch'[x] = branch[x]
    BY <1>0, <2>1 DEF TypeOK
  <2>3. branch'[e] = e
    BY <1>0, <2>1 DEF TypeOK
  <2> QED
    BY <2>1, <2>2, <2>3 DEF Depths, Flat, Delegated
<1>4. ASSUME NEW e \in Exec, NEW s \in Exec, CommitHandoff(e, s)
      PROVE  Depths' /\ (HandoffDepths \subseteq {0} /\ Flat => Flat')
  <2>1. /\ parent' = [parent EXCEPT ![s] = parent[e]]
        /\ depth' = [depth EXCEPT ![s] = depth[e]]
        /\ branch' = [branch EXCEPT ![s] = branch[e]]
        /\ handoff' = [handoff EXCEPT ![e] = "none"]
        /\ handoff[e] # "none" /\ handoff[s] = "none"
    BY <1>0, <1>4 DEF CommitHandoff, Fresh
  <2>2. /\ \A x \in Exec : x # s => depth'[x] = depth[x] /\ parent'[x] = parent[x] /\ branch'[x] = branch[x]
        /\ depth'[s] = depth[e] /\ parent'[s] = parent[e] /\ s # e
        /\ \A x \in Exec : handoff'[x] # "none" => handoff[x] # "none" /\ x # s
    BY <1>0, <2>1 DEF TypeOK, SchedulerTypeOK
  <2>3. Depths'
    BY <2>2 DEF Depths, Delegated
  <2>4. HandoffDepths \subseteq {0} => parent'[s] = None
    BY <2>1, <2>2 DEF Depths, Delegated
  <2> QED
    BY <2>2, <2>3, <2>4 DEF Flat, Delegated
<1>5. CASE UNCHANGED vars \/ Synchronous
  <2>1. UNCHANGED <<parent, depth, branch, handoff>>
    BY <1>5 DEF vars, runtimeVars, identityVars, Synchronous, CancelQueued, ReleasePermit, DrainChild,
                DrainParent, DrainDone, CancelChild, LeaveTerminal
  <2> QED
    BY <1>1, <2>1
<1>6. ASSUME NEW e \in Exec, NEW k \in Calls,
             \/ RunMicrotask(e) \/ Finish(e) \/ Abort(e) \/ \E n \in Calls : Act(e, n)
             \/ Refuse(e, k) \/ Suspend(e, k) \/ ReturnToRoot(e, k)
             \/ Reacquire(e, k) \/ AwaitPermit(e, k) \/ Resume(e, k)
      PROVE  Depths' /\ (HandoffDepths \subseteq {0} /\ Flat => Flat')
  <2>1. UNCHANGED <<parent, depth, branch, handoff>>
    BY <1>6 DEF identityVars, RunMicrotask, Finish, Abort, Act, Refuse, Suspend, ReturnToRoot,
                Reacquire, AwaitPermit, Resume
  <2> QED
    BY <1>1, <2>1
<1>7. ASSUME NEW e \in Exec, RunMicrotask(e) \/ Finish(e) \/ Abort(e) \/ \E n \in Calls : Act(e, n)
      PROVE  Depths' /\ (HandoffDepths \subseteq {0} /\ Flat => Flat')
  <2>1. UNCHANGED <<parent, depth, branch, handoff>>
    BY <1>7 DEF identityVars, RunMicrotask, Finish, Abort, Act
  <2> QED
    BY <1>1, <2>1
<1>8. ASSUME NEW e \in Exec,
             RequestHandoff(e) \/ PrepareHandoff(e) \/ RejectHandoff(e) \/ FailCheckpoint(e)
      PROVE  Depths' /\ (HandoffDepths \subseteq {0} /\ Flat => Flat')
  <2>1. /\ UNCHANGED <<parent, depth, branch>>
        /\ \E h \in HandoffPhase : handoff' = [handoff EXCEPT ![e] = h]
        /\ handoff[e] # "none" \/ depth[e] \in HandoffDepths
    BY <1>8 DEF RequestHandoff, PrepareHandoff, RejectHandoff, FailCheckpoint, identityVars, HandoffPhase
  <2>2. \A x \in Exec : handoff'[x] # "none" => handoff[x] # "none" \/ depth[x] \in HandoffDepths
    BY <1>0, <2>1 DEF TypeOK
  <2> QED
    BY <1>1, <2>1, <2>2
<1>9. ASSUME NEW e \in Exec, Lifecycle(e)  PROVE Depths' /\ (HandoffDepths \subseteq {0} /\ Flat => Flat')
  BY <1>3, <1>7, <1>9 DEF Lifecycle
<1>10. ASSUME NEW e \in Exec, Delegation(e)  PROVE Depths' /\ (HandoffDepths \subseteq {0} /\ Flat => Flat')
  BY <1>2, <1>6, <1>7, <1>10 DEF Delegation, Delegate, DelegateProgrammatically
<1>11. ASSUME NEW e \in Exec, Handoff(e)  PROVE Depths' /\ (HandoffDepths \subseteq {0} /\ Flat => Flat')
  BY <1>4, <1>8, <1>11 DEF Handoff
<1> QED
  BY <1>5, <1>9, <1>10, <1>11 DEF Next

(* The initial states.                                                     *)
LEMMA PermitInit == Init => Backed /\ Depths /\ Flat
BY DEF Init, SchedulerInit, Backed, Own, Delegated, Depths, Flat

(* Every step keeps the permits where the work is.                         *)
LEMMA PermitStep == QInv /\ Backed /\ Depths /\ [Next]_vars => Backed' /\ Depths'
<1> SUFFICES ASSUME QInv, Backed, Depths, [Next]_vars  PROVE Backed' /\ Depths'
  OBVIOUS
<1>1. Depths'
  BY DepthsStep
<1>2. CASE UNCHANGED vars
  <2>1. UNCHANGED <<parent, branch, status, runningExecutions, call>>
    BY <1>2 DEF vars, identityVars, runtimeVars, schedulerVars, counterVars
  <2> QED
    BY <1>1, <2>1 DEF Backed, Own, Delegated, Suspended
<1>3. CASE Next
  BY <1>1, <1>3, CallbackBacked, SynchronousBacked DEF Next
<1> QED
  BY <1>2, <1>3

(* The permits are where the work is in every reachable state.             *)
LEMMA PermitsHold == Spec => [](QInv /\ Backed /\ Depths)
<1>1. Init => QInv /\ Backed /\ Depths
  BY QInvInit, PermitInit
<1>2. QInv /\ Backed /\ Depths /\ [Next]_vars => (QInv /\ Backed /\ Depths)'
  BY QInvStep, PermitStep
<1> QED
  BY <1>1, <1>2, PTL DEF Spec

(* No permit leaks: between two callbacks every permit is with a delegated *)
(* execution that is running.  And nobody that was delegated works without *)
(* one.  Both for every value of the constants.                            *)
PermitsReturned ==
  /\ Quiescent => \A e \in runningExecutions : Delegated(e) /\ status[e] = "running"
  /\ \A e \in Exec : Working(e) /\ branch[e] = e => e \in runningExecutions

(* The permits come back, and come back only from work that is over.       *)
THEOREM PermitsAreReturned == Spec => []PermitsReturned
<1>1. QInv /\ Backed /\ Depths => PermitsReturned
  <2> SUFFICES ASSUME QInv, Backed  PROVE PermitsReturned
    OBVIOUS
  <2>1. Quiescent => \A e \in runningExecutions : Delegated(e) /\ status[e] = "running"
    BY QuiescentFrames DEF QInv, QueueInv, HoldersRun, Allocation, Delegated, TypeOK, SchedulerTypeOK
  <2>2. \A e \in Exec : Working(e) /\ branch[e] = e => e \in runningExecutions
    BY DEF Working, Backed, Own, Suspended
  <2> QED
    BY <2>1, <2>2 DEF PermitsReturned
<1> QED
  BY <1>1, PermitsHold, PTL

(* Who works holds a permit, where only root agents hand off.              *)
THEOREM PermitsAreWithWork ==
  ASSUME HandoffDepths \subseteq {0}
  PROVE  Spec => []PermitsWhereWork
<1>1. Init => QInv /\ Backed /\ Depths /\ Flat
  BY QInvInit, PermitInit
<1>2. QInv /\ Backed /\ Depths /\ Flat /\ [Next]_vars => (QInv /\ Backed /\ Depths /\ Flat)'
  BY QInvStep, PermitStep, DepthsStep
<1>3. QInv /\ Backed /\ Depths /\ Flat => PermitsWhereWork
  <2> SUFFICES ASSUME QInv, Backed, Flat  PROVE PermitsWhereWork
    OBVIOUS
  <2>1. Quiescent => \A e \in runningExecutions : Delegated(e) /\ status[e] = "running"
    BY QuiescentFrames DEF QInv, QueueInv, HoldersRun, Allocation, Delegated, TypeOK, SchedulerTypeOK
  <2>2. \A e \in Exec : Working(e) => e \in runningExecutions
    BY DEF Working, Backed, Own, Suspended, Flat
  <2> QED
    BY <2>1, <2>2 DEF PermitsWhereWork
<1> QED
  BY <1>1, <1>2, <1>3, PTL DEF Spec

-----------------------------------------------------------------------------
(***************************************************************************)
(* The trees of executions: OneLivePerBranch for every value of the        *)
(* constants, NoOrphan and FinishedTreesReleased where only root agents    *)
(* hand off (HandoffDepths is at most {0}).                                *)
(*                                                                         *)
(* NoOrphan speaks of the moments between two callbacks.  While a cascade  *)
(* of cancellations runs, a live child may have a parent that has ended,   *)
(* as long as a call on the stack is still ending that parent; and a tree  *)
(* whose last root has ended may have records, as long as a call on the    *)
(* stack is about to drop them (Supervised, TreeHasRoot).  A call that     *)
(* ends a root has nobody's call beneath it, so that dropping the records  *)
(* of a tree takes nothing away from another call (RootAtBottom).          *)
(***************************************************************************)

(* An execution that is live or is handing off is the last of its branch.  *)
LastOfBranch ==
  \A e, x \in Exec : (Live(e) \/ handoff[e] # "none") /\ branch[x] = branch[e] => x <= e

(* A child is younger than its parent and in the same tree.                *)
Lineage == \A e \in Exec : Delegated(e) => root[parent[e]] = root[e] /\ parent[e] < e

(* The end of p is in progress: its children may still be alive.           *)
Ending(p) == \E i \in DOMAIN stack : stack[i].op # "drain" /\ stack[i].arg = p

(* A live child has a live parent, or one whose end is in progress.        *)
Supervised == \A e \in Exec : Delegated(e) /\ Live(e) => Live(parent[e]) \/ Ending(parent[e])

(* A call that has another beneath it ends a delegated execution; the end  *)
(* of a root is nobody's callee.                                           *)
RootAtBottom ==
  \A i \in DOMAIN stack : stack[i].op # "drain" /\ i + 1 \in DOMAIN stack => Delegated(stack[i].arg)

(* What is being ended still has its record.                               *)
FramesRecorded == \A i \in DOMAIN stack : stack[i].op # "drain" => stack[i].arg \in active

(* A tree with records has a root that is live, or that is about to drop   *)
(* them.                                                                   *)
Rooted(x) ==
  /\ ~Delegated(x)
  /\ Live(x) \/ (status[x] \in {"ended", "aborted"} /\ Ending(x))
TreeHasRoot == \A e \in active : \E x \in Exec : root[x] = root[e] /\ Rooted(x)

-----------------------------------------------------------------------------
(* A new id is larger than every id in use.                                *)
LEMMA FreshIsLast ==
  ASSUME InOrder, NEW c \in Exec, status[c] = "none", NEW x \in Exec, status[x] # "none"
  PROVE  x < c
<1>1. c \in Nat /\ x \in Nat /\ c >= 1 /\ x # c
  BY SchedulerAssumption DEF Exec
<1>2. c < x => c \in 1 .. x - 1
  BY <1>1
<1> QED
  BY <1>1, <1>2 DEF InOrder

(* Every step keeps the last of a branch last: only performHandoff adds to *)
(* a branch, and it ends the execution that was last.                      *)
LEMMA LastStep ==
  ASSUME QInv, LastOfBranch, [Next]_vars
  PROVE  LastOfBranch'
<1>0. /\ TypeOK /\ InOrder /\ Records /\ QueueRight
      /\ Exec \subseteq Nat
  BY SchedulerAssumption DEF QInv, QueueInv, Exec
<1>1. ASSUME UNCHANGED branch,
             \A x \in Exec : Live(x)' \/ handoff'[x] # "none" => Live(x) \/ handoff[x] # "none"
      PROVE  LastOfBranch'
  BY <1>1 DEF LastOfBranch, Live
<1>2. ASSUME NEW c \in Exec, status[c] = "none", branch' = [branch EXCEPT ![c] = c],
             \A x \in Exec : x # c => status'[x] = status[x], UNCHANGED handoff
      PROVE  LastOfBranch'
  <2>1. \A x \in Exec : x # c => branch'[x] = branch[x] /\ branch[x] # c
    <3>1. ASSUME NEW x \in Exec, x # c, branch[x] = c  PROVE FALSE
      <4>1. status[x] # "none"
        BY <1>0, <3>1, SchedulerAssumption DEF Records, Exec, None
      <4>2. x < c /\ c \in 1 .. x
        BY <1>0, <1>2, <3>1, <4>1, FreshIsLast DEF Records
      <4> QED
        BY <4>2
    <3>2. \A x \in Exec : x # c => branch[x] # c
      BY <3>1
    <3>3. \A x \in Exec : x # c => branch'[x] = branch[x]
      BY <1>0, <1>2 DEF TypeOK
    <3> QED
      BY <3>2, <3>3
  <2>2. branch'[c] = c /\ c <= c
    BY <1>0, <1>2 DEF TypeOK
  <2> QED
    BY <1>2, <2>1, <2>2 DEF LastOfBranch, Live
<1>3. ASSUME NEW e \in Exec, NEW s \in Exec, CommitHandoff(e, s)
      PROVE  LastOfBranch'
  <2>1. /\ branch' = [branch EXCEPT ![s] = branch[e]]
        /\ status' = [status EXCEPT ![s] = "created", ![e] = IF Terminal(e) THEN @ ELSE "handed_off"]
        /\ handoff' = [handoff EXCEPT ![e] = "none"]
        /\ status[s] = "none" /\ handoff[e] # "none"
    BY <1>3 DEF CommitHandoff, Fresh
  <2>2. status[e] # "none" /\ s # e /\ branch[e] # None
    BY <1>0, <2>1, SchedulerAssumption DEF Records, None, Exec
  <2>3. /\ \A x \in Exec : x # s => branch'[x] = branch[x]
        /\ \A x \in Exec : x # s /\ x # e => status'[x] = status[x] /\ handoff'[x] = handoff[x]
        /\ branch'[s] = branch[e]
        /\ handoff'[e] = "none" /\ status'[e] \in TerminalStatus
    BY <1>0, <2>1, <2>2 DEF TypeOK, Terminal, TerminalStatus
  <2>4. ~Live(e)'
    BY <2>3 DEF Live, TerminalStatus
  <2>5. \A x \in Exec : branch'[x] = branch[e] => x <= s
    <3>0. s <= s
      BY SchedulerAssumption DEF Exec
    <3> SUFFICES ASSUME NEW x \in Exec, x # s, branch'[x] = branch[e]  PROVE x <= s
      BY <3>0
    <3>1. status[x] # "none"
      BY <1>0, <2>2, <2>3 DEF Records
    <3> QED
      BY <1>0, <2>1, <3>1, FreshIsLast
  <2>6. \A x \in Exec : x # s /\ x # e /\ (Live(x) \/ handoff[x] # "none") => branch[x] # branch[e]
    BY <1>0, <2>1 DEF LastOfBranch
  <2> SUFFICES ASSUME NEW x \in Exec, NEW y \in Exec, Live(x)' \/ handoff'[x] # "none",
                      branch'[y] = branch'[x]
               PROVE  y <= x
    BY DEF LastOfBranch, Live
  <2>7. CASE x = s
    BY <2>3, <2>5, <2>7
  <2>8. CASE x # s
    <3>1. x # e /\ (Live(x) \/ handoff[x] # "none")
      BY <2>3, <2>4, <2>8 DEF Live
    <3>2. y # s /\ branch[y] = branch[x]
      BY <2>3, <2>6, <2>8, <3>1
    <3> QED
      BY <3>1, <3>2 DEF LastOfBranch
  <2> QED
    BY <2>7, <2>8
<1>4. ASSUME NEW e \in Exec, NEW c \in Exec, NEW failed \in BOOLEAN, StartDelegation(e, c, failed)
      PROVE  LastOfBranch'
  BY <1>0, <1>2, <1>4 DEF StartDelegation, Fresh, TypeOK
<1>5. ASSUME NEW e \in Exec, StartRoot(e)  PROVE LastOfBranch'
  BY <1>0, <1>2, <1>5 DEF StartRoot, Fresh, TypeOK
<1>6. ASSUME NEW e \in Exec, NEW s \in TerminalStatus \cup {"running"}, UNCHANGED branch,
             status' = [status EXCEPT ![e] = s], s \in TerminalStatus \/ Live(e),
             \A x \in Exec : handoff'[x] # "none" => handoff[x] # "none"
      PROVE  LastOfBranch'
  <2>1. \A x \in Exec : Live(x)' => Live(x)
    BY <1>0, <1>6 DEF TypeOK, Live, TerminalStatus
  <2> QED
    BY <1>1, <1>6, <2>1
<1>7. ASSUME NEW e \in Exec, Lifecycle(e)  PROVE LastOfBranch'
  <2>1. CASE RunMicrotask(e)
    BY <1>6, <2>1 DEF RunMicrotask, Live
  <2>2. CASE Finish(e) \/ Abort(e)
    BY <1>6, <2>2 DEF Finish, Abort, FinishAs, TerminalStatus
  <2> QED
    BY <1>5, <1>7, <2>1, <2>2 DEF Lifecycle
<1>8. ASSUME NEW e \in Exec, Delegation(e)  PROVE LastOfBranch'
  <2>1. CASE \E c \in Exec, failed \in BOOLEAN : StartDelegation(e, c, failed)
    BY <1>4, <2>1
  <2>2. CASE UNCHANGED <<status, branch, handoff>>
    BY <1>1, <2>2 DEF Live
  <2> QED
    BY <1>8, <2>1, <2>2 DEF Delegation, Act, DelegateProgrammatically, Delegate, Refuse, Suspend,
                            ReturnToRoot, Reacquire, AwaitPermit, Resume
<1>9. ASSUME NEW e \in Exec, Handoff(e)  PROVE LastOfBranch'
  <2>1. CASE RequestHandoff(e)
    <3>1. /\ UNCHANGED <<branch, status>> /\ handoff' = [handoff EXCEPT ![e] = "preparing"] /\ Live(e)
      BY <2>1 DEF RequestHandoff, Thinking, Live
    <3>2. \A x \in Exec : Live(x)' \/ handoff'[x] # "none" => Live(x) \/ handoff[x] # "none"
      BY <1>0, <3>1 DEF TypeOK, Live
    <3> QED
      BY <1>1, <3>1, <3>2
  <2>2. CASE PrepareHandoff(e) \/ RejectHandoff(e)
    <3>1. /\ UNCHANGED <<branch, status>> /\ \E h : handoff' = [handoff EXCEPT ![e] = h]
          /\ handoff[e] # "none"
      BY <2>2 DEF PrepareHandoff, RejectHandoff
    <3>2. \A x \in Exec : Live(x)' \/ handoff'[x] # "none" => Live(x) \/ handoff[x] # "none"
      BY <1>0, <3>1 DEF TypeOK, Live
    <3> QED
      BY <1>1, <3>1, <3>2
  <2>3. CASE FailCheckpoint(e)
    <3>1. UNCHANGED branch /\ handoff' = [handoff EXCEPT ![e] = "none"]
      BY <2>3 DEF FailCheckpoint
    <3>2. \A x \in Exec : handoff'[x] # "none" => handoff[x] # "none"
      BY <1>0, <3>1 DEF TypeOK
    <3>3. UNCHANGED status \/ status' = [status EXCEPT ![e] = "ended"]
      BY <2>3 DEF FailCheckpoint, FinishAs
    <3> QED
      BY <1>1, <1>6, <3>1, <3>2, <3>3 DEF Live, TerminalStatus
  <2> QED
    BY <1>3, <1>9, <2>1, <2>2, <2>3 DEF Handoff
<1>10. CASE Synchronous
  <2>1. CASE CancelQueued \/ ReleasePermit \/ DrainParent \/ DrainDone \/ LeaveTerminal
    BY <1>1, <2>1 DEF CancelQueued, ReleasePermit, DrainParent, DrainDone, LeaveTerminal, Live, runtimeVars
  <2>2. ASSUME NEW failed \in BOOLEAN, DrainChild(failed)  PROVE LastOfBranch'
    <3>1. PICK e \in Exec : /\ status' = [status EXCEPT ![e] = IF failed THEN "ended" ELSE "running"]
                            /\ status[e] = "queued"
      <4>1. First(Startable(Arg)) \in DOMAIN queue /\ queue[First(Startable(Arg))].exec \in Exec
        BY <1>0, <2>2, FirstOfQueue DEF DrainChild, TypeOK
      <4>2. Waits(queue[First(Startable(Arg))].exec, queue[First(Startable(Arg))].call)
        BY <1>0, <2>2, <4>1 DEF DrainChild, QueueRight, QueueSound, Finishing, Top
      <4> QED
        BY <2>2, <4>1, <4>2 DEF DrainChild, Waits, IsStart
    <3> QED
      BY <1>6, <2>2, <3>1 DEF DrainChild, Live, TerminalStatus
  <2>3. CASE CancelChild
    <3>1. First(LiveChildren(Arg)) \in Exec
      <4>1. LiveChildren(Arg) \in SUBSET Exec
        BY DEF LiveChildren, Children
      <4> QED
        BY <1>0, <2>3, <4>1, FirstIsFirst DEF CancelChild
    <3> QED
      BY <1>6, <2>3, <3>1 DEF CancelChild, FinishAs, TerminalStatus
  <2> QED
    BY <1>10, <2>1, <2>2, <2>3 DEF Synchronous
<1>11. CASE UNCHANGED vars
  BY <1>1, <1>11 DEF vars, runtimeVars, Live
<1> QED
  BY <1>7, <1>8, <1>9, <1>10, <1>11 DEF Next

(* Control of a branch is with one execution at a time, for every value of *)
(* the constants.                                                          *)
THEOREM BranchHasOneLive == Spec => []OneLivePerBranch
<1>1. Init => QInv /\ LastOfBranch
  BY QInvInit DEF Init, LastOfBranch, Live
<1>2. QInv /\ LastOfBranch /\ [Next]_vars => (QInv /\ LastOfBranch)'
  BY QInvStep, LastStep
<1>3. LastOfBranch => OneLivePerBranch
  <2> SUFFICES ASSUME LastOfBranch, NEW b \in Exec
               PROVE  Cardinality({e \in Members(b) : Live(e)}) <= 1
    BY DEF OneLivePerBranch
  <2> DEFINE S == {e \in Members(b) : Live(e)}
  <2>1. \A e, x \in S : e = x
    <3> SUFFICES ASSUME NEW e \in S, NEW x \in S  PROVE e = x
      OBVIOUS
    <3>0. /\ e \in Exec /\ branch[e] = b /\ Live(e)
          /\ x \in Exec /\ branch[x] = b /\ Live(x)
      BY DEF Members
    <3>1. e \in Exec /\ x \in Exec /\ e <= x /\ x <= e
      BY <3>0 DEF LastOfBranch
    <3> QED
      BY <3>1, SchedulerAssumption DEF Exec
  <2>2. CASE S = {}
    BY <2>2, FS_EmptySet
  <2>3. CASE S # {}
    <3>1. PICK e : S = {e}
      BY <2>1, <2>3
    <3>2. Cardinality({e}) = 1
      BY ONLY FS_Singleton
    <3> QED
      BY <3>1, <3>2
  <2> QED
    BY <2>2, <2>3
<1> QED
  BY <1>1, <1>2, <1>3, PTL DEF Spec

-----------------------------------------------------------------------------
(* The stack after a frame has gone, been replaced, or called another.     *)
LEMMA StackShapes ==
  ASSUME TypeOK, stack # << >>
  PROVE  /\ Len(stack) \in Nat /\ Len(stack) >= 1 /\ DOMAIN stack = 1 .. Len(stack)
         /\ DOMAIN Below = 1 .. Len(stack) - 1
         /\ \A i \in 1 .. Len(stack) - 1 : Below[i] = stack[i + 1]
         /\ \A f \in Frame : /\ DOMAIN (<<f>> \o Below) = 1 .. Len(stack)
                             /\ (<<f>> \o Below)[1] = f
                             /\ \A i \in 2 .. Len(stack) : (<<f>> \o Below)[i] = stack[i]
         /\ \A f \in Frame : /\ DOMAIN (<<f>> \o stack) = 1 .. Len(stack) + 1
                             /\ (<<f>> \o stack)[1] = f
                             /\ \A i \in 1 .. Len(stack) : (<<f>> \o stack)[i + 1] = stack[i]
<1>1. /\ Below \in Seq(Frame)
      /\ Len(stack) \in Nat /\ Len(stack) >= 1
      /\ DOMAIN stack = 1 .. Len(stack)
      /\ Len(Below) = Len(stack) - 1
      /\ DOMAIN Below = 1 .. Len(stack) - 1
      /\ \A i \in 1 .. Len(stack) - 1 : Below[i] = stack[i + 1]
  BY BelowIs
<1>2. ASSUME NEW f \in Frame
      PROVE  /\ <<f>> \o Below \in Seq(Frame)
             /\ Len(<<f>> \o Below) = Len(stack)
             /\ DOMAIN (<<f>> \o Below) = 1 .. Len(stack)
             /\ (<<f>> \o Below)[1] = f
             /\ \A i \in 2 .. Len(stack) : (<<f>> \o Below)[i] = stack[i]
  <2>1. /\ <<f>> \o Below \in Seq(Frame)
        /\ Len(<<f>> \o Below) = Len(Below) + 1
        /\ DOMAIN (<<f>> \o Below) = 1 .. Len(Below) + 1
        /\ (<<f>> \o Below)[1] = f
        /\ \A i \in 1 .. Len(Below) : (<<f>> \o Below)[i + 1] = Below[i]
    BY <1>1, PushIs
  <2>2. ASSUME NEW i \in 2 .. Len(stack)  PROVE (<<f>> \o Below)[i] = stack[i]
    <3>1. i - 1 \in 1 .. Len(Below) /\ (i - 1) + 1 = i /\ i - 1 \in 1 .. Len(stack) - 1
      BY <1>1
    <3> QED
      BY <1>1, <2>1, <3>1
  <2>3. Len(Below) + 1 = Len(stack)
    BY <1>1
  <2> QED
    BY <2>1, <2>2, <2>3
<1>4. stack \in Seq(Frame)
  BY DEF TypeOK
<1>5. \A f \in Frame : /\ DOMAIN (<<f>> \o stack) = 1 .. Len(stack) + 1
                       /\ (<<f>> \o stack)[1] = f
                       /\ \A i \in 1 .. Len(stack) : (<<f>> \o stack)[i + 1] = stack[i]
  BY <1>4, PushIs
<1> QED
  BY <1>1, <1>2, <1>5

(* The stack with two frames in place of the top one.                      *)
LEMMA TwoFrames ==
  ASSUME TypeOK, stack # << >>, NEW f \in Frame, NEW g \in Frame
  PROVE  /\ DOMAIN (<<f, g>> \o Below) = 1 .. Len(stack) + 1
         /\ (<<f, g>> \o Below)[1] = f
         /\ (<<f, g>> \o Below)[2] = g
         /\ \A i \in 2 .. Len(stack) : (<<f, g>> \o Below)[i + 1] = stack[i]
<1> DEFINE s == <<g>> \o Below
<1>1. /\ Below \in Seq(Frame)
      /\ Len(stack) \in Nat /\ Len(stack) >= 1
      /\ s \in Seq(Frame) /\ Len(s) = Len(stack) /\ s[1] = g
      /\ DOMAIN s = 1 .. Len(stack)
      /\ \A i \in 2 .. Len(stack) : s[i] = stack[i]
  <2>1. Below \in Seq(Frame)
    BY BelowIs
  <2>2. s \in Seq(Frame) /\ DOMAIN s = 1 .. Len(s) /\ Len(s) \in Nat /\ Len(s) = Len(Below) + 1
    BY <2>1, PushIs
  <2>3. Len(stack) \in Nat /\ Len(stack) >= 1 /\ Len(Below) + 1 = Len(stack)
    <3>1. Len(stack) \in Nat /\ Len(stack) >= 1 /\ Len(Below) = Len(stack) - 1
      BY BelowIs
    <3> QED
      BY <3>1
  <2>4. s[1] = g /\ \A i \in 2 .. Len(stack) : s[i] = stack[i]
    BY StackShapes
  <2>5. Len(s) = Len(stack) /\ DOMAIN s = 1 .. Len(stack)
    BY <2>2, <2>3
  <2> QED
    BY <2>1, <2>2, <2>3, <2>4, <2>5
<1>2. <<f, g>> \o Below = <<f>> \o s
  BY <1>1, PushIs
<1> HIDE DEF s
<1>3. /\ DOMAIN (<<f>> \o s) = 1 .. Len(s) + 1
      /\ (<<f>> \o s)[1] = f
      /\ \A i \in 1 .. Len(s) : (<<f>> \o s)[i + 1] = s[i]
  BY <1>1, PushIs
<1>4. 1 \in 1 .. Len(s) /\ 1 + 1 = 2
  BY <1>1
<1> QED
  BY <1>1, <1>2, <1>3, <1>4

(* What the frames at work are after a step of the top one.                *)
KeptOrNew(i) ==
  \/ \E n \in DOMAIN stack : /\ stack[n].op # "drain" /\ stack[n].arg = stack'[i].arg
                             /\ i + 1 \in DOMAIN stack' => n + 1 \in DOMAIN stack
  \/ \E x \in Exec : x = stack'[i].arg /\ Delegated(x) /\ Live(x)

Continues(n) == \E i \in DOMAIN stack' : stack'[i].op # "drain" /\ stack'[i].arg = stack[n].arg

Moved ==
  /\ \A i \in DOMAIN stack' : stack'[i].op # "drain" => KeptOrNew(i)
  /\ \A n \in DOMAIN stack : stack[n].op # "drain" => Continues(n) \/ (n = 1 /\ LeaveTerminal)

(* A frame goes: a drain that is done, or the end of an execution.         *)
LEMMA FramesGo ==
  ASSUME TypeOK, stack # << >>, stack' = Below, stack[1].op = "drain" \/ LeaveTerminal
  PROVE  Moved
<1>1. /\ Len(stack) \in Nat /\ Len(stack) >= 1 /\ DOMAIN stack = 1 .. Len(stack)
      /\ DOMAIN stack' = 1 .. Len(stack) - 1
      /\ \A i \in 1 .. Len(stack) - 1 : stack'[i] = stack[i + 1]
  BY StackShapes
<1>2. ASSUME NEW i \in DOMAIN stack', stack'[i].op # "drain"  PROVE KeptOrNew(i)
  <2>1. i + 1 \in DOMAIN stack /\ stack'[i] = stack[i + 1]
        /\ (i + 1 \in DOMAIN stack' => (i + 1) + 1 \in DOMAIN stack)
    BY <1>1
  <2> QED
    BY <1>2, <2>1 DEF KeptOrNew
<1>3. ASSUME NEW n \in DOMAIN stack, stack[n].op # "drain"
      PROVE  Continues(n) \/ (n = 1 /\ LeaveTerminal)
  <2>1. CASE n = 1
    BY <1>3, <2>1
  <2>2. CASE n # 1
    <3>1. n - 1 \in DOMAIN stack' /\ stack'[n - 1] = stack[(n - 1) + 1] /\ (n - 1) + 1 = n
      BY <1>1, <2>2
    <3> QED
      BY <1>3, <3>1 DEF Continues
  <2> QED
    BY <2>1, <2>2
<1> QED
  BY <1>2, <1>3 DEF Moved

(* The top frame is replaced by one for the same execution, or a drain by  *)
(* a drain.                                                                *)
LEMMA FrameReplaced ==
  ASSUME TypeOK, stack # << >>, NEW f \in Frame, stack' = <<f>> \o Below,
         f.op = "drain" <=> stack[1].op = "drain", f.op # "drain" => f.arg = Arg
  PROVE  Moved
<1>1. /\ Len(stack) \in Nat /\ Len(stack) >= 1 /\ DOMAIN stack = 1 .. Len(stack)
      /\ DOMAIN stack' = 1 .. Len(stack)
      /\ stack'[1] = f
      /\ \A i \in 2 .. Len(stack) : stack'[i] = stack[i]
  BY StackShapes
<1>2. \A i \in DOMAIN stack : (stack'[i].op = "drain" <=> stack[i].op = "drain")
                              /\ (stack[i].op # "drain" => stack'[i].arg = stack[i].arg)
  <2> SUFFICES ASSUME NEW i \in DOMAIN stack
               PROVE  /\ stack'[i].op = "drain" <=> stack[i].op = "drain"
                      /\ stack[i].op # "drain" => stack'[i].arg = stack[i].arg
    OBVIOUS
  <2>1. CASE i = 1
    BY <1>1, <2>1 DEF Arg
  <2>2. CASE i \in 2 .. Len(stack)
    BY <1>1, <2>2
  <2>3. i = 1 \/ i \in 2 .. Len(stack)
    <3>1. Len(stack) \in Nat /\ i \in 1 .. Len(stack)
      BY <1>1
    <3> QED
      BY <3>1
  <2> QED
    BY <2>1, <2>2, <2>3
<1> QED
  BY <1>1, <1>2 DEF Moved, KeptOrNew, Continues

(* A drain is called on the way, or what a drain has started ends in it.   *)
LEMMA DrainCalled ==
  ASSUME TypeOK, stack # << >>, NEW f \in Frame, NEW g \in Frame, stack' = <<f, g>> \o Below,
         \/ f.op = "drain" /\ g.op # "drain" /\ g.arg = Arg /\ stack[1].op # "drain"
         \/ /\ f.op # "drain" /\ g.op = "drain" /\ stack[1].op = "drain"
            /\ f.arg \in Exec /\ Delegated(f.arg) /\ Live(f.arg)
  PROVE  Moved
<1>1. /\ Len(stack) \in Nat /\ Len(stack) >= 1 /\ DOMAIN stack = 1 .. Len(stack)
      /\ DOMAIN stack' = 1 .. Len(stack) + 1
      /\ stack'[1] = f /\ stack'[2] = g
      /\ \A i \in 2 .. Len(stack) : stack'[i + 1] = stack[i]
  <2>1. /\ DOMAIN stack' = 1 .. Len(stack) + 1
        /\ stack'[1] = f /\ stack'[2] = g
        /\ \A i \in 2 .. Len(stack) : stack'[i + 1] = stack[i]
    BY TwoFrames
  <2>2. Len(stack) \in Nat /\ Len(stack) >= 1 /\ DOMAIN stack = 1 .. Len(stack)
    BY StackShapes
  <2> QED
    BY <2>1, <2>2
<1>2. \A i \in 2 .. Len(stack) + 1 : /\ i = 2 \/ stack'[i] = stack[i - 1]
                                     /\ i - 1 \in DOMAIN stack
                                     /\ i + 1 \in DOMAIN stack' => (i - 1) + 1 \in DOMAIN stack
  <2> SUFFICES ASSUME NEW i \in 2 .. Len(stack) + 1
               PROVE  /\ i = 2 \/ stack'[i] = stack[i - 1]
                      /\ i - 1 \in DOMAIN stack
                      /\ i + 1 \in DOMAIN stack' => (i - 1) + 1 \in DOMAIN stack
    OBVIOUS
  <2>1. i - 1 \in DOMAIN stack /\ (i - 1) + 1 = i /\ (i = 2 \/ i - 1 \in 2 .. Len(stack))
        /\ (i + 1 \in DOMAIN stack' => (i - 1) + 1 \in DOMAIN stack)
    BY <1>1
  <2> QED
    BY <1>1, <2>1
<1>3. ASSUME NEW i \in DOMAIN stack', stack'[i].op # "drain"  PROVE KeptOrNew(i)
  <2>1. CASE i = 1
    BY <1>1, <1>3, <2>1 DEF KeptOrNew
  <2>2. CASE i = 2
    <3>1. g.op # "drain" /\ g.arg = stack[1].arg /\ stack[1].op # "drain" /\ stack'[2] = g
      BY <1>1, <1>3, <2>2 DEF Arg
    <3>2. 2 + 1 \in DOMAIN stack' => 1 + 1 \in DOMAIN stack
      BY <1>1
    <3> QED
      BY <1>1, <2>2, <3>1, <3>2 DEF KeptOrNew
  <2>3. CASE i \in 3 .. Len(stack) + 1
    <3>1. i - 1 \in DOMAIN stack /\ stack'[i] = stack[i - 1]
          /\ (i + 1 \in DOMAIN stack' => (i - 1) + 1 \in DOMAIN stack)
      BY <1>1, <1>2, <2>3
    <3> QED
      BY <1>3, <3>1 DEF KeptOrNew
  <2> QED
    BY <1>1, <2>1, <2>2, <2>3
<1>4. ASSUME NEW n \in DOMAIN stack, stack[n].op # "drain"  PROVE Continues(n)
  <2>1. CASE n = 1
    BY <1>1, <1>4, <2>1 DEF Continues, Arg
  <2>2. CASE n # 1
    <3>1. n + 1 \in DOMAIN stack' /\ stack'[n + 1] = stack[n]
      BY <1>1, <2>2
    <3> QED
      BY <1>4, <3>1 DEF Continues
  <2> QED
    BY <2>1, <2>2
<1> QED
  BY <1>3, <1>4 DEF Moved

(* The end of a delegated execution is called.                             *)
LEMMA FrameCalled ==
  ASSUME TypeOK, stack # << >>, NEW f \in Frame, stack' = <<f>> \o stack,
         f.arg \in Exec, Delegated(f.arg), Live(f.arg)
  PROVE  Moved
<1>1. /\ Len(stack) \in Nat /\ Len(stack) >= 1 /\ DOMAIN stack = 1 .. Len(stack)
      /\ DOMAIN stack' = 1 .. Len(stack) + 1
      /\ stack'[1] = f
      /\ \A i \in 1 .. Len(stack) : stack'[i + 1] = stack[i]
  BY StackShapes
<1>2. ASSUME NEW i \in DOMAIN stack', stack'[i].op # "drain"  PROVE KeptOrNew(i)
  <2>1. CASE i = 1
    BY <1>1, <2>1 DEF KeptOrNew
  <2>2. CASE i # 1
    <3>1. i - 1 \in DOMAIN stack /\ stack'[(i - 1) + 1] = stack[i - 1] /\ (i - 1) + 1 = i
          /\ (i + 1 \in DOMAIN stack' => (i - 1) + 1 \in DOMAIN stack)
      BY <1>1, <2>2
    <3> QED
      BY <1>2, <3>1 DEF KeptOrNew
  <2> QED
    BY <2>1, <2>2
<1>3. ASSUME NEW n \in DOMAIN stack, stack[n].op # "drain"  PROVE Continues(n)
  <2>1. n + 1 \in DOMAIN stack' /\ stack'[n + 1] = stack[n]
    BY <1>1
  <2> QED
    BY <1>3, <2>1 DEF Continues
<1> QED
  BY <1>2, <1>3 DEF Moved

-----------------------------------------------------------------------------
(* A step of a callback, as far as the tree is concerned: a new root, a    *)
(* new child, a successor, the end of an execution, or none of these.      *)
StartsRoot(e) ==
  /\ status[e] = "none"
  /\ root' = [root EXCEPT ![e] = e]
  /\ active' = active \cup {e}
  /\ status' = [status EXCEPT ![e] = "created"]
  /\ UNCHANGED <<parent, stack>>

StartsChild(p, c) ==
  /\ status[c] = "none" /\ Live(p) /\ p \in active
  /\ parent' = [parent EXCEPT ![c] = p]
  /\ root' = [root EXCEPT ![c] = root[p]]
  /\ active' = active \cup {c}
  /\ \E s \in Status : status' = [status EXCEPT ![c] = s]
  /\ stack' = stack \/ stack' = <<CallFrame("terminal", c)>>

HandsOff(e, s) ==
  /\ handoff[e] # "none" /\ status[e] # "none" /\ status[s] = "none" /\ e # s
  /\ parent' = [parent EXCEPT ![s] = parent[e]]
  /\ root' = [root EXCEPT ![s] = root[e]]
  /\ active' = active \cup {s}
  /\ \E t \in Status :
       /\ status' = [status EXCEPT ![s] = "created", ![e] = t]
       /\ \/ stack' = stack /\ t = status[e]
          \/ stack' = <<CallFrame("terminal", e)>> /\ e \in active

Ends(e, s) ==
  /\ Live(e) /\ s \in {"ended", "aborted"}
  /\ status' = [status EXCEPT ![e] = s]
  /\ stack' = <<CallFrame("terminal", e)>>
  /\ UNCHANGED <<identityVars, active>>

GoesOn ==
  /\ \A x \in Exec : Live(x) <=> status'[x] \in {"created", "queued", "running"}
  /\ stack' = stack \/ stack' = <<CallFrame("drain", 1)>>
  /\ UNCHANGED <<identityVars, active>>

TreeStep ==
  \/ \E e \in Exec : StartsRoot(e)
  \/ \E p, c \in Exec : StartsChild(p, c)
  \/ \E e, s \in Exec : HandsOff(e, s)
  \/ \E e \in Exec : \E s \in {"ended", "aborted"} : Ends(e, s)
  \/ GoesOn

(* Every callback is one of these steps, and no frame is at work before    *)
(* it.                                                                     *)
LEMMA CallbackTree ==
  ASSUME QueueInv, NEW e \in Exec, Lifecycle(e) \/ Delegation(e) \/ Handoff(e)
  PROVE  Quiescent /\ TreeStep
<1>0. TypeOK /\ Records /\ Quiescent
  BY DEF QueueInv, Lifecycle, Delegation, Handoff, StartRoot, RunMicrotask, Finish, Abort, Act, Delegate,
         DelegateProgrammatically, Refuse, Suspend, ReturnToRoot, Reacquire, AwaitPermit, Resume,
         At, ChildDone, RequestHandoff, PrepareHandoff, RejectHandoff, CommitHandoff, FailCheckpoint
<1> SUFFICES TreeStep
  BY <1>0
<1>1. \A x \in Exec : <<CallFrame("terminal", x)>> \o stack = <<CallFrame("terminal", x)>>
  BY <1>0, StackType, QuiescentFrames
<1>2. ASSUME NEW s \in {"ended", "aborted"}, FinishAs(e, s), Live(e), UNCHANGED <<identityVars, active>>
      PROVE  TreeStep
  BY <1>1, <1>2 DEF FinishAs, TreeStep, Ends
<1>3. ASSUME UNCHANGED <<identityVars, active, status>>, stack' = stack \/ stack' = <<CallFrame("drain", 1)>>
      PROVE  TreeStep
  BY <1>3 DEF TreeStep, GoesOn, Live
<1>4. ASSUME NEW c \in Exec, NEW failed \in BOOLEAN, StartDelegation(e, c, failed)
      PROVE  TreeStep
  <2>1. /\ status[c] = "none" /\ e \in active /\ ~Terminal(e)
        /\ parent' = [parent EXCEPT ![c] = e]
        /\ root' = [root EXCEPT ![c] = root[e]]
        /\ active' = active \cup {c}
        /\ \E s \in Status : status' = [status EXCEPT ![c] = s]
        /\ stack' = stack \/ stack' = <<CallFrame("terminal", c)>>
    BY <1>4 DEF StartDelegation, Preflight, Fresh, Status, TerminalStatus
  <2>2. Live(e)
    BY <1>0, <2>1 DEF Records, Terminal, Live, TypeOK, Status
  <2> QED
    BY <2>1, <2>2 DEF TreeStep, StartsChild
<1>5. CASE StartRoot(e)
  BY <1>5 DEF StartRoot, Fresh, TreeStep, StartsRoot
<1>6. CASE RunMicrotask(e)
  <2>1. /\ status' = [status EXCEPT ![e] = "running"] /\ status[e] = "created"
        /\ UNCHANGED <<identityVars, active, stack>>
    BY <1>6 DEF RunMicrotask
  <2>2. \A x \in Exec : Live(x) <=> status'[x] \in {"created", "queued", "running"}
    BY <1>0, <2>1 DEF TypeOK, Live
  <2>3. GoesOn
    BY <2>1, <2>2 DEF GoesOn
  <2> QED
    BY <2>3 DEF TreeStep
<1>7. CASE Finish(e) \/ Abort(e)
  BY <1>2, <1>7 DEF Finish, Abort, Thinking, Live
<1>8. ASSUME NEW k \in Calls,
             \/ Refuse(e, k) \/ Suspend(e, k) \/ ReturnToRoot(e, k)
             \/ Reacquire(e, k) \/ AwaitPermit(e, k) \/ Resume(e, k)
      PROVE  TreeStep
  BY <1>3, <1>8 DEF Refuse, Suspend, ReturnToRoot, Reacquire, AwaitPermit, Resume
<1>9. CASE Delegation(e)
  <2>1. CASE \E n \in Calls : Act(e, n)
    BY <1>3, <2>1 DEF Act
  <2>2. ASSUME NEW k \in Calls, \E c \in Exec, failed \in BOOLEAN : Delegate(e, k, c, failed)
        PROVE  TreeStep
    BY <1>4, <2>2 DEF Delegate
  <2>3. CASE \E c \in Exec, failed \in BOOLEAN : DelegateProgrammatically(e, c, failed)
    BY <1>4, <2>3 DEF DelegateProgrammatically
  <2>4. ASSUME NEW k \in Calls,
               \/ \E c \in Exec, failed \in BOOLEAN : Delegate(e, k, c, failed)
               \/ Refuse(e, k) \/ Suspend(e, k) \/ ReturnToRoot(e, k)
               \/ Reacquire(e, k) \/ AwaitPermit(e, k) \/ Resume(e, k)
        PROVE  TreeStep
    BY <1>8, <2>2, <2>4
  <2> QED
    BY <1>9, <2>1, <2>3, <2>4 DEF Delegation
<1>10. CASE RequestHandoff(e) \/ PrepareHandoff(e) \/ RejectHandoff(e)
  BY <1>3, <1>10 DEF RequestHandoff, PrepareHandoff, RejectHandoff
<1>11. ASSUME NEW s \in Exec, CommitHandoff(e, s)
       PROVE  TreeStep
  <2>1. /\ handoff[e] # "none" /\ status[s] = "none"
        /\ parent' = [parent EXCEPT ![s] = parent[e]]
        /\ root' = [root EXCEPT ![s] = root[e]]
        /\ active' = active \cup {s}
        /\ status' = [status EXCEPT ![s] = "created", ![e] = IF Terminal(e) THEN @ ELSE "handed_off"]
        /\ stack' = IF Terminal(e) THEN stack ELSE <<CallFrame("terminal", e)>>
    BY <1>11 DEF CommitHandoff, Fresh
  <2>2. status[e] # "none" /\ e # s
    BY <1>0, <2>1 DEF Records
  <2>3. Terminal(e) \/ e \in active
    BY <1>0, <2>2 DEF Records, Terminal, Live, TypeOK, Status
  <2>4. CASE Terminal(e)
    <3>1. status' = [status EXCEPT ![s] = "created", ![e] = @]
      BY <2>1, <2>4
    <3>2. status' = [status EXCEPT ![s] = "created", ![e] = status[e]] /\ status[e] \in Status
      BY <1>0, <2>2, <3>1 DEF TypeOK
    <3>3. HandsOff(e, s)
      BY <2>1, <2>2, <2>4, <3>2 DEF HandsOff
    <3> QED
      BY <3>3 DEF TreeStep
  <2>5. CASE ~Terminal(e)
    <3>1. /\ status' = [status EXCEPT ![s] = "created", ![e] = "handed_off"]
          /\ "handed_off" \in Status
          /\ stack' = <<CallFrame("terminal", e)>> /\ e \in active
      BY <2>1, <2>3, <2>5 DEF Status, TerminalStatus
    <3>2. HandsOff(e, s)
      BY <2>1, <2>2, <3>1 DEF HandsOff
    <3> QED
      BY <3>2 DEF TreeStep
  <2> QED
    BY <2>4, <2>5
<1>12. CASE FailCheckpoint(e)
  <2>1. CASE Terminal(e)
    BY <1>3, <1>12, <2>1 DEF FailCheckpoint
  <2>2. CASE ~Terminal(e)
    <3>1. handoff[e] # "none"
      BY <1>12 DEF FailCheckpoint
    <3>2. Live(e)
      BY <1>0, <2>2, <3>1 DEF Records, Terminal, Live, TypeOK, Status
    <3> QED
      BY <1>2, <1>12, <2>2, <3>2 DEF FailCheckpoint
  <2> QED
    BY <2>1, <2>2
<1> QED
  BY <1>0, <1>5, <1>6, <1>7, <1>9, <1>10, <1>11, <1>12 DEF Lifecycle, Handoff

-----------------------------------------------------------------------------
(* The inductive invariant of the trees.                                   *)
TreeInv == Lineage /\ Supervised /\ RootAtBottom /\ FramesRecorded /\ TreeHasRoot

(* Between two callbacks no frame is at work: every delegated execution    *)
(* that is live has a live parent, and every tree with records a live root.*)
LEMMA BetweenCallbacks ==
  ASSUME TypeOK, Quiescent, TreeInv
  PROVE  /\ DOMAIN stack = {}
         /\ \A e \in Exec : Delegated(e) /\ Live(e) => Live(parent[e])
         /\ \A e \in active : \E x \in Exec : root[x] = root[e] /\ ~Delegated(x) /\ Live(x)
BY QuiescentFrames DEF TreeInv, Supervised, TreeHasRoot, Rooted, Ending

(* With at most one frame, and that of an execution with a record, nothing *)
(* is to be said of the callers.                                           *)
LEMMA OneFrame ==
  ASSUME DOMAIN stack' = {} \/ DOMAIN stack' = {1},
         1 \in DOMAIN stack' /\ stack'[1].op # "drain" => stack'[1].arg \in active'
  PROVE  RootAtBottom' /\ FramesRecorded'
BY DEF RootAtBottom, FramesRecorded

(* These steps keep the trees in order: a new child has a live parent, a   *)
(* successor takes its predecessor's place, and what ends leaves its end   *)
(* to be done on the stack.                                                *)
LEMMA TreeStepKeeps ==
  ASSUME QueueInv, Depths, TreeInv, HandoffDepths \subseteq {0}, Quiescent, TreeStep
  PROVE  TreeInv'
<1>0. /\ TypeOK /\ Allocation /\ InOrder /\ Records
      /\ DOMAIN stack = {}
      /\ \A x \in Exec : Delegated(x) /\ Live(x) => Live(parent[x])
      /\ \A x \in active : \E y \in Exec : root[y] = root[x] /\ ~Delegated(y) /\ Live(y)
      /\ Lineage
  BY BetweenCallbacks DEF QueueInv, TreeInv
<1>1. ASSUME NEW f \in Frame, stack' = <<f>>
      PROVE  DOMAIN stack' = {1} /\ stack'[1] = f
  BY <1>0, <1>1, QuiescentFrames
<1>2. /\ \A x \in Exec : CallFrame("terminal", x) \in Frame
      /\ CallFrame("drain", 1) \in Frame
  BY <1>0, StackType
<1>3. ASSUME NEW e \in Exec, StartsRoot(e)  PROVE TreeInv'
  <2>1. /\ \A x \in Exec : x # e => root'[x] = root[x] /\ status'[x] = status[x]
        /\ root'[e] = e /\ status'[e] = "created"
        /\ active' = active \cup {e}
        /\ parent' = parent /\ stack' = stack
        /\ parent[e] = None /\ \A x \in Exec : parent[x] # e
        /\ e \notin active
    BY <1>0, <1>3 DEF StartsRoot, TypeOK, SchedulerTypeOK, Allocation, Records
  <2>2. RootAtBottom' /\ FramesRecorded'
    BY <1>0, <2>1, OneFrame
  <2>3. Lineage'
    BY <1>0, <2>1 DEF Lineage, Delegated, TypeOK, SchedulerTypeOK
  <2>4. Supervised'
    BY <1>0, <2>1 DEF Supervised, Delegated, Live, TypeOK, SchedulerTypeOK
  <2>5. ASSUME NEW x \in active', x # e
        PROVE  \E y \in Exec : y # e /\ root[y] = root[x] /\ ~Delegated(y) /\ Live(y)
    <3>1. PICK y \in Exec : root[y] = root[x] /\ ~Delegated(y) /\ Live(y)
      BY <1>0, <2>1, <2>5
    <3> QED
      BY <1>3, <3>1 DEF StartsRoot, Live
  <2>6. TreeHasRoot'
    <3> SUFFICES ASSUME NEW x \in active'
                 PROVE  \E y \in Exec : root'[y] = root'[x] /\ Rooted(y)'
      BY DEF TreeHasRoot
    <3>1. Rooted(e)'
      BY <2>1 DEF Rooted, Delegated, Live
    <3>2. CASE x = e
      BY <3>1, <3>2
    <3>3. CASE x # e
      <4>1. PICK y \in Exec : y # e /\ root[y] = root[x] /\ ~Delegated(y) /\ Live(y)
        BY <2>5, <3>3
      <4>2. root'[y] = root'[x] /\ Rooted(y)'
        BY <1>0, <2>1, <3>3, <4>1 DEF Rooted, Delegated, Live, TypeOK
      <4> QED
        BY <4>2
    <3> QED
      BY <3>2, <3>3
  <2> QED
    BY <2>2, <2>3, <2>4, <2>6 DEF TreeInv
<1>4. ASSUME NEW p \in Exec, NEW c \in Exec, StartsChild(p, c)  PROVE TreeInv'
  <2>1. /\ \A x \in Exec : x # c => parent'[x] = parent[x] /\ root'[x] = root[x] /\ status'[x] = status[x]
        /\ parent'[c] = p /\ root'[c] = root[p]
        /\ active' = active \cup {c}
        /\ \A x \in Exec : parent[x] # c
        /\ status[c] = "none" /\ p # c /\ Live(p) /\ p \in active
    <3>1. PICK s \in Status : status' = [status EXCEPT ![c] = s]
      BY <1>4 DEF StartsChild
    <3>2. \A x \in Exec : x # c => parent'[x] = parent[x] /\ root'[x] = root[x] /\ status'[x] = status[x]
      BY <1>0, <1>4, <3>1 DEF StartsChild, TypeOK, SchedulerTypeOK
    <3>3. parent'[c] = p /\ root'[c] = root[p] /\ active' = active \cup {c}
      BY <1>0, <1>4 DEF StartsChild, TypeOK, SchedulerTypeOK
    <3>4. status[c] = "none" /\ p # c /\ Live(p) /\ p \in active
      BY <1>4 DEF StartsChild, Live
    <3>5. \A x \in Exec : parent[x] # c
      BY <1>0, <3>4 DEF Records
    <3> QED
      BY <3>2, <3>3, <3>4, <3>5
  <2>2. RootAtBottom' /\ FramesRecorded'
    BY <1>0, <1>1, <1>2, <1>4, OneFrame DEF StartsChild, CallFrame
  <2>3. Lineage'
    <3>1. p < c
      BY <1>0, <2>1, FreshIsLast DEF Live
    <3> SUFFICES ASSUME NEW x \in Exec, parent'[x] # None
                 PROVE  root'[parent'[x]] = root'[x] /\ parent'[x] < x
      BY DEF Lineage, Delegated
    <3>2. CASE x = c
      BY <2>1, <3>1, <3>2
    <3>3. CASE x # c
      <4>1. parent'[x] = parent[x] /\ parent[x] \in Exec /\ parent[x] # c
        BY <1>0, <2>1, <3>3 DEF TypeOK, SchedulerTypeOK
      <4> QED
        BY <1>0, <2>1, <3>3, <4>1 DEF Lineage, Delegated
    <3> QED
      BY <3>2, <3>3
  <2>4. Supervised'
    <3> SUFFICES ASSUME NEW x \in Exec, parent'[x] # None, status'[x] \in {"created", "queued", "running"}
                 PROVE  status'[parent'[x]] \in {"created", "queued", "running"}
      BY DEF Supervised, Delegated, Live
    <3>1. CASE x = c
      BY <2>1, <3>1 DEF Live
    <3>2. CASE x # c
      <4>1. parent'[x] = parent[x] /\ parent[x] \in Exec /\ parent[x] # c /\ status'[x] = status[x]
        BY <1>0, <2>1, <3>2 DEF TypeOK, SchedulerTypeOK
      <4> QED
        BY <1>0, <2>1, <4>1 DEF Live, Delegated
    <3> QED
      BY <3>1, <3>2
  <2>5. \A x \in active : \E y \in Exec : y # c /\ root[y] = root[x] /\ ~Delegated(y) /\ Live(y)
    <3>1. \A y \in Exec : Live(y) => y # c
      BY <2>1 DEF Live
    <3> QED
      BY <1>0, <3>1
  <2>6. \A x \in active' : x # c => x \in active
    BY <2>1
  <2>7. \A x \in active' : \E z \in active : root'[x] = root[z]
    <3>1. c \notin active /\ active \subseteq Exec
      BY <1>0, <2>1 DEF Records, TypeOK
    <3> QED
      BY <2>1, <2>6, <3>1
  <2>8. TreeHasRoot'
    BY <2>1, <2>5, <2>7 DEF TreeHasRoot, Rooted, Delegated, Live
  <2> QED
    BY <2>2, <2>3, <2>4, <2>8 DEF TreeInv
<1>5. ASSUME NEW e \in Exec, NEW s \in Exec, HandsOff(e, s)  PROVE TreeInv'
  <2>1. PICK t \in Status : /\ status' = [status EXCEPT ![s] = "created", ![e] = t]
                            /\ \/ stack' = stack /\ t = status[e]
                               \/ stack' = <<CallFrame("terminal", e)>> /\ e \in active
    BY <1>5 DEF HandsOff
  <2>2. /\ \A x \in Exec : x # s => parent'[x] = parent[x] /\ root'[x] = root[x]
        /\ \A x \in Exec : x # s /\ x # e => status'[x] = status[x]
        /\ parent'[s] = parent[e] /\ root'[s] = root[e] /\ status'[s] = "created"
        /\ active' = active \cup {s}
        /\ \A x \in Exec : parent[x] # s
        /\ e # s /\ status[s] = "none" /\ status[e] # "none" /\ s \notin active
    BY <1>0, <1>5, <2>1 DEF HandsOff, TypeOK, SchedulerTypeOK, Records
  <2>3. parent[e] = None
    BY <1>0, <1>5 DEF HandsOff, Depths, Delegated
  <2>4. RootAtBottom' /\ FramesRecorded'
    BY <1>0, <1>1, <1>2, <1>5, OneFrame DEF HandsOff, CallFrame
  <2>5. Lineage'
    BY <1>0, <2>2, <2>3 DEF Lineage, Delegated, TypeOK, SchedulerTypeOK
  <2>6. status'[e] = status[e] \/ (1 \in DOMAIN stack' /\ stack'[1].op = "terminal" /\ stack'[1].arg = e)
    <3>1. CASE stack' = <<CallFrame("terminal", e)>>
      BY <1>1, <1>2, <3>1 DEF CallFrame
    <3>2. CASE t = status[e]
      BY <1>0, <2>1, <2>2, <3>2 DEF TypeOK
    <3> QED
      BY <2>1, <3>1, <3>2
  <2>7. Supervised'
    <3> SUFFICES ASSUME NEW x \in Exec, parent'[x] # None, status'[x] \in {"created", "queued", "running"}
                 PROVE  \/ status'[parent'[x]] \in {"created", "queued", "running"}
                        \/ 1 \in DOMAIN stack' /\ stack'[1].op = "terminal" /\ stack'[1].arg = parent'[x]
      BY DEF Supervised, Delegated, Live, Ending
    <3>1. x # s /\ x # e
      BY <2>2, <2>3
    <3>2. parent'[x] = parent[x] /\ parent[x] \in Exec /\ parent[x] # s /\ status'[x] = status[x]
      BY <1>0, <2>2, <3>1 DEF TypeOK, SchedulerTypeOK
    <3>3. Live(parent[x])
      BY <1>0, <3>2 DEF Delegated, Live
    <3>4. CASE parent[x] = e
      BY <2>6, <3>2, <3>3, <3>4 DEF Live
    <3>5. CASE parent[x] # e
      BY <2>2, <3>2, <3>3, <3>5 DEF Live
    <3> QED
      BY <3>4, <3>5
  <2>8. ASSUME NEW x \in active', x # s
        PROVE  \E y \in Exec : root'[y] = root'[x] /\ parent'[y] = None /\ status'[y] \in {"created", "queued", "running"}
    <3>1. x \in active /\ x \in Exec
      BY <1>0, <2>2, <2>8 DEF TypeOK
    <3>2. PICK y \in Exec : root[y] = root[x] /\ ~Delegated(y) /\ Live(y)
      BY <1>0, <3>1
    <3>3. y # s
      BY <2>2, <3>2 DEF Live
    <3>4. CASE y = e
      BY <2>2, <2>3, <2>8, <3>1, <3>2, <3>4
    <3>5. CASE y # e
      BY <2>2, <2>8, <3>1, <3>2, <3>3, <3>5 DEF Live, Delegated
    <3> QED
      BY <3>4, <3>5
  <2>9. TreeHasRoot'
    BY <2>2, <2>3, <2>8 DEF TreeHasRoot, Rooted, Delegated, Live
  <2> QED
    BY <2>4, <2>5, <2>7, <2>9 DEF TreeInv
<1>6. ASSUME NEW e \in Exec, NEW s \in {"ended", "aborted"}, Ends(e, s)  PROVE TreeInv'
  <2>1. /\ \A x \in Exec : x # e => status'[x] = status[x]
        /\ status'[e] = s
        /\ UNCHANGED <<parent, root, active>>
        /\ e \in active
        /\ stack' = <<CallFrame("terminal", e)>>
    BY <1>0, <1>6 DEF Ends, identityVars, TypeOK, Records
  <2>2. DOMAIN stack' = {1} /\ stack'[1].op = "terminal" /\ stack'[1].arg = e
    BY <1>1, <1>2, <2>1 DEF CallFrame
  <2>3. RootAtBottom' /\ FramesRecorded'
    BY <2>1, <2>2, OneFrame
  <2>4. Lineage'
    BY <1>0, <2>1 DEF Lineage, Delegated
  <2>5. Ending(e)'
    BY <2>2 DEF Ending
  <2>6. Supervised'
    <3> SUFFICES ASSUME NEW x \in Exec, Delegated(x), status'[x] \in {"created", "queued", "running"}
                 PROVE  status'[parent[x]] \in {"created", "queued", "running"} \/ parent[x] = e
      BY <2>1, <2>5 DEF Supervised, Delegated, Live, Ending
    <3>1. x # e /\ Live(x) /\ parent[x] \in Exec
      BY <1>0, <2>1 DEF Live, Delegated, TypeOK, SchedulerTypeOK
    <3> QED
      BY <1>0, <2>1, <3>1 DEF Live
  <2>7. TreeHasRoot'
    <3> SUFFICES ASSUME NEW x \in active
                 PROVE  \E y \in Exec : /\ root[y] = root[x] /\ ~Delegated(y)
                                        /\ status'[y] \in {"created", "queued", "running"} \/ y = e
      BY <2>1, <2>5 DEF TreeHasRoot, Rooted, Delegated, Live, Ending
    <3> QED
      BY <1>0, <2>1 DEF Live
  <2> QED
    BY <2>3, <2>4, <2>6, <2>7 DEF TreeInv
<1>7. CASE GoesOn
  <2>1. /\ \A x \in Exec : Live(x) <=> status'[x] \in {"created", "queued", "running"}
        /\ UNCHANGED <<parent, root, active>>
        /\ stack' = stack \/ stack' = <<CallFrame("drain", 1)>>
    BY <1>7 DEF GoesOn, identityVars
  <2>2. RootAtBottom' /\ FramesRecorded'
    BY <1>0, <1>1, <1>2, <2>1, OneFrame DEF CallFrame
  <2>3. Lineage'
    BY <1>0, <2>1 DEF Lineage, Delegated
  <2>4. Supervised'
    BY <1>0, <2>1 DEF Supervised, Delegated, Live, TypeOK, SchedulerTypeOK
  <2>5. TreeHasRoot'
    BY <1>0, <2>1 DEF TreeHasRoot, Rooted, Delegated, Live
  <2> QED
    BY <2>2, <2>3, <2>4, <2>5 DEF TreeInv
<1> QED
  BY <1>3, <1>4, <1>5, <1>6, <1>7 DEF TreeStep

-----------------------------------------------------------------------------
(* Only delegated executions end or lose their place among the live inside *)
(* a synchronous call, and their own end then runs as a frame.             *)
Faded(x) ==
  /\ Delegated(x)
  /\ \E i \in DOMAIN stack' : stack'[i].op # "drain" /\ stack'[i].arg = x

(* What a step of the top frame does to the frames at work and to the live *)
(* executions.                                                             *)
LEMMA SynchronousFrames ==
  ASSUME QueueInv, Synchronous
  PROVE  /\ Moved
         /\ \A x \in Exec : Live(x) => status'[x] \in {"created", "queued", "running"} \/ Faded(x)
         /\ \A x \in Exec : ~Live(x) => status'[x] = status[x]
<1>0. TypeOK /\ Allocation /\ Records /\ QueueRight
  BY DEF QueueInv
<1>1. stack # << >>
  BY DEF Synchronous, CancelQueued, ReleasePermit, DrainChild, DrainParent, DrainDone, CancelChild,
         LeaveTerminal, Top
<1>2. /\ \A x \in Exec : CallFrame("terminal", x) \in Frame /\ CallFrame("cancelDescendants", x) \in Frame
      /\ \A j \in Nat : CallFrame("drain", j) \in Frame
      /\ stack[1].op # "drain" => Arg \in Exec
  BY <1>0, <1>1, StackType
<1>3. ASSUME UNCHANGED status
      PROVE  /\ \A x \in Exec : Live(x) => status'[x] \in {"created", "queued", "running"} \/ Faded(x)
             /\ \A x \in Exec : ~Live(x) => status'[x] = status[x]
  BY <1>3 DEF Live
<1>4. CASE CancelQueued
  <2>1. UNCHANGED <<status, stack>>
    BY <1>4 DEF CancelQueued, runtimeVars
  <2>2. Moved
    BY <2>1 DEF Moved, KeptOrNew, Continues
  <2> QED
    BY <1>3, <2>1, <2>2
<1>5. CASE ReleasePermit
  <2>1. /\ UNCHANGED status /\ Top("terminal")
        /\ \/ stack' = <<CallFrame("drain", 1), CallFrame("cancelDescendants", Arg)>> \o Below
           \/ stack' = <<CallFrame("cancelDescendants", Arg)>> \o Below
    BY <1>5 DEF ReleasePermit
  <2>2. stack[1].op # "drain" /\ Arg \in Exec
    BY <1>2, <2>1 DEF Top
  <2>3. CASE stack' = <<CallFrame("drain", 1), CallFrame("cancelDescendants", Arg)>> \o Below
    <3>1. PICK f \in Frame, g \in Frame : /\ f.op = "drain" /\ g.op # "drain" /\ g.arg = Arg
                                          /\ stack' = <<f, g>> \o Below
      <4>1. /\ CallFrame("drain", 1) \in Frame /\ CallFrame("cancelDescendants", Arg) \in Frame
            /\ CallFrame("drain", 1).op = "drain"
            /\ CallFrame("cancelDescendants", Arg).op # "drain"
            /\ CallFrame("cancelDescendants", Arg).arg = Arg
        BY <1>2, <2>2 DEF CallFrame
      <4> QED
        BY <2>3, <4>1
    <3>2. Moved
      BY <1>0, <1>1, <2>2, <3>1, DrainCalled
    <3> QED
      BY <1>3, <2>1, <3>2
  <2>4. CASE stack' = <<CallFrame("cancelDescendants", Arg)>> \o Below
    <3>1. /\ CallFrame("cancelDescendants", Arg) \in Frame
          /\ CallFrame("cancelDescendants", Arg).op # "drain"
          /\ CallFrame("cancelDescendants", Arg).arg = Arg
      BY <1>2, <2>2 DEF CallFrame
    <3>2. Moved
      BY <1>0, <1>1, <2>2, <2>4, <3>1, FrameReplaced
    <3> QED
      BY <1>3, <2>1, <3>2
  <2> QED
    BY <2>1, <2>3, <2>4
<1>6. ASSUME NEW failed \in BOOLEAN, DrainChild(failed)
      PROVE  /\ Moved
             /\ \A x \in Exec : Live(x) => status'[x] \in {"created", "queued", "running"} \/ Faded(x)
             /\ \A x \in Exec : ~Live(x) => status'[x] = status[x]
  <2>1. PICK e \in Exec, j \in Nat :
        /\ status[e] = "queued" /\ Delegated(e)
        /\ status' = [status EXCEPT ![e] = IF failed THEN "ended" ELSE "running"]
        /\ stack' = IF failed THEN <<CallFrame("terminal", e), CallFrame("drain", j)>> \o Below
                              ELSE <<CallFrame("drain", j)>> \o Below
        /\ stack[1].op = "drain"
    <3> DEFINE j == First(Startable(Arg))
               e == queue[j].exec
    <3>1. j \in DOMAIN queue /\ e \in Exec /\ j \in Nat
      BY <1>0, <1>6, FirstOfQueue DEF DrainChild, TypeOK
    <3>2. Waits(e, queue[j].call) /\ queue[j].call = 0
      BY <1>0, <1>6, <3>1 DEF DrainChild, QueueRight, QueueSound, Finishing, Top, IsStart
    <3>3. status[e] = "queued" /\ Delegated(e)
      BY <1>0, <3>1, <3>2 DEF Waits, Allocation, Delegated
    <3>4. /\ status' = [status EXCEPT ![e] = IF failed THEN "ended" ELSE "running"]
          /\ stack' = IF failed THEN <<CallFrame("terminal", e), CallFrame("drain", j)>> \o Below
                                ELSE <<CallFrame("drain", j)>> \o Below
          /\ stack[1].op = "drain"
      BY <1>6 DEF DrainChild, Top
    <3> HIDE DEF j, e
    <3> QED
      BY <3>1, <3>3, <3>4
  <2>2. /\ \A x \in Exec : x # e => status'[x] = status[x]
        /\ ~failed => status'[e] = "running"
    BY <1>0, <2>1 DEF TypeOK
  <2>3. /\ CallFrame("terminal", e) \in Frame /\ CallFrame("drain", j) \in Frame
        /\ CallFrame("terminal", e).op # "drain" /\ CallFrame("terminal", e).arg = e
        /\ CallFrame("drain", j).op = "drain"
    BY <1>2 DEF CallFrame
  <2>4. Live(e)
    BY <2>1 DEF Live
  <2>5. CASE failed
    <3>1. PICK f \in Frame, g \in Frame : /\ f.op # "drain" /\ g.op = "drain" /\ f.arg = e
                                          /\ stack' = <<f, g>> \o Below
      BY <2>1, <2>3, <2>5
    <3>2. Moved
      BY <1>0, <1>1, <2>1, <2>4, <3>1, DrainCalled
    <3>3. 1 \in DOMAIN stack' /\ stack'[1] = f
      <4>1. DOMAIN stack' = 1 .. Len(stack) + 1 /\ stack'[1] = f
        BY <1>0, <1>1, <3>1, TwoFrames
      <4>2. Len(stack) \in Nat
        BY <1>0, <1>1, StackShapes
      <4> QED
        BY <4>1, <4>2
    <3>4. Faded(e)
      BY <2>1, <3>1, <3>3 DEF Faded
    <3> QED
      BY <2>2, <2>4, <3>2, <3>4 DEF Live
  <2>6. CASE ~failed
    <3>1. stack' = <<CallFrame("drain", j)>> \o Below
      BY <2>1, <2>6
    <3>2. Moved
      BY <1>0, <1>1, <2>1, <2>3, <3>1, FrameReplaced
    <3> QED
      BY <2>2, <2>4, <2>6, <3>2 DEF Live
  <2> QED
    BY <2>5, <2>6
<1>7. CASE DrainParent
  <2>1. PICK j \in Nat : UNCHANGED status /\ stack' = <<CallFrame("drain", j)>> \o Below /\ stack[1].op = "drain"
    BY <1>0, <1>7, FirstOfQueue DEF DrainParent, Top, TypeOK
  <2>2. CallFrame("drain", j) \in Frame /\ CallFrame("drain", j).op = "drain"
    BY <1>2 DEF CallFrame
  <2>3. Moved
    BY <1>0, <1>1, <2>1, <2>2, FrameReplaced
  <2> QED
    BY <1>3, <2>1, <2>3
<1>8. CASE DrainDone \/ LeaveTerminal
  <2>1. UNCHANGED status /\ stack' = Below /\ (stack[1].op = "drain" \/ LeaveTerminal)
    BY <1>8 DEF DrainDone, LeaveTerminal, Top
  <2>2. Moved
    BY <1>0, <1>1, <2>1, FramesGo
  <2> QED
    BY <1>3, <2>1, <2>2
<1>9. CASE CancelChild
  <2> DEFINE c == First(LiveChildren(Arg))
  <2>1. c \in LiveChildren(Arg)
    <3>1. LiveChildren(Arg) \in SUBSET Nat
      BY SchedulerAssumption DEF LiveChildren, Children, Exec
    <3> QED
      BY <1>9, <3>1, FirstIsFirst DEF CancelChild
  <2>2. c \in Exec /\ Delegated(c) /\ Live(c)
    <3>1. c \in Exec /\ parent[c] = Arg /\ c \in active /\ ~Terminal(c)
      BY <2>1 DEF LiveChildren, Children
    <3>2. Arg \in Exec
      BY <1>2, <1>9 DEF CancelChild, Top
    <3>3. Arg # None
      BY <3>2, SchedulerAssumption DEF Exec, None
    <3> QED
      BY <1>0, <3>1, <3>3 DEF Delegated, Records, Terminal, Live, TypeOK, Status
  <2>3. /\ status' = [status EXCEPT ![c] = "aborted"]
        /\ stack' = <<CallFrame("terminal", c)>> \o stack
    BY <1>9 DEF CancelChild, FinishAs
  <2> HIDE DEF c
  <2>4. /\ CallFrame("terminal", c) \in Frame
        /\ CallFrame("terminal", c).op # "drain" /\ CallFrame("terminal", c).arg = c
    BY <1>2, <2>2 DEF CallFrame
  <2>5. Moved
    BY <1>0, <1>1, <2>2, <2>3, <2>4, FrameCalled
  <2>6. Faded(c)
    <3>1. DOMAIN stack' = 1 .. Len(stack) + 1 /\ stack'[1] = CallFrame("terminal", c) /\ Len(stack) \in Nat
      BY <1>0, <1>1, <2>3, <2>4, StackShapes
    <3>2. 1 \in DOMAIN stack'
      BY <3>1
    <3> QED
      BY <2>2, <2>4, <3>1, <3>2 DEF Faded
  <2>7. \A x \in Exec : x # c => status'[x] = status[x]
    BY <1>0, <2>2, <2>3 DEF TypeOK
  <2> QED
    BY <2>2, <2>5, <2>6, <2>7 DEF Live
<1> QED
  BY <1>4, <1>5, <1>6, <1>7, <1>8, <1>9 DEF Synchronous

(* The frames keep the trees in order; when a call that ended an execution *)
(* is done, no live child of that execution is left.                       *)
LEMMA SynchronousTree ==
  ASSUME QueueInv, Flat, TreeInv, Synchronous
  PROVE  TreeInv'
<1>0. /\ TypeOK /\ Records /\ Lineage /\ Supervised /\ RootAtBottom /\ FramesRecorded /\ TreeHasRoot
      /\ Moved
      /\ \A x \in Exec : Live(x) => status'[x] \in {"created", "queued", "running"} \/ Faded(x)
      /\ \A x \in Exec : ~Live(x) => status'[x] = status[x]
  BY SynchronousFrames DEF QueueInv, TreeInv
<1>1. UNCHANGED <<parent, root, branch>> /\ (LeaveTerminal \/ UNCHANGED active)
  BY DEF Synchronous, CancelQueued, ReleasePermit, DrainChild, DrainParent, DrainDone, CancelChild,
         identityVars, LeaveTerminal, runtimeVars
<1>2. stack # << >>
  BY DEF Synchronous, CancelQueued, ReleasePermit, DrainChild, DrainParent, DrainDone, CancelChild,
         LeaveTerminal, Top
<1>3. /\ Len(stack) \in Nat /\ Len(stack) >= 1 /\ DOMAIN stack = 1 .. Len(stack)
      /\ DOMAIN Below = 1 .. Len(stack) - 1
      /\ stack[1].op # "drain" => Arg \in Exec
  BY <1>0, <1>2, StackShapes, StackType
<1>4. 1 \in DOMAIN stack
  BY <1>3
<1>5. LeaveTerminal => /\ stack[1].op # "drain" /\ Arg \in active /\ Arg \in Exec
                       /\ stack' = Below /\ LiveChildren(Arg) = {}
  BY <1>0, <1>2, <1>3, <1>4 DEF LeaveTerminal, Top, FramesRecorded, Arg
<1>6. \A x \in Exec : LeaveTerminal /\ Delegated(x) /\ Live(x) => parent[x] # Arg
  <2>1. \A x \in Exec : Delegated(x) /\ Live(x) => x \in active /\ branch[x] = x /\ ~Terminal(x)
    BY <1>0 DEF Flat, Records, Live, Terminal, TerminalStatus
  <2> QED
    BY <1>5, <2>1 DEF LiveChildren, Children
<1>7. LeaveTerminal /\ ~Delegated(Arg) => DOMAIN stack = {1}
  <2>1. LeaveTerminal /\ ~Delegated(Arg) => 1 + 1 \notin DOMAIN stack
    BY <1>0, <1>4, <1>5 DEF RootAtBottom, Arg
  <2>2. 1 + 1 \notin DOMAIN stack => Len(stack) = 1
    BY <1>3
  <2> QED
    BY <1>3, <2>1, <2>2
<1>8. \A p \in Exec : Ending(p) =>
        \/ \E i \in DOMAIN stack' : stack'[i].op # "drain" /\ stack'[i].arg = p
        \/ LeaveTerminal /\ Arg = p
  BY <1>0 DEF Ending, Moved, Continues, Arg
<1>9. Lineage'
  BY <1>0, <1>1 DEF Lineage, Delegated
<1>10. RootAtBottom'
  BY <1>0, <1>1 DEF RootAtBottom, Moved, KeptOrNew, Delegated
<1>11. FramesRecorded'
  <2>1. CASE UNCHANGED active
    BY <1>0, <2>1 DEF FramesRecorded, Moved, KeptOrNew, Records
  <2>2. CASE LeaveTerminal /\ active' # active
    <3>1. ~Delegated(Arg)
      BY <2>2 DEF LeaveTerminal
    <3>2. DOMAIN stack' = {}
      <4>1. DOMAIN stack' = 1 .. Len(stack) - 1
        BY <1>3, <1>5, <2>2
      <4>2. Len(stack) = 1
        BY <1>3, <1>7, <2>2, <3>1
      <4> QED
        BY <4>1, <4>2
    <3> QED
      BY <3>2 DEF FramesRecorded
  <2> QED
    BY <1>1, <2>1, <2>2
<1>12. Supervised'
  <2> SUFFICES ASSUME NEW x \in Exec, Delegated(x), status'[x] \in {"created", "queued", "running"}
               PROVE  \/ status'[parent[x]] \in {"created", "queued", "running"}
                      \/ \E i \in DOMAIN stack' : stack'[i].op # "drain" /\ stack'[i].arg = parent[x]
    BY <1>1 DEF Supervised, Delegated, Live, Ending
  <2>1. Live(x) /\ parent[x] \in Exec
    BY <1>0 DEF Live, Delegated, TypeOK, SchedulerTypeOK
  <2>2. Live(parent[x]) \/ Ending(parent[x])
    BY <1>0, <2>1 DEF Supervised
  <2> QED
    BY <1>0, <1>6, <1>8, <2>1, <2>2 DEF Faded
<1>13. TreeHasRoot'
  <2> SUFFICES ASSUME NEW e \in active'
               PROVE  \E y \in Exec : /\ root[y] = root[e] /\ ~Delegated(y)
                                      /\ \/ status'[y] \in {"created", "queued", "running"}
                                         \/ /\ status'[y] \in {"ended", "aborted"}
                                            /\ \E i \in DOMAIN stack' : stack'[i].op # "drain" /\ stack'[i].arg = y
    BY <1>1 DEF TreeHasRoot, Rooted, Delegated, Live, Ending
  <2>1. e \in active /\ e \in Exec
    BY <1>0, <1>1 DEF LeaveTerminal, TypeOK
  <2>2. PICK x \in Exec : root[x] = root[e] /\ Rooted(x)
    BY <1>0, <2>1 DEF TreeHasRoot
  <2>3. CASE Live(x)
    BY <1>0, <2>2, <2>3 DEF Rooted, Faded
  <2>4. CASE ~Live(x) /\ \E i \in DOMAIN stack' : stack'[i].op # "drain" /\ stack'[i].arg = x
    BY <1>0, <2>2, <2>4 DEF Rooted
  <2>5. CASE ~Live(x) /\ LeaveTerminal /\ Arg = x
    <3>1. status[x] \in {"ended", "aborted"} /\ ~Delegated(x)
      BY <2>2, <2>5 DEF Rooted
    <3>2. active' = {y \in active : root[y] # root[x] \/ ~Terminal(y)}
      BY <2>5, <3>1 DEF LeaveTerminal
    <3>3. Live(e)
      BY <1>0, <2>1, <2>2, <3>2 DEF Records, Terminal, Live, TypeOK, Status
    <3> DEFINE S == {y \in Exec : root[y] = root[e] /\ Live(y)}
    <3>4. PICK m \in Exec : root[m] = root[e] /\ Live(m) /\ \A y \in S : m <= y
      <4>1. S \in SUBSET Nat /\ S # {}
        BY <2>1, <3>3, SchedulerAssumption DEF Exec
      <4>2. First(S) \in S /\ \A y \in S : First(S) <= y
        BY ONLY <4>1, FirstIsFirst
      <4> QED
        BY <4>2
    <3>5. ~Delegated(m)
      <4> SUFFICES ASSUME Delegated(m)  PROVE FALSE
        OBVIOUS
      <4>1. /\ parent[m] \in Exec /\ m \in Nat /\ parent[m] \in Nat
            /\ root[parent[m]] = root[e] /\ parent[m] < m
        BY <1>0, <3>4, SchedulerAssumption, SMTT(30) DEF Lineage, Delegated, TypeOK, SchedulerTypeOK, Exec
      <4>2. ~Live(parent[m])
        <5>1. Live(parent[m]) => parent[m] \in S
          BY <4>1
        <5> QED
          BY <3>4, <4>1, <5>1
      <4>3. Ending(parent[m])
        BY <1>0, <3>4, <4>2 DEF Supervised
      <4>4. parent[m] = Arg
        BY <1>7, <2>5, <3>1, <4>3 DEF Ending, Arg
      <4> QED
        BY <1>6, <2>5, <3>4, <4>4
    <3> QED
      BY <1>0, <3>4, <3>5 DEF Faded
  <2> QED
    BY <1>8, <2>2, <2>3, <2>4, <2>5 DEF Rooted
<1> QED
  BY <1>9, <1>10, <1>11, <1>12, <1>13 DEF TreeInv

(* The inductive invariant holds at the start.                             *)
LEMMA TreeInit == Init => QInv /\ Depths /\ Flat /\ TreeInv
<1> SUFFICES ASSUME Init  PROVE TreeInv
  BY QInvInit, PermitInit
<1>1. \A e \in Exec : ~Delegated(e)
  BY DEF Init, SchedulerInit, Delegated
<1>2. stack = << >> /\ active = {} /\ DOMAIN stack = {}
  <2>1. stack = << >>
    BY DEF Init
  <2> QED
    BY <2>1, QInvInit, QuiescentFrames DEF Init, QInv, QueueInv, Quiescent
<1> QED
  BY <1>1, <1>2 DEF TreeInv, Lineage, Supervised, RootAtBottom, FramesRecorded, TreeHasRoot

(* Every step keeps it.                                                    *)
LEMMA TreeInvStep ==
  ASSUME HandoffDepths \subseteq {0}, QInv, Depths, Flat, TreeInv, [Next]_vars
  PROVE  (QInv /\ Depths /\ Flat /\ TreeInv)'
<1>1. QInv' /\ Depths' /\ Flat' /\ QueueInv
  BY QInvStep, DepthsStep DEF QInv
<1>2. TreeInv'
  <2>1. CASE UNCHANGED vars
    <3>1. UNCHANGED <<parent, root, status, active, stack>>
      BY <2>1 DEF vars, identityVars, runtimeVars
    <3> QED
      BY <3>1 DEF TreeInv, Lineage, Supervised, RootAtBottom, FramesRecorded, TreeHasRoot, Rooted,
                  Ending, Delegated, Live
  <2>2. CASE Synchronous
    BY <1>1, <2>2, SynchronousTree
  <2>3. ASSUME NEW e \in Exec, Lifecycle(e) \/ Delegation(e) \/ Handoff(e)
        PROVE  TreeInv'
    BY <1>1, <2>3, CallbackTree, TreeStepKeeps
  <2> QED
    BY <2>1, <2>2, <2>3 DEF Next
<1> QED
  BY <1>1, <1>2

(* It holds in every reachable state.                                      *)
LEMMA TreesHold ==
  ASSUME HandoffDepths \subseteq {0}
  PROVE  Spec => [](QInv /\ TreeInv)
<1>1. Init => QInv /\ Depths /\ Flat /\ TreeInv
  BY TreeInit
<1>2. QInv /\ Depths /\ Flat /\ TreeInv /\ [Next]_vars => (QInv /\ Depths /\ Flat /\ TreeInv)'
  BY TreeInvStep
<1> QED
  BY <1>1, <1>2, PTL DEF Spec

(* The cascade leaves no live child of an execution that has ended, where  *)
(* only root agents hand off.                                              *)
THEOREM NoneOrphaned ==
  ASSUME HandoffDepths \subseteq {0}
  PROVE  Spec => []NoOrphan
<1>1. QInv /\ TreeInv => NoOrphan
  BY BetweenCallbacks DEF QInv, QueueInv, NoOrphan
<1> QED
  BY <1>1, TreesHold, PTL

(* A tree without a live execution has no record left.                     *)
THEOREM TreesAreReleased ==
  ASSUME HandoffDepths \subseteq {0}
  PROVE  Spec => []FinishedTreesReleased
<1>1. QInv /\ TreeInv => FinishedTreesReleased
  BY BetweenCallbacks DEF QInv, QueueInv, FinishedTreesReleased, Tree
<1> QED
  BY <1>1, TreesHold, PTL
=============================================================================
