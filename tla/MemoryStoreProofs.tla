--------------------------- MODULE MemoryStoreProofs ---------------------------
(***************************************************************************)
(* The memory store for every value of the constants: its types, the       *)
(* account of the lock, and, as long as no two processes can find the lock *)
(* of the same dead one, that it implements DocumentScope.                 *)
(*                                                                         *)
(* The argument follows the lock.  In a process the queue lets one         *)
(* mutation at a time past its head (Queued).  Between processes the lock  *)
(* file is that of whoever is inside the commit (Locked), and a lock that  *)
(* somebody has judged stale is still the dead process's when it is        *)
(* removed (Stealing).  So the documents do not change between the load of *)
(* a mutation and its write (Prepared).                                    *)
(***************************************************************************)
EXTENDS MemoryStore, SequenceTheorems, TLAPS

Busy(a) == pc[a] \notin {"idle", "queued", "dead"}

(* Who is not idle is in the queue of its process, and who is past waiting *)
(* is its head.                                                            *)
In(a, s) == \E i \in DOMAIN s : s[i] = a
Queued ==
  /\ \A a \in Agents : pc[a] = "dead" <=> ~alive[process[a]]
  /\ \A a \in Agents : pc[a] \notin {"idle", "dead"} =>
       request[a] \in Request /\ In(a, queue[process[a]])
  /\ \A a \in Agents : Busy(a) => Head(queue[process[a]]) = a
  /\ \A p \in Procs : ~alive[p] => p \in Crashable

(* Every lock is that of a commit under way, or of a process that is dead  *)
(* or has left it behind.                                                  *)
Held == lock # Free =>
  \/ ~alive[lock.by] \/ lock.by \in left
  \/ \E a \in Agents : process[a] = lock.by /\ InCommit(a)

(* Who is inside a commit has the lock.                                    *)
Locked ==
  \A a \in Agents : InCommit(a) =>
    lock # Free /\ lock.by = process[a] /\ (lock.whole <=> pc[a] # "marking")

(* Who removes a lock removes that of a dead process.                      *)
Stealing == \A a \in Agents : pc[a] = "removing" => lock # Free /\ ~alive[lock.by]

(* What is about to be written was planned on the documents as they are.   *)
Prepared ==
  \A a \in Agents : pc[a] = "applying" =>
    /\ Acceptable(documents, request[a])
    /\ planned[a] = AfterContent(documents, request[a].mutation)

-----------------------------------------------------------------------------
(* A mutation keeps the documents of the scope documents.                  *)
LEMMA AfterType ==
  ASSUME NEW d \in Documents, NEW m \in Mutation, Plannable(d, m)
  PROVE  After(d, m) \in Documents /\ AfterContent(d, m) \in {Absent} \cup Contents
<1>1. m.reference \in Refs /\ (m.type = "rename" => m.to \in Refs)
  BY DEF Mutation
<1>2. d \in [Refs -> {Absent} \cup Contents]
  BY DEF Documents
<1>3. AfterContent(d, m) \in {Absent} \cup Contents
  <2>1. CASE m.type = "create"
    BY <2>1 DEF AfterContent, Mutation
  <2>2. CASE m.type = "replace" \/ m.type = "insert"
    <3>1. d[m.reference] \in Contents /\ m.new \in Facts
      BY <1>1, <1>2, <2>2 DEF Plannable, Mutation
    <3> QED
      BY <2>2, <3>1 DEF AfterContent, Contents
  <2>3. CASE m.type = "delete" \/ m.type = "rename"
    BY <2>3 DEF AfterContent
  <2> QED
    BY <2>1, <2>2, <2>3 DEF Mutation
<1>4. After(d, m) \in Documents
  <2>1. CASE m.type = "rename"
    BY <1>1, <1>2, <2>1 DEF After, Documents
  <2>2. CASE m.type # "rename"
    BY <1>1, <1>2, <1>3, <2>2 DEF After, Documents
  <2> QED
    BY <2>1, <2>2
<1> QED
  BY <1>3, <1>4

(* A queue with a member, one that an agent joins, one that its head leaves.*)
LEMMA QueueOps ==
  ASSUME NEW s \in Seq(Agents), NEW a \in Agents
  PROVE  /\ In(a, s) => s # << >>
         /\ Append(s, a) \in Seq(Agents) /\ In(a, Append(s, a))
         /\ \A b : In(b, s) => In(b, Append(s, a))
         /\ s # << >> => Head(Append(s, a)) = Head(s)
         /\ s # << >> => \A b : In(b, s) => b = Head(s) \/ In(b, Tail(s))
<1>1. Len(s) \in Nat /\ DOMAIN s = 1 .. Len(s)
  BY LenProperties
<1>2. In(a, s) => s # << >>
  <2>1. s = << >> => Len(s) = 0
    BY EmptySeq
  <2> QED
    BY <1>1, <2>1 DEF In
<1>3. /\ Append(s, a) \in Seq(Agents)
      /\ Len(Append(s, a)) = Len(s) + 1
      /\ \A i \in 1 .. Len(s) : Append(s, a)[i] = s[i]
      /\ Append(s, a)[Len(s) + 1] = a
  BY AppendProperties
<1>4. DOMAIN Append(s, a) = 1 .. Len(s) + 1
  BY <1>3, LenProperties
<1>5. In(a, Append(s, a)) /\ \A b : In(b, s) => In(b, Append(s, a))
  <2>1. Len(s) + 1 \in DOMAIN Append(s, a) /\ \A i \in DOMAIN s : i \in DOMAIN Append(s, a)
    BY <1>1, <1>4
  <2> QED
    BY <1>1, <1>3, <2>1 DEF In
<1>6. s # << >> => Head(Append(s, a)) = Head(s)
  <2>1. s # << >> => 1 \in 1 .. Len(s)
    BY <1>1, EmptySeq
  <2>2. Head(Append(s, a)) = Append(s, a)[1] /\ Head(s) = s[1]
    BY <1>3
  <2> QED
    BY <1>3, <2>1, <2>2
<1>7. ASSUME s # << >>, NEW b, In(b, s)  PROVE b = Head(s) \/ In(b, Tail(s))
  <2>1. /\ Tail(s) \in Seq(Agents) /\ Len(Tail(s)) = Len(s) - 1
        /\ \A i \in 1 .. Len(Tail(s)) : Tail(s)[i] = s[i + 1]
        /\ Head(s) = s[1]
    BY <1>7, HeadTailProperties
  <2>2. DOMAIN Tail(s) = 1 .. Len(s) - 1
    BY <2>1, LenProperties
  <2>3. PICK i \in 1 .. Len(s) : s[i] = b
    BY <1>1, <1>7 DEF In
  <2>4. CASE i = 1
    BY <2>1, <2>3, <2>4
  <2>5. CASE i # 1
    <3>1. i - 1 \in DOMAIN Tail(s) /\ i - 1 \in 1 .. Len(Tail(s)) /\ (i - 1) + 1 = i
      BY <1>1, <2>1, <2>2, <2>5
    <3> QED
      BY <2>1, <2>3, <3>1 DEF In
  <2> QED
    BY <2>4, <2>5
<1> QED
  BY <1>2, <1>3, <1>5, <1>6, <1>7

(* The queue of a process from which the head is taken.                    *)
LEMMA TailType ==
  ASSUME TypeOK, NEW a \in Agents, queue[process[a]] # << >>
  PROVE  [queue EXCEPT ![process[a]] = Tail(@)] \in [Procs -> Seq(Agents)]
<1>1. process[a] \in Procs /\ queue[process[a]] \in Seq(Agents)
  BY StoreAssumption DEF TypeOK
<1>2. Tail(queue[process[a]]) \in Seq(Agents)
  BY <1>1, HeadTailProperties
<1> QED
  BY <1>1, <1>2 DEF TypeOK

(* Leaving a commit, a refusal or a turn.                                  *)
LEMMA SettleType ==
  ASSUME TypeOK, NEW a \in Agents, queue[process[a]] # << >>, Settle(a)
  PROVE  /\ pc' \in [Agents -> Place]
         /\ queue' \in [Procs -> Seq(Agents)]
         /\ request' \in [Agents -> Request \cup {NoRequest}]
         /\ planned' \in [Agents -> {Absent} \cup Contents]
         /\ attempt' \in [Agents -> 0 .. 1]
<1>1. queue' \in [Procs -> Seq(Agents)]
  BY TailType DEF Settle
<1> QED
  BY <1>1 DEF Settle, Goto, TypeOK, Place

(* Every step keeps the types.                                             *)
LEMMA StepType ==
  ASSUME TypeOK, Queued, [Next]_vars
  PROVE  TypeOK'
<1> USE StoreAssumption
<1>1. ASSUME NEW a \in Agents, NEW r \in Refs, View(a, r)  PROVE TypeOK'
  <2>1. ReadDocument(r) \in {Absent} \cup Contents
    BY DEF TypeOK, Documents, ReadDocument
  <2> QED
    BY <1>1, <2>1 DEF View, TypeOK, Documents
<1>2. ASSUME NEW a \in Agents, NEW m \in Mutations, Submit(a, m)  PROVE TypeOK'
  <2>1. m \in Mutation /\ m.reference \in Refs /\ process[a] \in Procs
    BY DEF Mutation
  <2>2. RequestFor(a, m) \in Request
    BY <2>1 DEF TypeOK, RequestFor, Request, Documents
  <2>3. queue' \in [Procs -> Seq(Agents)]
    <3>1. queue[process[a]] \in Seq(Agents)
      BY <2>1 DEF TypeOK
    <3>2. Append(queue[process[a]], a) \in Seq(Agents)
      BY <3>1, AppendProperties
    <3> QED
      BY <1>2, <2>1, <3>2 DEF Submit, TypeOK
  <2>4. asked' \in [Agents -> 0 .. MaxRequests]
    BY <1>2 DEF Submit, TypeOK
  <2>5. request' \in [Agents -> Request \cup {NoRequest}] /\ pc' \in [Agents -> Place]
    BY <1>2, <2>2 DEF Submit, Goto, TypeOK, Place
  <2> QED
    BY <1>2, <2>3, <2>4, <2>5 DEF Submit, TypeOK
<1>3. ASSUME NEW a \in Agents, CreateLock(a) \/ FindLock(a) \/ MarkLock(a)  PROVE TypeOK'
  <2>1. lock' \in [by : Procs, whole : BOOLEAN] \cup {Free}
    <3>1. \/ lock' = lock
          \/ lock' = [by |-> process[a], whole |-> FALSE]
          \/ lock = [by |-> process[a], whole |-> FALSE] /\ lock' = [lock EXCEPT !.whole = TRUE]
      BY <1>3 DEF CreateLock, FindLock, MarkLock
    <3>2. process[a] \in Procs
      OBVIOUS
    <3>3. \A b \in BOOLEAN : [by |-> process[a], whole |-> b] \in [by : Procs, whole : BOOLEAN]
      BY <3>2
    <3>4. ASSUME NEW l \in [by : Procs, whole : BOOLEAN]
          PROVE  [l EXCEPT !.whole = TRUE] \in [by : Procs, whole : BOOLEAN]
      OBVIOUS
    <3> QED
      BY <3>1, <3>3, <3>4 DEF TypeOK
  <2> QED
    BY <1>3, <2>1 DEF CreateLock, FindLock, MarkLock, Goto, TypeOK, Place
<1>4. ASSUME NEW a \in Agents, JudgeLock(a) \/ RemoveStale(a) \/ AcquireFails(a) \/ Release(a) \/ LeaveLock(a)
      PROVE  TypeOK'
  <2>1. queue[process[a]] # << >>
    <3>1. In(a, queue[process[a]]) /\ queue[process[a]] \in Seq(Agents)
      BY <1>4 DEF JudgeLock, RemoveStale, AcquireFails, Trying, Release, LeaveLock, Queued, TypeOK
    <3> QED
      BY <3>1, QueueOps
  <2>2. /\ UNCHANGED <<documents, alive, seen, asked>> /\ (lock' = lock \/ lock' = Free)
        /\ left' \subseteq Procs
    BY <1>4 DEF JudgeLock, RemoveStale, AcquireFails, Release, LeaveLock, TypeOK
  <2>3. CASE Settle(a)
    BY <2>1, <2>2, <2>3, SettleType DEF TypeOK
  <2>4. CASE ~Settle(a)
    <3>1. /\ UNCHANGED <<queue, request, planned>>
          /\ Goto(a, "removing") \/ Goto(a, "retrying")
          /\ UNCHANGED attempt \/ attempt' = [attempt EXCEPT ![a] = 1]
      BY <1>4, <2>4 DEF JudgeLock, RemoveStale, AcquireFails, Release, LeaveLock, Refuse
    <3>2. pc' \in [Agents -> Place]
      BY <3>1 DEF Goto, TypeOK, Place
    <3>3. attempt' \in [Agents -> 0 .. 1]
      <4>1. attempt \in [Agents -> 0 .. 1] /\ 1 \in 0 .. 1
        BY DEF TypeOK
      <4> QED
        BY <3>1, <4>1
    <3> QED
      BY <2>2, <3>1, <3>2, <3>3 DEF TypeOK
  <2> QED
    BY <2>3, <2>4
<1>5. ASSUME NEW a \in Agents, pc[a] \in {"loading", "applying", "recording"}
      PROVE  /\ request[a] \in Request
             /\ request[a].mutation \in Mutation
             /\ request[a].mutation.reference \in Refs
  <2>1. request[a] \in Request
    BY <1>5 DEF Queued
  <2> QED
    BY <2>1 DEF Request, Mutation
<1>6. ASSUME NEW a \in Agents, Load(a)  PROVE TypeOK'
  <2>1. Acceptable(documents, request[a]) =>
          AfterContent(documents, request[a].mutation) \in {Absent} \cup Contents
    BY <1>5, <1>6, AfterType DEF Load, Acceptable, TypeOK
  <2> QED
    BY <1>6, <2>1 DEF Load, Goto, TypeOK, Place
<1>7. ASSUME NEW a \in Agents, Apply(a)  PROVE TypeOK'
  <2> DEFINE m == request[a].mutation
  <2>1. m \in Mutation /\ m.reference \in Refs /\ (m.type = "rename" => m.to \in Refs)
    BY <1>5, <1>7 DEF Apply, Mutation
  <2>2. documents' \in Documents
    BY <1>7, <2>1 DEF Apply, After, TypeOK, Documents
  <2> QED
    BY <1>7, <2>2 DEF Apply, Goto, TypeOK, Place
<1>8. ASSUME NEW a \in Agents, Record(a)  PROVE TypeOK'
  <2> DEFINE m == request[a].mutation
  <2>1. m \in Mutation /\ m.reference \in Refs /\ (m.type = "rename" => m.to \in Refs)
    BY <1>5, <1>8 DEF Record, Mutation
  <2>2. seen[a] \in Documents /\ planned[a] \in {Absent} \cup Contents
    BY DEF TypeOK
  <2>3. After(seen[a], m) \in Documents \/ m.type # "rename"
    BY <2>1, <2>2 DEF After, Documents
  <2>4. [seen[a] EXCEPT ![m.reference] = planned[a]] \in Documents
    BY <2>1, <2>2 DEF Documents
  <2>5. seen' \in [Agents -> Documents]
    <3> HIDE DEF m
    <3>1. seen' = [seen EXCEPT ![a] = IF m.type = "rename" THEN After(seen[a], m)
                                      ELSE [seen[a] EXCEPT ![m.reference] = planned[a]]]
      BY <1>8 DEF Record, TypeOK, m
    <3> QED
      BY <2>3, <2>4, <3>1 DEF TypeOK
  <2> QED
    BY <1>8, <2>5 DEF Record, Goto, TypeOK, Place
<1>9. ASSUME NEW a \in Agents, CommitFails(a)  PROVE TypeOK'
  BY <1>9 DEF CommitFails, Goto, TypeOK, Place
<1>10. ASSUME NEW p \in Procs, Crash(p)  PROVE TypeOK'
  <2>1. << >> \in Seq(Agents)
    BY EmptySeq
  <2> QED
    BY <1>10, <2>1 DEF Crash, TypeOK, Place
<1>11. CASE UNCHANGED vars
  BY <1>11 DEF vars, TypeOK
<1> QED
  BY <1>1, <1>2, <1>3, <1>4, <1>6, <1>7, <1>8, <1>9, <1>10, <1>11 DEF Next, CommitStep

-----------------------------------------------------------------------------
(* What the queue of a process is after its head has been taken, or        *)
(* another agent has joined.                                               *)
LEMMA QueuedStep ==
  ASSUME TypeOK, Queued, [Next]_vars
  PROVE  Queued'
<1> USE StoreAssumption
<1>1. ASSUME NEW a \in Agents, NEW place \in Place \ {"idle", "queued", "dead"},
             Goto(a, place), Busy(a) \/ Trying(a), UNCHANGED <<queue, request, alive>>
      PROVE  Queued'
  <2>1. pc' = [pc EXCEPT ![a] = place] /\ pc[a] # "dead" /\ pc[a] # "idle"
    BY <1>1 DEF Goto, Busy, Trying
  <2>2. /\ \A b \in Agents : b # a => pc'[b] = pc[b]
        /\ pc'[a] = place
        /\ place \notin {"idle", "queued", "dead"}
    BY <2>1 DEF TypeOK
  <2>3. Head(queue[process[a]]) = a
    BY <1>1 DEF Queued, Trying, Busy
  <2> QED
    BY <1>1, <2>1, <2>2, <2>3 DEF Queued, Busy
<1>2. ASSUME NEW a \in Agents, Settle(a), Busy(a) \/ Trying(a), UNCHANGED alive
      PROVE  Queued'
  <2>1. /\ \A b \in Agents : b # a => pc'[b] = pc[b] /\ request'[b] = request[b]
        /\ pc'[a] = "idle"
        /\ \A p \in Procs : p # process[a] => queue'[p] = queue[p]
        /\ queue'[process[a]] = Tail(queue[process[a]])
    BY <1>2 DEF Settle, Goto, TypeOK
  <2>2. alive[process[a]] /\ pc[a] \notin {"idle", "dead"} /\ Head(queue[process[a]]) = a
    BY <1>2 DEF Queued, Busy, Trying
  <2>3. \A b \in Agents : b # a /\ process[b] = process[a] => ~Busy(b)
    BY <2>2 DEF Queued
  <2>4. ASSUME NEW b \in Agents, b # a, In(b, queue[process[b]])  PROVE In(b, queue'[process[b]])
    <3>1. queue[process[b]] \in Seq(Agents) /\ process[b] \in Procs
      BY DEF TypeOK
    <3>2. CASE process[b] = process[a]
      <4>1. b = Head(queue[process[b]]) \/ In(b, Tail(queue[process[b]]))
        BY <2>4, <3>1, QueueOps
      <4> QED
        BY <2>1, <2>2, <2>4, <3>2, <4>1
    <3>3. CASE process[b] # process[a]
      BY <2>1, <2>4, <3>1, <3>3
    <3> QED
      BY <3>2, <3>3
  <2>5. ASSUME NEW b \in Agents, pc'[b] \notin {"idle", "queued", "dead"}
        PROVE  Head(queue'[process[b]]) = b
    <3>1. b # a /\ Busy(b) /\ process[b] # process[a]
      BY <2>1, <2>3, <2>5 DEF Busy
    <3> QED
      BY <2>1, <3>1 DEF Queued
  <2> QED
    BY <1>2, <2>1, <2>2, <2>4, <2>5 DEF Queued, Busy
<1>3. ASSUME NEW a \in Agents, NEW r \in Refs, View(a, r)  PROVE Queued'
  BY <1>3 DEF View, Queued, Busy
<1>4. ASSUME NEW a \in Agents, NEW m \in Mutations, Submit(a, m)  PROVE Queued'
  <2>1. m \in Mutation /\ m.reference \in Refs /\ process[a] \in Procs
        /\ queue[process[a]] \in Seq(Agents)
    BY DEF Mutation, TypeOK
  <2>2. RequestFor(a, m) \in Request
    BY <2>1 DEF TypeOK, RequestFor, Request, Documents
  <2>3. /\ \A b \in Agents : b # a => pc'[b] = pc[b] /\ request'[b] = request[b]
        /\ pc'[a] = "queued" /\ request'[a] = RequestFor(a, m) /\ pc[a] = "idle"
        /\ \A p \in Procs : p # process[a] => queue'[p] = queue[p]
        /\ queue'[process[a]] = Append(queue[process[a]], a)
        /\ UNCHANGED alive
    BY <1>4, <2>1 DEF Submit, Goto, TypeOK
  <2>4. \A b \in Agents : In(b, queue[process[b]]) =>
          /\ In(b, queue'[process[b]])
          /\ Head(queue'[process[b]]) = Head(queue[process[b]])
    <3> SUFFICES ASSUME NEW b \in Agents, In(b, queue[process[b]])
                 PROVE  /\ In(b, queue'[process[b]])
                        /\ Head(queue'[process[b]]) = Head(queue[process[b]])
      OBVIOUS
    <3>1. queue[process[b]] \in Seq(Agents) /\ process[b] \in Procs
      BY DEF TypeOK
    <3>2. queue[process[b]] # << >>
      BY <3>1, QueueOps
    <3>3. CASE process[b] = process[a]
      <4>1. In(b, queue[process[a]]) /\ queue[process[a]] # << >>
        BY <3>2, <3>3
      <4>2. In(b, Append(queue[process[a]], a)) /\ Head(Append(queue[process[a]], a)) = Head(queue[process[a]])
        BY <2>1, <4>1, QueueOps
      <4> QED
        BY <2>3, <3>3, <4>2
    <3>4. CASE process[b] # process[a]
      BY <2>3, <3>1, <3>4
    <3> QED
      BY <3>3, <3>4
  <2>5. In(a, queue'[process[a]])
    BY <2>1, <2>3, QueueOps
  <2> QED
    BY <2>2, <2>3, <2>4, <2>5, ZenonT(30) DEF Queued, Busy
<1>5. ASSUME NEW a \in Agents, CommitStep(a)  PROVE Queued'
  <2>1. CASE CreateLock(a) \/ FindLock(a) \/ MarkLock(a)
    BY <1>1, <2>1 DEF CreateLock, FindLock, MarkLock, Place, Busy
  <2>2. CASE JudgeLock(a) \/ RemoveStale(a) \/ AcquireFails(a) \/ Release(a) \/ LeaveLock(a)
    BY <1>1, <1>2, <2>2 DEF JudgeLock, RemoveStale, AcquireFails, Release, LeaveLock, Refuse, Place, Busy
  <2>3. CASE Load(a) \/ Apply(a) \/ Record(a) \/ CommitFails(a)
    BY <1>1, <2>3 DEF Load, Apply, Record, CommitFails, Place, Busy
  <2> QED
    BY <1>5, <2>1, <2>2, <2>3 DEF CommitStep
<1>6. ASSUME NEW p \in Procs, Crash(p)  PROVE Queued'
  <2>1. /\ alive' = [alive EXCEPT ![p] = FALSE] /\ p \in Crashable
        /\ pc' = [a \in Agents |-> IF process[a] = p THEN "dead" ELSE pc[a]]
        /\ queue' = [queue EXCEPT ![p] = << >>]
        /\ UNCHANGED request
    BY <1>6 DEF Crash
  <2>2. /\ \A q \in Procs : q # p => alive'[q] = alive[q] /\ queue'[q] = queue[q]
        /\ alive'[p] = FALSE
        /\ \A a \in Agents : process[a] \in Procs
    BY <2>1 DEF TypeOK
  <2> QED
    BY <2>1, <2>2 DEF Queued, Busy
<1>7. CASE UNCHANGED vars
  BY <1>7 DEF vars, Queued, Busy
<1> QED
  BY <1>3, <1>4, <1>5, <1>6, <1>7 DEF Next

-----------------------------------------------------------------------------
(* A lock is left by its commit only with the commit's end, or with the    *)
(* process that dies.                                                      *)
LEMMA HeldStep ==
  ASSUME TypeOK, Queued, Held, [Next]_vars
  PROVE  Held'
<1> USE StoreAssumption
<1>1. ASSUME NEW a \in Agents, NEW place \in Place, Goto(a, place), InCommit(a) => place \in {"marking", "loading", "applying", "recording", "releasing"},
             UNCHANGED <<lock, alive, left>>
      PROVE  Held'
  <2>1. \A b \in Agents : InCommit(b) => pc'[b] \in {"marking", "loading", "applying", "recording", "releasing"}
    BY <1>1 DEF Goto, TypeOK, InCommit
  <2> QED
    BY <1>1, <2>1 DEF Held, InCommit
<1>2. CASE lock' = Free
  BY <1>2 DEF Held
<1>3. ASSUME NEW a \in Agents, JudgeLock(a)  PROVE Held'
  <2>1. /\ UNCHANGED <<lock, alive, left>> /\ pc[a] = "judging"
        /\ \E place \in Place : Goto(a, place)
    BY <1>3 DEF JudgeLock, Refuse, Settle, Place
  <2> QED
    BY <1>1, <2>1 DEF InCommit
<1>4. ASSUME NEW a \in Agents, CreateLock(a)  PROVE Held'
  <2>1. lock'.by = process[a] /\ pc'[a] = "marking"
    BY <1>4 DEF CreateLock, Goto, TypeOK
  <2> QED
    BY <2>1 DEF Held, InCommit
<1>5. ASSUME NEW a \in Agents, MarkLock(a)  PROVE Held'
  <2>1. /\ \A b \in Agents : InCommit(b) => pc'[b] \in {"marking", "loading", "applying", "recording", "releasing"}
        /\ UNCHANGED <<alive, left>>
        /\ (lock # Free /\ lock'.by = lock.by) \/ lock' = lock
    <3>1. /\ pc[a] = "marking" /\ pc' = [pc EXCEPT ![a] = "loading"] /\ UNCHANGED <<alive, left>>
          /\ lock' = IF lock = [by |-> process[a], whole |-> FALSE] THEN [lock EXCEPT !.whole = TRUE] ELSE lock
      BY <1>5 DEF MarkLock, Goto
    <3>2. CASE lock = [by |-> process[a], whole |-> FALSE]
      <4>1. lock \in [by : Procs, whole : BOOLEAN]
        BY <3>2
      <4>2. lock # Free
        BY <4>1
      <4>3. lock' = [lock EXCEPT !.whole = TRUE]
        BY <3>1, <3>2
      <4>4. lock'.by = lock.by
        BY <4>1, <4>3
      <4> QED
        BY <3>1, <4>2, <4>4 DEF TypeOK, InCommit
    <3>3. CASE lock # [by |-> process[a], whole |-> FALSE]
      BY <3>1, <3>3 DEF TypeOK, InCommit
    <3> QED
      BY <3>2, <3>3
  <2> QED
    BY <2>1 DEF Held, InCommit
<1>6. ASSUME NEW a \in Agents, FindLock(a) \/ Load(a) \/ Apply(a) \/ Record(a) \/ CommitFails(a)
      PROVE  Held'
  <2>1. /\ UNCHANGED <<lock, alive, left>>
        /\ \E place \in Place : /\ Goto(a, place)
                                /\ InCommit(a) => place \in {"marking", "loading", "applying", "recording", "releasing"}
    BY <1>6 DEF FindLock, Trying, Load, Apply, Record, CommitFails, Place, InCommit
  <2> QED
    BY <1>1, <2>1
<1>7. ASSUME NEW a \in Agents, (\E r \in Refs : View(a, r)) \/ (\E m \in Mutations : Submit(a, m))
      PROVE  Held'
  <2>1. UNCHANGED <<lock, alive, left>> /\ (UNCHANGED pc \/ (Goto(a, "queued") /\ pc[a] = "idle"))
    BY <1>7 DEF View, Submit
  <2> QED
    BY <1>1, <2>1 DEF Held, InCommit, Place
<1>8. ASSUME NEW p \in Procs, Crash(p)  PROVE Held'
  <2>1. /\ UNCHANGED <<lock, left>> /\ alive' = [alive EXCEPT ![p] = FALSE]
        /\ pc' = [a \in Agents |-> IF process[a] = p THEN "dead" ELSE pc[a]]
    BY <1>8 DEF Crash
  <2>2. \A q \in Procs : (q # p => alive'[q] = alive[q]) /\ ~alive'[p]
    BY <2>1 DEF TypeOK
  <2>3. lock # Free => lock.by \in Procs
    BY DEF TypeOK
  <2> QED
    BY <2>1, <2>2, <2>3 DEF Held, InCommit
<1>9. CASE UNCHANGED vars
  BY <1>9 DEF vars, Held, InCommit
<1>10. ASSUME NEW a \in Agents, AcquireFails(a) \/ LeaveLock(a)  PROVE Held'
  <2>1. /\ UNCHANGED <<lock, alive>> /\ pc' = [pc EXCEPT ![a] = "idle"]
        /\ left \subseteq left'
        /\ InCommit(a) => process[a] \in left'
    BY <1>10 DEF AcquireFails, Trying, LeaveLock, Settle, Goto, InCommit
  <2>2. \A b \in Agents \ {a} : pc'[b] = pc[b]
    BY <2>1 DEF TypeOK
  <2> QED
    BY <2>1, <2>2 DEF Held, InCommit
<1>11. ASSUME NEW a \in Agents, CommitStep(a)  PROVE Held'
  BY <1>2, <1>3, <1>4, <1>5, <1>6, <1>10, <1>11 DEF CommitStep, RemoveStale, Release
<1> QED
  BY <1>7, <1>8, <1>9, <1>11 DEF Next

-----------------------------------------------------------------------------
(* From any state: the types, the order in the queues, the account of the  *)
(* lock.                                                                   *)
MInv == TypeOK /\ Queued /\ Held

(* The types, the order of the queue and the account of the lock are kept  *)
(* by every behaviour, whatever dies and whatever is stolen.               *)
THEOREM MemoryInvariant == Spec => []MInv
<1> USE StoreAssumption
<1>1. Init => MInv
  <2> SUFFICES ASSUME Init  PROVE MInv
    OBVIOUS
  <2>1. Absent \in {Absent} \cup Contents /\ 0 \in 0 .. 1 /\ 0 \in 0 .. MaxRequests /\ << >> \in Seq(Agents)
    BY EmptySeq
  <2>2. [r \in Refs |-> Absent] \in Documents
    BY <2>1 DEF Documents
  <2>3. TypeOK
    BY <2>1, <2>2 DEF Init, TypeOK, Place
  <2>4. Queued
    BY DEF Init, Queued, Busy
  <2> QED
    BY <2>3, <2>4 DEF MInv, Init, Held
<1>2. MInv /\ [Next]_vars => MInv'
  BY StepType, QueuedStep, HeldStep DEF MInv
<1> QED
  BY <1>1, <1>2, PTL DEF Spec

(* TypeOK of the memory store, in every state.                             *)
THEOREM MemoryTypeCorrect == Spec => []TypeOK
<1>1. MInv => TypeOK
  BY DEF MInv
<1> QED
  BY <1>1, MemoryInvariant, PTL

(* No refusal, failure or stolen lock leaves a lock behind in a process    *)
(* that goes on.                                                           *)
THEOREM LockIsAccounted == Spec => []LockAccounted
<1>1. MInv => LockAccounted
  BY DEF MInv, Held, LockAccounted
<1> QED
  BY <1>1, MemoryInvariant, PTL

-----------------------------------------------------------------------------
(* At most two processes are left to meet at the lock of a dead one: once  *)
(* a process has died there is one other.                                  *)
OneSurvivor == \A p \in Crashable : \A q, r \in Procs \ {p} : q = r

Active(a) == InCommit(a) \/ pc[a] = "removing"

(* One agent at a time, over all processes, writes under the lock or       *)
(* removes a stale one.                                                    *)
LEMMA OneActive ==
  ASSUME OneSurvivor, MInv, Locked, Stealing,
         NEW a \in Agents, NEW b \in Agents, Active(a), Active(b)
  PROVE  a = b
<1> USE StoreAssumption
<1>1. /\ Busy(a) /\ Busy(b)
      /\ process[a] \in Procs /\ process[b] \in Procs
      /\ alive[process[a]] /\ alive[process[b]]
  BY DEF MInv, Queued, Active, InCommit, Busy
<1>2. lock # Free /\ lock.by \in Procs
  BY DEF MInv, TypeOK, Active, Locked, Stealing
<1>3. process[a] = process[b]
  <2>1. CASE InCommit(a) /\ InCommit(b)
    BY <2>1 DEF Locked
  <2>2. CASE pc[a] = "removing" /\ pc[b] = "removing"
    <3>1. lock.by \in Crashable /\ lock.by # process[a] /\ lock.by # process[b]
      BY <1>1, <1>2, <2>2 DEF Stealing, MInv, Queued
    <3> QED
      BY <1>1, <3>1 DEF OneSurvivor
  <2>3. CASE InCommit(a) /\ pc[b] = "removing"
    BY <1>1, <2>3 DEF Locked, Stealing
  <2>4. CASE pc[a] = "removing" /\ InCommit(b)
    BY <1>1, <2>4 DEF Locked, Stealing
  <2> QED
    BY <2>1, <2>2, <2>3, <2>4 DEF Active
<1> QED
  BY <1>1, <1>3 DEF MInv, Queued

(* A step of one agent leaves the commits of the others alone.             *)
LEMMA OwnStep ==
  ASSUME TypeOK, NEW a \in Agents,
         (\E r \in Refs : View(a, r)) \/ (\E m \in Mutations : Submit(a, m)) \/ CommitStep(a)
  PROVE  /\ alive' = alive
         /\ \A b \in Agents \ {a} :
              pc'[b] = pc[b] /\ request'[b] = request[b] /\ planned'[b] = planned[b]
<1>1. CASE (\E r \in Refs : View(a, r)) \/ (\E m \in Mutations : Submit(a, m))
  BY <1>1 DEF View, Submit, Goto, TypeOK
<1>2. CASE CreateLock(a) \/ FindLock(a) \/ MarkLock(a)
  BY <1>2 DEF CreateLock, FindLock, MarkLock, Goto, TypeOK
<1>3. CASE JudgeLock(a) \/ RemoveStale(a) \/ AcquireFails(a) \/ Release(a) \/ LeaveLock(a)
  <2>1. UNCHANGED alive
    BY <1>3 DEF JudgeLock, RemoveStale, AcquireFails, Release, LeaveLock
  <2>2. CASE Settle(a)
    BY <2>1, <2>2 DEF Settle, Goto, TypeOK
  <2>3. CASE ~Settle(a)
    <3>1. UNCHANGED <<request, planned>> /\ (Goto(a, "removing") \/ Goto(a, "retrying"))
      BY <1>3, <2>3 DEF JudgeLock, RemoveStale, AcquireFails, Release, LeaveLock, Refuse
    <3> QED
      BY <2>1, <3>1 DEF Goto, TypeOK
  <2> QED
    BY <2>2, <2>3
<1>4. CASE Load(a) \/ Apply(a) \/ Record(a) \/ CommitFails(a)
  BY <1>4 DEF Load, Apply, Record, CommitFails, Goto, TypeOK
<1> QED
  BY <1>1, <1>2, <1>3, <1>4 DEF CommitStep

(* The lock and who is at it.                                              *)
LockInv == Locked /\ Stealing

(* No step breaks the ownership of the lock, while one process survives to *)
(* steal it.                                                               *)
LEMMA LockInvStep ==
  ASSUME OneSurvivor, MInv, LockInv, [Next]_vars
  PROVE  LockInv'
<1> USE StoreAssumption
<1>1. TypeOK /\ Queued /\ Locked /\ Stealing
  BY DEF MInv, LockInv
<1>2. ASSUME NEW a \in Agents, UNCHANGED <<lock, alive>>,
             \A b \in Agents \ {a} : pc'[b] = pc[b],
             pc'[a] \in {"marking", "removing", "loading", "applying", "recording", "releasing"} =>
               pc'[a] = pc[a] \/ (InCommit(a) /\ pc[a] # "marking" /\ pc'[a] # "marking" /\ pc'[a] # "removing")
      PROVE  LockInv'
  BY <1>1, <1>2 DEF LockInv, Locked, Stealing, InCommit
<1>3. ASSUME NEW a \in Agents, (\E r \in Refs : View(a, r)) \/ (\E m \in Mutations : Submit(a, m))
      PROVE  LockInv'
  <2>1. UNCHANGED lock /\ (UNCHANGED pc \/ pc'[a] = "queued")
    BY <1>1, <1>3 DEF View, Submit, Goto, TypeOK
  <2>2. UNCHANGED alive /\ \A b \in Agents \ {a} : pc'[b] = pc[b]
    BY <1>1, <1>3, OwnStep
  <2> QED
    BY <1>2, <2>1, <2>2
<1>4. ASSUME NEW a \in Agents, FindLock(a) \/ Load(a) \/ Apply(a) \/ Record(a) \/ CommitFails(a)
      PROVE  LockInv'
  <2>1. UNCHANGED lock
    BY <1>4 DEF FindLock, Load, Apply, Record, CommitFails
  <2>2. UNCHANGED alive /\ \A b \in Agents \ {a} : pc'[b] = pc[b]
    BY <1>1, <1>4, OwnStep DEF CommitStep
  <2>3. \/ pc'[a] = "judging"
        \/ pc[a] \in {"loading", "applying", "recording"} /\ pc'[a] \in {"applying", "recording", "releasing"}
    BY <1>1, <1>4 DEF FindLock, Load, Apply, Record, CommitFails, Goto, TypeOK
  <2> QED
    BY <1>2, <2>1, <2>2, <2>3 DEF InCommit
<1>5. ASSUME NEW a \in Agents, JudgeLock(a) \/ AcquireFails(a) \/ LeaveLock(a)  PROVE LockInv'
  <2>1. UNCHANGED lock /\ (pc'[a] = "idle" \/ (pc'[a] = "removing" /\ IsStale(lock)))
    BY <1>1, <1>5 DEF JudgeLock, AcquireFails, LeaveLock, Refuse, Settle, Goto, TypeOK
  <2>2. UNCHANGED alive /\ \A b \in Agents \ {a} : pc'[b] = pc[b]
    BY <1>1, <1>5, OwnStep DEF CommitStep
  <2> QED
    BY <1>1, <2>1, <2>2 DEF LockInv, Locked, Stealing, InCommit, IsStale
<1>6. ASSUME NEW a \in Agents, CreateLock(a)  PROVE LockInv'
  <2>1. lock = Free /\ lock' = [by |-> process[a], whole |-> FALSE] /\ pc'[a] = "marking"
    BY <1>1, <1>6 DEF CreateLock, Goto, TypeOK
  <2>2. lock' \in [by : Procs, whole : BOOLEAN] /\ lock'.by = process[a] /\ ~lock'.whole
    BY <2>1
  <2>3. lock' # Free
    BY <2>2
  <2>4. \A b \in Agents \ {a} : pc'[b] = pc[b] /\ ~Active(b)
    BY <1>1, <1>6, <2>1, OwnStep DEF CommitStep, Active, Locked, Stealing
  <2>5. \A b \in Agents \ {a} : pc'[b] \notin {"marking", "removing", "loading", "applying", "recording", "releasing"}
    BY <2>4 DEF Active, InCommit
  <2> QED
    BY <2>1, <2>2, <2>3, <2>5 DEF LockInv, Locked, Stealing, InCommit
<1>7. ASSUME NEW a \in Agents, MarkLock(a) \/ RemoveStale(a) \/ Release(a)
      PROVE  \A b \in Agents \ {a} :
               pc'[b] \notin {"marking", "removing", "loading", "applying", "recording", "releasing"}
  <2>1. Active(a)
    BY <1>7 DEF MarkLock, RemoveStale, Release, Active, InCommit
  <2>2. \A b \in Agents \ {a} : ~Active(b)
    BY <1>1, <2>1, OneActive
  <2> QED
    BY <1>1, <1>7, <2>2, OwnStep DEF CommitStep, Active, InCommit
<1>8. ASSUME NEW a \in Agents, MarkLock(a)  PROVE LockInv'
  <2>1. pc[a] = "marking" /\ pc'[a] = "loading" /\ UNCHANGED alive
    BY <1>1, <1>8 DEF MarkLock, Goto, TypeOK
  <2>2. lock # Free /\ lock.by = process[a] /\ ~lock.whole
    BY <1>1, <2>1 DEF Locked, InCommit
  <2>3. lock \in [by : Procs, whole : BOOLEAN]
    BY <1>1, <2>2 DEF TypeOK
  <2>4. lock = [by |-> process[a], whole |-> FALSE]
    BY <2>2, <2>3
  <2>5. lock' = [lock EXCEPT !.whole = TRUE]
    BY <1>8, <2>4 DEF MarkLock
  <2>6. lock' \in [by : Procs, whole : BOOLEAN] /\ lock'.by = process[a] /\ lock'.whole
    BY <2>2, <2>3, <2>5
  <2>7. lock' # Free
    BY <2>6
  <2> QED
    BY <1>7, <1>8, <2>1, <2>6, <2>7 DEF LockInv, Locked, Stealing, InCommit
<1>9. ASSUME NEW a \in Agents, RemoveStale(a) \/ Release(a)  PROVE LockInv'
  <2>1. pc'[a] \in {"idle", "retrying"}
    BY <1>1, <1>9 DEF RemoveStale, Release, Refuse, Settle, Goto, TypeOK
  <2> QED
    BY <1>7, <1>9, <2>1 DEF LockInv, Locked, Stealing, InCommit
<1>10. ASSUME NEW p \in Procs, Crash(p)  PROVE LockInv'
  <2>1. /\ UNCHANGED lock /\ alive' = [alive EXCEPT ![p] = FALSE]
        /\ \A a \in Agents : pc'[a] = "dead" \/ pc'[a] = pc[a]
    BY <1>10 DEF Crash
  <2>2. \A q \in Procs : ~alive[q] => ~alive'[q]
    BY <1>1, <2>1 DEF TypeOK
  <2>3. lock # Free => lock.by \in Procs
    BY <1>1 DEF TypeOK
  <2> QED
    BY <1>1, <2>1, <2>2, <2>3 DEF LockInv, Locked, Stealing, InCommit
<1>11. CASE UNCHANGED vars
  BY <1>1, <1>11 DEF vars, LockInv, Locked, Stealing, InCommit
<1>12. ASSUME NEW a \in Agents, CommitStep(a)  PROVE LockInv'
  BY <1>4, <1>5, <1>6, <1>8, <1>9, <1>12 DEF CommitStep
<1> QED
  BY <1>3, <1>10, <1>11, <1>12 DEF Next

(* Between a load and its write nobody else writes.                        *)
LEMMA PreparedStep ==
  ASSUME OneSurvivor, MInv, LockInv, Prepared, [Next]_vars
  PROVE  Prepared'
<1> USE StoreAssumption
<1>1. TypeOK /\ Queued /\ Locked /\ Stealing
  BY DEF MInv, LockInv
<1>2. ASSUME NEW a \in Agents, UNCHANGED documents, pc'[a] # "applying",
             (\E r \in Refs : View(a, r)) \/ (\E m \in Mutations : Submit(a, m)) \/ CommitStep(a)
      PROVE  Prepared'
  <2>1. \A b \in Agents \ {a} : pc'[b] = pc[b] /\ request'[b] = request[b] /\ planned'[b] = planned[b]
    BY <1>1, <1>2, OwnStep
  <2> QED
    BY <1>2, <2>1 DEF Prepared
<1>3. ASSUME NEW a \in Agents, (\E r \in Refs : View(a, r)) \/ (\E m \in Mutations : Submit(a, m))
      PROVE  Prepared'
  <2>1. UNCHANGED documents /\ pc'[a] # "applying"
    BY <1>1, <1>3 DEF View, Submit, Goto, TypeOK
  <2> QED
    BY <1>2, <1>3, <2>1
<1>4. ASSUME NEW a \in Agents, Load(a)  PROVE Prepared'
  <2>1. \A b \in Agents \ {a} : pc'[b] = pc[b] /\ request'[b] = request[b] /\ planned'[b] = planned[b]
    BY <1>1, <1>4, OwnStep DEF CommitStep
  <2>2. /\ UNCHANGED <<documents, request>>
        /\ pc'[a] = "applying" =>
             /\ Acceptable(documents, request[a])
             /\ planned'[a] = AfterContent(documents, request[a].mutation)
    BY <1>1, <1>4 DEF Load, Goto, TypeOK
  <2> QED
    BY <2>1, <2>2 DEF Prepared
<1>5. ASSUME NEW a \in Agents, Apply(a)  PROVE Prepared'
  <2>1. Active(a) /\ pc'[a] = "recording"
    BY <1>1, <1>5 DEF Apply, Goto, TypeOK, Active, InCommit
  <2>2. \A b \in Agents \ {a} : ~Active(b)
    BY <1>1, <2>1, OneActive
  <2>3. \A b \in Agents \ {a} : pc'[b] # "applying"
    BY <1>1, <1>5, <2>2, OwnStep DEF CommitStep, Active, InCommit
  <2> QED
    BY <2>1, <2>3 DEF Prepared
<1>6. ASSUME NEW a \in Agents, CommitStep(a), ~Load(a), ~Apply(a)  PROVE Prepared'
  <2>1. UNCHANGED documents
    BY <1>6 DEF CommitStep, CreateLock, FindLock, MarkLock, JudgeLock, RemoveStale, AcquireFails, Record, CommitFails, Release, LeaveLock
  <2>2. pc'[a] # "applying"
    BY <1>1, <1>6 DEF CommitStep, CreateLock, FindLock, MarkLock, JudgeLock, RemoveStale, AcquireFails, Record, CommitFails, Release, LeaveLock,
       Refuse, Settle, Goto, TypeOK
  <2> QED
    BY <1>2, <1>6, <2>1, <2>2
<1>7. ASSUME NEW p \in Procs, Crash(p)  PROVE Prepared'
  BY <1>7 DEF Crash, Prepared
<1>8. CASE UNCHANGED vars
  BY <1>8 DEF vars, Prepared
<1> QED
  BY <1>3, <1>4, <1>5, <1>6, <1>7, <1>8 DEF Next

(* What the refinement rests on.                                           *)
CommitInv == MInv /\ LockInv /\ Prepared

(* With one survivor, what a commit writes is prepared under the lock from *)
(* the document it replaces, in every behaviour.                           *)
THEOREM CommitInvariant == ASSUME OneSurvivor PROVE Spec => []CommitInv
<1>1. Init => LockInv /\ Prepared
  BY DEF Init, LockInv, Locked, Stealing, Prepared, InCommit
<1>2. LockInv /\ Prepared /\ MInv /\ MInv' /\ [Next]_vars => (LockInv /\ Prepared)'
  BY LockInvStep, PreparedStep
<1>3. MInv /\ LockInv /\ Prepared => CommitInv
  BY DEF CommitInv
<1> QED
  BY <1>1, <1>2, <1>3, MemoryInvariant, PTL DEF Spec

-----------------------------------------------------------------------------
(* DocumentScope means by an acceptable mutation and by its effect what    *)
(* MemoryStore does.                                                       *)
LEMMA SameMeaning ==
  /\ \A d, q : Documented!Acceptable(d, q) <=> Acceptable(d, q)
  /\ \A d, m : Documented!After(d, m) = After(d, m)
  /\ Documented!Request = Request /\ Documented!Documents = Documents
<1>1. \A d, m : Documented!AfterContent(d, m) = AfterContent(d, m)
  BY DEF Documented!AfterContent, AfterContent
<1>2. \A d, m : Documented!After(d, m) = After(d, m)
  BY <1>1 DEF Documented!After, After
<1>3. \A d : Documented!TotalSize(d) = TotalSize(d)
  BY DEF Documented!TotalSize, TotalSize, Documented!MapThenSumSet, MapThenSumSet,
     Documented!MapThenFoldSet, MapThenFoldSet, Documented!Size, Size, Documented!Present, Present,
     Cardinality, Documented!Cardinality, IsFiniteSet, Documented!IsFiniteSet
<1>4. /\ \A d : Documented!Present(d) = Present(d)
      /\ \A s : Documented!Cardinality(s) = Cardinality(s)
      /\ \A c : Documented!Size(c) = Size(c)
  BY DEF Documented!Size, Size, Documented!Present, Present,
     Cardinality, Documented!Cardinality, IsFiniteSet, Documented!IsFiniteSet
<1>5. \A d, m : Documented!WithinLimits(d, m) <=> WithinLimits(d, m)
  BY <1>1, <1>2, <1>3, <1>4 DEF Documented!WithinLimits, WithinLimits
<1>6. \A d, q : Documented!Acceptable(d, q) <=> Acceptable(d, q)
  BY <1>2, <1>5 DEF Documented!Acceptable, Acceptable, Documented!Sensible, Sensible,
     Documented!DigestMatches, DigestMatches, Documented!Plannable, Plannable
<1>7. Documented!Request = Request /\ Documented!Documents = Documents
  BY DEF Documented!Request, Request, Documented!Mutation, Mutation, Documented!Contents, Contents,
     Documented!Documents, Documents
<1> QED
  BY <1>2, <1>6, <1>7

(* The pending requests, before a step and after it.                       *)
Open == Place \ {"idle", "recording", "releasing", "dead"}
(* The request that an agent has open, before and after a step.            *)
LEMMA PendingIs ==
  /\ \A a \in Agents : Pending(a) = IF pc[a] \in Open THEN request[a] ELSE NoRequest
  /\ [a \in Agents |-> Pending(a)]' =
       [a \in Agents |-> IF pc'[a] \in Open THEN request'[a] ELSE NoRequest]
BY DEF Pending, Open

(* A step of the store is one of the scope or leaves the scope as it is.   *)
LEMMA ScopeStep ==
  ASSUME OneSurvivor, CommitInv, [Next]_vars
  PROVE  [Documented!Next]_<<documents, [a \in Agents |-> Pending(a)]>>
<1> USE StoreAssumption
<1> DEFINE before == [a \in Agents |-> IF pc[a] \in Open THEN request[a] ELSE NoRequest]
           after == [a \in Agents |-> IF pc'[a] \in Open THEN request'[a] ELSE NoRequest]
<1>1. TypeOK /\ Queued /\ Locked /\ Stealing /\ Prepared
  BY DEF CommitInv, MInv, LockInv
<1>2. /\ [a \in Agents |-> Pending(a)] = before
      /\ [a \in Agents |-> Pending(a)]' = after
  BY PendingIs
<1>3. ASSUME NEW a \in Agents, UNCHANGED documents, after[a] = before[a] \/ after[a] = NoRequest,
             \A b \in Agents \ {a} : pc'[b] = pc[b] /\ request'[b] = request[b]
      PROVE  documents' = documents /\ (after = before \/ after = [b \in Agents |-> IF b \in {a} THEN NoRequest ELSE before[b]])
  <2>1. \A b \in Agents \ {a} : after[b] = before[b]
    BY <1>3
  <2> HIDE DEF after
  <2>2. after = [b \in Agents |-> after[b]]
    BY DEF after
  <2> QED
    BY <1>3, <2>1, <2>2
<1>4. ASSUME NEW a \in Agents, UNCHANGED documents, after[a] = before[a] \/ after[a] = NoRequest,
             \A b \in Agents \ {a} : pc'[b] = pc[b] /\ request'[b] = request[b]
      PROVE  [Documented!Next]_<<documents, [b \in Agents |-> Pending(b)]>>
  <2> HIDE DEF before, after
  <2>1. CASE after = before
    BY <1>2, <1>4, <2>1
  <2>2. CASE after = [b \in Agents |-> IF b \in {a} THEN NoRequest ELSE before[b]]
    <3>1. Documented!Drop({a})
      <4>1. [b \in Agents |-> Pending(b)]' = [b \in Agents |-> IF b \in {a} THEN NoRequest ELSE [c \in Agents |-> Pending(c)][b]]
        BY <1>2, <2>2
      <4> QED
        BY <1>4, <4>1 DEF Documented!Drop
    <3>2. {a} \in SUBSET Agents
      OBVIOUS
    <3> QED
      BY <3>1, <3>2 DEF Documented!Next
  <2> QED
    BY <1>3, <1>4, <2>1, <2>2
<1>5. ASSUME NEW a \in Agents, (\E r \in Refs : View(a, r))
      PROVE  [Documented!Next]_<<documents, [b \in Agents |-> Pending(b)]>>
  <2>1. UNCHANGED <<documents, pc, request>>
    BY <1>5 DEF View
  <2> QED
    BY <1>4, <2>1
<1>6. ASSUME NEW a \in Agents, NEW m \in Mutations, Submit(a, m)
      PROVE  [Documented!Next]_<<documents, [b \in Agents |-> Pending(b)]>>
  <2>1. /\ \A b \in Agents : b # a => pc'[b] = pc[b] /\ request'[b] = request[b]
        /\ pc'[a] = "queued" /\ request'[a] = RequestFor(a, m) /\ pc[a] = "idle"
        /\ UNCHANGED documents
    BY <1>1, <1>6 DEF Submit, Goto, TypeOK
  <2>2. RequestFor(a, m) \in Request
    <3>1. m \in Mutation /\ m.reference \in Refs
      BY DEF Mutation
    <3> QED
      BY <1>1, <3>1 DEF TypeOK, RequestFor, Request, Documents
  <2>3. before[a] = NoRequest /\ after[a] = RequestFor(a, m)
    BY <2>1 DEF Open, Place
  <2>4. \A b \in Agents : b # a => after[b] = before[b]
    BY <2>1
  <2>5. after = [before EXCEPT ![a] = after[a]]
    BY <2>4
  <2> HIDE DEF before, after
  <2>6. Documented!Submit(a)
    BY <1>2, <2>1, <2>2, <2>3, <2>5, SameMeaning DEF Documented!Submit
  <2> QED
    BY <2>6 DEF Documented!Next
<1>7. ASSUME NEW a \in Agents, Apply(a)
      PROVE  [Documented!Next]_<<documents, [b \in Agents |-> Pending(b)]>>
  <2> DEFINE m == request[a].mutation
  <2>1. pc[a] = "applying" /\ pc'[a] = "recording" /\ UNCHANGED request
    BY <1>1, <1>7 DEF Apply, Goto, TypeOK
  <2>2. /\ Acceptable(documents, request[a])
        /\ planned[a] = AfterContent(documents, m)
        /\ request[a] \in Request
    BY <1>1, <2>1 DEF Prepared, Queued
  <2>3. documents' = After(documents, m)
    <3> HIDE DEF m
    <3>1. documents' = IF m.type = "rename" THEN After(documents, m)
                       ELSE [documents EXCEPT ![m.reference] = planned[a]]
      BY <1>7 DEF Apply, m
    <3> QED
      BY <2>2, <3>1 DEF After
  <2>4. \A b \in Agents : b # a => pc'[b] = pc[b]
    BY <1>1, <1>7, OwnStep DEF CommitStep
  <2>5. before[a] = request[a] /\ after[a] = NoRequest
    BY <2>1 DEF Open, Place
  <2>6. \A b \in Agents : b # a => after[b] = before[b]
    BY <2>1, <2>4
  <2>7. after = [before EXCEPT ![a] = NoRequest]
    BY <2>5, <2>6
  <2> HIDE DEF before, after
  <2>8. Documented!Commit(a)
    BY <1>2, <2>2, <2>3, <2>5, <2>7, SameMeaning DEF Documented!Commit
  <2> QED
    BY <2>8 DEF Documented!Next
<1>8. ASSUME NEW a \in Agents, CommitStep(a), ~Apply(a)
      PROVE  [Documented!Next]_<<documents, [b \in Agents |-> Pending(b)]>>
  <2>1. UNCHANGED documents
    BY <1>8 DEF CommitStep, CreateLock, FindLock, MarkLock, JudgeLock, RemoveStale, AcquireFails, Load, Record, CommitFails, Release, LeaveLock
  <2>2. (pc'[a] \in Open => pc[a] \in Open /\ request'[a] = request[a])
    BY <1>1, <1>8 DEF CommitStep, CreateLock, FindLock, MarkLock, JudgeLock, RemoveStale, AcquireFails, Load, Record, CommitFails, Release, LeaveLock,
       Refuse, Settle, Goto, TypeOK, Trying, Open, Place
  <2>3. \A b \in Agents \ {a} : pc'[b] = pc[b] /\ request'[b] = request[b]
    BY <1>1, <1>8, OwnStep
  <2>4. after[a] = before[a] \/ after[a] = NoRequest
    BY <2>2
  <2> QED
    BY <1>4, <2>1, <2>3, <2>4
<1>9. ASSUME NEW p \in Procs, Crash(p)
      PROVE  [Documented!Next]_<<documents, [b \in Agents |-> Pending(b)]>>
  <2> DEFINE A == {a \in Agents : process[a] = p}
  <2>1. /\ UNCHANGED <<documents, request>>
        /\ pc' = [a \in Agents |-> IF process[a] = p THEN "dead" ELSE pc[a]]
    BY <1>9 DEF Crash
  <2>2. after = [a \in Agents |-> IF a \in A THEN NoRequest ELSE before[a]]
    BY <2>1 DEF Open, Place
  <2> HIDE DEF before, after
  <2>3. Documented!Drop(A)
    <3>1. [b \in Agents |-> Pending(b)]' = [b \in Agents |-> IF b \in A THEN NoRequest ELSE [c \in Agents |-> Pending(c)][b]]
      BY <1>2, <2>2
    <3> QED
      BY <2>1, <3>1 DEF Documented!Drop
  <2>4. A \in SUBSET Agents
    OBVIOUS
  <2> QED
    BY <2>3, <2>4 DEF Documented!Next
<1>10. CASE UNCHANGED vars
  <2>1. UNCHANGED <<documents, pc, request>>
    BY <1>10 DEF vars
  <2> QED
    BY <1>2, <2>1
<1> QED
  BY <1>5, <1>6, <1>7, <1>8, <1>9, <1>10 DEF Next

(* Several agents, in as many processes as can meet at one dead process's  *)
(* lock without there being two of them: every change of a document is     *)
(* one accepted mutation on the documents that its digest names, wherever  *)
(* processes die.                                                          *)
THEOREM ScopeIsShared == ASSUME OneSurvivor PROVE Spec => CompareAndSet
<1>1. Init => Documented!Init
  <2> SUFFICES ASSUME Init  PROVE Documented!Init
    OBVIOUS
  <2>1. documents \in Documents
    BY StoreAssumption DEF Init
  <2>2. [a \in Agents |-> Pending(a)] = [a \in Agents |-> NoRequest]
    BY PendingIs DEF Init, Open
  <2> QED
    BY <2>1, <2>2, SameMeaning DEF Documented!Init
<1>2. CommitInv /\ [Next]_vars => [Documented!Next]_<<documents, [a \in Agents |-> Pending(a)]>>
  BY ScopeStep
<1> QED
  BY <1>1, <1>2, CommitInvariant, PTL DEF Spec, CompareAndSet, Documented!Spec
=============================================================================
