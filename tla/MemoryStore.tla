----------------------------- MODULE MemoryStore ------------------------------
(***************************************************************************)
(* Long-term memory: the commit of MemoryService and of FileMemoryStore    *)
(* (memory/memory-service.ts, memory/file/file-memory-store.ts) on one     *)
(* scope, with the lock file of memory/file/file-memory-lock.ts.           *)
(*                                                                         *)
(* Agents read documents and ask for mutations.  Each runs in a process;   *)
(* a process has one store, which queues the mutations of a scope, and the *)
(* processes meet at the directory.  Each action is one call of the file   *)
(* system, except that the documents of the scope are read in one step.  A *)
(* process may crash between any two; a process that is started again is   *)
(* another process.                                                        *)
(***************************************************************************)
EXTENDS MemoryMutation, Sequences, SequencesExt

CONSTANTS
  Procs, Agents,
  process,                  \* [Agents -> Procs]
  access,                   \* [Agents -> access], the policy of the agent's integration
  Mutations,                \* the mutations that the agents ask for
  InitialDocuments,         \* what earlier processes may have left in the scope
  NoRequest, Free,
  Crashable,                \* processes that may crash
  MaxRequests               \* bound: mutations an agent asks for

ASSUME StoreAssumption ==
  /\ process \in [Agents -> Procs]
  /\ access \in [Agents -> {"none", "read", "read_write"}]
  /\ Mutations \subseteq Mutation
  /\ InitialDocuments \subseteq Documents
  /\ Crashable \subseteq Procs
  /\ MaxRequests \in Nat
  /\ NoRequest \notin Request
  /\ Free \notin [by : Procs, whole : BOOLEAN]

VARIABLES
  documents,   \* the Markdown files of the scope
  lock,        \* .memory.lock: Free, or by whom and whether its text is written
  alive,       \* [Procs -> BOOLEAN]
  queue,       \* [Procs -> Seq(Agents)]: mutationQueues
  pc,          \* [Agents -> Place]: where the agent's commit is
  request,     \* [Agents -> Request]
  planned,     \* [Agents -> Contents]: afterContent, from the documents as loaded
  attempt,     \* [Agents -> 0..1]: the attempt of FileMemoryLock.acquire
  seen,        \* [Agents -> Documents]: the digests an agent was told last
  asked,       \* [Agents -> Nat]
  left         \* history: processes that could not write or remove their lock

vars == <<documents, lock, alive, queue, pc, request, planned, attempt, seen, asked, left>>

Place == {"idle", "queued", "retrying", "marking", "judging", "removing",
          "loading", "applying", "recording", "releasing", "dead"}

TypeOK ==
  /\ documents \in Documents
  /\ lock \in [by : Procs, whole : BOOLEAN] \cup {Free}
  /\ alive \in [Procs -> BOOLEAN]
  /\ queue \in [Procs -> Seq(Agents)]
  /\ pc \in [Agents -> Place]
  /\ request \in [Agents -> Request \cup {NoRequest}]
  /\ planned \in [Agents -> {Absent} \cup Contents]
  /\ attempt \in [Agents -> 0 .. 1]
  /\ seen \in [Agents -> Documents]
  /\ asked \in [Agents -> 0 .. MaxRequests]
  /\ left \subseteq Procs

Init ==
  /\ documents \in InitialDocuments
  /\ lock = Free
  /\ alive = [p \in Procs |-> TRUE]
  /\ queue = [p \in Procs |-> << >>]
  /\ pc = [a \in Agents |-> "idle"]
  /\ request = [a \in Agents |-> NoRequest]
  /\ planned = [a \in Agents |-> Absent]
  /\ attempt = [a \in Agents |-> 0]
  /\ seen = [a \in Agents |-> [r \in Refs |-> Absent]]
  /\ asked = [a \in Agents |-> 0]
  /\ left = {}

-----------------------------------------------------------------------------
Goto(a, place) == pc' = [pc EXCEPT ![a] = place]

(* A document as readDocument returns it, with its digest: the content     *)
(* stands for both, and an absent document is none.                        *)
ReadDocument(r) == documents[r]

(* memory_read, view: the agent is told the digest of a document.          *)
View(a, r) ==
  /\ pc[a] = "idle"
  /\ access[a] # "none"
  /\ seen[a][r] # ReadDocument(r)
  /\ seen' = [seen EXCEPT ![a][r] = ReadDocument(r)]
  /\ UNCHANGED <<documents, lock, alive, queue, pc, request, planned, attempt, asked, left>>

RequestFor(a, m) ==
  [mutation |-> m, expected |-> IF m.type = "create" THEN Absent ELSE seen[a][m.reference]]

(* memory_write: the service checks access and plans the mutation on the   *)
(* documents as they are now, then the store queues it.                    *)
Submit(a, m) ==
  /\ pc[a] = "idle"
  /\ access[a] = "read_write"
  /\ asked[a] < MaxRequests
  /\ Acceptable(documents, RequestFor(a, m))
  /\ request' = [request EXCEPT ![a] = RequestFor(a, m)]
  /\ queue' = [queue EXCEPT ![process[a]] = Append(@, a)]
  /\ asked' = [asked EXCEPT ![a] = @ + 1]
  /\ Goto(a, "queued")
  /\ UNCHANGED <<documents, lock, alive, planned, attempt, seen, left>>

(* The mutation's promise settles, and the queue runs the next one however *)
(* this one has ended.                                                     *)
Settle(a) ==
  /\ Goto(a, "idle")
  /\ queue' = [queue EXCEPT ![process[a]] = Tail(@)]
  /\ request' = [request EXCEPT ![a] = NoRequest]
  /\ planned' = [planned EXCEPT ![a] = Absent]
  /\ attempt' = [attempt EXCEPT ![a] = 0]

(* Mutant: the queue stops at the first mutation that is turned down.      *)
RefuseStuck(a) == Goto(a, "idle") /\ UNCHANGED <<queue, request, planned, attempt>>

(* acquire throws MEMORY_LOCKED, before the try that releases.             *)
Refuse(a) == Settle(a)

Trying(a) == pc[a] = "retrying" \/ (pc[a] = "queued" /\ Head(queue[process[a]]) = a)

(* writeFile with flag wx: the file is created, then its text written.     *)
CreateLock(a) ==
  /\ Trying(a)
  /\ lock = Free
  /\ lock' = [by |-> process[a], whole |-> FALSE]
  /\ Goto(a, "marking")
  /\ UNCHANGED <<documents, alive, queue, request, planned, attempt, seen, asked, left>>

FindLock(a) ==
  /\ Trying(a)
  /\ lock # Free
  /\ Goto(a, "judging")
  /\ UNCHANGED <<documents, lock, alive, queue, request, planned, attempt, seen, asked, left>>

(* The text goes to the file that was created, which may be gone by now.   *)
MarkLock(a) ==
  /\ pc[a] = "marking"
  /\ lock' = IF lock = [by |-> process[a], whole |-> FALSE] THEN [lock EXCEPT !.whole = TRUE] ELSE lock
  /\ Goto(a, "loading")
  /\ UNCHANGED <<documents, alive, queue, request, planned, attempt, seen, asked, left>>

(* Mutant: a lock is stale whoever holds it.                               *)
IsStaleAlways(l) == l # Free /\ l.whole

(* isStale: the lock names a process of this host that is not alive.  A    *)
(* lock that is gone, or whose text is not there, is not stale.            *)
IsStale(l) == l # Free /\ l.whole /\ ~alive[l.by]

JudgeLock(a) ==
  /\ pc[a] = "judging"
  /\ IF IsStale(lock)
       THEN Goto(a, "removing") /\ UNCHANGED <<queue, request, planned, attempt>>
       ELSE Refuse(a)
  /\ UNCHANGED <<documents, lock, alive, seen, asked, left>>

(* rm by path, whichever lock is there now; after the second attempt the   *)
(* mutation is refused.                                                    *)
RemoveStale(a) ==
  /\ pc[a] = "removing"
  /\ lock' = Free
  /\ IF attempt[a] = 1
       THEN Refuse(a)
       ELSE /\ attempt' = [attempt EXCEPT ![a] = 1]
            /\ Goto(a, "retrying")
            /\ UNCHANGED <<queue, request, planned>>
  /\ UNCHANGED <<documents, alive, seen, asked, left>>

(* The lock cannot be created, its text not be written, or a stale one not *)
(* be removed: acquire throws, before the try that releases, and the lock  *)
(* stays as it is.                                                         *)
AcquireFails(a) ==
  /\ Trying(a) \/ pc[a] \in {"marking", "removing"}
  /\ left' = IF pc[a] = "marking" THEN left \cup {process[a]} ELSE left
  /\ Settle(a)
  /\ UNCHANGED <<documents, lock, alive, seen, asked>>

-----------------------------------------------------------------------------
(* Under the lock the documents are loaded and everything is checked and   *)
(* planned again.                                                          *)
Load(a) ==
  /\ pc[a] = "loading"
  /\ IF Acceptable(documents, request[a])
       THEN /\ planned' = [planned EXCEPT ![a] = AfterContent(documents, request[a].mutation)]
            /\ Goto(a, "applying")
       ELSE Goto(a, "releasing") /\ UNCHANGED planned
  /\ UNCHANGED <<documents, lock, alive, queue, request, attempt, seen, asked, left>>

(* One rename or one rm, which a crash leaves done or not done.            *)
Apply(a) ==
  LET m == request[a].mutation
  IN  /\ pc[a] = "applying"
      /\ m.type = "rename" => documents[m.reference] # Absent
      /\ documents' =
           IF m.type = "rename" THEN After(documents, m)
           ELSE [documents EXCEPT ![m.reference] = planned[a]]
      /\ Goto(a, "recording")
      /\ UNCHANGED <<lock, alive, queue, request, planned, attempt, seen, asked, left>>

(* writeScopeMetadata, whose file says only which scope this is; the new   *)
(* digest is the tool's result.                                            *)
Record(a) ==
  LET m == request[a].mutation
  IN  /\ pc[a] = "recording"
      /\ seen' = [seen EXCEPT ![a] =
           IF m.type = "rename" THEN After(@, m)
           ELSE [@ EXCEPT ![m.reference] = planned[a]]]
      /\ Goto(a, "releasing")
      /\ UNCHANGED <<documents, lock, alive, queue, request, planned, attempt, asked, left>>

(* A read or a write that fails ends the commit with an error; when it is  *)
(* that of the metadata, the document has been changed all the same.       *)
CommitFails(a) ==
  /\ pc[a] \in {"loading", "applying", "recording"}
  /\ Goto(a, "releasing")
  /\ UNCHANGED <<documents, lock, alive, queue, request, planned, attempt, seen, asked, left>>

(* Mutant: a refused mutation keeps the lock.                              *)
ReleaseApplied(a) ==
  /\ pc[a] = "releasing"
  /\ lock' = IF planned[a] = Absent THEN lock ELSE Free
  /\ Settle(a)
  /\ UNCHANGED <<documents, alive, seen, asked, left>>

(* The finally: rm by path, whichever lock is there now.                   *)
Release(a) ==
  /\ pc[a] = "releasing"
  /\ lock' = Free
  /\ Settle(a)
  /\ UNCHANGED <<documents, alive, seen, asked, left>>

(* The rm fails, and the error is swallowed: the mutation is answered, and *)
(* the lock stays.                                                         *)
LeaveLock(a) ==
  /\ pc[a] = "releasing"
  /\ left' = left \cup {process[a]}
  /\ Settle(a)
  /\ UNCHANGED <<documents, lock, alive, seen, asked>>

(* Everything the process has in memory is gone; its lock file stays.      *)
Crash(p) ==
  /\ alive[p]
  /\ p \in Crashable
  /\ alive' = [alive EXCEPT ![p] = FALSE]
  /\ pc' = [a \in Agents |-> IF process[a] = p THEN "dead" ELSE pc[a]]
  /\ queue' = [queue EXCEPT ![p] = << >>]
  /\ UNCHANGED <<documents, lock, request, planned, attempt, seen, asked, left>>

-----------------------------------------------------------------------------
CommitStep(a) ==
  \/ CreateLock(a) \/ FindLock(a) \/ MarkLock(a) \/ JudgeLock(a) \/ RemoveStale(a) \/ AcquireFails(a)
  \/ Load(a) \/ Apply(a) \/ Record(a) \/ CommitFails(a) \/ Release(a) \/ LeaveLock(a)

Next ==
  \/ \E a \in Agents :
       (\E r \in Refs : View(a, r)) \/ (\E m \in Mutations : Submit(a, m)) \/ CommitStep(a)
  \/ \E p \in Procs : Crash(p)

Spec == Init /\ [][Next]_vars
FairSpec == Spec /\ \A a \in Agents : WF_vars(CommitStep(a))

-----------------------------------------------------------------------------
InCommit(a) == pc[a] \in {"marking", "loading", "applying", "recording", "releasing"}

(* The scope is the shared object of DocumentScope: every change of a      *)
(* document is one accepted mutation, applied to the very documents its    *)
(* digest names, whatever the other processes do between its check, its    *)
(* load and its write, and wherever a process dies.                        *)
Pending(a) ==
  IF pc[a] \in Place \ {"idle", "recording", "releasing", "dead"} THEN request[a] ELSE NoRequest

Documented == INSTANCE DocumentScope WITH pending <- [a \in Agents |-> Pending(a)]
CompareAndSet == Documented!Spec

(* A lock is that of a commit under way, of a process that has died, or of *)
(* one that could not write or remove it: no refusal, failed mutation or   *)
(* stolen lock leaves one behind in a process that goes on, for that would *)
(* be a scope nobody writes again.                                         *)
LockAccounted ==
  lock # Free =>
    \/ ~alive[lock.by] \/ lock.by \in left
    \/ \E a \in Agents : process[a] = lock.by /\ InCommit(a)

(* A mutation is answered, or its process dies: the mutations queued       *)
(* behind one that is refused or fails are run.                            *)
MutationsAnswered == \A a \in Agents : pc[a] = "queued" ~> pc[a] \in {"idle", "dead"}
=============================================================================
