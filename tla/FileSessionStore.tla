--------------------------- MODULE FileSessionStore ---------------------------
(***************************************************************************)
(* One session directory of src/src/sessions/file-session-store.ts, shared *)
(* by several processes that may crash between any two file operations.    *)
(*                                                                         *)
(* A process is one FileSessionStore and runs one operation at a time:     *)
(* create, mutate and delete wait in its mutation queue, and the acquires  *)
(* and releases of the controller, which are not queued, are awaited       *)
(* before a turn and between commands.  Only the heartbeat of the lease    *)
(* runs beside them.                                                       *)
(* Every step is one access to the file system (readdir with the reads     *)
(* that follow it counts as one), and pc says which one comes next.  A     *)
(* process that has crashed takes no more steps: its pid is dead and its   *)
(* files stay.  The reads of list, and of load without a lease, are left   *)
(* out: they change nothing.                                               *)
(***************************************************************************)
EXTENDS Integers, FiniteSets

CONSTANTS
  NumProcesses,   \* processes that open the session
  MaxRevision,    \* bound: revisions ever written
  MaxCrashes      \* bound: processes that crash

ASSUME StoreAssumption ==
  /\ NumProcesses \in Nat \ {0}
  /\ MaxRevision \in Nat
  /\ MaxCrashes \in Nat

Proc == 1 .. NumProcesses
Nobody == 0
Author == 1                         \* the process whose draft the session is
Revision == 1 .. MaxRevision
Message == Proc \X Revision         \* who wrote it, in which revision

VARIABLES
  directory,   \* "absent", "present" or "deleted"
  revisions,   \* the revision files in it
  content,     \* [Revision -> SUBSET Message]: the transcript in each file
  intent,      \* the target revision in clear.intent, 0 without the file
  lease,       \* lease.json: its writer (Nobody: no file) and whether it is whole
  crashed,     \* the processes that are dead
  pc,          \* [Proc -> Step]
  op,          \* [Proc -> Operation]: the operation in progress
  refs,        \* [Proc -> 0 .. 2]: uses of the held lease, 0 if none is held
  expected,    \* [Proc -> 0 .. MaxRevision]: the revision mutate has read
  draft,       \* [Proc -> SUBSET Message]: the transcript it will commit
  stale,       \* [Proc -> SUBSET Revision]: files its cleanup has still to remove
  beating      \* the processes whose heartbeat has truncated the lease

fileVars == <<directory, revisions, content, intent>>
mutateVars == <<expected, draft>>
vars == <<fileVars, lease, crashed, pc, op, mutateVars, refs, stale, beating>>

(* attach and newDraft are store.acquire by the controller, detach is the  *)
(* release of that lease; the others are create, mutate with the three     *)
(* kinds of reducer, and deleteSession.                                    *)
Operation == {"none", "newDraft", "attach", "detach", "create", "add", "touch", "clear", "delete"}

Step == {"idle", "lookUp", "inspect", "openLease", "judgeLease", "unlinkStale", "reopenLease",
         "writeLease", "load", "intend", "assert", "check", "rename", "cleanUp", "dropIntent",
         "remove", "release", "unlinkLease"}

NoLease == [owner |-> Nobody, whole |-> FALSE]

TypeOK ==
  /\ directory \in {"absent", "present", "deleted"}
  /\ revisions \subseteq Revision
  /\ content \in [Revision -> SUBSET Message]
  /\ intent \in 0 .. MaxRevision
  /\ lease \in [owner : Proc \cup {Nobody}, whole : BOOLEAN]
  /\ crashed \subseteq Proc
  /\ pc \in [Proc -> Step]
  /\ op \in [Proc -> Operation]
  /\ refs \in [Proc -> 0 .. 2]
  /\ expected \in [Proc -> 0 .. MaxRevision]
  /\ draft \in [Proc -> SUBSET Message]
  /\ stale \in [Proc -> SUBSET Revision]
  /\ beating \subseteq Proc

Init ==
  /\ directory = "absent"
  /\ revisions = {}
  /\ content = [r \in Revision |-> {}]
  /\ intent = 0
  /\ lease = NoLease
  /\ crashed = {}
  /\ pc = [p \in Proc |-> "idle"]
  /\ op = [p \in Proc |-> "none"]
  /\ refs = [p \in Proc |-> 0]
  /\ expected = [p \in Proc |-> 0]
  /\ draft = [p \in Proc |-> {}]
  /\ stale = [p \in Proc |-> {}]
  /\ beating = {}

-----------------------------------------------------------------------------
Present == directory = "present"
Latest == CHOOSE r \in revisions : \A s \in revisions : s <= r

(* hasCompletedClearRevision: any empty transcript will do, whatever       *)
(* revision the intent names.                                              *)
CompletedClear == \E r \in revisions : content[r] = {}

Blocked == Present /\ intent # 0 /\ ~CompletedClear

(* loadLatestFromDir succeeds; a revision file is never torn, because it   *)
(* is synced before it is renamed into place.                              *)
Loads == Present /\ ~Blocked /\ revisions # {}

(* assertLease: the lease on disk is whole and names this process.         *)
OwnLease(p) == Present /\ lease = [owner |-> p, whole |-> TRUE]

Held(p) == refs[p] > 0
At(p, step) == p \notin crashed /\ pc[p] = step
Goto(p, step) ==
  /\ pc' = [pc EXCEPT ![p] = step]
  /\ op' = [op EXCEPT ![p] = IF step = "idle" THEN "none" ELSE @]
GotoOr(p, ok, step, otherwise) == Goto(p, IF ok THEN step ELSE otherwise)

(* What an operation does once the lease is held.                          *)
FirstStep(operation) ==
  CASE operation \in {"attach", "newDraft"} -> "idle"
    [] operation = "create" -> "assert"
    [] operation = "delete" -> "remove"
    [] OTHER -> "load"

(* The steps that withLeaseFileOperation keeps the heartbeat away from.    *)
InFileOperation(p) ==
  \/ pc[p] \in {"check", "rename", "cleanUp", "dropIntent"}
  \/ pc[p] = "assert" /\ op[p] = "clear"

-----------------------------------------------------------------------------
(* Every operation begins with acquire: a lease that is held already is    *)
(* used once more (heldLeases), otherwise the directory is looked up.      *)
Begin(p, operation) ==
  /\ At(p, "idle")
  /\ op' = [op EXCEPT ![p] = operation]
  /\ pc' = [pc EXCEPT ![p] = IF Held(p) THEN FirstStep(operation) ELSE "lookUp"]
  /\ refs' = IF Held(p) THEN [refs EXCEPT ![p] = @ + 1] ELSE refs
  /\ UNCHANGED <<fileVars, lease, crashed, expected, draft, stale, beating>>

(* SessionService.materialize is called once for a draft, under the lease  *)
(* of attachDraftBeforeMaterialize or without one.                         *)
BeginCreate(p) ==
  /\ p = Author
  /\ revisions = {}
  /\ directory # "deleted"
  /\ Held(p) \/ directory = "absent"
  /\ Begin(p, "create")

BeginAttach(p) ==
  /\ ~Held(p)
  /\ Begin(p, IF p = Author /\ directory = "absent" THEN "newDraft" ELSE "attach")

(* A controller that holds the lease of a draft has nothing to mutate or   *)
(* delete yet, and after a deletion it has a new draft.                    *)
BeginOther(p) ==
  /\ Held(p) => revisions # {}
  /\ \E operation \in {"add", "touch", "clear", "delete"} : Begin(p, operation)

Detach(p) ==
  /\ At(p, "idle")
  /\ Held(p)
  /\ op' = [op EXCEPT ![p] = "detach"]
  /\ pc' = [pc EXCEPT ![p] = "release"]
  /\ UNCHANGED <<fileVars, lease, crashed, expected, draft, refs, stale, beating>>

(* acquire: mkdir for a draft, access for anything else.                   *)
LookUp(p) ==
  /\ At(p, "lookUp")
  /\ IF op[p] \in {"create", "newDraft"}
       THEN /\ GotoOr(p, directory = "absent", "openLease", "idle")
            /\ directory' = IF directory = "absent" THEN "present" ELSE directory
       ELSE /\ GotoOr(p, Present, "inspect", "idle")
            /\ UNCHANGED directory
  /\ UNCHANGED <<revisions, content, intent, lease, crashed, mutateVars, refs, stale, beating>>

(* The load before the lease is taken.  It is not protected: a file that a *)
(* writer's cleanup removes between readdir and its read counts as broken. *)
Inspect(p) ==
  /\ At(p, "inspect")
  /\ \/ GotoOr(p, Loads, "openLease", "idle")
     \/ (\E q \in Proc : stale[q] # {}) /\ Goto(p, "idle")
  /\ UNCHANGED <<fileVars, lease, crashed, mutateVars, refs, stale, beating>>

(* writeNewLease: open with wx, which fails if there is a lease.           *)
OpenLease(p) ==
  /\ At(p, "openLease")
  /\ IF Present /\ lease = NoLease
       THEN lease' = [owner |-> p, whole |-> FALSE] /\ Goto(p, "writeLease")
       ELSE GotoOr(p, Present, "judgeLease", "idle") /\ UNCHANGED lease
  /\ UNCHANGED <<fileVars, crashed, mutateVars, refs, stale, beating>>

(* Mutant: the liveness of the lease's owner is not asked for.             *)
JudgeLeaseByPresence(p) ==
  /\ At(p, "judgeLease")
  /\ GotoOr(p, Present /\ lease.whole, "unlinkStale", "idle")
  /\ UNCHANGED <<fileVars, lease, crashed, mutateVars, refs, stale, beating>>

(* Mutant: the liveness test is inverted.                                  *)
JudgeLeaseOfLiving(p) ==
  /\ At(p, "judgeLease")
  /\ GotoOr(p, Present /\ lease.whole /\ lease.owner \notin crashed, "unlinkStale", "idle")
  /\ UNCHANGED <<fileVars, lease, crashed, mutateVars, refs, stale, beating>>

(* tryClearStaleLease up to the unlink.  A lease that is torn is left      *)
(* alone.  The two reads are one step: the owner they agree on is dead and *)
(* writes nothing in between.                                              *)
JudgeLease(p) ==
  /\ At(p, "judgeLease")
  /\ GotoOr(p, Present /\ lease.whole /\ lease.owner \in crashed, "unlinkStale", "idle")
  /\ UNCHANGED <<fileVars, lease, crashed, mutateVars, refs, stale, beating>>

(* The unlink removes the lease that is there now.                         *)
UnlinkStale(p) ==
  /\ At(p, "unlinkStale")
  /\ lease' = NoLease
  /\ Goto(p, "reopenLease")
  /\ UNCHANGED <<fileVars, crashed, mutateVars, refs, stale, beating>>

ReopenLease(p) ==
  /\ At(p, "reopenLease")
  /\ IF Present /\ lease = NoLease
       THEN lease' = [owner |-> p, whole |-> FALSE] /\ Goto(p, "writeLease")
       ELSE UNCHANGED lease /\ Goto(p, "idle")
  /\ UNCHANGED <<fileVars, crashed, mutateVars, refs, stale, beating>>

(* The payload goes through the open handle: it shows up on disk only if   *)
(* the file is still the one that was opened.  The lease is held anyway.   *)
WriteLease(p) ==
  /\ At(p, "writeLease")
  /\ lease' = IF lease.owner = p THEN [lease EXCEPT !.whole = TRUE] ELSE lease
  /\ refs' = [refs EXCEPT ![p] = 1]
  /\ Goto(p, FirstStep(op[p]))
  /\ UNCHANGED <<fileVars, crashed, mutateVars, stale, beating>>

-----------------------------------------------------------------------------
Transcript(p) ==
  CASE op[p] = "add" -> content[Latest] \cup {<<p, Latest + 1>>}
    [] op[p] = "touch" -> content[Latest]
    [] OTHER -> {}

(* mutate under the lease: load, then the reducer.                         *)
Load(p) ==
  /\ At(p, "load")
  /\ Loads
  /\ Latest < MaxRevision
  /\ expected' = [expected EXCEPT ![p] = Latest]
  /\ draft' = [draft EXCEPT ![p] = Transcript(p)]
  /\ Goto(p, IF op[p] = "clear" THEN "intend" ELSE "assert")
  /\ UNCHANGED <<fileVars, lease, crashed, refs, stale, beating>>

(* The load fails, the reducer throws, or it returns null.                 *)
LoadOnly(p) ==
  /\ At(p, "load")
  /\ Goto(p, "release")
  /\ UNCHANGED <<fileVars, lease, crashed, mutateVars, refs, stale, beating>>

(* writeClearIntent; commitClear begins here, after the heartbeat's write. *)
WriteIntent(p) ==
  /\ At(p, "intend")
  /\ p \notin beating
  /\ GotoOr(p, OwnLease(p), "assert", "release")
  /\ intent' = IF OwnLease(p) THEN expected[p] + 1 ELSE intent
  /\ UNCHANGED <<directory, revisions, content, lease, crashed, mutateVars, refs, stale, beating>>

(* commitRevision: assertLease ...                                         *)
AssertLease(p) ==
  /\ At(p, "assert")
  /\ p \notin beating
  /\ GotoOr(p, OwnLease(p), "check", "release")
  /\ UNCHANGED <<fileVars, lease, crashed, mutateVars, refs, stale, beating>>

(* ... the revision check, to which a load that fails is revision 0 ...    *)
CheckRevision(p) ==
  /\ At(p, "check")
  /\ GotoOr(p, expected[p] = (IF Loads THEN Latest ELSE 0), "rename", "release")
  /\ UNCHANGED <<fileVars, lease, crashed, mutateVars, refs, stale, beating>>

(* Mutant: only the previous revision is kept.                             *)
KeepPrevious(p) == IF op[p] = "clear" THEN {expected[p] + 1} ELSE {expected[p]}

(* cleanupOldRevisions and cleanupAfterClear.                              *)
Keep(p) == IF op[p] = "clear" THEN {expected[p] + 1} ELSE {expected[p], expected[p] + 1}

(* ... and the rename of the temporary file, which is the commit.  Then    *)
(* the new revision is read back and the directory listed for the cleanup. *)
RenameRevision(p) ==
  /\ At(p, "rename")
  /\ expected[p] < MaxRevision
  /\ IF Present
       THEN /\ revisions' = revisions \cup {expected[p] + 1}
            /\ content' = [content EXCEPT ![expected[p] + 1] = draft[p]]
            /\ stale' = [stale EXCEPT ![p] = revisions' \ Keep(p)]
            /\ Goto(p, "cleanUp")
       ELSE Goto(p, "release") /\ UNCHANGED <<revisions, content, stale>>
  /\ UNCHANGED <<directory, intent, lease, crashed, mutateVars, refs, beating>>

(* rm of one old revision, in whatever order readdir lists them.           *)
CleanUp(p, r) ==
  /\ At(p, "cleanUp")
  /\ r \in stale[p]
  /\ stale' = [stale EXCEPT ![p] = @ \ {r}]
  /\ revisions' = revisions \ {r}
  /\ content' = [content EXCEPT ![r] = {}]
  /\ UNCHANGED <<directory, intent, lease, crashed, pc, op, mutateVars, refs, beating>>

CleanedUp(p) ==
  /\ At(p, "cleanUp")
  /\ stale[p] = {}
  /\ Goto(p, IF op[p] = "clear" THEN "dropIntent" ELSE "release")
  /\ UNCHANGED <<fileVars, lease, crashed, mutateVars, refs, stale, beating>>

DropIntent(p) ==
  /\ At(p, "dropIntent")
  /\ intent' = 0
  /\ Goto(p, "release")
  /\ UNCHANGED <<directory, revisions, content, lease, crashed, mutateVars, refs, stale, beating>>

(* deleteSession: the whole directory is renamed away, then removed.       *)
RemoveSession(p) ==
  /\ At(p, "remove")
  /\ p \notin beating
  /\ IF OwnLease(p)
       THEN /\ directory' = "deleted"
            /\ revisions' = {}
            /\ content' = [r \in Revision |-> {}]
            /\ intent' = 0
            /\ lease' = NoLease
       ELSE UNCHANGED <<fileVars, lease>>
  /\ Goto(p, "release")
  /\ UNCHANGED <<crashed, mutateVars, refs, stale, beating>>

-----------------------------------------------------------------------------
(* Mutant: the last release forgets the lease and leaves the file.         *)
ReleaseInMemory(p) ==
  /\ At(p, "release")
  /\ refs' = [refs EXCEPT ![p] = @ - 1]
  /\ Goto(p, "idle")
  /\ expected' = [expected EXCEPT ![p] = 0]
  /\ draft' = [draft EXCEPT ![p] = {}]
  /\ UNCHANGED <<fileVars, lease, crashed, stale, beating>>

(* releaseLease: the last use waits for the heartbeat and looks whose      *)
(* lease is on disk ...                                                    *)
Release(p) ==
  /\ At(p, "release")
  /\ refs' = [refs EXCEPT ![p] = @ - 1]
  /\ IF refs[p] > 1
       THEN Goto(p, "idle")
       ELSE p \notin beating /\ GotoOr(p, OwnLease(p), "unlinkLease", "idle")
  /\ expected' = [expected EXCEPT ![p] = 0]
  /\ draft' = [draft EXCEPT ![p] = {}]
  /\ UNCHANGED <<fileVars, lease, crashed, stale, beating>>

(* ... and then unlinks the one that is there.                             *)
UnlinkLease(p) ==
  /\ At(p, "unlinkLease")
  /\ lease' = NoLease
  /\ Goto(p, "idle")
  /\ UNCHANGED <<fileVars, crashed, mutateVars, refs, stale, beating>>

(* Mutant: the heartbeat runs beside the commits.                          *)
BeatBesideCommit(p) ==
  /\ p \notin crashed
  /\ Held(p)
  /\ p \notin beating
  /\ OwnLease(p)
  /\ lease' = [owner |-> p, whole |-> FALSE]
  /\ beating' = beating \cup {p}
  /\ UNCHANGED <<fileVars, crashed, pc, op, mutateVars, refs, stale>>

(* refreshHeartbeat: assertLease, then the lease is truncated in place ... *)
Beat(p) ==
  /\ p \notin crashed
  /\ Held(p)
  /\ ~InFileOperation(p)
  /\ p \notin beating
  /\ OwnLease(p)
  /\ lease' = [owner |-> p, whole |-> FALSE]
  /\ beating' = beating \cup {p}
  /\ UNCHANGED <<fileVars, crashed, pc, op, mutateVars, refs, stale>>

(* ... and written again.                                                  *)
EndBeat(p) ==
  /\ p \in beating
  /\ lease' = IF lease.owner = p THEN [lease EXCEPT !.whole = TRUE] ELSE lease
  /\ beating' = beating \ {p}
  /\ UNCHANGED <<fileVars, crashed, pc, op, mutateVars, refs, stale>>

(* The process dies: the files stay as they are.                           *)
Crash(p) ==
  /\ p \notin crashed
  /\ Cardinality(crashed) < MaxCrashes
  /\ crashed' = crashed \cup {p}
  /\ beating' = beating \ {p}
  /\ pc' = [pc EXCEPT ![p] = "idle"]
  /\ op' = [op EXCEPT ![p] = "none"]
  /\ refs' = [refs EXCEPT ![p] = 0]
  /\ expected' = [expected EXCEPT ![p] = 0]
  /\ draft' = [draft EXCEPT ![p] = {}]
  /\ stale' = [stale EXCEPT ![p] = {}]
  /\ UNCHANGED <<fileVars, lease>>

-----------------------------------------------------------------------------
Begins(p) == BeginCreate(p) \/ BeginAttach(p) \/ BeginOther(p) \/ Detach(p)

Acquires(p) ==
  \/ LookUp(p)
  \/ Inspect(p)
  \/ OpenLease(p)
  \/ JudgeLease(p)
  \/ UnlinkStale(p)
  \/ ReopenLease(p)
  \/ WriteLease(p)

Writes(p) ==
  \/ Load(p)
  \/ LoadOnly(p)
  \/ WriteIntent(p)
  \/ AssertLease(p)
  \/ CheckRevision(p)
  \/ RenameRevision(p)
  \/ \E r \in Revision : CleanUp(p, r)
  \/ CleanedUp(p)
  \/ DropIntent(p)
  \/ RemoveSession(p)

Releases(p) == Release(p) \/ UnlinkLease(p)

Next ==
  \E p \in Proc :
    Begins(p) \/ Acquires(p) \/ Writes(p) \/ Releases(p) \/ Beat(p) \/ EndBeat(p) \/ Crash(p)

Spec == Init /\ [][Next]_vars

(* Fairness: the event loop of a process that has not crashed goes on with *)
(* the lease it is trying to take.                                         *)
Fairness == \A p \in Proc : WF_vars(Acquires(p))

FairSpec == Spec /\ Fairness

-----------------------------------------------------------------------------
(* At most one live process believes that it holds the lease.              *)
SingleWriter == \A p, q \in Proc : Held(p) /\ Held(q) => p = q

(* assertLease is asked once, at the start: from then to the last file of  *)
(* the operation the lease on disk stays whole and the writer's own,       *)
(* whatever heartbeats and other processes do.                             *)
WritesUnderLease ==
  \A p \in Proc : pc[p] \in {"check", "rename", "cleanUp", "dropIntent"} => OwnLease(p)

(* A lease file is never left behind but by a crash, however an operation  *)
(* fails: its writer is dead, or holds it, or is just taking or dropping   *)
(* it; and only a process that writes it now, or has died doing so, leaves *)
(* it torn, which locks the session for good.                              *)
LeaseAccounted ==
  /\ lease.owner \in Proc \ crashed => Held(lease.owner) \/ pc[lease.owner] \in {"writeLease", "unlinkLease"}
  /\ lease.owner \in Proc \ crashed /\ ~lease.whole => lease.owner \in beating \/ pc[lease.owner] = "writeLease"

(* Whatever process writes, crashes or cleans up, the newest revision on   *)
(* disk changes only as SessionLog allows: no committed message is lost,   *)
(* no revision is skipped, written twice or taken back.                    *)
Log == INSTANCE SessionLog WITH
  LastRevision <- MaxRevision,
  revision <- IF revisions = {} THEN 0 ELSE Latest,
  messages <- IF revisions = {} THEN {} ELSE content[Latest],
  deleted <- directory = "deleted"

LogSpec == Log!Spec

(* A process that wants the lease of a dead one gets it.  (Nobody else is  *)
(* there to take it: the run has two processes and one crash.)             *)
StaleLeaseYields ==
  \A p \in Proc :
    At(p, "openLease") /\ Present /\ lease.whole /\ lease.owner \in crashed ~> Held(p)
=============================================================================
