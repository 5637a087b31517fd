# A TLA+ model of autryn

autryn is a terminal coding agent written in TypeScript: a runtime that runs agents in a tree of
executions, stores that keep sessions and long-term memory on disk, tools that edit files, and a
terminal interface on top. This directory holds TLA+ modules for its core, TLC configurations that
check them on small instances, and proofs for the TLA+ proof system. Paths such as
`runtime/agent/runtime.ts` are relative to `src/src/`; `.wiki/` is `src/.wiki/`.

## 1. The system

| component | state it keeps | operations | what is hard |
|---|---|---|---|
| Agent runtime (`runtime/agent/runtime.ts`) | `active` execution records, branches, handoff counts | startRoot, delegate, startDelegation, handoff, cancelExecution, onTerminal, checkpoint | re-entrant cascades of cancellation, awaits between a check and its use |
| Delegation scheduler (`runtime/delegation/scheduler.ts`) | queue, set of permit holders, three counters | schedule, release, reacquire, cancelQueued, drain | drain re-enters itself; permits given up and taken back across awaits |
| Execution lifecycle (`runtime/execution/`) | status, activity, timer, event queue, transcript | queue, start, finish, abort | timers against completion; a branch settles once |
| Agent loop (`runtime/agent/agent.ts`) | the step's message, tool uses in flight | think, act, hooks, checkpoints | parallel tools that end in any order, hooks that throw, abort at every await |
| Tool executor (`runtime/tools/`) | the dry-run report | hooks, routing by mode and effect, previews | a tool that starts after the abort, reports of what did not run |
| Approvals, questions (`coding/permissions/`, `coding/tools/`) | a queue and the request on screen | ask, respond, withdraw | consent for exactly this use; a prompt that hides all others |
| Context manager (`runtime/context/`) | phases, summary nodes, frontier, checkpoint of the current turn | prepare, compact, restore, phase transition | what an earlier program or turn has stored must still fit the transcript |
| Session service, controller, coordinator (`sessions/`, `terminal/session/`) | the current record, turn, pending messages, attached lease | drafts, turns, checkpoints, handoff, finish, resume, delete | commits that fail, or fail after they have committed; crashes; commands beside a turn |
| File session store (`sessions/file-session-store.ts`) | revision files, `clear.intent`, `lease.json`, heartbeat | create, mutate (commit, clear), delete, acquire, release, load | several processes, crashes between file operations |
| Memory service, store and lock (`memory/`) | markdown documents with digests, a lock file, a queue per process | view, write | check and write far apart, stale locks removed by path |
| Coding tools (`coding/tools/`) | the workspace | read, list, search, write, replace, patch, move, mkdir, previews | several tools of a message on one path; patches by line number |
| Providers (`providers/`) | the accumulated stream | decode chunks | partial tool arguments |
| Registry, settings, TUI, commands | configuration, view state | resolve, render | little of it is control |

**How they interact.** A message typed in the terminal becomes a turn of the session controller,
which stores it, creates the agents and starts a root execution of the runtime. The agent loop asks
the context manager for its prompt, the model for an answer, and the tool executor for the tools of
that answer, which may wait at the prompts, edit files, write memory, or call the runtime back for
delegation and handoff; the runtime asks the scheduler for permits, and the scheduler calls the
runtime's `start` callbacks from inside `release` and `reacquire`. Checkpoints of the loop go through
the commit coordinator and the session service to the store's mutation queue, and so do the updates
of the context manager. All of a process runs on one event loop; processes share files only.

**What makes each part correct.**
* Scheduler: the counters equal the permits held; no limit is exceeded; nobody who could be started
  waits; a suspended parent gets its permit back.
* Runtime: an execution never outlives its parent; one live execution per branch; finished trees are
  dropped; every call of `delegate_task` returns.
* Agent loop and prompts: the model is never asked with an open tool use; nothing that needs consent
  runs without it; every execution ends.
* Session service and controller: every message once, in order, every tool use answered; the store
  has what the agent has seen; turns end in one final status; no lease leaks.
* Context manager: the summaries and the raw tail cover the transcript without gap or overlap; what
  is stored can be taken up by the next turn.
* Session store: a committed message is never lost, a clear or delete never undone, one writer at a
  time, a crash never leaves a session that cannot be opened.
* Memory: a change is one accepted mutation of the document its digest names; no lock is left behind.
* Coding tools: a patch changes what it names; tools that do not meet do not disturb each other; a
  dry run changes nothing and tells everything.

The hazards behind these are listed line by line in `PROJECT.json`.

## 2. Modules

    PermitPool <--refines-- AgentRuntime -> DelegationScheduler     ContextCompaction
                                ^
                       AgentRuntimeProofs                           MCFileTools
                                                                        |
    SessionLog <--refines-- FileSessionStore <- MCFileSessionStore  FileTools -> UnifiedPatch -> Selection
                                ^                                       ^
                       FileSessionStoreProofs                       FileToolsProofs -> SequenceProofs

    DocumentScope <--refines-- MemoryStore <- MCMemoryStore         AgentLoop -> RequestQueue -> Selection
              |                    |    ^                               ^
              +-> MemoryMutation <-+  MemoryStoreProofs             MCAgentLoop
                                                                    AgentLoopProofs -> SequenceProofs
    SessionTurns -> Selection
         ^
    SessionTurnsProofs <- TranscriptProofs
         |
         +-> SequenceProofs -> Selection

(`A -> B`: A extends B.)

| module | models |
|---|---|
| `DelegationScheduler` | state and primitives of the scheduler: queue, counters, `canStart`, `acquire`, `release`, the parts of `drain` |
| `AgentRuntime` | the runtime with its executions, one action per callback; extends the scheduler |
| `PermitPool` | abstract specification of the scheduler: tasks in groups and a set of permit holders |
| `AgentRuntimeProofs` | theorems about the runtime: types, permits, queue, drain, trees |
| `AgentLoopProofs`, `FileSessionStoreProofs`, `MemoryStoreProofs`, `FileToolsProofs` | theorems about the module of that name; `FileToolsProofs` also about `UnifiedPatch` |
| `SessionTurnsProofs`, `TranscriptProofs` | theorems about `SessionTurns`: leases, turns, phases; and its transcripts |
| `Selection` | `Kept`, the filter the other modules share |
| `SequenceProofs` | lemmas about sequences: induction, recursion, `Kept`, `FlattenSeq`, `SetToSeq` |
| `AgentLoop`, `MCAgentLoop` | the loop of a root and of its child with hooks, tools, prompts, checkpoints and abort |
| `RequestQueue` | the queue both prompts use: a limit, one request shown |
| `SessionTurns` | service, controller and coordinator over an atomic store, around one agent's loop |
| `ContextCompaction` | the context manager of the root branch and the compaction state of a session |
| `FileSessionStore` | one session directory shared by processes that may crash |
| `SessionLog` | abstract specification of a session: one record whose revision grows by one |
| `MCFileSessionStore` | what the wiki says of clearing a session and the store does not keep |
| `MemoryMutation` | what a mutation of a memory scope means, as functions |
| `MemoryStore`, `MCMemoryStore` | the commit of a mutation, with the queue of a process and the lock file between processes |
| `DocumentScope` | abstract specification of a memory scope: an atomic compare-and-set of documents |
| `UnifiedPatch` | `parsePatch` and `applyHunks` as functions over lines, and the reference definition of a patch |
| `FileTools`, `MCFileTools` | the file tools of one message, in parallel, executed or previewed |

### DelegationScheduler and AgentRuntime

Executions are numbers, handed out in order, so that `parent`, `root`, `branch` are functions from
`Exec`. `status` and `activity` are the source's, with the final statuses reduced to the three the
runtime tells apart: *handed_off*, *aborted* (cancelled, timed out: the abort signal fires) and
*ended* (completed, failed, limit reached). `queue`, `runningExecutions`, `runningByParent`,
`runningByTree`, `runningTotal` are the scheduler's fields. `call[e][k]` is where the k-th parallel
`delegate_task` call of the loop of `e` stands between its awaits; `handoff[e]` likewise for
`performHandoff`.

JavaScript's callbacks are atomic, but `onTerminal` is a long synchronous call in which ending one
execution releases a permit, which starts others, which may fail and end at once, and then cancels
children, each of which does the same. These calls are frames of `stack`: *terminal* (cancelQueued,
release), *drain* (with the loop's index) and *cancelDescendants*. Only steps of the top frame are
enabled until it is empty; properties about the state between callbacks begin with `Quiescent`.

| action | code |
|---|---|
| `StartRoot`, `RunMicrotask` | `startRoot`; the microtask that runs the execution |
| `Finish`, `Abort` | `AgentExecution.complete/fail/limit`; `cancelExecution`, timer |
| `Act` | `_act` with up to `MaxCalls` `delegate_task` calls in one message |
| `Delegate`, `Refuse`, `DelegateProgrammatically` | `delegate`, `startDelegation`, `preflight`, `schedule`, `buildAndRunChild` |
| `Suspend`, `ReturnToRoot`, `Reacquire`, `AwaitPermit`, `Resume` | `suspendForChildWait`, `resumeAfterChildWait`, `reacquire` |
| `RequestHandoff`, `PrepareHandoff`, `RejectHandoff`, `CommitHandoff`, `FailCheckpoint` | `performHandoff`, cut at its awaits |
| `CancelQueued`, `ReleasePermit`, `DrainChild`, `DrainParent`, `DrainDone`, `CancelChild`, `LeaveTerminal` | `onTerminal` and what it calls |

The loop itself is one state here, between `Thinking` and `Finish`; `AgentLoop` has its inside.
`DelegateProgrammatically` is open to whoever may call `startDelegation`: a running execution, and a
root or a successor that is still created. `FinishedTreesReleased` is about the records in `active`.
Left out: event queues, token limits, the names of agents (any request may be refused instead),
observers, and the other maps of a tree (reports, usage, retained snapshots of finished trees).

### FileSessionStore

A step is one access to the file system. `directory`, `revisions`, `content`, `intent` and `lease` are
what is on disk, `pc`, `op`, `refs`, `expected`, `draft`, `stale` what each process remembers. A
transcript is the set of messages in it, a message the pair of its author and revision. The operations
are those the service and the controller ask of the store: the lease of a draft or of an existing
session (`newDraft`, `attach`, `detach`), `create`, `mutate` with a reducer that adds a message, leaves
the transcript alone or clears it, and `deleteSession`. A commit is assertLease, revision check,
rename, cleanup of each old file; a clear writes `clear.intent` before and unlinks it after. A process
runs one operation at a time: `create`, `mutate` and `delete` wait in the store's mutation queue, and
the controller awaits its acquires and releases, which are not in that queue, before a turn and between
commands. The heartbeat of a held lease runs beside everything but the steps that share its file queue,
and truncates the lease before it writes it again. `Crash` may happen between any two steps: the files
stay, the process takes no more steps.

Left out: `list`, `health`, and `load` by a reader without a lease (they change nothing); torn
revision files (they are synced before the rename); failures of single file operations other than
the ones named; leases of other hosts (never judged stale).

### AgentLoop and RequestQueue

Two executions, a root and the child its `delegate_task` may start, run the same loop side by side;
`AgentRuntime` has their permits and larger trees. `pc[e]` is the await the loop is at (model,
checkpoint of the tool uses, tools, checkpoint of the step), `call[e]` the tool uses of its latest
message with their phases (asking for approval, remembering a grant, executing, resolved, appended),
`transcript[e]` the execution's own messages, and `session` what the checkpoints have saved. The
fields `allowed` and `started` of a call are history and only properties read them.

| action | code |
|---|---|
| `Begin`, `ForbidDryRun`, `HooksDone`, `HookThrows` | `startRoot`, `buildAndRunChild`, a middleware that allows no dry run, `_beforeAgentRun` |
| `NextStep` | the top of the loop: the next step, or one too many for the branch |
| `Answer`, `ModelFails` | `_think`: a text, tool uses, a limit, an error |
| `StartTools`, `RefuseUses` | `_act`: all tools of a message start, or a handoff is refused beside others |
| `Decide`, `Remembered`, `AnswerQuestion` | the prompts, and "always allow" with its write |
| `ToolReturns`, `HandOver`, `Collect`, `CollectTooLate`, `Abandon` | a tool's promise settles; the race of `_act` appends its result, drops one that comes after the end and saves the step, or ends with the abort |
| `CompleteStep`, `CheckpointFails` | the checkpoints |
| `Cancel` | `cancelExecution` and timers: the signal withdraws open approvals |

`RequestQueue` is `ApprovalManager` and `AskUserQuestionManager` as functions on a queue and the
request shown. Left out: streamed deltas, what a tool returns, todo reminders, settings files.

### SessionTurns

A step is one operation of the store with the code the controller runs after it, or one step of the
agent's loop. `db` is the newest record of each session: messages, turns with status and agents,
phases and the active agent. A message is the turn, step, kind and tool uses it stands for, so that
two messages are equal exactly when their ids would be. `current`, `attached`, `refs` are the
controller's record and lease; `turn`, `cmd` where a turn and a command stand; `chain` and `pending`
the coordinator's tail of operations and its unsaved messages; `view` what the agent's model has seen.
An operation may fail (lost), fail after it has committed (late), or the process may die before it.

| action | code |
|---|---|
| `BeginCommand`, `OpenForCommand`, `Materialize`, `Mutate`, `AttachForCommand` | rename, mode, model, clear: attach, create the record, commit, keep the lease |
| `NewDraft`, `DeleteCurrent`, `Resume` | `/new`, `/delete`, `/resume` with `repairInterrupted` |
| `BeginTurn`, `OpenForTurn`, `StartTurn`, `AttachForTurn`, `CreateAgent` | `runTurnInternal` up to `execute` |
| `Answer`, `CallTools`, `Result`, `RejectHandoff`, `SaveHandoff`, `End` | the loop, reduced to what it saves |
| `CommitSave`, `CommitHandoff`, `CommitFinish`, `Settle` | the coordinator's operations; `result` and `finish` |
| `Crash` | the process dies; the lease is stale and the next one resumes |

The user waits for the answer to a command before the next, except for `/mode` and `/model`, as the
input does. Left out: model snapshots, names, timestamps, the files (`FileSessionStore` has them).

### ContextCompaction

A node is its level (checkpoint, turn, segment, phase, session), phase, range of turns, children and
policy version. The manager builds frontiers the way `buildCompactionGraph` does: turn summaries,
grouped into segments, these into phases (or legacy phases), these into session summaries, and expands
or tightens them for a budget (`Graphs`, `Frontiers`). Token counts are not numbers: which prefix is
compacted, where a group ends and whether the budget holds are choices within what the code allows.
`SendAsItIs`, `Send`, `StartOver`, `Compact` and `CompactCurrentTurn` are the paths of `prepare`, of
which one that throws breaks the turn off; `EndTurn` and `FinishTurn` those of a turn's end with a
phase transition; `AbandonTurn` and `Restart` a turn that is broken off, at any point, and repaired, by
a program that may have a newer policy version.
`Accepts` is `commitCompactionState`. The current turn is sent raw unless it is over budget, when its
earlier blocks are `Summarised` in a checkpoint that only the process remembers. Left out: clear (it
starts over), compaction in views other than the root's, the reduction of tool results, the summaries'
texts, and the nodes of a frontier that was built and given up for one over more turns
(`context-manager.ts:1139`): the code may take such a node up again, which then stands for the turns of
the node made here, if perhaps over other children.

### MemoryStore

Agents of several processes read and mutate one scope. A document is the set of facts in it and its
own digest. `Submit` is the service's check on the documents of that moment and the store's queue;
`CreateLock`, `FindLock`, `MarkLock`, `JudgeLock`, `RemoveStale` are the lock file, step by step;
`Load` reads the documents under the lock and checks the digest; `Apply` and `Record` write the document
and scope.json; `Release` unlinks the lock; `Crash` ends a process at any of them. Each may fail while
the process lives: `AcquireFails` (also with the lock created and its text not written), `CommitFails`
from the load to scope.json, and `LeaveLock`, an `rm` of the lock whose error is swallowed
(`file-memory-store.ts:106`). `left` is history: the processes that left a lock that way. `WithinLimits`
checks the planned content only, as the store does; one set of limits stands for the policy's and the
store's, which `memory-runtime.ts` makes equal.
`DocumentScope` is what the path promises as a whole; a request is pending from `Submit` to its
effect, and the step that renames the document is its `Commit`. Left out: other scopes (they share
nothing), the content guard, previews, symbolic links, editors that write the files by hand.

### UnifiedPatch and FileTools

A file is the sequence of its lines (members of `Line`), a patch a sequence of lines with their kinds.
`ParsePatch` and `ApplyHunks` follow the source, their loops as recursive functions; a `+++` line
inside a hunk is a line that is added, as the code takes it. `SourceLines` turns the CR LF ends of the
original into LF, so that a patch of one line rewrites every line end of the file. `Reference` says
declaratively what a list of hunks means, and `AsWritten` reads a patch as its author does. In
`FileTools` a path is a sequence of names and the workspace a function from paths to contents or to the
value for a directory; the operators of the first section are the file system (external). Each call of
a message has its place `pc[c]`, and one action per await of its tool: `Look`, `ReadFile`,
`ReplaceText`, `OpenPatchFile`, `ReadPatchFile`, `EnsureParent`, `WriteFile`, `MovePath`, `Mkdir`,
`Inspect`, `OpenDirectory`, `ListDirectory` (one `readdir` of the walk) and `Scan`. In a dry run
`Preview` is one step, since nothing writes then. `entries`, `Summary` and `ReportStatus` are the
report, and `Alone` is what a call does when nothing else runs, which previews are compared with. Text
that `str_replace` looks for is a whole line; truncation and line ranges of answers are left out;
creating missing parents and the write of `Bun.file.write` are one step, and so is a scan of
`Bun.Glob`.

## 3. Runs

| run | question | result |
|---|---|---|
| `runtime_safety` | Are permits counted right and bounded, is none leaked, is who waits queued once and served, and does whoever works hold a permit, with parallel calls, programmatic delegation, a root handoff and cancellation at every callback? | holds |
| `runtime_trees` | Does nobody outlive a parent, does a branch have one live execution, do finished trees go, and does the scheduler implement `PermitPool`, when two trees compete for one permit? | holds |
| `runtime_fair` | Do all delegated executions and all calls of two competing trees end? | holds |
| `agentloop` | Are transcripts closed when the model is asked, does the Session keep up with the root, does nothing run without consent, is every open request at the prompt, does every execution end? | holds |
| `loop_session` | Does a Session hold messages of the root only? | no, those of the child too |
| `sessions` | Is the transcript whole and what the agent has seen, are turns, phases, leases and the controller's copy right, whatever fails, is cancelled, retried or crashes? | holds |
| `context` | Does the model see every turn once, can the next turn take up what is stored, is what the manager builds accepted, over phases, modes, broken turns and a new policy? | holds |
| `store` | Do two processes, one of which may crash, keep the session as `SessionLog` promises, with one writer, whole leases and stale leases taken over? | holds |
| `store_clear` | Does a clear without a crash leave a usable session? | not with two non-empty revisions |
| `memory` | Do two processes, one of which may crash, implement `DocumentScope`, without a lock left behind or a mutation left unanswered? | holds |
| `files` | Do patches change what they name, do calls that do not meet do what they would do alone, does a dry run change nothing, report every call and foretell it? | holds |
| `files_headings` | Does every patch that is accepted change what its author wrote? | not under a hunk header with a heading |

The violated runs are explained under `findings` in `PROJECT.json`. The type invariants of the modules
with proofs (`TypeOK`) are proved and not in a cfg; the one of `ContextCompaction` documents its variables.

**Bounds.** `runtime_safety` has one tree of at most four executions out of five ids, three levels
(a child at the last level is refused), two calls a message and two permits: the least with which a
nested parent competes with its sibling and its own children for permits, and with which an
execution that holds a permit asks for one again. `runtime_trees` has one permit and two trees of
up to three: a cancelled parent may have a child that still waits, and a root hands off beside another
tree. `runtime_fair` is the same without handoffs and with one child per execution, which keeps the
liveness check small; one tree nests and the other takes the permit while the parent is suspended.

`agentloop`: two steps of the root and one of the child, messages with none, one or two tool uses of
every kind in the orders that matter (two that queue, a prompt beside a child that prompts, a handoff
alone and refused), and a queue of one, so that a third request is turned down. Hooks throw in the
child.

`sessions`: two sessions, two turns, one step with two tool uses, one failure of the store (lost or
late) and one crash, anywhere: a second turn is what meets the repair, the retry or the phase of the
first. `context`: four turns, up to three blocks in the current one (two in the fourth), every mode,
one new policy version; four turns are two segments with a border between two phases inside, and
leave a tail that must stay raw; three blocks are the least with which the summary of the current turn
is extended.

`store` has two processes, four revisions and one crash: a session needs three revisions before
cleanup removes one and a fourth to clear after that; the crash gives a stale lease. `memory` has
three agents, two of them in the process that may crash, so that a mutation waits behind another and
a lock goes stale at every step; its mutations meet at one document, at one name and at the limits.
In both, only one process is left after the crash to take over what is stale; with a third the
locks do not hold (below).

`files`: workspaces of two or three files, one with CR LF ends, and a directory; all one-file patches
of up to two hunks from a set with wrong and right lines, patches of two files, what the parser
refuses, and messages of up to three calls, of which two may cross.

**Deadlock** is checked in `context` only. Elsewhere the system may stop: every execution has ended,
every process has crashed, the session is deleted or the message is answered. The liveness properties
say what may not stop before that.

**Fairness.** `AgentRuntime` is weakly fair to every callback that is due, because the event loop
runs them all, and to the top frame. `SF(Finish)` says that a loop that can end over and over does:
`maxSteps` bounds it. It covers the assumption that the model answers; without an answer only the
timer of a delegated execution would end it. Nothing obliges anybody to cancel. `AgentLoop` is
weakly fair to each loop (the provider and the store answer or fail), to each tool, and to the user's
answer at each of the two prompts; not to `Cancel`. `FileSessionStore` is weakly fair only to the
steps that take a lease, which is all `StaleLeaseYields` needs: a process that has begun to acquire
goes on unless it crashes. `MemoryStore` is weakly fair to the steps of each agent's commit.
`SessionTurns`, `ContextCompaction` and `FileTools` are checked for safety only.

**Results to know about.** Properties that documents or the code's intention suggest and that TLC
refutes; each is described by the smallest instance that shows it.

*Runtime.*
* With one permit, three levels and two `delegate_task` calls in one message of a delegated agent,
  `reacquire` (`scheduler.ts:49`) gives the permit to the call that comes back first and queues the
  other one: the parent waits for a permit it holds itself, until `childTimeoutMs`. This is why
  `runtime_fair` has one call a message. `.wiki/workflows/delegation.md:40` says that a nested parent
  gets its permit back when the child has completed.
* With handoffs of delegated executions (`HandoffDepths = {1}`), the successor is started without
  asking the scheduler (`runtime.ts:761`), so more agents work than there are permits, and it is not
  among its parent's children (`runtime.ts:343`), so `NoOrphan` fails when the parent is cancelled
  (`.wiki/workflows/delegation.md:40` and `:52` say otherwise).
* A source cancelled while the `handoff_committed` checkpoint is being saved settles its branch as
  cancelled; the successor is created and run all the same (`runtime.ts:733`).
* With programmatic delegation, a delegation takes the last place of a tree between the count in
  `performHandoff` (`runtime.ts:714`) and the creation of the successor: one execution more than
  `maxExecutionsPerTree`.
* A queued child of a parent that has ended may be started by the drain in `onTerminal` and cancelled
  in the same call: harmless to every property here.

*Agent loop.*
* With a throwing `beforeAgentRun` hook in the root, the execution stays running and `run.result`
  never settles: the hooks are awaited outside the `try` (`agent.ts:222`) and `startRoot` discards the
  promise. `.wiki/workflows/agent-execution.md:58` says such an exception gives a structured failure.
* Tools that need no approval start even if the abort has arrived during the tool_call checkpoint.
  Questions have no abort listener, and `respond` does not name the request it answers.

*Sessions.*
* `rename` materializes a draft before it refuses a bad name (`session-service.ts:95`): the draft then
  has a record, and every later message ends in `SESSION_REVISION_CONFLICT` until `/new`.
* An abort that meets the commit of a handoff leaves the session's agent at the target although the
  turn has ended with the source (`session-service.ts:350`, `:482`).
* A late failure of `startTurn`, a failed `ensureAttached` after it, or a `finish` that fails twice
  leaves the turn running until the session is resumed: these are the turns in `broken`.
* `newDraft` releases the lease before it refuses a bad name; an in-flight `/mode` may overwrite the
  draft of a `/new` (excluded by the guards of the commands).

*Context.* Turns that ran with compaction off have no phase. `buildParentNodes` (`context-manager.ts:879`)
puts such a turn and one with a phase into one segment, whose frontier is then refused, and the turn
fails; so does every later one that needs that prefix. `InvalidForAReason` says that there is no
other way, except an old policy version.

*Session store and memory, three processes.* Two processes that find the lease (the lock) of a dead
third judge it one after the other and remove it by path: the second removes what the first has just
taken (`file-session-store.ts:506`, `file-memory-lock.ts:45`). Both then believe that they have it. TLC
finds it with `NumProcesses = 3` and two revisions in `FileSessionStore`, where `SingleWriter` fails,
and `LogSpec`, a committed message overwritten; and with an agent in each of three processes in
`MemoryStore`, where `CompareAndSet` fails with a mutation applied to another document than its digest
names. `.wiki/overview/terminology.md:62` and `.wiki/engineering/security-and-permissions.md:56`
promise otherwise; no run reports it, since the runs have the two processes with which both hold. A
crash between the clear intent and the new revision brings the old transcript back if an older empty
revision is retained (`file-session-store.ts:588`). A lease or lock whose text was never written cannot
be judged and stays until it is removed by hand, which is intended for a crash; the same is left by a
process that lives on if the write of the text, or the `rm` of a lock, fails (`LockAccounted` allows
for those in `left`, and for no others).

*Coding tools.* `SerialIfApart` is about calls that do not meet. Where two meet at one file, the
later write of `str_replace` or `apply_patch` undoes the earlier. A patch that fails at a later file
leaves the earlier ones changed. Hunks without old lines are applied one line early, those past the
end of the file are padded with empty lines, and those out of order are applied where the last one
ended (`apply-patch.ts:137`): `PatchLands` is about the others.

Previews foretell what their calls would do alone in the same workspace (`PreviewsForetell`), with
these exceptions, although their confidence is `exact`. None asks whether the file system would let the
call do it (`Refused`): `mkdir` over a file (`mkdir.ts:45`), `write_file` onto a directory
(`write-file.ts:55`), `move_path` onto a directory with contents are planned and would fail. And three kinds
of call are previewed as what they would not do (`Foretellable` excludes them): `write_file` of no text
to a new file is no change (`write-file.ts:56`), a second section of a patch for one file is previewed on
the original, `str_replace` with a count of 0 is blocked. `DryRunAccounts` is about the report only: that
it tells of every call as it was routed, with an error where a preview was blocked or a reading call
failed.

## 4. Proofs

`tlapm` checks these theorems for every value of the constants that the modules' assumptions allow:
any number of executions, calls and roots and any limits of the runtime; any agents, processes,
documents and mutations of memory; any number of processes, revisions and crashes of a session;
any set of messages the models may send, any number of tool uses and steps, any length of the
prompts' queues; any number of sessions, turns, steps, tool uses, store failures and crashes of the
session layer; any messages, workspaces and patches of the file tools. The assumptions
(`SchedulerAssumption`, `RuntimeAssumption`, `StoreAssumption`, `MutationAssumption`, `QueueAssumption`,
`LoopAssumption`, `SessionAssumption`, `FilesAssumption`, `LineAssumption`) only give the constants their
types and keep markers such as `NoRequest` or `None` apart from what they mark.

| module | theorem | statement |
|---|---|---|
| `AgentRuntimeProofs` | `TypeCorrect` | `Spec => []TypeOK` |
| | `AccountingHolds` | `[]PermitAccounting`: the counters are the numbers of holders |
| | `BoundHolds` | `[]PermitBound`: no limit on permits is exceeded |
| | `ImplementsPool` | `Spec => PoolSpec`: `AgentRuntime` implements `PermitPool` |
| | `QueueIsServed` | `[]QueueServed`: nobody waits between callbacks who could start |
| | `PermitsAreReturned` | `[]PermitsReturned`: no permit leaks |
| | `PermitsAreWithWork` (H) | `[]PermitsWhereWork`: who was delegated and works holds a permit |
| | `BranchHasOneLive` | `[]OneLivePerBranch` |
| | `NoneOrphaned` (H) | `[]NoOrphan`: a live child has a live parent |
| | `TreesAreReleased` (H) | `[]FinishedTreesReleased` |
| `MemoryStoreProofs` | `MemoryTypeCorrect`, `LockIsAccounted` | `[]TypeOK`, `[]LockAccounted` |
| | `ScopeIsShared` (S) | `Spec => CompareAndSet`: `MemoryStore` implements `DocumentScope` |
| `FileSessionStoreProofs` | `SessionStoreTypeCorrect`, `LeaseIsAccounted` | `[]TypeOK`, `[]LeaseAccounted` |
| | `OneWriter`, `WritesAreUnderLease` (P) | `[]SingleWriter`, `[]WritesUnderLease` |
| | `SessionIsALog` (P) | `Spec => LogSpec`: `FileSessionStore` implements `SessionLog` |
| `AgentLoopProofs` | `LoopTypeCorrect` | `[]TypeOK` |
| | `ConsentIsAsked` | `[]ConsentBeforeEffect`: no mutation without consent |
| | `ApprovalsAreShown` | `[]ApprovalsShown`: the prompt holds exactly the uses that ask |
| | `TranscriptsAreClosed` | `[]TranscriptClosed`: the model never sees an open tool use |
| | `SessionFollowsRoot` | `[]SessionTracksRoot`: the saved part is a prefix, whole at every model call |
| `SessionTurnsProofs` | `SessionTypeCorrect`, `LeasesAreAccounted` | `[]TypeOK`, `[]LeaseAccounted`: the lease of the current session and no other |
| | `CurrentIsFresh` | `[]CurrentFresh`: the controller shows what the store has |
| | `RunningTurnIsLive` | `[]RunningIsLive`: what the store calls running is running, or was given up |
| | `PhasesFollow` | `[]PhasesInOrder` |
| | `StatusIsFinal` | `Spec => StatusFinal`: a turn that has ended keeps its status (an action property) |
| `TranscriptProofs` | `TranscriptIsWhole` | `[]TranscriptWhole`: every message once and in order, every tool use of an ended turn answered once |
| | `DurableIsPrefix` | `[]DurablePrefix`: what is stored is a prefix of what the agent has seen |
| `FileToolsProofs` | `PatchComputed` | `applyHunks` computes what a unified diff says of every list of plain hunks and every file, read with LF ends |
| | `FilesTypeCorrect`, `PatchesLand` | `[]TypeOK`, `[]PatchLands` |
| | `DryRunIsAccounted` | `[]DryRunAccounts` |

Some theorems have a hypothesis, because without it the code has the counterexamples of section 3:

* (H) `HandoffDepths \subseteq {0}`: only roots hand off. The successor of a delegated execution takes
  no permit and is not among its parent's children.
* (S) `OneSurvivor`: when a process dies, at most one is left to take over its lock.
* (P) `FewProcesses`: there are at most two processes, or none crashes. As in (S), two processes that
  judge the same dead owner remove each other's lock or lease.

The bounded runs meet all three (the runtime's cfgs have `HandoffDepths = {0}` or `{}`, the stores two
processes); the theorems say that nothing else about the bounds matters.

### Arguments

*Types and permits* (`AgentRuntimeProofs`, as the next two). `TypeOK` is inductive by itself. The
others need `IInv == TypeOK /\ Allocation /\ PermitAccounting /\ PermitBound`. `Allocation` says that
an execution without an id is in nobody's group, that whatever is active or handing off belongs to a
tree, and that whoever holds or waits for a permit has a parent; without it a step that creates an
execution could change the group of one that is already counted. `EveryStepIsASchedulerStep` reduces
the actions to what they do to permits: a new execution joins, one is granted, one is returned, or
nothing. `AcquireCounts` and `ReleaseCounts` then follow cardinalities through one step, and a
`JoinStep` is `Pool!Join`, and so on.

*The queue.* `QueueServed` is about the moments between two callbacks,
so its invariant has to say what is true while the frames of `stack` are at work. `QueueRight` ties
every entry to a queued execution or a suspended call and back, except for the execution whose end is
on top of the stack (`Finishing`). `Drained` says that any entry that could start is still ahead of
the innermost drain. It survives the re-entrance of `drain` because of `Nested`: an execution that
ends inside a drain was started by it, so it has neither entries nor children, and its end moves
nothing the outer loop has passed. `HoldersRun` and `Backed` add where the permits are: with who runs,
unless the call that ends it is about to return it or it waits for a child.

*The trees.* Whoever is live or hands off is the last of its branch (`LastOfBranch`),
which gives `OneLivePerBranch`. In a cascade of cancellations a live child may have a parent that has
ended, but then a frame on the stack is still ending that parent (`Supervised`, in `TreeInv`); a tree
with records has a root that is live, or that a frame is about to drop, and that frame is the bottom
one (`TreeHasRoot`, `RootAtBottom`). `CallbackTree` and `SynchronousFrames` reduce the actions to what
they do to trees and to the stack.

*Memory.* The queue lets one mutation of a process past its head (`Queued`); whoever is inside the
commit owns the lock file (`Locked`); a lock judged stale is still the dead process's when it is
removed (`Stealing`, the part that needs (S)). Hence the documents do not change between the load and
the write, and what was planned on them is what the rename commits (`Prepared`). A step that renames
is then `Commit` of `DocumentScope`, one that refuses or crashes is its `Drop`, any other a stutter. That
no lock is left behind but by a process in `left` (`Held`) is proved without the hypothesis.

*Session store.* `Uses` says how often a process uses its lease at each step of an operation, which
makes `Accounted` inductive. `Owned`, `Stealing`, `Protected` and `SingleWriter` are the lease, under
(P): a whole lease that has been asserted stays until the last file. The log then rests on what an
operation remembers: `Routes` (which steps it takes), `Drafted` and `Undrafted` (what it is about to
write was read from the newest revision, which is still the newest), `Marked`, `Cleaning` (the
cleanup spares the revision just committed), `Drafts` and `Deleting`. `LocalStep` sorts the actions by
what they do to one process, `RevisionEffect` by what they do to the revisions.

*Agent loop.* Consent is a small invariant of its own: a use that is being remembered is allowed.
The others start from `LoopInv == BasicType /\ Places /\ Waiting`: the types, the phases a use may be
in at each place of the loop, and that the two managers hold exactly the uses that ask, once each.
`Told` says by place what the transcript is: closed when the model is asked; after an answer, closed
up to one assistant message (`Acted`) that is followed by one result for each appended use. `Written`
says that an execution writes only its own messages, one step after the other, so that the results of
a step can be told apart in the transcript; `Saved` says by place which part of the root's transcript
the session has, and that a handoff, alone in its message, has nothing unsaved beside it.

*Sessions.* `IInv == TypeOK /\ Control /\ LeaseInv /\ FreshInv /\ TurnsInv /\ PhaseInv`. `Control` says what
a turn, a command and the loop may be doing at the same time, for instance that a finish is in the
coordinator's tail only while the turn ends, and what a live loop waits for. `LeaseInv` has at most one
lease, of the current session, and it before anything is created under it. `TurnsInv` needs that no
turn in the store is younger than the last one drawn (`Young`): otherwise a new turn could meet an old
one of its id, and ending it could end two. `PhaseInv` needs the same of phases, and that whatever runs
has an active phase to end. The actions are of few kinds for the store (`Kinds`: it stays, a turn
begins, starts or ends, a session is repaired or deleted), and what each kind does to turns and phases
is proved once.

*Transcripts.* `TInv == IInv /\ Texts /\ Shown /\ Flow`. A record is `Whole` if its messages are `Good` and
no call of a turn that is over lacks an answer. `Good` is an order (`Sorted`: by turn, by step, then
calls before results before text) with four facts about the set of messages (`Sole`, `Timed`, `Owned`,
`Apart`); that the repair of an interrupted turn, which inserts results between messages, keeps an
order is `RepairGood`. `Heir` says how a record's messages come about in a step: each in place of one
that was there, or the turn's own. `Unsent` is about what the coordinator has still to write: it fits
the store whenever it comes, also if it came before and the answer was lost (`AppendUnique`). `Going`
and `Seen` say by place of the loop what the store has of the step and what the agent has seen beside
it; `Shown` carries this over to the next turn, which starts from what the controller shows.

*Coding tools.* `applyHunks` goes through the hunks forwards and copies the lines in between, the
reference splices them in from the last to the first. The proof of `PatchComputed` looks at the hunks
applied so far together with the hunks still to be spliced: what has been written, followed by the rest
of the file with the later hunks spliced in, is the same before and after each hunk (`Onward`), from
nothing written and the whole reference to everything written and nothing left. Before that, each hunk
applied fails exactly if it does not fit (`PlainHunk`, from `Passed`, an invariant over its lines). The
hunks are those the parser makes of any patch (`PatchIsParsed`: inside a hunk there is a last file with
a last hunk). `PatchInv` then follows a patch through its awaits, with the fact that the workspace only
ever holds directories and lines, whatever the other calls do (`Holds`). A dry run keeps `DryInv`: a
reading call will find what it has looked for, an answer is a preview or what the tool answers alone,
and the entries are one for each call with an answer (`Listed`), so that the counts of the report are
cardinalities of sets of calls, by a bijection (`Counted`).

Two devices recur. What the prover must reach is written as recursive functions (`Kept`, `AskAll`,
`ParsePatch`, `HunksApplied`) and not with `SelectSeq` or `FoldLeft`, of which the prover knows no more
than their name; and induction goes over the set of numbers for which a fact holds (`Induct`), because
a theorem with an operator parameter cannot be instantiated here. So what these functions return is
proved (`KeptMore`, `KeptIs` in `SequenceProofs`, `AskAllIs`, `HunksAppliedBy`).

### Only model-checked

* Liveness (`DelegationEnds`, `CallsReturn`, `ExecutionsEnd`, `StaleLeaseYields`, `MutationsAnswered`):
  the prover has no reasoning about fairness and `ENABLED`.
* `PreviewsForetell`: it compares previews with folds over the files of a patch; every preview is one
  step, so that nothing interleaves with it.
* `SerialIfApart`: it compares the end of every interleaving with a fold over the calls in some order,
  and an induction over that order would need that calls commute, for each pair of tools and for every
  workspace.
* Everything about `ContextCompaction`: its nodes are trees, and what a frontier covers is defined by
  recursion over them with `RECURSIVE` operators, which the prover cannot be given.

## 5. Not modelled, and the plan

Pure input and output (skills, tool results, rendering, command line), thin contracts, the providers'
conversions, configuration (agent registry, settings) and programs that tools start (shell, ripgrep)
stay out. Event queues (`runtime/execution/execution-branch.ts`) carry only what the interface shows:
trailing events may be dropped when a branch closes its queue, but no decision depends on them.
Composition of `SessionTurns` with `FileSessionStore` is by contract: the former takes a store
operation as one step that may be lost or late, which is what the latter's `SessionLog` allows.

To be added, in order of importance:

1. `ContextCompaction` with nodes in a table (an id for each, children as ids) in place of trees, so that
   what a frontier covers is a recursive function and `UpdatesAccepted` can be proved.
2. `SerialIfApart`: that two calls that do not meet commute, tool by tool, then the order.
3. The composition of `AgentLoop` with the permits of `AgentRuntime` on a small tree.
4. `DurablePrefix` over `FileSessionStore` instead of its contract.
