----------------------------- MODULE SessionTurns -----------------------------
(***************************************************************************)
(* The terminal's session layer: SessionController with its service and    *)
(* its commit coordinator, over a session store, around one agent's loop.  *)
(*                                                                         *)
(* A store operation is atomic (the store's mutation queue runs one at a   *)
(* time, FileSessionStore models its files) and the code that follows it   *)
(* in the controller runs with it: the promise is settled before the queue *)
(* takes the next one.  An operation is lost, or late: committed although  *)
(* an error is returned, as when the reading back of a renamed revision    *)
(* fails.  In which order the queue takes the operations of a command and  *)
(* of a running turn is left open.                                         *)
(*                                                                         *)
(* The user waits for the answer to a command or a message before the next *)
(* one, except for /mode and /model, which the input takes at any time.    *)
(***************************************************************************)
EXTENDS Integers, Sequences, SequencesExt, FiniteSets, Selection

CONSTANTS
  NumSessions,   \* bound: session ids ever drawn
  MaxTurns,      \* bound: turn ids ever drawn
  MaxSteps,      \* bound: steps of one turn (maxSteps)
  NumCalls,      \* ordinary tool uses in one model message
  MaxFailures,   \* bound: store operations that fail
  MaxCrashes     \* bound: ends of the process without a word

ASSUME SessionAssumption ==
  /\ NumSessions \in Nat \ {0}
  /\ MaxTurns \in Nat
  /\ MaxSteps \in Nat \ {0}
  /\ NumCalls \in Nat \ {0}
  /\ MaxFailures \in Nat
  /\ MaxCrashes \in Nat

Session == 1 .. NumSessions
NoSession == 0
TurnId == 1 .. MaxTurns
HandoffUse == 0                       \* the tool use of a handoff, which is exclusive
Calls == 1 .. NumCalls                \* the tool uses of any other message
Agent == {"entry", "target"}          \* the agents of the group

VARIABLES
  db,         \* [Session -> Record]: the newest revision in the store
  stored,     \* the sessions that have one
  dirs,       \* the sessions that have a directory
  refs,       \* [Session -> Nat]: uses of the lease this process holds
  current,    \* SessionController.current: a draft or a record
  attached,   \* the session of attachedLease, or NoSession
  cmd,        \* the command in progress
  turn,       \* the turn in progress (runTurnInternal)
  loop,       \* where the agent's loop stands
  todo,       \* the tool uses that have no result yet
  view,       \* the agent's transcript
  chain,      \* the coordinator's operations, in the order of its tail
  pending,    \* the coordinator's pendingMessages
  drawn,      \* session and turn ids drawn so far
  broken,     \* turns the process gave up while they were running
  faults      \* failures and crashes so far, and whether an error was late

storeVars == <<db, stored>>
leaseVars == <<dirs, refs, attached>>
loopVars == <<loop, todo, view, chain, pending>>
vars == <<storeVars, leaseVars, current, cmd, turn, loopVars, drawn, broken, faults>>

Message == [turn : TurnId, kind : {"user", "calls", "result", "repair", "text"},
            step : 0 .. MaxSteps, uses : SUBSET (Calls \cup {HandoffUse})]
Status == {"running", "completed", "failed", "cancelled", "interrupted"}
PersistedTurn == [id : TurnId, status : Status, from : Agent, to : Agent]
Phase == [status : {"active", "completed"}, first : TurnId, last : TurnId \cup {0}]
Record == [messages : Seq(Message), turns : Seq(PersistedTurn), phases : Seq(Phase), agent : Agent]

EmptyRecord == [messages |-> <<>>, turns |-> <<>>, phases |-> <<>>, agent |-> "entry"]
Draft(s) == [id |-> s, draft |-> TRUE, record |-> EmptyRecord]
Loaded(s, r) == [id |-> s, draft |-> FALSE, record |-> r]
NoCommand == [op |-> "none", pc |-> "done"]
NoTurn == [pc |-> "idle", id |-> 0, session |-> NoSession, draft |-> FALSE, outcome |-> "none",
           agent |-> "entry", handed |-> FALSE, step |-> 0]

Op == {"rename", "badName", "mode", "clear"}
TypeOK ==
  /\ db \in [Session -> Record]
  /\ stored \subseteq Session /\ dirs \subseteq Session
  /\ refs \in [Session -> 0 .. 2]
  /\ current \in [id : Session, draft : BOOLEAN, record : Record]
  /\ attached \in Session \cup {NoSession}
  /\ cmd \in [op : Op \cup {"none"}, pc : {"open", "materialize", "mutate", "attach", "done"}]
  /\ turn \in [pc : {"idle", "open", "start", "attach", "create", "run", "finish", "refinish", "giveUp"},
               id : TurnId \cup {0}, session : Session \cup {NoSession}, draft : BOOLEAN,
               outcome : {"none", "completed", "failed", "cancelled"},
               agent : Agent, handed : BOOLEAN, step : 0 .. MaxSteps]
  /\ loop \in {"off", "think", "saveCalls", "act", "saveStep", "handoff", "transfer"}
  /\ todo \subseteq Calls
  /\ view \in Seq(Message) /\ pending \in Seq(Message)
  /\ chain \in Seq([kind : {"save", "handoff", "finish"}, messages : Seq(Message)])
  /\ drawn \in [sessions : Session, turns : 0 .. MaxTurns]
  /\ broken \subseteq TurnId
  /\ faults \in [failures : 0 .. MaxFailures, crashes : 0 .. MaxCrashes, late : BOOLEAN]

Init ==
  /\ db = [s \in Session |-> EmptyRecord]
  /\ stored = {} /\ dirs = {}
  /\ refs = [s \in Session |-> 0]
  /\ current = Draft(1)
  /\ attached = NoSession
  /\ cmd = NoCommand
  /\ turn = NoTurn
  /\ loop = "off" /\ todo = {} /\ view = <<>> /\ chain = <<>> /\ pending = <<>>
  /\ drawn = [sessions |-> 1, turns |-> 0]
  /\ broken = {}
  /\ faults = [failures |-> 0, crashes |-> 0, late |-> FALSE]

-----------------------------------------------------------------------------
(* The reducers of SessionService: what each makes of the record.          *)

IsResult(m) == m.kind \in {"result", "repair"}

(* The tool messages that follow the tool uses at i and answer any of them.*)
AnswersTo(messages, i) ==
  {j \in i + 1 .. Len(messages) :
     \A k \in i + 1 .. j : IsResult(messages[k]) /\ messages[k].uses \cap messages[i].uses # {}}

(* The tool uses at i that no message following it directly answers.       *)
Missing(messages, i) ==
  IF messages[i].kind # "calls" THEN {}
  ELSE messages[i].uses \ UNION {messages[j].uses : j \in AnswersTo(messages, i)}

RepairAt(messages, turnIds, p) ==
  {i \in 1 .. p : /\ messages[i].turn \in turnIds
                  /\ Missing(messages, i) # {}
                  /\ p = i + Cardinality(AnswersTo(messages, i))}

(* repairIncompleteToolUses: one tool message for the uses left unanswered.*)
Repair(messages, turnIds) ==
  FlattenSeq([p \in 1 .. Len(messages) |->
    <<messages[p]>> \o
    SetToSeq({[messages[i] EXCEPT !.kind = "repair", !.uses = Missing(messages, i)] :
                i \in RepairAt(messages, turnIds, p)})])

(* Mutant: messages are appended whatever their ids are.                   *)
AppendAll(messages, incoming) == messages \o incoming

(* appendUniqueMessages: equal messages here are messages with one id.     *)
AppendUnique(messages, incoming) ==
  messages \o Kept(incoming, Range(incoming) \ Range(messages))

OfTurn(r, id) == CHOOSE i \in DOMAIN r.turns : r.turns[i].id = id
IsRunning(r, id) == \E i \in DOMAIN r.turns : r.turns[i].id = id /\ r.turns[i].status = "running"
RunningTurns(r) == {t.id : t \in {u \in Range(r.turns) : u.status = "running"}}

(* Mutant: turns that have ended are marked as well.                       *)
AllInterrupted(turns) == [i \in DOMAIN turns |-> [turns[i] EXCEPT !.status = "interrupted"]]

Interrupted(turns) ==
  [i \in DOMAIN turns |->
     IF turns[i].status = "running" THEN [turns[i] EXCEPT !.status = "interrupted"] ELSE turns[i]]

Cleared(r) == [r EXCEPT !.messages = <<>>, !.phases = <<>>, !.turns = Interrupted(r.turns)]

(* Mutant: the turns are marked, their tool uses stay unanswered.          *)
MarkedOnly(r) == [r EXCEPT !.turns = Interrupted(r.turns)]

Repaired(r) ==
  [r EXCEPT !.messages = Repair(r.messages, RunningTurns(r)), !.turns = Interrupted(r.turns)]

UserMessage(id) == [turn |-> id, kind |-> "user", step |-> 0, uses |-> {}]
HasActivePhase(r) == \E i \in DOMAIN r.phases : r.phases[i].status = "active"

(* Mutant: every turn opens a phase.                                       *)
StartedInNewPhase(r, id) ==
  [r EXCEPT !.messages = AppendUnique(@, <<UserMessage(id)>>),
            !.turns = Append(@, [id |-> id, status |-> "running", from |-> r.agent, to |-> r.agent]),
            !.phases = Append(@, [status |-> "active", first |-> id, last |-> 0])]

Started(r, id) ==
  [r EXCEPT !.messages = AppendUnique(@, <<UserMessage(id)>>),
            !.turns = Append(@, [id |-> id, status |-> "running", from |-> r.agent, to |-> r.agent]),
            !.phases = IF HasActivePhase(r) THEN @
                       ELSE Append(@, [status |-> "active", first |-> id, last |-> 0])]

(* finishTurn: handoffs and finalAgentId are the result's.  A transition   *)
(* asked for by phase_transition counts only if the turn completed.        *)
Finished(r, id, status, final, handed, transition) ==
  [r EXCEPT
     !.messages = Repair(AppendUnique(r.messages, pending), {id}),
     !.turns = [i \in DOMAIN r.turns |->
                  IF r.turns[i].id = id THEN [r.turns[i] EXCEPT !.status = status, !.to = final]
                  ELSE r.turns[i]],
     !.agent = IF handed THEN final ELSE r.agent,
     !.phases = IF transition /\ status = "completed"
                  THEN [i \in DOMAIN r.phases |->
                          IF r.phases[i].status = "active"
                            THEN [r.phases[i] EXCEPT !.status = "completed", !.last = id]
                            ELSE r.phases[i]]
                  ELSE r.phases]

-----------------------------------------------------------------------------
(* How a store operation on s ends.  A result that is lost or late counts  *)
(* as a failure.                                                           *)
Works == UNCHANGED faults
Fails(late) ==
  /\ faults.failures < MaxFailures
  /\ faults' = [faults EXCEPT !.failures = @ + 1, !.late = @ \/ late]

Write(s, r) == db' = [db EXCEPT ![s] = r] /\ stored' = stored \cup {s}

Committed(s, r) == Works /\ Write(s, r)
Late(s, r) == Fails(TRUE) /\ Write(s, r)
Lost == Fails(FALSE) /\ UNCHANGED storeVars
Refused == Works /\ UNCHANGED storeVars

(* create needs a lease of its own: on the one the controller holds, or on *)
(* a directory it can make.  An existing record is a revision conflict.    *)
CanCreate(s) == s \notin stored /\ (refs[s] > 0 \/ s \notin dirs)

(* attachDraftBeforeMaterialize and ensureAttached look before they wait.  *)
MustOpen == attached = NoSession /\ current.draft
MustAttach == attached = NoSession

Hold(s) == /\ refs' = [refs EXCEPT ![s] = @ + 1]
           /\ attached' = s
           /\ dirs' = dirs \cup {s}

(* release of the lease of s, if it is one.                                *)
Without(uses, s) == IF s = NoSession THEN uses ELSE [uses EXCEPT ![s] = IF @ > 0 THEN @ - 1 ELSE 0]

(* acquire(current.id, {create: true}): mkdir, then the lease file.        *)
Opens(s, opened, refused) ==
  \/ s \notin dirs /\ Works /\ Hold(s) /\ opened
  \/ s \notin dirs /\ Fails(FALSE) /\ dirs' \in {dirs, dirs \cup {s}} /\ UNCHANGED <<refs, attached>> /\ refused
  \/ s \in dirs /\ Works /\ UNCHANGED leaseVars /\ refused

(* acquire(current.id): of two that both found no lease held, the second   *)
(* finds the lease file of the first.                                      *)
Attaches(s, done, refused) ==
  \/ refs[s] = 0 /\ Works /\ Hold(s) /\ done
  \/ refs[s] > 0 /\ Works /\ UNCHANGED leaseVars /\ refused
  \/ Fails(FALSE) /\ UNCHANGED leaseVars /\ refused

-----------------------------------------------------------------------------
Resting == turn.pc = "idle" /\ cmd = NoCommand
NextDraft == current' = Draft(drawn.sessions + 1) /\ drawn' = [drawn EXCEPT !.sessions = @ + 1]

(* rename, clear, switchModel and switchExecutionMode.  All but the last   *)
(* two assert that no turn is running.  A bad name is one that             *)
(* normalizeSessionName refuses: the reducer of rename throws.             *)
BeginCommand(op) ==
  /\ cmd = NoCommand
  /\ op # "mode" => turn.pc = "idle"
  /\ cmd' = [op |-> op, pc |-> IF MustOpen THEN "open"
                               ELSE IF current.draft THEN "materialize" ELSE "mutate"]
  /\ UNCHANGED <<storeVars, leaseVars, current, turn, loopVars, drawn, broken, faults>>

OpenForCommand ==
  /\ cmd.pc = "open"
  /\ Opens(current.id,
           cmd' = [cmd EXCEPT !.pc = IF current.draft THEN "materialize" ELSE "mutate"],
           cmd' = NoCommand)
  /\ UNCHANGED <<storeVars, current, turn, loopVars, drawn, broken>>

(* materialize: the draft becomes revision 1.  The controller keeps the    *)
(* draft as its current session until the command's own commit returns.    *)
Materialize ==
  /\ cmd.pc = "materialize"
  /\ \/ /\ CanCreate(current.id)
        /\ Committed(current.id, EmptyRecord)
        /\ cmd' = [cmd EXCEPT !.pc = "mutate"]
     \/ /\ ~CanCreate(current.id) /\ Refused
        /\ cmd' = NoCommand
     \/ /\ CanCreate(current.id) /\ (Lost \/ Late(current.id, EmptyRecord))
        /\ cmd' = NoCommand
  /\ UNCHANGED <<leaseVars, current, turn, loopVars, drawn, broken>>

CommandReducer == IF cmd.op = "clear" THEN Cleared(db[current.id]) ELSE db[current.id]

(* Mutant: the command leaves current as it was.                           *)
MutateQuietly ==
  /\ cmd.pc = "mutate"
  /\ current.id \in stored
  /\ Committed(current.id, CommandReducer) /\ cmd' = NoCommand
  /\ UNCHANGED <<leaseVars, current, turn, loopVars, drawn, broken>>

(* The command's commit, current taking the new record, and ensureAttached.*)
Mutate ==
  /\ cmd.pc = "mutate"
  /\ \/ /\ current.id \in stored /\ cmd.op # "badName"
        /\ Committed(current.id, CommandReducer)
        /\ current' = Loaded(current.id, CommandReducer)
        /\ cmd' = IF MustAttach THEN [cmd EXCEPT !.pc = "attach"] ELSE NoCommand
     \/ /\ current.id \notin stored \/ cmd.op = "badName"
        /\ Refused /\ cmd' = NoCommand /\ UNCHANGED current
     \/ /\ current.id \in stored /\ cmd.op # "badName"
        /\ Lost \/ Late(current.id, CommandReducer)
        /\ cmd' = NoCommand /\ UNCHANGED current
  /\ UNCHANGED <<leaseVars, turn, loopVars, drawn, broken>>

AttachForCommand ==
  /\ cmd.pc = "attach"
  /\ Attaches(current.id, cmd' = NoCommand, cmd' = NoCommand)
  /\ UNCHANGED <<storeVars, current, turn, loopVars, drawn, broken>>

(* Mutant: the lease of the session that is left is kept.                  *)
NewDraftKeepingLease ==
  /\ Resting
  /\ drawn.sessions < NumSessions
  /\ attached' = NoSession
  /\ NextDraft
  /\ UNCHANGED <<storeVars, dirs, refs, cmd, turn, loopVars, broken, faults>>

(* newDraft: the lease is gone before a bad name is refused.               *)
NewDraft ==
  /\ Resting
  /\ drawn.sessions < NumSessions
  /\ refs' = Without(refs, attached)
  /\ attached' = NoSession
  /\ NextDraft \/ UNCHANGED <<current, drawn>>
  /\ UNCHANGED <<storeVars, dirs, cmd, turn, loopVars, broken, faults>>

(* deleteCurrent of a record: the lease goes even if the deletion fails.   *)
DeleteCurrent ==
  /\ Resting
  /\ ~current.draft
  /\ drawn.sessions < NumSessions
  /\ attached' = NoSession
  /\ \/ /\ Works
        /\ stored' = stored \ {current.id} /\ dirs' = dirs \ {current.id}
        /\ db' = [db EXCEPT ![current.id] = EmptyRecord]
        /\ refs' = [refs EXCEPT ![current.id] = 0]
        /\ NextDraft
     \/ Lost /\ refs' = Without(refs, attached) /\ UNCHANGED <<dirs, current, drawn>>
  /\ UNCHANGED <<cmd, turn, loopVars, broken>>

(* resume: the target's lease, its record, the repair of what was running, *)
(* and only then the release of the lease held before.  assertRunnable may *)
(* refuse a group or an agent that is no longer configured.                *)
Resume(s) ==
  /\ Resting
  /\ s \in stored
  /\ \/ /\ Committed(s, Repaired(db[s]))
        /\ current' = Loaded(s, Repaired(db[s]))
        /\ attached' = s
        /\ refs' = Without([refs EXCEPT ![s] = @ + 1], attached)
     \/ Lost /\ UNCHANGED <<current, attached, refs>>
     \/ Late(s, Repaired(db[s])) /\ UNCHANGED <<current, attached, refs>>
  /\ UNCHANGED <<dirs, cmd, turn, loopVars, drawn, broken>>

-----------------------------------------------------------------------------
(* runTurn up to the first wait.  The messages of the earlier turns are    *)
(* read from current before the turn is written.                           *)
BeginTurn ==
  /\ turn.pc = "idle"
  /\ cmd.op \in {"none", "mode"}
  /\ drawn.turns < MaxTurns
  /\ IF MustOpen
       THEN turn' = [NoTurn EXCEPT !.pc = "open"] /\ UNCHANGED <<drawn, view>>
       ELSE /\ turn' = [NoTurn EXCEPT !.pc = "start", !.id = drawn.turns + 1,
                                      !.session = current.id, !.draft = current.draft]
            /\ drawn' = [drawn EXCEPT !.turns = @ + 1]
            /\ view' = current.record.messages
  /\ UNCHANGED <<storeVars, leaseVars, current, cmd, loop, todo, chain, pending, broken, faults>>

OpenForTurn ==
  /\ turn.pc = "open"
  /\ Opens(current.id,
           /\ turn' = [NoTurn EXCEPT !.pc = "start", !.id = drawn.turns + 1,
                                     !.session = current.id, !.draft = current.draft]
           /\ drawn' = [drawn EXCEPT !.turns = @ + 1]
           /\ view' = current.record.messages,
           turn' = NoTurn /\ UNCHANGED <<drawn, view>>)
  /\ UNCHANGED <<storeVars, current, cmd, loop, todo, chain, pending, broken>>

Abandon == turn' = NoTurn /\ view' = <<>>

(* startTurn: create for a draft, mutate for a record.                     *)
StartTurn ==
  LET s == turn.session
      record == Started(db[s], turn.id)
      can == IF turn.draft THEN CanCreate(s) ELSE s \in stored
  IN
  /\ turn.pc = "start"
  /\ \/ /\ can
        /\ Committed(s, record)
        /\ current' = Loaded(s, record)
        /\ turn' = [turn EXCEPT !.pc = IF MustAttach THEN "attach" ELSE "create", !.agent = record.agent]
        /\ view' = Append(view, UserMessage(turn.id))
        /\ UNCHANGED broken
     \/ /\ ~can /\ Refused
        /\ Abandon /\ UNCHANGED <<current, broken>>
     \/ /\ can
        /\ Lost \/ Late(s, record)
        /\ Abandon /\ broken' = broken \cup {turn.id} /\ UNCHANGED current
  /\ UNCHANGED <<leaseVars, cmd, loop, todo, chain, pending, drawn>>

(* ensureAttached: nothing finishes the turn if it fails here.             *)
AttachForTurn ==
  /\ turn.pc = "attach"
  /\ IF attached # NoSession
       THEN Works /\ UNCHANGED leaseVars /\ turn' = [turn EXCEPT !.pc = "create"] /\ UNCHANGED <<view, broken>>
       ELSE Attaches(turn.session,
                     turn' = [turn EXCEPT !.pc = "create"] /\ UNCHANGED <<view, broken>>,
                     Abandon /\ broken' = broken \cup {turn.id})
  /\ UNCHANGED <<storeVars, current, cmd, loop, todo, chain, pending, drawn>>

Request(kind, messages) ==
  /\ chain' = Append(chain, [kind |-> kind, messages |-> messages])
  /\ pending' = pending \o messages

(* Mutant: the failure to create the agent is not recorded.                *)
CreateAgentOrLeave ==
  /\ turn.pc = "create"
  /\ \/ turn' = [turn EXCEPT !.pc = "run"] /\ loop' = "think" /\ UNCHANGED view
     \/ Abandon /\ UNCHANGED loop
  /\ UNCHANGED <<storeVars, leaseVars, current, cmd, todo, chain, pending, drawn, broken, faults>>

(* AgentRegistry.create; a failure is recorded once.                       *)
CreateAgent ==
  /\ turn.pc = "create"
  /\ \/ /\ turn' = [turn EXCEPT !.pc = "run"]
        /\ loop' = "think"
        /\ UNCHANGED <<chain, pending>>
     \/ /\ turn' = [turn EXCEPT !.pc = "giveUp", !.outcome = "failed"]
        /\ Request("finish", <<>>)
        /\ UNCHANGED loop
  /\ UNCHANGED <<storeVars, leaseVars, current, cmd, todo, view, drawn, broken, faults>>

-----------------------------------------------------------------------------
(* The agent's loop, as far as the session can tell.                       *)

Say(kind, uses) == [turn |-> turn.id, kind |-> kind, step |-> turn.step, uses |-> uses]
Live == turn.pc = "run" /\ turn.outcome = "none"

(* The model answers with a text, which ends the branch, with tool uses,   *)
(* or not at all (an error, a limit, a deadline).                          *)
Answer ==
  /\ Live /\ loop = "think"
  /\ turn' = [turn EXCEPT !.outcome = "completed"]
  /\ view' = Append(view, Say("text", {}))
  /\ loop' = "off"
  /\ UNCHANGED <<storeVars, leaseVars, current, cmd, todo, chain, pending, drawn, broken, faults>>

(* Tool uses: their message is saved before any of them is carried out.    *)
CallTools(uses) ==
  LET calls == [Say("calls", uses) EXCEPT !.step = @ + 1] IN
  /\ Live /\ loop = "think"
  /\ turn.step < MaxSteps
  /\ turn' = [turn EXCEPT !.step = @ + 1]
  /\ view' = Append(view, calls)
  /\ Request("save", <<calls>>)
  /\ loop' = "saveCalls"
  /\ UNCHANGED <<storeVars, leaseVars, current, cmd, todo, drawn, broken, faults>>

ResultsOfStep ==
  Kept(view, {m \in Range(view) : m.turn = turn.id /\ m.kind = "result" /\ m.step = turn.step})

(* Results are appended as the tools end; with the last one the step is    *)
(* saved.                                                                  *)
Result(u) ==
  /\ Live /\ loop = "act"
  /\ u \in todo
  /\ todo' = todo \ {u}
  /\ view' = Append(view, Say("result", {u}))
  /\ IF todo' = {}
       THEN Request("save", Append(ResultsOfStep, Say("result", {u}))) /\ loop' = "saveStep"
       ELSE UNCHANGED <<chain, pending, loop>>
  /\ UNCHANGED <<storeVars, leaseVars, current, cmd, turn, drawn, broken, faults>>

(* A failure of the execution, or abort(): the result is settled at once,  *)
(* whatever the loop awaits.  If a tool's end and the cancellation arrive  *)
(* together, the loop still saves the results it has.                      *)
End(outcome) ==
  /\ Live
  /\ outcome = "failed" => loop = "think"
  /\ turn' = [turn EXCEPT !.outcome = outcome]
  /\ todo' = {}
  /\ \/ /\ loop' = IF loop \in {"think", "handoff", "act"} THEN "off" ELSE loop
        /\ UNCHANGED <<chain, pending>>
     \/ loop = "act" /\ Request("save", ResultsOfStep) /\ loop' = "saveStep"
  /\ UNCHANGED <<storeVars, leaseVars, current, cmd, view, drawn, broken, faults>>

RejectHandoff ==
  LET rejection == Say("result", {HandoffUse}) IN
  /\ Live /\ loop = "handoff"
  /\ view' = Append(view, rejection)
  /\ Request("save", <<rejection>>)
  /\ loop' = "saveStep"
  /\ UNCHANGED <<storeVars, leaseVars, current, cmd, turn, todo, drawn, broken, faults>>

SaveHandoff ==
  /\ Live /\ loop = "handoff"
  /\ turn.agent # "target"
  /\ Request("handoff", <<Say("result", {HandoffUse})>>)
  /\ loop' = "transfer"
  /\ UNCHANGED <<storeVars, leaseVars, current, cmd, turn, todo, view, drawn, broken, faults>>

-----------------------------------------------------------------------------
(* The coordinator's tail: one operation after the other, also after one   *)
(* that failed.                                                            *)
HeadIs(kind) == chain # <<>> /\ chain[1].kind = kind
Forget(messages) == Kept(pending, Range(pending) \ Range(messages))

(* Mutant: the loop goes on after a checkpoint that failed.                *)
LoopGoesOn ==
  /\ loop' = IF loop = "saveCalls" THEN "act" ELSE "think"
  /\ todo' = IF loop = "saveCalls" THEN Last(view).uses \cap Calls ELSE {}
  /\ UNCHANGED <<turn, view, pending, current>>

LoopFails ==
  /\ turn' = [turn EXCEPT !.outcome = IF Live THEN "failed" ELSE @]
  /\ loop' = "off" /\ todo' = {}
  /\ UNCHANGED <<view, pending, current>>

AfterSave ==
  IF ~Live THEN loop' = "off" /\ todo' = {}
  ELSE IF loop = "saveStep" THEN loop' = "think" /\ todo' = {}
  ELSE LET uses == Last(view).uses IN
       IF uses = {HandoffUse} THEN loop' = "handoff" /\ todo' = {}
       ELSE loop' = "act" /\ todo' = uses

(* checkpointTurn, refused once the turn is over.                          *)
CommitSave ==
  LET s == turn.session
      record == [db[s] EXCEPT !.messages = AppendUnique(@, chain[1].messages)]
  IN
  /\ HeadIs("save")
  /\ chain' = Tail(chain)
  /\ \/ /\ IsRunning(db[s], turn.id)
        /\ Committed(s, record)
        /\ current' = Loaded(s, record)
        /\ pending' = Forget(chain[1].messages)
        /\ AfterSave
        /\ UNCHANGED <<turn, view>>
     \/ ~IsRunning(db[s], turn.id) /\ Refused /\ LoopFails
     \/ IsRunning(db[s], turn.id) /\ (Lost \/ Late(s, record)) /\ LoopFails
  /\ UNCHANGED <<leaseVars, cmd, drawn, broken>>

(* commitHandoff: the session's agent moves with the confirmation message. *)
(* The branch records the handoff only if it is still live: a cancelled    *)
(* turn keeps its agent.                                                   *)
CommitHandoff ==
  LET s == turn.session
      record == [db[s] EXCEPT !.messages = AppendUnique(@, chain[1].messages), !.agent = "target"]
  IN
  /\ HeadIs("handoff")
  /\ chain' = Tail(chain)
  /\ \/ /\ IsRunning(db[s], turn.id)
        /\ Committed(s, record)
        /\ current' = Loaded(s, record)
        /\ pending' = Forget(chain[1].messages)
        /\ IF Live
             THEN /\ turn' = [turn EXCEPT !.agent = "target", !.handed = TRUE]
                  /\ view' = view \o chain[1].messages
                  /\ loop' = "think"
             ELSE UNCHANGED <<turn, view>> /\ loop' = "off"
        /\ UNCHANGED todo
     \/ IsRunning(db[s], turn.id) /\ (Lost \/ Late(s, record)) /\ LoopFails
  /\ UNCHANGED <<leaseVars, cmd, drawn, broken>>

(* runTurnInternal once the result is there: the final message is pending  *)
(* with whatever checkpoints have failed to write.                         *)
Settle ==
  /\ turn.pc = "run" /\ turn.outcome # "none"
  /\ turn' = [turn EXCEPT !.pc = "finish"]
  /\ Request("finish", IF turn.outcome = "completed" THEN <<Last(view)>> ELSE <<>>)
  /\ UNCHANGED <<storeVars, leaseVars, current, cmd, loop, todo, view, drawn, broken, faults>>

EndTurn ==
  /\ turn' = NoTurn /\ loop' = "off" /\ todo' = {}
  /\ view' = <<>> /\ chain' = <<>> /\ pending' = <<>>

Initial(r, id) == r.turns[OfTurn(r, id)].from

(* finishTurn.  After an error it is called once more, with a failed       *)
(* result that names the initial agent and no handoff; a second error      *)
(* leaves the turn running.                                                *)
CommitFinish(transition) ==
  LET s == turn.session
      first == turn.pc = "finish"
      record == IF first
                  THEN Finished(db[s], turn.id, turn.outcome, turn.agent, turn.handed, transition)
                  ELSE Finished(db[s], turn.id, "failed", Initial(db[s], turn.id), FALSE, FALSE)
  IN
  /\ HeadIs("finish")
  /\ transition => first /\ turn.outcome = "completed"
  /\ \/ /\ Committed(s, record)
        /\ current' = Loaded(s, record)
        /\ EndTurn /\ UNCHANGED broken
     \/ /\ Lost \/ Late(s, record)
        /\ IF first
             THEN /\ turn' = [turn EXCEPT !.pc = "refinish"]
                  /\ chain' = Append(Tail(chain), chain[1])
                  /\ UNCHANGED <<loop, todo, view, pending, broken>>
             ELSE EndTurn /\ broken' = broken \cup {turn.id}
        /\ UNCHANGED current
  /\ UNCHANGED <<leaseVars, cmd, drawn>>

(* The process ends: the next one starts with a new draft.                 *)
Crash ==
  /\ faults.crashes < MaxCrashes
  /\ drawn.sessions < NumSessions
  /\ faults' = [faults EXCEPT !.crashes = @ + 1]
  /\ broken' = broken \cup (IF turn.id = 0 THEN {} ELSE {turn.id})
  /\ refs' = [s \in Session |-> 0] /\ attached' = NoSession
  /\ cmd' = NoCommand
  /\ EndTurn
  /\ NextDraft
  /\ UNCHANGED <<storeVars, dirs>>

-----------------------------------------------------------------------------
Commands ==
  \/ \E op \in Op : BeginCommand(op)
  \/ OpenForCommand
  \/ Materialize
  \/ Mutate
  \/ AttachForCommand
  \/ NewDraft
  \/ DeleteCurrent
  \/ \E s \in Session : Resume(s)

Turns ==
  \/ BeginTurn
  \/ OpenForTurn
  \/ StartTurn
  \/ AttachForTurn
  \/ CreateAgent
  \/ Answer
  \/ \E uses \in {Calls, {HandoffUse}} : CallTools(uses)
  \/ \E outcome \in {"failed", "cancelled"} : End(outcome)
  \/ \E u \in Calls : Result(u)
  \/ RejectHandoff
  \/ SaveHandoff

Commits == CommitSave \/ CommitHandoff \/ \E transition \in BOOLEAN : CommitFinish(transition)

Next == Commands \/ Turns \/ Settle \/ Commits \/ Crash

Spec == Init /\ [][Next]_vars

-----------------------------------------------------------------------------
Stage(m) == IF m.kind \in {"user", "calls"} THEN 0 ELSE 1
Before(m, n) ==
  \/ m.turn < n.turn
  \/ m.turn = n.turn /\ m.step < n.step
  \/ m.turn = n.turn /\ m.step = n.step /\ Stage(m) <= Stage(n)

InOrder(messages) ==
  \A i, j \in DOMAIN messages : i < j => messages[i] # messages[j] /\ Before(messages[i], messages[j])

AnsweredOnce(messages, i) ==
  /\ Missing(messages, i) = {}
  /\ \A u \in messages[i].uses :
       Cardinality({j \in DOMAIN messages :
         /\ IsResult(messages[j]) /\ u \in messages[j].uses
         /\ messages[j].turn = messages[i].turn /\ messages[j].step = messages[i].step}) = 1

(* Whatever is retried, and whatever cancelled loops still write: the      *)
(* transcript has every message once, turn after turn, step after step, a  *)
(* call before its results.  In a turn that has ended every tool use is    *)
(* answered once, by the tool messages that follow it: what a provider     *)
(* demands of the next request.                                            *)
TranscriptWhole ==
  \A s \in stored :
    LET messages == db[s].messages IN
    /\ InOrder(messages)
    /\ \A i \in DOMAIN messages :
         messages[i].kind = "calls" /\ messages[i].turn \notin RunningTurns(db[s]) => AnsweredOnce(messages, i)

(* What the store has is what the agent has seen, but for its last step:   *)
(* the durable transcript is a prefix of the agent's, never ahead of it    *)
(* except for a confirmation of a handoff.                                 *)
DurablePrefix ==
  Live /\ ~faults.late =>
          LET messages == db[turn.session].messages IN
          \/ IsPrefix(messages, view)
          \/ loop = "transfer" /\ IsPrefix(Front(messages), view)

(* A turn is running in the store only while it runs, unless the process   *)
(* or the store failed it; and no other is, after a session was resumed.   *)
RunningIsLive ==
  \A s \in stored : RunningTurns(db[s]) \subseteq broken \cup (IF turn.id = 0 THEN {} ELSE {turn.id})

(* At rest the lease of the attached session is held once, no other is,    *)
(* and it is the current one: none leaks, none is released twice.          *)
LeaseAccounted ==
  Resting => /\ \A s \in Session : refs[s] = IF s = attached THEN 1 ELSE 0
             /\ attached \in {NoSession, current.id}

(* At rest what the controller shows is what the store has, whichever of a *)
(* command and a turn has written last.                                    *)
CurrentFresh ==
  Resting /\ ~current.draft /\ ~faults.late =>
    current.id \in stored /\ current.record = db[current.id]

(* At most one phase is active and it is the last; the turn that runs    *)
(* has one, and the turns of the phases follow one another.                *)
PhasesInOrder ==
  \A s \in stored :
    LET phases == db[s].phases IN
    /\ \A i \in DOMAIN phases : phases[i].status = "active" => i = Len(phases)
    /\ \A i, j \in DOMAIN phases : i < j => phases[i].first <= phases[i].last /\ phases[i].last < phases[j].first
    /\ RunningTurns(db[s]) \ broken # {} => HasActivePhase(db[s])

(* A status that is no longer running stays, but for the retry of a finish *)
(* that reported an error.                                                 *)
StatusFinal ==
  [][\A s \in stored \cap stored' : \A i \in DOMAIN db[s].turns :
       db[s].turns[i].status # "running" =>
         db'[s].turns[i].status = db[s].turns[i].status \/ turn.pc = "refinish"]_vars
=============================================================================
