------------------------------- MODULE AgentLoop ------------------------------
(***************************************************************************)
(* The loop of an agent, Agent.runExecution in runtime/agent/agent.ts,     *)
(* with the tools it runs (runtime/tools/tool-executor.ts), the approval   *)
(* middleware and the two prompts a tool may wait for, and the checkpoints *)
(* by which its messages reach the Session.                                *)
(*                                                                         *)
(* There is one root execution, and one child that its delegate_task may   *)
(* start; both run the same loop, side by side, and share the approvals,   *)
(* the questions, the allowed tools and the checkpoint handler of the      *)
(* tree.  How permits and queues delay a child is AgentRuntime's subject.  *)
(* A step of this module runs from one await that really suspends to the   *)
(* next; the tools of a message run in parallel, and so does all that a    *)
(* cancelled execution has left behind.                                    *)
(***************************************************************************)
EXTENDS RequestQueue, FiniteSets

CONSTANTS
  Root, Child,              \* the two executions
  MaxUses,                  \* bound: tool uses in one model message
  Messages,                 \* [Execs -> SUBSET Seq(Tools)]: the tool uses a model may ask for
  maxSteps,                 \* [Execs -> Nat]: AgentOptions.maxSteps
  ThrowingHooks             \* executions one of whose beforeAgentRun hooks may throw

Execs == {Root, Child}

(* By effect: mutation, read, interaction, control, unknown.  "malformed"  *)
(* is a call whose name is unknown or whose input the schema refuses.      *)
Effect ==
  [shell |-> "mutation", read_file |-> "read", ask_user_question |-> "interaction",
   delegate_task |-> "control", handoff |-> "control", custom |-> "unknown",
   malformed |-> "none"]
Tools == DOMAIN Effect
Gated == {t \in Tools : Effect[t] = "mutation"}

ASSUME LoopAssumption ==
  /\ Root # Child
  /\ MaxUses \in Nat \ {0}
  /\ \A e \in Execs : \A uses \in Messages[e] : uses \in Seq(Tools) /\ Len(uses) <= MaxUses
  /\ maxSteps \in [Execs -> Nat \ {0}]
  /\ ThrowingHooks \subseteq Execs
  /\ NoRequest \notin Execs \X (1 .. MaxUses)

VARIABLES
  mode,        \* the execution mode of the turn: execute or dry_run
  status,      \* [Execs -> Status]
  pc,          \* [Execs -> Place]: the await the loop is at
  step,        \* [Execs -> Nat]
  transcript,  \* [Execs -> Seq(Message)]: execution.messages
  call,        \* [Execs -> Seq(Call)]: the tool uses of the latest message
  session,     \* Seq(Message): what the checkpoints of the turn have saved
  approvals,   \* the approval manager; a request is <<execution, index>>
  questions,   \* the question manager
  allowed      \* approvalState.allowedTools, shared by all agents of the turn

promptVars == <<approvals, questions>>
vars == <<mode, status, pc, step, transcript, call, session, promptVars, allowed>>

Status == {"none", "created", "running", "completed", "failed", "limit_exceeded", "handed_off", "aborted"}

(* Where the loop is: before its first step; waiting for the model; saving *)
(* the tool_call checkpoint; waiting for tools; saving the step_completed  *)
(* checkpoint; returned; or its promise rejected with nobody to handle it. *)
Place == {"idle", "starting", "model", "tool_call", "acting", "step_completed", "returned", "rejected"}

Uses == 1 .. MaxUses
Message == [by : Execs, role : {"user", "assistant", "tool"}, step : Nat, n : 0 .. MaxUses]

(* n is the number of tool uses of an assistant message and the index of   *)
(* the use that a tool message answers.                                    *)
UserMessage(e) == [by |-> e, role |-> "user", step |-> 0, n |-> 0]
AssistantMessage(e, uses) == [by |-> e, role |-> "assistant", step |-> step[e], n |-> Len(uses)]
ToolMessage(e, i) == [by |-> e, role |-> "tool", step |-> step[e], n |-> i]

(* A tool use is issued, asking for approval, remembered after "always     *)
(* allow", executing, resolved (its promise has settled), or appended.     *)
Phase == {"issued", "asking", "remembering", "executing", "resolved", "appended"}
(* The last two fields are history: the user has allowed this very use,    *)
(* and its mutation has been started.                                      *)
Call == [tool : Tools, phase : Phase, allowed : BOOLEAN, started : BOOLEAN]

TypeOK ==
  /\ mode \in {"execute", "dry_run"}
  /\ status \in [Execs -> Status]
  /\ pc \in [Execs -> Place]
  /\ \A e \in Execs : step[e] \in 0 .. maxSteps[e]
  /\ \A e \in Execs : transcript[e] \in Seq(Message) /\ call[e] \in Seq(Call) /\ Len(call[e]) <= MaxUses
  /\ session \in Seq(Message)
  /\ \A m \in {approvals, questions} :
       /\ m.queue \in Seq(Execs \X Uses) /\ Len(m.queue) <= MAX_QUEUE_SIZE
       /\ m.current \in (Execs \X Uses) \cup {NoRequest}
  /\ allowed \subseteq Gated

Init ==
  /\ mode \in {"execute", "dry_run"}
  /\ status = [e \in Execs |-> IF e = Root THEN "created" ELSE "none"]
  /\ pc = [e \in Execs |-> "idle"]
  /\ step = [e \in Execs |-> 0]
  /\ transcript = [e \in Execs |-> << >>]
  /\ call = [e \in Execs |-> << >>]
  /\ session = <<UserMessage(Root)>>
  /\ approvals = Empty
  /\ questions = Empty
  /\ allowed \in SUBSET Gated

-----------------------------------------------------------------------------
Terminal(e) == status[e] \in Status \ {"none", "created", "running"}
Indices(e) == DOMAIN call[e]
InPhase(e, phase) == {i \in Indices(e) : call[e][i].phase = phase}

SetPhase(e, i, phase) == call' = [call EXCEPT ![e][i].phase = phase]
Goto(e, place) == pc' = [pc EXCEPT ![e] = place]

(* The loop returns after the execution has got the given status, unless   *)
(* somebody else has ended it: finish ignores a terminal execution.        *)
Return(e, s) ==
  /\ Goto(e, "returned")
  /\ status' = [status EXCEPT ![e] = IF Terminal(e) THEN @ ELSE s]

-----------------------------------------------------------------------------
(* runExecution: the task or the user's text is the first message, then    *)
(* the beforeAgentRun hooks run, outside the try.                          *)
Begin(e) ==
  /\ pc[e] = "idle"
  /\ status[e] = "created"
  /\ status' = [status EXCEPT ![e] = "running"]
  /\ transcript' = [transcript EXCEPT ![e] = <<UserMessage(e)>>]
  /\ Goto(e, "starting")
  /\ UNCHANGED <<mode, step, call, session, promptVars, allowed>>

(* A middleware that does not allow dry runs fails the execution before    *)
(* its first hook.                                                         *)
ForbidDryRun(e) ==
  /\ pc[e] = "idle"
  /\ status[e] = "created"
  /\ mode = "dry_run"
  /\ status' = [status EXCEPT ![e] = "failed"]
  /\ transcript' = [transcript EXCEPT ![e] = <<UserMessage(e)>>]
  /\ Goto(e, "returned")
  /\ UNCHANGED <<mode, step, call, session, promptVars, allowed>>

(* A hook throws.  buildAndRunChild turns that into a failed child; nobody *)
(* awaits the promise of a root.                                           *)
HookThrows(e) ==
  /\ pc[e] = "starting"
  /\ e \in ThrowingHooks
  /\ IF e = Root
       THEN Goto(e, "rejected") /\ UNCHANGED status
       ELSE Return(e, "failed")
  /\ UNCHANGED <<mode, step, transcript, call, session, promptVars, allowed>>

(* The top of the loop: the next step, unless the execution has ended.  It *)
(* may be one too many for the branch, whose limit counts the steps of all *)
(* agents that a handoff has joined in it.                                 *)
NextStep(e) ==
  IF Terminal(e) THEN Return(e, "aborted") /\ UNCHANGED step
  ELSE IF step[e] = maxSteps[e] THEN Return(e, "limit_exceeded") /\ UNCHANGED step
  ELSE /\ step' = [step EXCEPT ![e] = @ + 1]
       /\ \/ Goto(e, "model") /\ UNCHANGED status
          \/ Return(e, "limit_exceeded")

HooksDone(e) ==
  /\ pc[e] = "starting"
  /\ NextStep(e)
  /\ UNCHANGED <<mode, transcript, call, session, promptVars, allowed>>

NewCall(t) == [tool |-> t, phase |-> "issued", allowed |-> FALSE, started |-> FALSE]

(* _think and what follows a finished message: the tree's token limit, the *)
(* end of the run, or the tool_call checkpoint.                            *)
Answer(e, uses, overLimit) ==
  /\ pc[e] = "model"
  /\ ~Terminal(e)
  /\ transcript' = [transcript EXCEPT ![e] = Append(@, AssistantMessage(e, uses))]
  /\ IF overLimit THEN Return(e, "limit_exceeded") /\ UNCHANGED call
     ELSE IF uses = << >> THEN Return(e, "completed") /\ UNCHANGED call
     ELSE /\ call' = [call EXCEPT ![e] = [i \in DOMAIN uses |-> NewCall(uses[i])]]
          /\ Goto(e, "tool_call")
          /\ UNCHANGED status
  /\ UNCHANGED <<mode, step, session, promptVars, allowed>>

(* The model, a hook or the context manager throws; or the execution has   *)
(* ended while the model was at work, and what it says is dropped.         *)
ModelFails(e) ==
  /\ pc[e] = "model"
  /\ Return(e, "failed")
  /\ UNCHANGED <<mode, step, transcript, call, session, promptVars, allowed>>

-----------------------------------------------------------------------------
(* Mutant: only the result that came in last is saved.                     *)
LastResult(e) == <<transcript[e][Len(transcript[e])]>>

(* The tool messages of the step, in the order in which they came in.      *)
StepMessages(e) ==
  Kept(transcript[e], {m \in ToSet(transcript[e]) : m.role = "tool" /\ m.step = step[e]})

(* runtime.checkpoint looks the handler up by the root of the tree, and    *)
(* the Session takes what it is given.                                     *)
Save(e, messages) == session' = session \o messages

(* A checkpoint that cannot be saved, that of a handoff too, fails the     *)
(* execution.                                                              *)
CheckpointFails(e) ==
  /\ \/ pc[e] \in {"tool_call", "step_completed"}
     \/ pc[e] = "acting" /\ \E i \in InPhase(e, "executing") : call[e][i].tool = "handoff"
  /\ Return(e, "failed")
  /\ UNCHANGED <<mode, step, transcript, call, session, promptVars, allowed>>

LatestMessage(e) == transcript[e][Len(transcript[e])]

(* A handoff must be the only tool use of its message.                     *)
Mixed(e) == Len(call[e]) > 1 /\ \E i \in Indices(e) : call[e][i].tool = "handoff"

(* _act of a mixed message: each use is answered with an error, none runs. *)
RefuseUses(e) ==
  /\ pc[e] = "tool_call"
  /\ Mixed(e)
  /\ Save(e, <<LatestMessage(e)>>)
  /\ call' = [call EXCEPT ![e] = [i \in Indices(e) |-> [@[i] EXCEPT !.phase = "appended"]]]
  /\ transcript' = [transcript EXCEPT ![e] =
       IF Terminal(e) THEN @ ELSE @ \o [i \in Indices(e) |-> ToolMessage(e, i)]]
  /\ Goto(e, "step_completed")
  /\ UNCHANGED <<mode, status, step, promptVars, allowed>>

(* beforeToolUse of the approval middleware: the user has to be asked.     *)
NeedsApproval(t) == t \in Gated /\ mode = "execute" /\ t \notin allowed

(* route: a dry run previews a mutation and blocks an unknown effect; both *)
(* are over at once, and so are a refused call, the second delegation and  *)
(* the delegation of a parent that has ended.                              *)
Runs(e, i) ==
  LET t == call[e][i].tool
  IN  CASE t = "malformed" -> FALSE
        [] t = "delegate_task" ->
             e = Root /\ ~Terminal(e) /\ status[Child] = "none"
               /\ \A j \in 1 .. i - 1 : call[e][j].tool # "delegate_task"
        [] t = "ask_user_question" -> ~Terminal(e)
        [] OTHER -> mode = "execute" \/ Effect[t] \notin {"mutation", "unknown"}

Asking(e) == {i \in Indices(e) : NeedsApproval(call[e][i].tool) /\ ~Terminal(e)}
Questioning(e) == {i \in Indices(e) : call[e][i].tool = "ask_user_question" /\ Runs(e, i)}
Requests(e, I) == Kept([i \in Indices(e) |-> <<e, i>>], {e} \X I)

(* Mutant: what the queue or the signal turned down is executed.           *)
FirstPhaseOpen(e, i) ==
  IF NeedsApproval(call[e][i].tool) /\ <<e, i>> \in Open(approvals') THEN "asking" ELSE "executing"

(* Where the tool use stands when all of them have been started: a request *)
(* that the queue or an aborted signal turned down is denied.              *)
FirstPhase(e, i) ==
  IF NeedsApproval(call[e][i].tool)
    THEN IF <<e, i>> \in Open(approvals') THEN "asking" ELSE "resolved"
    ELSE IF Runs(e, i) /\ (call[e][i].tool = "ask_user_question" => <<e, i>> \in Open(questions'))
           THEN "executing" ELSE "resolved"

(* The tool use c goes on to the given phase; a mutation that is executed  *)
(* and not previewed is started by that.                                   *)
Enter(c, phase) ==
  [c EXCEPT !.phase = phase,
            !.started = phase = "executing" /\ mode = "execute" /\ c.tool \in Gated]

(* _act: all the tools are started, in order and without a look at the     *)
(* signal, even when the execution has been aborted while its message was  *)
(* being saved.                                                            *)
StartTools(e) ==
  /\ pc[e] = "tool_call"
  /\ ~Mixed(e)
  /\ Save(e, <<LatestMessage(e)>>)
  /\ approvals' = AskAll(approvals, Requests(e, Asking(e)))
  /\ questions' = AskAll(questions, Requests(e, Questioning(e)))
  /\ call' = [call EXCEPT ![e] = [i \in Indices(e) |-> Enter(@[i], FirstPhase(e, i))]]
  /\ status' = IF \E i \in Indices(e) : call[e][i].tool = "delegate_task" /\ Runs(e, i)
                 THEN [status EXCEPT ![Child] = "created"] ELSE status
  /\ Goto(e, "acting")
  /\ UNCHANGED <<mode, step, transcript, allowed>>

-----------------------------------------------------------------------------
(* The user decides about the request that is current, whatever the screen *)
(* shows: respond has no argument that says which one.                     *)
Decide(decision) ==
  /\ approvals.current # NoRequest
  /\ LET e == approvals.current[1]
         i == approvals.current[2]
         next == CASE decision = "deny" -> "resolved"
                   [] decision = "allow_once" -> "executing"
                   [] OTHER -> "remembering"
     IN  /\ call' = [call EXCEPT ![e][i] = [Enter(@, next) EXCEPT !.allowed = decision # "deny"]]
         /\ allowed' = IF decision = "allow_always_project" THEN allowed \cup {call[e][i].tool} ELSE allowed
  /\ approvals' = Respond(approvals)
  /\ UNCHANGED <<mode, status, pc, step, transcript, session, questions>>

(* persistAllowedTool has returned or failed: the tool is executed.        *)
Remembered(e, i) ==
  /\ i \in InPhase(e, "remembering")
  /\ call' = [call EXCEPT ![e][i] = Enter(@, "executing")]
  /\ UNCHANGED <<mode, status, pc, step, transcript, session, promptVars, allowed>>

(* The user answers the question shown; a question of an execution that    *)
(* has ended is still there, and its answer is for nobody.                 *)
AnswerQuestion ==
  /\ questions.current # NoRequest
  /\ SetPhase(questions.current[1], questions.current[2], "resolved")
  /\ questions' = Respond(questions)
  /\ UNCHANGED <<mode, status, pc, step, transcript, session, approvals, allowed>>

(* delegate_task waits for the ordinary tools of its message, then for its *)
(* child; a question waits for its answer; other tools come back by        *)
(* themselves, with a result or an error.                                  *)
MayReturn(e, i) ==
  CASE call[e][i].tool = "delegate_task" ->
         /\ Terminal(Child)
         /\ \A j \in Indices(e) :
              call[e][j].tool # "delegate_task" => call[e][j].phase \in {"resolved", "appended"}
    [] call[e][i].tool = "ask_user_question" -> FALSE
    [] OTHER -> TRUE

ToolReturns(e, i) ==
  /\ i \in InPhase(e, "executing")
  /\ pc[e] \in {"acting", "step_completed", "returned"}
  /\ MayReturn(e, i)
  /\ SetPhase(e, i, "resolved")
  /\ UNCHANGED <<mode, status, pc, step, transcript, session, promptVars, allowed>>

(* A handoff is committed: the confirmation is saved with it, and the      *)
(* source has handed over before _act sees the result.  An abort while the *)
(* checkpoint was being saved does not hold it up.                         *)
HandOver(e, i) ==
  /\ pc[e] \in {"acting", "returned"}
  /\ i \in InPhase(e, "executing")
  /\ call[e][i].tool = "handoff"
  /\ Save(e, <<ToolMessage(e, i)>>)
  /\ transcript' = [transcript EXCEPT ![e] = Append(@, ToolMessage(e, i))]
  /\ SetPhase(e, i, "appended")
  /\ Return(e, "handed_off")
  /\ UNCHANGED <<mode, step, promptVars, allowed>>

(* Mutant: the step is complete with the first result.                     *)
CollectFirst(e, i) ==
  /\ pc[e] = "acting"
  /\ ~Terminal(e)
  /\ i \in InPhase(e, "resolved")
  /\ SetPhase(e, i, "appended")
  /\ transcript' = [transcript EXCEPT ![e] = Append(@, ToolMessage(e, i))]
  /\ Goto(e, "step_completed")
  /\ UNCHANGED <<mode, status, step, session, promptVars, allowed>>

(* The race of _act yields a result, which is appended; with the last one  *)
(* the step is complete.                                                   *)
Collect(e, i) ==
  /\ pc[e] = "acting"
  /\ ~Terminal(e)
  /\ i \in InPhase(e, "resolved")
  /\ SetPhase(e, i, "appended")
  /\ transcript' = [transcript EXCEPT ![e] = Append(@, ToolMessage(e, i))]
  /\ pc' = IF \A j \in Indices(e) \ {i} : call[e][j].phase = "appended"
             THEN [pc EXCEPT ![e] = "step_completed"] ELSE pc
  /\ UNCHANGED <<mode, status, step, session, promptVars, allowed>>

(* A result wins the race although the execution has been aborted since:   *)
(* it is dropped, the tools that still run are left behind, and the step   *)
(* is completed, and saved, with the results collected so far.             *)
CollectTooLate(e, i) ==
  /\ pc[e] = "acting"
  /\ Terminal(e)
  /\ i \in InPhase(e, "resolved")
  /\ Goto(e, "step_completed")
  /\ UNCHANGED <<mode, status, step, transcript, call, session, promptVars, allowed>>

(* The race rejects with the abort: the loop returns and leaves the tools  *)
(* that are still running behind.                                          *)
Abandon(e) ==
  /\ pc[e] = "acting"
  /\ Terminal(e)
  /\ Goto(e, "returned")
  /\ UNCHANGED <<mode, status, step, transcript, call, session, promptVars, allowed>>

CompleteStep(e) ==
  /\ pc[e] = "step_completed"
  /\ Save(e, StepMessages(e))
  /\ NextStep(e)
  /\ UNCHANGED <<mode, transcript, call, promptVars, allowed>>

-----------------------------------------------------------------------------
(* The abort signals of E fire: their open approvals are withdrawn and     *)
(* denied.  The questions have no listener.                                *)
Aborted(E) ==
  /\ status' = [e \in Execs |-> IF e \in E THEN "aborted" ELSE status[e]]
  /\ approvals' = Withdraw(approvals, E \X Uses)
  /\ call' = [e \in Execs |->
       [i \in Indices(e) |->
         IF e \in E /\ call[e][i].phase = "asking" THEN [call[e][i] EXCEPT !.phase = "resolved"] ELSE call[e][i]]]

Live(e) == status[e] \in {"created", "running"}

(* The user's abort, or a timeout; the end of the root cancels its child.  *)
Cancel(e) ==
  /\ Live(e)
  /\ Aborted({x \in Execs : Live(x) /\ (x = e \/ e = Root)})
  /\ UNCHANGED <<mode, pc, step, transcript, session, questions, allowed>>

-----------------------------------------------------------------------------
(* The steps that time and the event loop bring about by themselves.       *)
LoopStep(e) ==
  \/ Begin(e) \/ ForbidDryRun(e) \/ HookThrows(e) \/ HooksDone(e)
  \/ \E uses \in Messages[e], overLimit \in BOOLEAN : Answer(e, uses, overLimit)
  \/ ModelFails(e) \/ CheckpointFails(e) \/ RefuseUses(e) \/ StartTools(e)
  \/ Abandon(e) \/ CompleteStep(e)

ToolStep(e, i) == ToolReturns(e, i) \/ HandOver(e, i) \/ Remembered(e, i)

Decisions == {"allow_once", "allow_always_project", "deny"}
UserStep == (\E d \in Decisions : Decide(d)) \/ AnswerQuestion

Next ==
  \/ \E e \in Execs : LoopStep(e) \/ Cancel(e)
  \/ \E e \in Execs, i \in Uses : ToolStep(e, i) \/ Collect(e, i) \/ CollectTooLate(e, i)
  \/ UserStep

Spec == Init /\ [][Next]_vars

FairSpec ==
  /\ Spec
  /\ \A e \in Execs : WF_vars(LoopStep(e))
  /\ \A e \in Execs, i \in Uses : WF_vars(ToolStep(e, i)) /\ WF_vars(Collect(e, i))
  /\ WF_vars(\E d \in Decisions : Decide(d))
  /\ WF_vars(AnswerQuestion)

-----------------------------------------------------------------------------
(* A live execution asks its model only with a closed transcript: every    *)
(* tool use of every earlier message has exactly one result, and it stands *)
(* before the next assistant message.  Both provider protocols refuse      *)
(* anything else, and the results come in whatever order the parallel      *)
(* tools end, some of them long after an abort.                            *)
Answers(t, k) == {j \in DOMAIN t : j > k /\ t[j].role = "tool" /\ t[j].step = t[k].step}
Closed(t) ==
  \A k \in DOMAIN t : t[k].role = "assistant" =>
    /\ \A i \in 1 .. t[k].n : \E j \in Answers(t, k) : t[j].n = i
    /\ Cardinality(Answers(t, k)) = t[k].n
    /\ \A j \in Answers(t, k) : \A a \in k + 1 .. j : t[a].role = "tool"

TranscriptClosed == \A e \in Execs : pc[e] = "model" /\ ~Terminal(e) => Closed(transcript[e])

(* What the checkpoints have saved of the root is a prefix of what its     *)
(* model has seen, in the same order, and all of it whenever the model is  *)
(* asked again: a crash then loses nothing the model has been told.  The   *)
(* checkpoints of the child are saved in between.                          *)
RootMessages == Kept(session, {m \in ToSet(session) : m.by = Root})

SessionTracksRoot ==
  transcript[Root] # << >> =>
    /\ IsPrefix(RootMessages, transcript[Root])
    /\ pc[Root] = "model" => RootMessages = transcript[Root]

(* A mutation is executed only in execute mode, after the user has allowed *)
(* this very tool use or the tool for good; not because another request    *)
(* of the queue was answered, was withdrawn or did not fit.                *)
ConsentBeforeEffect ==
  \A e \in Execs : \A i \in Indices(e) :
    call[e][i].started => mode = "execute" /\ (call[e][i].allowed \/ call[e][i].tool \in allowed)

(* Nobody waits at the approval prompt in vain: the tool uses that ask are *)
(* those the manager holds, once each and within its limit, none of them   *)
(* of an aborted execution, and one is shown whenever there is one.        *)
ApprovalsShown ==
  /\ Open(approvals) = {r \in Execs \X Uses : r[2] \in InPhase(r[1], "asking")}
  /\ Len(approvals.queue) <= MAX_QUEUE_SIZE
  /\ Cardinality(Open(approvals)) = Len(approvals.queue) + (IF approvals.current = NoRequest THEN 0 ELSE 1)
  /\ \A r \in Open(approvals) : status[r[1]] = "running"
  /\ approvals.current = NoRequest => approvals.queue = << >>

(* Every execution that has begun ends, when the provider, the tools, the  *)
(* store and the user all answer in the end: the loop waits for tools that *)
(* wait for prompts that wait in a queue behind those of another           *)
(* execution, and for a child that does the same.                          *)
ExecutionsEnd == \A e \in Execs : pc[e] = "starting" ~> Terminal(e)

(* What the documentation says of a Session: no message of a child is in   *)
(* it (README.md, .wiki/workflows/session-lifecycle.md).                   *)
SessionHoldsRootOnly == \A k \in DOMAIN session : session[k].by = Root
=============================================================================
