----------------------------- MODULE MCAgentLoop ------------------------------
(* Values for AgentLoop that a .cfg file cannot write.  The messages of    *)
(* the root hold every kind of tool use, beside and before others: one     *)
(* that asks for approval while the child's do, one that waits for the     *)
(* child and for a prompt, a handoff alone and one that is refused; the    *)
(* child's hold two that queue for approval.                               *)
EXTENDS AgentLoop, TLC

MCMessages ==
  (Root :> {<< >>, <<"malformed", "custom">>, <<"ask_user_question", "shell">>,
            <<"delegate_task", "shell">>, <<"delegate_task", "ask_user_question">>,
            <<"delegate_task", "delegate_task">>, <<"handoff">>, <<"shell", "handoff">>}) @@
  (Child :> {<< >>, <<"shell", "shell">>, <<"ask_user_question">>})

MCSteps == (Root :> 2) @@ (Child :> 1)
=============================================================================
