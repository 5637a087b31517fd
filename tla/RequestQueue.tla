----------------------------- MODULE RequestQueue ----------------------------
(***************************************************************************)
(* The queue behind the two prompts of the terminal: ApprovalManager,      *)
(* coding/permissions/approval-manager.ts, and AskUserQuestionManager,     *)
(* coding/tools/ask-user-question-manager.ts.  Both show one request at a  *)
(* time and keep the others in arrival order; only approvals may be        *)
(* withdrawn.  A manager is a value, [queue, current], and each operator   *)
(* is one of its synchronous methods.                                      *)
(***************************************************************************)
EXTENDS Naturals, Sequences, SequencesExt, Selection

CONSTANTS
  MAX_QUEUE_SIZE,           \* requests that may wait behind the current one
  NoRequest                 \* the manager shows nothing

ASSUME QueueAssumption == MAX_QUEUE_SIZE \in Nat \ {0}

Empty == [queue |-> << >>, current |-> NoRequest]

(* _processQueue: when nothing is shown the next request is.               *)
Process(m) ==
  IF m.current = NoRequest /\ m.queue # << >>
    THEN [queue |-> Tail(m.queue), current |-> Head(m.queue)]
    ELSE m

(* askUser and askUserQuestion: beyond the limit a request is turned down  *)
(* at once, which the caller sees as a request that is not open.           *)
Ask(m, r) ==
  IF Len(m.queue) >= MAX_QUEUE_SIZE THEN m ELSE Process([m EXCEPT !.queue = Append(@, r)])

AskAll(m, rs) ==
  LET asked[n \in 0 .. Len(rs)] == IF n = 0 THEN m ELSE Ask(asked[n - 1], rs[n])
  IN  asked[Len(rs)]

(* Mutant: the answer does not bring up the next request.                  *)
RespondOnly(m) == [m EXCEPT !.current = NoRequest]

(* respond and respondWithAnswers: whatever is current is answered.        *)
Respond(m) == Process([m EXCEPT !.current = NoRequest])

(* Mutant: only the requests that wait are taken out.                      *)
WithdrawQueued(m, R) == [m EXCEPT !.queue = Kept(@, ToSet(@) \ R)]

(* _cancelRequest, for every request of R: one abort calls the listeners   *)
(* of all its requests in turn, and their net effect is this.              *)
Withdraw(m, R) ==
  Process([queue |-> Kept(m.queue, ToSet(m.queue) \ R),
           current |-> IF m.current \in R THEN NoRequest ELSE m.current])

Open(m) == ToSet(m.queue) \cup ({m.current} \ {NoRequest})
=============================================================================
