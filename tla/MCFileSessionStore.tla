-------------------------- MODULE MCFileSessionStore --------------------------
(* What the wiki says of clearing a session, and the store does not keep:  *)
(* the subject of a run of one process.                                    *)
EXTENDS FileSessionStore

Clearing == \E p \in Proc : op[p] = "clear"

(* As long as no process crashes, a clear that is over leaves a session    *)
(* that can be used.                                                       *)
ClearKeepsSession == crashed = {} /\ ~Clearing => ~Blocked
=============================================================================
