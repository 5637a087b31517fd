---------------------------- MODULE DocumentScope -----------------------------
(***************************************************************************)
(* What a memory scope promises to the agents that share it, in one        *)
(* process or in several: a mutation is applied as a whole, at most once,  *)
(* and only to the document its digest names; or it is not applied.        *)
(* .wiki/architecture/memory.md says so of the write path, which detects   *)
(* concurrent changes with the expected digest.                            *)
(***************************************************************************)
EXTENDS MemoryMutation

CONSTANTS Agents, NoRequest

VARIABLES
  documents,   \* Documents
  pending      \* [Agents -> Request]: what an agent has asked for

Init == documents \in Documents /\ pending = [a \in Agents |-> NoRequest]

Submit(a) ==
  /\ pending[a] = NoRequest
  /\ pending'[a] \in Request
  /\ pending' = [pending EXCEPT ![a] = pending'[a]]
  /\ UNCHANGED documents

Commit(a) ==
  /\ pending[a] # NoRequest
  /\ Acceptable(documents, pending[a])
  /\ documents' = After(documents, pending[a].mutation)
  /\ pending' = [pending EXCEPT ![a] = NoRequest]

(* Refusals and failures, and the crash of a process with all its agents.  *)
Drop(A) ==
  /\ pending' = [a \in Agents |-> IF a \in A THEN NoRequest ELSE pending[a]]
  /\ UNCHANGED documents

Next ==
  \/ \E a \in Agents : Submit(a) \/ Commit(a)
  \/ \E A \in SUBSET Agents : Drop(A)

Spec == Init /\ [][Next]_<<documents, pending>>
=============================================================================
