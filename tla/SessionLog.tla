------------------------------ MODULE SessionLog ------------------------------
(***************************************************************************)
(* What a session store promises its callers: one record with a revision   *)
(* that grows by exactly one with every commit, messages that are only     *)
(* added to or cleared as a whole, and a deletion that is final.  Who      *)
(* writes, and through which files, does not show.                         *)
(***************************************************************************)
EXTENDS Integers

CONSTANTS Message, LastRevision

VARIABLES
  revision,   \* 0: nothing has been committed
  messages,   \* the transcript of that revision
  deleted

logVars == <<revision, messages, deleted>>

Init == revision = 0 /\ messages = {} /\ deleted = FALSE

Commit(transcript) ==
  /\ ~deleted
  /\ revision < LastRevision
  /\ revision' = revision + 1
  /\ messages' = transcript
  /\ UNCHANGED deleted

Create == revision = 0 /\ Commit({})

(* A rename, a model or a mode: the transcript is not touched.             *)
Touch == revision > 0 /\ Commit(messages)

Add(m) == revision > 0 /\ m \notin messages /\ Commit(messages \cup {m})

Clear == revision > 0 /\ Commit({})

Delete ==
  /\ revision > 0
  /\ revision' = 0
  /\ messages' = {}
  /\ deleted' = TRUE

Next == Create \/ Touch \/ (\E m \in Message : Add(m)) \/ Clear \/ Delete

Spec == Init /\ [][Next]_logVars
=============================================================================
