---------------------------- MODULE MCMemoryStore -----------------------------
(* Values for MemoryStore that a .cfg file cannot write: agents in two      *)
(* processes, and mutations that meet at one document, at one name and at  *)
(* the limits.                                                             *)
EXTENDS MemoryStore, TLC

CONSTANTS p1, p2, a1, a2, b1, topic, f, g

(* The limits let the index and the topic hold three facts together; an    *)
(* insertion and a replacement can bring a digest back.                    *)
MCMutations ==
  {[type |-> "create", reference |-> Index, content |-> {f}],
   [type |-> "create", reference |-> topic, content |-> {f, g}],
   [type |-> "insert", reference |-> Index, new |-> g],
   [type |-> "replace", reference |-> Index, old |-> g, new |-> f],
   [type |-> "delete", reference |-> Index],
   [type |-> "rename", reference |-> Index, to |-> topic]}

TwoProcesses == (a1 :> p1) @@ (a2 :> p1) @@ (b1 :> p2)
TwoAccess == (a1 :> "read_write") @@ (a2 :> "read_write") @@ (b1 :> "read_write")

OneIndex == {(Index :> {f}) @@ (topic :> Absent)}
=============================================================================
