------------------------------ MODULE PermitPool ------------------------------
(***************************************************************************)
(* What DelegationScheduler promises, without queue or counters: a pool of *)
(* permits shared by tasks that are grouped by parent and by tree.  A task *)
(* joins a group once, takes a permit only while its parent, its tree and  *)
(* the whole pool are below their limits, and gives it back later.         *)
(***************************************************************************)
EXTENDS Integers, FiniteSets

CONSTANTS Task, NoGroup, PerParent, PerTree, InAll

VARIABLES
  parentOf,   \* [Task -> Task or NoGroup]
  treeOf,     \* [Task -> Task or NoGroup]
  holders     \* the tasks that hold a permit

poolVars == <<parentOf, treeOf, holders>>

Init ==
  /\ parentOf = [t \in Task |-> NoGroup]
  /\ treeOf = [t \in Task |-> NoGroup]
  /\ holders = {}

HasRoom(p, r) ==
  /\ Cardinality({h \in holders : parentOf[h] = p}) < PerParent
  /\ Cardinality({h \in holders : treeOf[h] = r}) < PerTree
  /\ Cardinality(holders) < InAll

(* A new task is put in its groups; if there is room it may start at once. *)
Join(t, p, r) ==
  /\ treeOf[t] = NoGroup
  /\ parentOf' = [parentOf EXCEPT ![t] = p]
  /\ treeOf' = [treeOf EXCEPT ![t] = r]
  /\ \/ UNCHANGED holders
     \/ p # NoGroup /\ HasRoom(p, r) /\ holders' = holders \cup {t}

Grant(t) ==
  /\ t \notin holders
  /\ parentOf[t] # NoGroup
  /\ HasRoom(parentOf[t], treeOf[t])
  /\ holders' = holders \cup {t}
  /\ UNCHANGED <<parentOf, treeOf>>

Return(t) ==
  /\ t \in holders
  /\ holders' = holders \ {t}
  /\ UNCHANGED <<parentOf, treeOf>>

Next ==
  \E t \in Task :
    \/ \E p \in Task \cup {NoGroup}, r \in Task : Join(t, p, r)
    \/ Grant(t)
    \/ Return(t)

Spec == Init /\ [][Next]_poolVars
=============================================================================
