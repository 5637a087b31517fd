---------------------------- MODULE MemoryMutation ----------------------------
(***************************************************************************)
(* What a mutation of a memory scope means: planMutation of                *)
(* memory/domain/memory-mutation.ts with the checks that stand around it   *)
(* in MemoryService and in FileMemoryStore.                                *)
(*                                                                         *)
(* A document is the set of the facts written in it, and its digest is     *)
(* that set: SHA-256 is taken to be free of collisions.  Lines, their      *)
(* order and repeated text are left out.                                   *)
(***************************************************************************)
EXTENDS Naturals, FiniteSets, FiniteSetsExt

CONSTANTS
  Refs,                     \* the references of the scope
  Facts,
  Index,                    \* MEMORY.md
  Absent,                   \* no document under a reference; as a digest, null
  maxDocumentBytes, maxDocumentsPerScope, maxScopeBytes   \* in facts and documents

ASSUME MutationAssumption ==
  /\ IsFiniteSet(Refs) /\ IsFiniteSet(Facts)
  /\ Index \in Refs
  /\ \A c \in SUBSET Facts : c # Absent
  /\ {maxDocumentBytes, maxDocumentsPerScope, maxScopeBytes} \subseteq Nat

Contents == SUBSET Facts
Documents == [Refs -> {Absent} \cup Contents]
Present(d) == {r \in Refs : d[r] # Absent}

(* old and new are the texts of a replace; an insert has only new.         *)
Mutation ==
  [type : {"create"}, reference : Refs, content : Contents] \cup
  [type : {"replace"}, reference : Refs, old : Facts, new : Facts] \cup
  [type : {"insert"}, reference : Refs, new : Facts] \cup
  [type : {"delete"}, reference : Refs] \cup
  [type : {"rename"}, reference : Refs, to : Refs]

(* A mutation with the digest of the document it was made for, null for a  *)
(* create.                                                                 *)
Request == [mutation : Mutation, expected : {Absent} \cup Contents]

(* assertExpectedDigest.                                                   *)
DigestMatches(d, q) ==
  IF q.mutation.type = "create" THEN q.expected = Absent
  ELSE q.expected # Absent /\ d[q.mutation.reference] = q.expected

(* The errors of planMutation.                                             *)
Plannable(d, m) ==
  CASE m.type = "create" -> d[m.reference] = Absent
    [] m.type = "rename" -> d[m.reference] # Absent /\ d[m.to] = Absent
    [] m.type = "replace" -> d[m.reference] # Absent /\ m.old \in d[m.reference]
    [] OTHER -> d[m.reference] # Absent

(* afterContent: what is under the mutation's reference afterwards.        *)
AfterContent(d, m) ==
  CASE m.type = "create" -> m.content
    [] m.type = "replace" -> (d[m.reference] \ {m.old}) \cup {m.new}
    [] m.type = "insert" -> d[m.reference] \cup {m.new}
    [] OTHER -> Absent

After(d, m) ==
  IF m.type = "rename"
    THEN [d EXCEPT ![m.to] = d[m.reference], ![m.reference] = Absent]
    ELSE [d EXCEPT ![m.reference] = AfterContent(d, m)]

Size(content) == IF content = Absent THEN 0 ELSE Cardinality(content)
TotalSize(d) == MapThenSumSet(LAMBDA r : Size(d[r]), Present(d))

(* assertLimits: the document that the mutation writes, and the scope as   *)
(* it would leave it.  A document that is too large already stays as it    *)
(* is, and a rename is held to the limit.  The service and the store have  *)
(* one set of limits, as memory-runtime.ts gives them.                     *)
WithinLimits(d, m) ==
  /\ Size(IF m.type = "rename" THEN d[m.reference] ELSE AfterContent(d, m)) <= maxDocumentBytes
  /\ Cardinality(Present(After(d, m))) <= maxDocumentsPerScope
  /\ TotalSize(After(d, m)) <= maxScopeBytes

(* assertMutationReferences: no empty index is created.                    *)
Sensible(m) == ~(m.type = "create" /\ m.reference = Index /\ m.content = {})

Acceptable(d, q) ==
  /\ Sensible(q.mutation)
  /\ DigestMatches(d, q)
  /\ Plannable(d, q.mutation)
  /\ WithinLimits(d, q.mutation)
=============================================================================
