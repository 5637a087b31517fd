------------------------ MODULE FileSessionStoreProofs ------------------------
(***************************************************************************)
(* The session store for every number of processes, revisions and crashes: *)
(* its types and the account of the lease; and, for two processes or       *)
(* without crashes, the single writer, the writes under the lease and that *)
(* the files show the log of SessionLog.                                   *)
(***************************************************************************)
EXTENDS FileSessionStore, FiniteSetTheorems, WellFoundedInduction, TLAPS

(* The steps of acquire, before the lease is held, and those of its last   *)
(* release, when it no longer is.                                          *)
Outside == {"lookUp", "inspect", "openLease", "judgeLease", "unlinkStale", "reopenLease",
            "writeLease", "unlinkLease"}

(* The steps that write after assertLease.                                 *)
Writing == {"check", "rename", "cleanUp", "dropIntent"}

(* How often a process uses its lease follows from where it is; one that   *)
(* has crashed is nowhere.                                                 *)
Uses ==
  /\ \A p \in crashed : pc[p] = "idle" /\ refs[p] = 0
  /\ \A p \in beating : Held(p)
  /\ \A p \in Proc : pc[p] = "idle" => refs[p] <= 1
  /\ \A p \in Proc : pc[p] \in Outside => refs[p] = 0
  /\ \A p \in Proc : pc[p] \notin Outside \cup {"idle"} => refs[p] >= 1
  /\ \A p \in Proc : pc[p] = "intend" => expected[p] < MaxRevision

(* Who holds the lease, or is taking or dropping it, has its file.         *)
Owned ==
  \A p \in Proc :
    (directory # "deleted" /\ Held(p)) \/ pc[p] \in {"writeLease", "unlinkLease"} =>
      Present /\ lease.owner = p

(* The lease that is about to be unlinked as stale is that of a dead       *)
(* process.                                                                *)
Stealing == \A p \in Proc : pc[p] = "unlinkStale" => lease.owner \in crashed

(* Nothing touches the lease of a write that has asserted it.              *)
Protected == \A p \in Proc : pc[p] \in Writing => OwnLease(p) /\ p \notin beating

(* Which steps an operation takes.                                         *)
Route(operation) ==
  CASE operation = "none" -> {"idle"}
    [] operation \in {"newDraft", "attach"} -> Outside \ {"unlinkLease"}
    [] operation = "detach" -> {"release", "unlinkLease"}
    [] operation = "create" -> (Outside \ {"inspect"}) \cup {"assert", "check", "rename", "cleanUp", "release"}
    [] operation \in {"add", "touch"} -> Outside \cup {"load", "assert", "check", "rename", "cleanUp", "release"}
    [] operation = "clear" ->
         Outside \cup {"load", "intend", "assert", "check", "rename", "cleanUp", "dropIntent", "release"}
    [] OTHER -> Outside \cup {"remove", "release"}
Routes == \A p \in Proc : pc[p] \in Route(op[p])

(* Before there is a session only its author is in the directory, with     *)
(* nothing but an empty draft.                                             *)
Drafts ==
  /\ \A p \in Proc : op[p] \in {"create", "newDraft"} => p = Author
  /\ directory = "absent" => revisions = {} /\ \A p \in Proc : pc[p] \in {"idle", "lookUp"} /\ refs[p] = 0
  /\ revisions = {} /\ directory # "deleted" =>
       \A p \in Proc \ {Author} : pc[p] \in {"idle", "lookUp", "inspect"} /\ refs[p] = 0
  /\ \A p \in Proc : op[p] = "create" /\ pc[p] \notin {"cleanUp", "release", "unlinkLease"} =>
       revisions = {} /\ expected[p] = 0 /\ draft[p] = {}

(* A revision holds no message of a later one.                             *)
Marked == \A r \in revisions : \A m \in content[r] : m[2] <= r

(* What a mutation is about to write, from its load to its rename.         *)
Drafted ==
  \A p \in Proc : op[p] # "create" /\ pc[p] \in {"intend", "assert", "check", "rename"} =>
    /\ op[p] \in {"add", "touch", "clear"}
    /\ revisions # {}
    /\ expected[p] = Latest
    /\ draft[p] = Transcript(p)

(* A mutation has nothing drafted yet.                                     *)
Undrafted ==
  \A p \in Proc : pc[p] \in Outside \cup {"idle", "load", "remove"} => expected[p] = 0 /\ draft[p] = {}

(* The cleanup never removes the revision that was committed.              *)
Cleaning ==
  \A p \in Proc : pc[p] = "cleanUp" =>
    revisions # {} /\ Latest = expected[p] + 1 /\ Latest \notin stale[p]

(* What is deleted has been a session.                                     *)
Deleting ==
  \A p \in Proc :
    Present /\ op[p] = "delete" /\ pc[p] \in (Outside \ {"lookUp", "inspect", "unlinkLease"}) \cup {"remove"} =>
      revisions # {}

-----------------------------------------------------------------------------
(* A set of natural numbers that is not empty has a least member, and a    *)
(* bounded one a greatest.                                                 *)
LEMMA Least ==
  ASSUME NEW T \in SUBSET Nat, T # {}
  PROVE  \E x \in T : \A y \in T : x <= y
<1> DEFINE R == {ss \in Nat \X Nat : ss[1] < ss[2]}
<1>1. OpToRel(<, Nat) = R
  BY DEF OpToRel
<1>2. IsWellFoundedOn(R, Nat)
  BY <1>1, NatLessThanWellFounded
<1> HIDE DEF R
<1>3. PICK x \in T : \A y \in T : ~(<<y, x>> \in R)
  BY <1>2, WFMin
<1>4. \A y \in T : ~(y < x)
  <2> SUFFICES ASSUME NEW y \in T, y < x  PROVE FALSE
    OBVIOUS
  <2>1. <<y, x>> \in R
    BY DEF R
  <2> QED
    BY <1>3, <2>1
<1> QED
  BY <1>4

(* A non-empty set of numbers up to n has a greatest one.                  *)
LEMMA Greatest ==
  ASSUME NEW n \in Nat, NEW T \in SUBSET (1 .. n), T # {}
  PROVE  \E x \in T : \A y \in T : y <= x
<1> DEFINE U == {n - y : y \in T}
<1>1. \A y \in T : n - y \in Nat
  OBVIOUS
<1>2. U \in SUBSET Nat /\ U # {}
  BY <1>1
<1>3. PICK u \in U : \A v \in U : u <= v
  BY <1>2, Least
<1>4. PICK x \in T : u = n - x
  BY <1>3
<1>5. \A y \in T : n - x <= n - y
  BY <1>3, <1>4
<1> QED
  BY <1>5

(* Latest is the newest revision that there is.                            *)
LEMMA LatestIs ==
  ASSUME revisions \subseteq Revision, revisions # {}
  PROVE  Latest \in revisions /\ \A s \in revisions : s <= Latest
<1>1. \E r \in revisions : \A s \in revisions : s <= r
  BY StoreAssumption, Greatest DEF Revision
<1> QED
  BY <1>1 DEF Latest

(* A revision that is there and no older than the others is the latest.    *)
LEMMA LatestOnly ==
  ASSUME revisions \subseteq Revision, NEW r \in revisions, \A s \in revisions : s <= r
  PROVE  Latest = r
<1>1. Latest \in revisions /\ r <= Latest /\ Latest <= r
  BY LatestIs
<1>2. Latest \in Int /\ r \in Int
  BY <1>1 DEF Revision
<1> QED
  BY <1>1, <1>2

-----------------------------------------------------------------------------
(* What Goto and Begin do to where a process is.                           *)
LEMMA GotoIs ==
  ASSUME TypeOK, NEW p \in Proc, NEW s \in Step, Goto(p, s)
  PROVE  /\ pc' \in [Proc -> Step] /\ op' \in [Proc -> Operation]
         /\ pc'[p] = s /\ op'[p] = IF s = "idle" THEN "none" ELSE op[p]
         /\ \A q \in Proc \ {p} : pc'[q] = pc[q] /\ op'[q] = op[q]
<1>1. op' = [op EXCEPT ![p] = IF s = "idle" THEN "none" ELSE op[p]]
  BY DEF Goto
<1>2. (IF s = "idle" THEN "none" ELSE op[p]) \in Operation
  BY DEF TypeOK, Operation
<1>3. /\ op' \in [Proc -> Operation]
      /\ op'[p] = IF s = "idle" THEN "none" ELSE op[p]
      /\ \A q \in Proc \ {p} : op'[q] = op[q]
  BY <1>1, <1>2 DEF TypeOK
<1>4. pc' = [pc EXCEPT ![p] = s]
  BY DEF Goto
<1>5. pc' \in [Proc -> Step] /\ pc'[p] = s /\ \A q \in Proc \ {p} : pc'[q] = pc[q]
  BY <1>4 DEF TypeOK
<1> QED
  BY <1>3, <1>5

(* What the begin of an operation does to its process, and what it leaves  *)
(* alone.                                                                  *)
LEMMA BeginIs ==
  ASSUME TypeOK, Uses, NEW p \in Proc, BeginCreate(p) \/ BeginAttach(p) \/ BeginOther(p)
  PROVE  /\ pc' \in [Proc -> Step] /\ op' \in [Proc -> Operation] /\ refs' \in [Proc -> 0 .. 2]
         /\ pc[p] = "idle" /\ p \notin crashed
         /\ op'[p] \in Operation \ {"none", "detach"}
         /\ \/ ~Held(p) /\ pc'[p] = "lookUp" /\ refs'[p] = 0
            \/ /\ Held(p) /\ refs'[p] = 2
               /\ pc'[p] = FirstStep(op'[p]) /\ op'[p] \in {"create", "add", "touch", "clear", "delete"}
         /\ \A q \in Proc \ {p} : pc'[q] = pc[q] /\ op'[q] = op[q] /\ refs'[q] = refs[q]
         /\ UNCHANGED <<fileVars, lease, crashed, expected, draft, stale, beating>>
<1>1. PICK o \in Operation \ {"none", "detach"} :
         Begin(p, o) /\ (Held(p) => o \in {"create", "add", "touch", "clear", "delete"})
  BY DEF BeginCreate, BeginAttach, BeginOther, Operation
<1>2. FirstStep(o) \in Step /\ "lookUp" \in Step
  BY DEF FirstStep, Step
<1>3. /\ pc[p] = "idle" /\ p \notin crashed
      /\ op' = [op EXCEPT ![p] = o]
      /\ pc' = [pc EXCEPT ![p] = IF Held(p) THEN FirstStep(o) ELSE "lookUp"]
      /\ refs' = IF Held(p) THEN [refs EXCEPT ![p] = @ + 1] ELSE refs
      /\ UNCHANGED <<fileVars, lease, crashed, expected, draft, stale, beating>>
  BY <1>1 DEF Begin, At
<1>4. refs \in [Proc -> 0 .. 2] /\ refs[p] \in 0 .. 2 /\ refs[p] <= 1
  BY <1>3 DEF TypeOK, Uses
<1>5. pc' \in [Proc -> Step] /\ op' \in [Proc -> Operation]
  BY <1>2, <1>3 DEF TypeOK
<1>6. CASE Held(p)
  <2>1. refs[p] = 1 /\ refs' = [refs EXCEPT ![p] = 2]
    <3>1. refs[p] = 1
      BY <1>4, <1>6 DEF Held
    <3> QED
      BY <1>3, <1>6, <3>1
  <2> QED
    BY <1>1, <1>3, <1>4, <1>5, <1>6, <2>1 DEF TypeOK
<1>7. CASE ~Held(p)
  <2>1. refs[p] = 0 /\ refs' = refs
    BY <1>3, <1>4, <1>7 DEF Held
  <2> QED
    BY <1>1, <1>3, <1>4, <1>5, <1>7, <2>1 DEF TypeOK
<1> QED
  BY <1>6, <1>7

(* The steps of one process.                                               *)
Act(p) == Begins(p) \/ Acquires(p) \/ Writes(p) \/ Releases(p) \/ Beat(p) \/ EndBeat(p) \/ Crash(p)

(* They leave where the others are, and what they have in memory, alone.   *)
LEMMA OthersStay ==
  ASSUME TypeOK, Uses, NEW p \in Proc, Act(p)
  PROVE  \A q \in Proc \ {p} :
           /\ pc'[q] = pc[q] /\ op'[q] = op[q] /\ refs'[q] = refs[q]
           /\ expected'[q] = expected[q] /\ draft'[q] = draft[q] /\ stale'[q] = stale[q]
           /\ q \in crashed' <=> q \in crashed
           /\ q \in beating' <=> q \in beating
<1>1. CASE BeginCreate(p) \/ BeginAttach(p) \/ BeginOther(p)
  BY <1>1, BeginIs
<1>2. CASE Detach(p)
  BY <1>2 DEF Detach, TypeOK
<1>3. CASE LookUp(p) \/ Inspect(p) \/ OpenLease(p) \/ JudgeLease(p) \/ UnlinkStale(p) \/ ReopenLease(p) \/ WriteLease(p)
  BY <1>3 DEF LookUp, Inspect, OpenLease, JudgeLease, UnlinkStale, ReopenLease, WriteLease,
     GotoOr, Goto, TypeOK, mutateVars
<1>4. CASE Load(p) \/ LoadOnly(p) \/ WriteIntent(p) \/ AssertLease(p) \/ CheckRevision(p)
  BY <1>4 DEF Load, LoadOnly, WriteIntent, AssertLease, CheckRevision, GotoOr, Goto, TypeOK, mutateVars
<1>5. CASE RenameRevision(p) \/ (\E r \in Revision : CleanUp(p, r)) \/ CleanedUp(p) \/ DropIntent(p) \/ RemoveSession(p)
  BY <1>5 DEF RenameRevision, CleanUp, CleanedUp, DropIntent, RemoveSession, GotoOr, Goto, TypeOK, mutateVars
<1>6. CASE Release(p) \/ UnlinkLease(p)
  BY <1>6 DEF Release, UnlinkLease, GotoOr, Goto, TypeOK, mutateVars
<1>7. CASE Beat(p) \/ EndBeat(p) \/ Crash(p)
  BY <1>7 DEF Beat, EndBeat, Crash, mutateVars, TypeOK
<1> QED
  BY <1>1, <1>2, <1>3, <1>4, <1>5, <1>6, <1>7 DEF Act, Begins, Acquires, Writes, Releases

(* The latest revision, as a number.                                       *)
LEMMA LatestType ==
  ASSUME TypeOK, revisions # {}
  PROVE  /\ Latest \in revisions /\ Latest \in Revision
         /\ (\A s \in revisions : s <= Latest) /\ content[Latest] \subseteq Message
<1>1. Latest \in revisions /\ \A s \in revisions : s <= Latest
  BY LatestIs DEF TypeOK
<1>2. Latest \in Revision
  BY <1>1 DEF TypeOK
<1> QED
  BY <1>1, <1>2 DEF TypeOK

(* The leases that the steps write.                                        *)
LEMMA LeaseValues ==
  ASSUME NEW p \in Proc
  PROVE  /\ NoLease \in [owner : Proc \cup {Nobody}, whole : BOOLEAN]
         /\ \A b \in BOOLEAN : [owner |-> p, whole |-> b] \in [owner : Proc \cup {Nobody}, whole : BOOLEAN]
<1>1. Nobody \in Proc \cup {Nobody} /\ p \in Proc \cup {Nobody} /\ FALSE \in BOOLEAN
  OBVIOUS
<1>2. NoLease \in [owner : Proc \cup {Nobody}, whole : BOOLEAN]
  BY <1>1 DEF NoLease
<1>3. ASSUME NEW b \in BOOLEAN  PROVE [owner |-> p, whole |-> b] \in [owner : Proc \cup {Nobody}, whole : BOOLEAN]
  BY <1>1
<1> QED
  BY <1>2, <1>3

(* The types of what a step of p changes.                                  *)
LEMMA ActType ==
  ASSUME TypeOK, Uses, NEW p \in Proc, Act(p)
  PROVE  TypeOK'
<1> USE StoreAssumption
<1> USE DEF Step
<1>1. CASE BeginCreate(p) \/ BeginAttach(p) \/ BeginOther(p)
  BY <1>1, BeginIs DEF TypeOK, fileVars
<1>2. CASE Detach(p)
  <2>1. op' \in [Proc -> Operation] /\ pc' \in [Proc -> Step]
    BY <1>2 DEF Detach, TypeOK, Operation
  <2> QED
    BY <1>2, <2>1 DEF Detach, TypeOK, fileVars
<1>3. CASE LookUp(p) \/ Inspect(p) \/ JudgeLease(p)
  <2>1. \E s \in Step : Goto(p, s)
    BY <1>3 DEF LookUp, Inspect, JudgeLease, GotoOr
  <2>2. pc' \in [Proc -> Step] /\ op' \in [Proc -> Operation]
    BY <2>1, GotoIs
  <2> QED
    BY <1>3, <2>2 DEF LookUp, Inspect, JudgeLease, fileVars, mutateVars, TypeOK
<1>4. CASE OpenLease(p) \/ UnlinkStale(p) \/ ReopenLease(p) \/ UnlinkLease(p)
  <2>1. \E s \in Step : Goto(p, s)
    BY <1>4 DEF OpenLease, UnlinkStale, ReopenLease, UnlinkLease, GotoOr
  <2>2. pc' \in [Proc -> Step] /\ op' \in [Proc -> Operation]
    BY <2>1, GotoIs
  <2>3. lease' = lease \/ lease' = NoLease \/ lease' = [owner |-> p, whole |-> FALSE]
    BY <1>4 DEF OpenLease, UnlinkStale, ReopenLease, UnlinkLease
  <2>4. lease' \in [owner : Proc \cup {Nobody}, whole : BOOLEAN]
    BY <2>3, LeaseValues DEF TypeOK
  <2> QED
    BY <1>4, <2>2, <2>4 DEF OpenLease, UnlinkStale, ReopenLease, UnlinkLease, fileVars, mutateVars, TypeOK
<1>5. CASE WriteLease(p)
  <2>1. Goto(p, FirstStep(op[p])) /\ FirstStep(op[p]) \in Step
    BY <1>5 DEF WriteLease, FirstStep
  <2>2. pc' \in [Proc -> Step] /\ op' \in [Proc -> Operation]
    BY <2>1, GotoIs
  <2>3. lease' = lease \/ lease' = [lease EXCEPT !.whole = TRUE]
    BY <1>5 DEF WriteLease
  <2>4. lease' \in [owner : Proc \cup {Nobody}, whole : BOOLEAN]
    BY <2>3 DEF TypeOK
  <2>5. refs' \in [Proc -> 0 .. 2]
    <3>1. 1 \in 0 .. 2
      OBVIOUS
    <3> QED
      BY <1>5, <3>1 DEF WriteLease, TypeOK
  <2> QED
    BY <1>5, <2>2, <2>4, <2>5 DEF WriteLease, fileVars, mutateVars, TypeOK
<1>6. CASE Load(p)
  <2>1. Goto(p, IF op[p] = "clear" THEN "intend" ELSE "assert")
    BY <1>6 DEF Load
  <2>2. pc' \in [Proc -> Step] /\ op' \in [Proc -> Operation]
    BY <2>1, GotoIs
  <2>3. Latest \in Revision /\ content[Latest] \subseteq Message /\ Latest < MaxRevision
    BY <1>6, LatestType DEF Load, Loads
  <2>4. Latest + 1 \in Revision /\ Latest \in 0 .. MaxRevision
    BY <2>3 DEF Revision
  <2>5. Transcript(p) \in SUBSET Message
    BY <2>3, <2>4 DEF Transcript, Message
  <2>6. expected' \in [Proc -> 0 .. MaxRevision]
    BY <1>6, <2>4 DEF Load, TypeOK
  <2>7. draft' \in [Proc -> SUBSET Message]
    BY <1>6, <2>5 DEF Load, TypeOK
  <2> QED
    BY <1>6, <2>2, <2>6, <2>7 DEF Load, fileVars, TypeOK
<1>7. CASE LoadOnly(p) \/ AssertLease(p) \/ CheckRevision(p) \/ CleanedUp(p)
  <2>1. \E s \in Step : Goto(p, s)
    BY <1>7 DEF LoadOnly, AssertLease, CheckRevision, CleanedUp, GotoOr
  <2>2. pc' \in [Proc -> Step] /\ op' \in [Proc -> Operation]
    BY <2>1, GotoIs
  <2> QED
    BY <1>7, <2>2 DEF LoadOnly, AssertLease, CheckRevision, CleanedUp, fileVars, mutateVars, TypeOK
<1>8. CASE WriteIntent(p) \/ DropIntent(p)
  <2>1. \E s \in Step : Goto(p, s)
    BY <1>8 DEF WriteIntent, DropIntent, GotoOr
  <2>2. pc' \in [Proc -> Step] /\ op' \in [Proc -> Operation]
    BY <2>1, GotoIs
  <2>3. intent' \in 0 .. MaxRevision
    <3>1. CASE WriteIntent(p)
      <4>1. expected[p] \in 0 .. MaxRevision /\ expected[p] < MaxRevision
        BY <3>1 DEF WriteIntent, At, Uses, TypeOK
      <4>2. expected[p] + 1 \in 0 .. MaxRevision
        BY <4>1
      <4>3. intent' = expected[p] + 1 \/ intent' = intent
        BY <3>1 DEF WriteIntent
      <4> QED
        BY <4>2, <4>3 DEF TypeOK
    <3>2. CASE DropIntent(p)
      BY <3>2 DEF DropIntent
    <3> QED
      BY <1>8, <3>1, <3>2
  <2> QED
    BY <1>8, <2>2, <2>3 DEF WriteIntent, DropIntent, mutateVars, TypeOK
<1>9. CASE RenameRevision(p)
  <2>1. \E s \in Step : Goto(p, s)
    BY <1>9 DEF RenameRevision
  <2>2. pc' \in [Proc -> Step] /\ op' \in [Proc -> Operation]
    BY <2>1, GotoIs
  <2>3. expected[p] \in 0 .. MaxRevision /\ expected[p] < MaxRevision
    BY <1>9 DEF RenameRevision, TypeOK
  <2>4. expected[p] + 1 \in Revision
    BY <2>3 DEF Revision
  <2>5. revisions' \subseteq Revision
    BY <1>9, <2>4 DEF RenameRevision, TypeOK
  <2>6. content' \in [Revision -> SUBSET Message]
    BY <1>9, <2>4 DEF RenameRevision, TypeOK
  <2>7. stale' \in [Proc -> SUBSET Revision]
    BY <1>9, <2>5 DEF RenameRevision, TypeOK
  <2> QED
    BY <1>9, <2>2, <2>5, <2>6, <2>7 DEF RenameRevision, mutateVars, TypeOK
<1>10. ASSUME NEW r \in Revision, CleanUp(p, r)  PROVE TypeOK'
  <2>1. /\ revisions' \subseteq Revision /\ content' \in [Revision -> SUBSET Message]
        /\ stale' \in [Proc -> SUBSET Revision]
    BY <1>10 DEF CleanUp, TypeOK
  <2> QED
    BY <1>10, <2>1 DEF CleanUp, mutateVars, TypeOK
<1>11. CASE RemoveSession(p)
  <2>1. Goto(p, "release")
    BY <1>11 DEF RemoveSession
  <2>2. pc' \in [Proc -> Step] /\ op' \in [Proc -> Operation]
    BY <2>1, GotoIs
  <2>3. /\ directory' \in {"absent", "present", "deleted"} /\ revisions' \subseteq Revision
        /\ content' \in [Revision -> SUBSET Message] /\ intent' \in 0 .. MaxRevision
        /\ lease' \in [owner : Proc \cup {Nobody}, whole : BOOLEAN]
    <3>1. lease' = NoLease \/ lease' = lease
      BY <1>11 DEF RemoveSession
    <3>2. lease' \in [owner : Proc \cup {Nobody}, whole : BOOLEAN]
      BY <3>1, LeaseValues DEF TypeOK
    <3> QED
      BY <1>11, <3>2 DEF RemoveSession, TypeOK, fileVars
  <2> QED
    BY <1>11, <2>2, <2>3 DEF RemoveSession, mutateVars, TypeOK
<1>12. CASE Release(p)
  <2>1. \E s \in Step : Goto(p, s)
    BY <1>12 DEF Release, GotoOr
  <2>2. pc' \in [Proc -> Step] /\ op' \in [Proc -> Operation]
    BY <2>1, GotoIs
  <2>3. refs[p] - 1 \in 0 .. 2
    <3>1. refs[p] \in 0 .. 2 /\ refs[p] >= 1
      BY <1>12 DEF Release, At, Uses, Outside, TypeOK
    <3> QED
      BY <3>1
  <2>4. refs' \in [Proc -> 0 .. 2]
    BY <1>12, <2>3 DEF Release, TypeOK
  <2>5. expected' \in [Proc -> 0 .. MaxRevision] /\ draft' \in [Proc -> SUBSET Message]
    BY <1>12 DEF Release, TypeOK
  <2> QED
    BY <1>12, <2>2, <2>4, <2>5 DEF Release, fileVars, TypeOK
<1>13. CASE Beat(p) \/ EndBeat(p)
  <2>1. \/ lease' = lease \/ lease' = [lease EXCEPT !.whole = TRUE]
        \/ lease' = [owner |-> p, whole |-> FALSE]
    BY <1>13 DEF Beat, EndBeat
  <2>2. lease' \in [owner : Proc \cup {Nobody}, whole : BOOLEAN]
    BY <2>1, LeaseValues DEF TypeOK
  <2>3. beating' \subseteq Proc
    BY <1>13 DEF Beat, EndBeat, TypeOK
  <2> QED
    BY <1>13, <2>2, <2>3 DEF Beat, EndBeat, fileVars, mutateVars, TypeOK
<1>14. CASE Crash(p)
  <2>1. /\ crashed' \subseteq Proc /\ beating' \subseteq Proc
        /\ pc' \in [Proc -> Step] /\ op' \in [Proc -> Operation] /\ refs' \in [Proc -> 0 .. 2]
        /\ expected' \in [Proc -> 0 .. MaxRevision] /\ draft' \in [Proc -> SUBSET Message]
        /\ stale' \in [Proc -> SUBSET Revision]
    <3>1. 0 \in 0 .. 2 /\ 0 \in 0 .. MaxRevision /\ "none" \in Operation
      BY DEF Operation
    <3> QED
      BY <1>14, <3>1 DEF Crash, TypeOK
  <2> QED
    BY <1>14, <2>1 DEF Crash, fileVars, TypeOK
<1> QED
  BY <1>1, <1>2, <1>3, <1>4, <1>5, <1>6, <1>7, <1>8, <1>9, <1>10, <1>11, <1>12, <1>13, <1>14
  DEF Act, Begins, Acquires, Writes, Releases

(* Where a process is and how often it uses the lease change together.     *)
LEMMA ActUses ==
  ASSUME TypeOK, Uses, NEW p \in Proc, Act(p)
  PROVE  Uses'
<1> USE StoreAssumption
<1> DEFINE Local ==
      /\ p \in crashed' => pc'[p] = "idle" /\ refs'[p] = 0
      /\ p \in beating' => refs'[p] > 0
      /\ pc'[p] = "idle" => refs'[p] <= 1
      /\ pc'[p] \in Outside => refs'[p] = 0
      /\ pc'[p] \notin Outside \cup {"idle"} => refs'[p] >= 1
      /\ pc'[p] = "intend" => expected'[p] < MaxRevision
<1>1. SUFFICES Local
  <2> HIDE DEF Local
  <2>1. ASSUME Local  PROVE Uses'
    <3> USE DEF Local
    <3>1. crashed' \subseteq Proc /\ beating' \subseteq Proc
      BY ActType DEF TypeOK
    <3> QED
      BY <2>1, <3>1, OthersStay DEF Uses, Held
  <2> QED
    BY <2>1
<1>2. /\ refs[p] \in 0 .. 2
      /\ p \in crashed => pc[p] = "idle" /\ refs[p] = 0
      /\ p \in beating => refs[p] > 0
      /\ pc[p] = "idle" => refs[p] <= 1
      /\ pc[p] \in Outside => refs[p] = 0
      /\ pc[p] \notin Outside \cup {"idle"} => refs[p] >= 1
  BY DEF Uses, TypeOK, Held
<1>3. CASE BeginCreate(p) \/ BeginAttach(p) \/ BeginOther(p)
  <2>1. /\ p \notin crashed' /\ pc[p] = "idle" /\ (p \in beating' <=> p \in beating)
        /\ \/ refs[p] <= 0 /\ pc'[p] = "lookUp" /\ refs'[p] = 0
           \/ refs'[p] = 2 /\ pc'[p] \in {"assert", "remove", "load"}
    BY <1>2, <1>3, BeginIs DEF FirstStep, Held
  <2> QED
    BY <1>2, <2>1 DEF Outside
<1>4. CASE Detach(p)
  BY <1>2, <1>4 DEF Detach, At, Held, TypeOK, Outside
<1>5. CASE \/ LookUp(p) \/ Inspect(p) \/ OpenLease(p) \/ JudgeLease(p) \/ UnlinkStale(p)
           \/ ReopenLease(p) \/ UnlinkLease(p)
  <2>1. \E s \in Outside \cup {"idle"} : Goto(p, s)
    BY <1>5 DEF LookUp, Inspect, OpenLease, JudgeLease, UnlinkStale, ReopenLease, UnlinkLease, GotoOr, Outside
  <2>2. pc'[p] \in Outside \cup {"idle"}
    BY <2>1, GotoIs DEF Outside, Step
  <2>3. pc[p] \in Outside /\ p \notin crashed /\ UNCHANGED <<crashed, refs, beating>>
    BY <1>5 DEF LookUp, Inspect, OpenLease, JudgeLease, UnlinkStale, ReopenLease, UnlinkLease, At, Outside
  <2> QED
    BY <1>2, <2>2, <2>3 DEF Outside
<1>6. CASE WriteLease(p)
  <2>1. Goto(p, FirstStep(op[p])) /\ FirstStep(op[p]) \in {"idle", "assert", "remove", "load"}
    BY <1>6 DEF WriteLease, FirstStep
  <2>2. pc'[p] \in {"idle", "assert", "remove", "load"}
    BY <2>1, GotoIs DEF Step
  <2>3. refs'[p] = 1 /\ p \notin crashed /\ UNCHANGED <<crashed, beating>>
    BY <1>6 DEF WriteLease, At, TypeOK
  <2> QED
    BY <2>2, <2>3 DEF Outside
<1>7. CASE Load(p)
  <2>1. \E s \in {"intend", "assert"} : Goto(p, s)
    BY <1>7 DEF Load
  <2>2. pc'[p] \in {"intend", "assert"}
    BY <2>1, GotoIs DEF Step
  <2>3. expected'[p] < MaxRevision /\ pc[p] = "load" /\ p \notin crashed /\ UNCHANGED <<crashed, refs, beating>>
    BY <1>7 DEF Load, At, TypeOK
  <2> QED
    BY <1>2, <2>2, <2>3 DEF Outside
<1>8. CASE LoadOnly(p) \/ WriteIntent(p) \/ AssertLease(p) \/ CheckRevision(p) \/ RenameRevision(p)
           \/ CleanedUp(p) \/ DropIntent(p) \/ RemoveSession(p)
  <2>1. \E s \in {"assert", "check", "rename", "cleanUp", "dropIntent", "release"} : Goto(p, s)
    BY <1>8 DEF LoadOnly, WriteIntent, AssertLease, CheckRevision, RenameRevision, CleanedUp, DropIntent,
       RemoveSession, GotoOr
  <2>2. pc'[p] \in {"assert", "check", "rename", "cleanUp", "dropIntent", "release"}
    BY <2>1, GotoIs DEF Step
  <2>3. /\ pc[p] \in {"load", "intend", "assert", "check", "rename", "cleanUp", "dropIntent", "remove"}
        /\ p \notin crashed /\ UNCHANGED <<crashed, refs, beating>>
    BY <1>8 DEF LoadOnly, WriteIntent, AssertLease, CheckRevision, RenameRevision, CleanedUp, DropIntent,
       RemoveSession, At
  <2> QED
    BY <1>2, <2>2, <2>3 DEF Outside
<1>9. CASE \E r \in Revision : CleanUp(p, r)
  BY <1>2, <1>9 DEF CleanUp, At, Outside
<1>10. CASE Release(p)
  <2>1. /\ pc[p] = "release" /\ p \notin crashed /\ UNCHANGED <<crashed, beating>>
        /\ refs' = [refs EXCEPT ![p] = refs[p] - 1]
    BY <1>10 DEF Release, At
  <2>2. refs'[p] = refs[p] - 1 /\ refs[p] >= 1
    BY <1>2, <2>1 DEF TypeOK, Outside
  <2>3. CASE refs[p] > 1
    <3>1. pc'[p] = "idle"
      BY <1>10, <2>3, GotoIs DEF Release, Step
    <3>2. refs[p] = 2 /\ refs'[p] = 1
      BY <1>2, <2>2, <2>3
    <3> QED
      BY <2>1, <3>1, <3>2 DEF Outside
  <2>4. CASE ~(refs[p] > 1)
    <3>1. pc'[p] \in {"unlinkLease", "idle"} /\ p \notin beating
      BY <1>10, <2>4, GotoIs DEF Release, GotoOr, Step
    <3>2. refs[p] = 1 /\ refs'[p] = 0
      BY <1>2, <2>2, <2>4
    <3> QED
      BY <2>1, <3>1, <3>2 DEF Outside
  <2> QED
    BY <2>3, <2>4
<1>11. CASE Beat(p) \/ EndBeat(p)
  <2>1. UNCHANGED <<pc, refs, expected, crashed>> /\ (p \in beating' => Held(p))
    BY <1>11 DEF Beat, EndBeat, mutateVars
  <2> QED
    BY <1>2, <2>1 DEF Held, Uses
<1>12. CASE Crash(p)
  <2>1. p \notin beating' /\ pc'[p] = "idle" /\ refs'[p] = 0
    BY <1>12 DEF Crash, TypeOK
  <2> QED
    BY <2>1 DEF Outside
<1> QED
  <2> HIDE DEF Local
  <2> QED
    BY <1>3, <1>4, <1>5, <1>6, <1>7, <1>8, <1>9, <1>10, <1>11, <1>12
    DEF Act, Begins, Acquires, Writes, Releases

-----------------------------------------------------------------------------
(* The steps that write the lease file, and what they leave in it.         *)
LEMMA LeaseWrites ==
  ASSUME NEW p \in Proc, Act(p)
  PROVE  \/ UNCHANGED lease
         \/ (OpenLease(p) \/ ReopenLease(p)) /\ lease = NoLease /\ lease' = [owner |-> p, whole |-> FALSE]
               /\ Goto(p, "writeLease")
         \/ (UnlinkStale(p) \/ UnlinkLease(p)) /\ lease' = NoLease
         \/ RemoveSession(p) /\ OwnLease(p) /\ lease' = NoLease
         \/ WriteLease(p) /\ lease.owner = p /\ lease' = [lease EXCEPT !.whole = TRUE]
         \/ Beat(p) /\ OwnLease(p) /\ lease' = [owner |-> p, whole |-> FALSE]
         \/ EndBeat(p) /\ lease.owner = p /\ lease' = [lease EXCEPT !.whole = TRUE]
<1>1. CASE Begins(p)
  BY <1>1 DEF Begins, BeginCreate, BeginAttach, BeginOther, Begin, Detach
<1>2. CASE Acquires(p)
  BY <1>2 DEF Acquires, LookUp, Inspect, OpenLease, JudgeLease, UnlinkStale, ReopenLease, WriteLease
<1>3. CASE Writes(p)
  BY <1>3 DEF Writes, Load, LoadOnly, WriteIntent, AssertLease, CheckRevision, RenameRevision, CleanUp,
     CleanedUp, DropIntent, RemoveSession
<1>4. CASE Releases(p) \/ Beat(p) \/ EndBeat(p) \/ Crash(p)
  BY <1>4 DEF Releases, Release, UnlinkLease, Beat, EndBeat, Crash
<1> QED
  BY <1>1, <1>2, <1>3, <1>4 DEF Act

(* What a step of p may end: its hold of the lease only by the last        *)
(* release, taking or dropping the file only by doing so, a heartbeat only *)
(* by writing the lease again; or any of them by a crash.                  *)
LEMMA WhatEnds ==
  ASSUME TypeOK, Uses, NEW p \in Proc, Act(p), ~Crash(p)
  PROVE  /\ Held(p) => refs'[p] > 0 \/ (Release(p) /\ refs[p] = 1)
         /\ pc[p] = "writeLease" => WriteLease(p)
         /\ pc[p] = "unlinkLease" => UnlinkLease(p)
         /\ p \in beating => p \in beating' \/ EndBeat(p)
         /\ crashed' = crashed
<1>1. /\ refs[p] \in 0 .. 2
      /\ p \in beating => refs[p] > 0
      /\ pc[p] \in Outside => refs[p] = 0
  BY DEF Uses, TypeOK, Held
<1>2. CASE BeginCreate(p) \/ BeginAttach(p) \/ BeginOther(p)
  BY <1>2, BeginIs DEF Held
<1>3. CASE Detach(p)
  BY <1>1, <1>3 DEF Detach, At, Held
<1>4. CASE Acquires(p)
  <2>1. pc[p] \in Outside /\ crashed' = crashed /\ beating' = beating /\ (pc[p] = "writeLease" => WriteLease(p))
        /\ pc[p] # "unlinkLease"
    BY <1>4 DEF Acquires, LookUp, Inspect, OpenLease, JudgeLease, UnlinkStale, ReopenLease, WriteLease, At, Outside
  <2> QED
    BY <1>1, <2>1 DEF Held
<1>5. CASE Writes(p)
  <2>1. crashed' = crashed /\ beating' = beating /\ refs' = refs /\ pc[p] \notin {"writeLease", "unlinkLease"}
    BY <1>5 DEF Writes, Load, LoadOnly, WriteIntent, AssertLease, CheckRevision, RenameRevision, CleanUp,
     CleanedUp, DropIntent, RemoveSession, At
  <2> QED
    BY <1>1, <2>1 DEF Held
<1>6. CASE Release(p)
  <2>1. /\ crashed' = crashed /\ beating' = beating /\ pc[p] = "release"
        /\ refs'[p] = refs[p] - 1
    BY <1>6 DEF Release, At, TypeOK
  <2> QED
    BY <1>1, <1>6, <2>1 DEF Held
<1>7. CASE UnlinkLease(p)
  BY <1>1, <1>7 DEF UnlinkLease, At, Outside, Held
<1>8. CASE Beat(p) \/ EndBeat(p)
  <2>1. crashed' = crashed /\ refs' = refs /\ Held(p) /\ pc[p] \notin Outside
    BY <1>1, <1>8 DEF Beat, EndBeat, Held
  <2>2. p \in beating => p \in beating' \/ EndBeat(p)
    BY <1>8 DEF Beat
  <2> QED
    BY <2>1, <2>2 DEF Held, Outside
<1> QED
  BY <1>2, <1>3, <1>4, <1>5, <1>6, <1>7, <1>8 DEF Act, Begins, Releases

(* The account of the lease; where there is a lease there is a directory.  *)
Accounted == LeaseAccounted /\ (lease.owner # Nobody => Present)

(* The holders of a lease stay accounted for in every step of a process.   *)
LEMMA ActAccounted ==
  ASSUME TypeOK, Uses, Accounted, NEW p \in Proc, Act(p)
  PROVE  Accounted'
<1> USE StoreAssumption
<1>1. TypeOK' /\ Uses'
  BY ActType, ActUses
<1>2. Nobody \notin Proc /\ lease.owner \in Proc \cup {Nobody} /\ lease'.owner \in Proc \cup {Nobody}
      /\ lease.whole \in BOOLEAN /\ lease'.whole \in BOOLEAN
  BY <1>1 DEF TypeOK, Proc, Nobody
<1>3. directory' = directory \/ LookUp(p) \/ RemoveSession(p)
  BY DEF Act, Begins, BeginCreate, BeginAttach, BeginOther, Begin, Detach, Acquires, LookUp, Inspect, OpenLease,
     JudgeLease, UnlinkStale, ReopenLease, WriteLease, Writes, Load, LoadOnly, WriteIntent, AssertLease,
     CheckRevision, RenameRevision, CleanUp, CleanedUp, DropIntent, RemoveSession, Releases, Release,
     UnlinkLease, Beat, EndBeat, Crash, fileVars
<1>4. lease'.owner # Nobody => directory' = "present"
  <2>1. CASE LookUp(p)
    BY <2>1 DEF LookUp, Accounted, Present
  <2>2. CASE RemoveSession(p)
    <3>1. OwnLease(p) => lease' = NoLease
      BY <2>2 DEF RemoveSession
    <3>2. ~OwnLease(p) => UNCHANGED <<directory, lease>>
      BY <2>2 DEF RemoveSession, fileVars
    <3> QED
      BY <3>1, <3>2 DEF NoLease, Accounted, Present
  <2>3. CASE directory' = directory
    <3>1. lease.owner # Nobody \/ Present \/ lease'.owner = Nobody
      <4>1. (OpenLease(p) \/ ReopenLease(p)) /\ ~UNCHANGED lease => Present
        BY DEF OpenLease, ReopenLease
      <4>2. WriteLease(p) \/ EndBeat(p) => lease' = lease \/ lease.owner = p
        BY DEF WriteLease, EndBeat
      <4>3. Beat(p) => Present
        BY DEF Beat, OwnLease
      <4> QED
        BY <1>2, <4>1, <4>2, <4>3, LeaseWrites DEF NoLease
    <3> QED
      BY <2>3, <3>1 DEF Accounted, Present
  <2> QED
    BY <1>3, <2>1, <2>2, <2>3
<1>5. [lease EXCEPT !.whole = TRUE].owner = lease.owner /\ [lease EXCEPT !.whole = TRUE].whole
  <2>1. ASSUME NEW l \in [owner : Proc \cup {Nobody}, whole : BOOLEAN]
        PROVE  [l EXCEPT !.whole = TRUE].owner = l.owner /\ [l EXCEPT !.whole = TRUE].whole
    OBVIOUS
  <2> QED
    BY <2>1 DEF TypeOK
<1>6. CASE Crash(p)
  <2>1. lease' = lease /\ crashed' = crashed \cup {p}
    BY <1>6 DEF Crash
  <2> QED
    BY <1>4, <2>1, OthersStay DEF Accounted, LeaseAccounted, Held, Present
<1>7. CASE ~Crash(p) /\ lease'.owner # p
  <2>1. crashed' = crashed /\ (lease' = lease \/ lease'.owner = Nobody)
    <3>1. lease' = lease \/ lease' = NoLease \/ lease' = [owner |-> p, whole |-> FALSE]
          \/ (lease.owner = p /\ lease' = [lease EXCEPT !.whole = TRUE])
      BY LeaseWrites
    <3>2. lease' = lease \/ lease'.owner = Nobody \/ lease'.owner = p
      <4>1. NoLease.owner = Nobody /\ [owner |-> p, whole |-> FALSE].owner = p
        BY DEF NoLease
      <4>2. CASE lease.owner = p /\ lease' = [lease EXCEPT !.whole = TRUE]
        BY ONLY <1>5, <4>2
      <4> QED
        BY <3>1, <4>1, <4>2
    <3> QED
      BY <1>7, <3>2, WhatEnds
  <2> QED
    BY <1>2, <1>4, <1>7, <2>1, OthersStay DEF Accounted, LeaseAccounted, Held, Present
<1>8. CASE ~Crash(p) /\ p \notin crashed /\ lease'.owner = p
  <2>1. /\ Held(p) => refs'[p] > 0 \/ (Release(p) /\ refs[p] = 1)
        /\ pc[p] = "writeLease" => WriteLease(p)
        /\ pc[p] = "unlinkLease" => UnlinkLease(p)
        /\ p \in beating => p \in beating' \/ EndBeat(p)
        /\ crashed' = crashed
    BY <1>8, WhatEnds
  <2>2. CASE lease' = lease
    <3>1. /\ Held(p) \/ pc[p] \in {"writeLease", "unlinkLease"}
          /\ ~lease.whole => p \in beating \/ pc[p] = "writeLease"
          /\ Present
      BY <1>2, <1>8, <2>2 DEF Accounted, LeaseAccounted
    <3>2. CASE Release(p) /\ refs[p] = 1
      <4>1. pc[p] = "release" /\ p \notin beating /\ GotoOr(p, OwnLease(p), "unlinkLease", "idle")
        BY <3>2 DEF Release, At
      <4>2. lease.whole
        BY <3>1, <4>1
      <4>3. lease = [owner |-> p, whole |-> TRUE]
        BY <1>8, <2>2, <4>2 DEF TypeOK
      <4>4. Goto(p, "unlinkLease")
        BY <3>1, <4>1, <4>3 DEF GotoOr, OwnLease
      <4>5. pc'[p] = "unlinkLease"
        BY <4>4, GotoIs DEF Step
      <4> QED
        BY <1>4, <1>8, <2>1, <2>2, <4>2, <4>5 DEF Accounted, LeaseAccounted, Present
    <3>3. CASE WriteLease(p)
      <4>1. refs'[p] = 1 /\ lease' = [lease EXCEPT !.whole = TRUE]
        BY <1>8, <2>2, <3>3 DEF WriteLease, TypeOK
      <4> QED
        BY <1>4, <1>5, <1>8, <4>1 DEF Accounted, LeaseAccounted, Held, Present
    <3>4. CASE UnlinkLease(p)
      BY <1>2, <1>8, <3>4 DEF UnlinkLease, NoLease
    <3>5. CASE refs'[p] > 0 /\ ~WriteLease(p)
      <4>1. EndBeat(p) => lease' = [lease EXCEPT !.whole = TRUE]
        BY <1>8, <2>2 DEF EndBeat
      <4>2. lease'.whole \/ p \in beating'
        BY <1>5, <2>1, <2>2, <3>1, <3>5, <4>1
      <4> QED
        BY <1>4, <1>8, <3>5, <4>2 DEF Accounted, LeaseAccounted, Held, Present
    <3> QED
      BY <2>1, <3>1, <3>2, <3>3, <3>4, <3>5
  <2>3. CASE OpenLease(p) \/ ReopenLease(p)
    <3>1. CASE Goto(p, "writeLease")
      <4>1. pc'[p] = "writeLease"
        BY <3>1, GotoIs DEF Step
      <4> QED
        BY <1>4, <1>8, <4>1 DEF Accounted, LeaseAccounted, Present
    <3>2. CASE ~Goto(p, "writeLease")
      <4>1. lease' = lease
        BY <2>3, <3>2 DEF OpenLease, ReopenLease
      <4> QED
        BY <2>2, <4>1
    <3> QED
      BY <3>1, <3>2
  <2>4. CASE WriteLease(p) /\ lease' = [lease EXCEPT !.whole = TRUE]
    <3>1. refs'[p] = 1
      BY <2>4 DEF WriteLease, TypeOK
    <3> QED
      BY <1>4, <1>5, <1>8, <2>4, <3>1 DEF Accounted, LeaseAccounted, Held, Present
  <2>5. CASE Beat(p)
    <3>1. refs'[p] > 0 /\ p \in beating'
      BY <2>5 DEF Beat, Held
    <3> QED
      BY <1>4, <1>8, <3>1 DEF Accounted, LeaseAccounted, Held, Present
  <2>6. CASE EndBeat(p) /\ lease' = [lease EXCEPT !.whole = TRUE]
    <3>1. refs'[p] > 0
      BY <2>6 DEF EndBeat, Uses, Held
    <3> QED
      BY <1>4, <1>5, <1>8, <2>6, <3>1 DEF Accounted, LeaseAccounted, Held, Present
  <2> QED
    BY <1>2, <1>8, <2>2, <2>3, <2>4, <2>5, <2>6, LeaseWrites DEF NoLease
<1>9. CASE p \in crashed /\ ~Crash(p) /\ lease'.owner = p
  <2>1. crashed' = crashed
    BY <1>9, WhatEnds
  <2> QED
    BY <1>4, <1>9, <2>1 DEF Accounted, LeaseAccounted, Present
<1> QED
  BY <1>6, <1>7, <1>8, <1>9

(* What holds for any number of processes and crashes.                     *)
StoreInv == TypeOK /\ Uses /\ Accounted

(* Every step but a stutter is the step of some process.                   *)
LEMMA ActIs == [Next]_vars => (\E p \in Proc : Act(p)) \/ UNCHANGED vars
BY DEF Next, Act

(* The types, the use of the lease by the steps of an operation, and the   *)
(* account of its holders are kept by every behaviour, whatever the number *)
(* of processes and crashes.                                               *)
THEOREM StoreInvariant == Spec => []StoreInv
<1> USE StoreAssumption
<1>1. Init => StoreInv
  <2> SUFFICES ASSUME Init  PROVE StoreInv
    OBVIOUS
  <2>1. 0 \in 0 .. 2 /\ 0 \in 0 .. MaxRevision /\ "none" \in Operation /\ "idle" \in Step
        /\ NoLease \in [owner : Proc \cup {Nobody}, whole : BOOLEAN]
    BY DEF Operation, Step, NoLease, Nobody
  <2>2. TypeOK
    BY <2>1 DEF Init, TypeOK
  <2>3. Uses
    BY DEF Init, Uses, Outside
  <2>4. Accounted
    BY DEF Init, Accounted, LeaseAccounted, NoLease, Proc, Nobody
  <2> QED
    BY <2>2, <2>3, <2>4 DEF StoreInv
<1>2. StoreInv /\ [Next]_vars => StoreInv'
  <2> SUFFICES ASSUME StoreInv, [Next]_vars  PROVE StoreInv'
    OBVIOUS
  <2>1. CASE UNCHANGED vars
    BY <2>1 DEF vars, fileVars, mutateVars, StoreInv, TypeOK, Uses, Accounted, LeaseAccounted, Held, Present
  <2>2. ASSUME NEW p \in Proc, Act(p)  PROVE StoreInv'
    BY <2>2, ActType, ActUses, ActAccounted DEF StoreInv
  <2> QED
    BY <2>1, <2>2, ActIs
<1> QED
  BY <1>1, <1>2, PTL DEF Spec

(* TypeOK of the session store, in every state: in particular a lease is   *)
(* used at most twice at once and no revision exceeds its bound.           *)
THEOREM SessionStoreTypeCorrect == Spec => []TypeOK
<1>1. StoreInv => TypeOK
  BY DEF StoreInv
<1> QED
  BY <1>1, StoreInvariant, PTL

(* A lease file is left behind by crashes alone, and left torn by a        *)
(* process only while it writes it.                                        *)
THEOREM LeaseIsAccounted == Spec => []LeaseAccounted
<1>1. StoreInv => LeaseAccounted
  BY DEF StoreInv, Accounted
<1> QED
  BY <1>1, StoreInvariant, PTL

-----------------------------------------------------------------------------
(* Once a process has crashed there is one other: two that find the lease  *)
(* of a dead third take it from each other.                                *)
FewProcesses == NumProcesses <= 2 \/ MaxCrashes = 0
FewLeft == crashed # {} => NumProcesses <= 2

LeaseInv == Owned /\ Stealing /\ SingleWriter /\ Protected

(* How a process comes to hold the lease, to take it or drop it, to unlink *)
(* a stale one and to write.                                               *)
LEMMA WhatBegins ==
  ASSUME TypeOK, Uses, NEW p \in Proc, Act(p)
  PROVE  /\ p \notin crashed
         /\ refs'[p] > 0 => Held(p) \/ WriteLease(p)
         /\ pc'[p] = "writeLease" => Present /\ lease' = [owner |-> p, whole |-> FALSE] /\ UNCHANGED directory
         /\ pc'[p] = "unlinkLease" => OwnLease(p) /\ UNCHANGED <<lease, directory>>
         /\ pc'[p] = "unlinkStale" => lease.owner \in crashed /\ UNCHANGED <<lease, crashed>>
         /\ pc'[p] \in Writing => pc[p] \in Writing \/ (OwnLease(p) /\ p \notin beating /\ UNCHANGED <<lease, directory, beating>>)
<1>1. /\ refs[p] \in 0 .. 2
      /\ p \in crashed => pc[p] = "idle" /\ refs[p] = 0
      /\ p \in beating => refs[p] > 0
      /\ pc[p] \in Outside => refs[p] = 0
  BY DEF Uses, TypeOK, Held
<1>2. CASE BeginCreate(p) \/ BeginAttach(p) \/ BeginOther(p)
  <2>1. pc'[p] \in {"lookUp", "assert", "remove", "load"} /\ (refs'[p] > 0 => Held(p)) /\ p \notin crashed
    BY <1>2, BeginIs DEF FirstStep
  <2> QED
    BY <2>1 DEF Writing
<1>3. CASE Detach(p)
  <2>1. pc'[p] = "release" /\ Held(p) /\ p \notin crashed
    BY <1>3 DEF Detach, At, TypeOK
  <2> QED
    BY <2>1 DEF Writing
<1>4. CASE LookUp(p) \/ Inspect(p) \/ UnlinkStale(p)
  <2>1. \E s \in {"openLease", "idle", "inspect", "reopenLease"} : Goto(p, s)
    BY <1>4 DEF LookUp, Inspect, UnlinkStale, GotoOr
  <2>2. pc'[p] \in {"openLease", "idle", "inspect", "reopenLease"}
    BY <2>1, GotoIs DEF Step
  <2>3. refs' = refs /\ p \notin crashed
    BY <1>4 DEF LookUp, Inspect, UnlinkStale, At
  <2> QED
    BY <2>2, <2>3 DEF Writing, Held
<1>5. CASE OpenLease(p) \/ ReopenLease(p)
  <2>1. refs' = refs /\ p \notin crashed /\ directory' = directory
    BY <1>5 DEF OpenLease, ReopenLease, At, fileVars
  <2>2. \/ Goto(p, "writeLease") /\ Present /\ lease' = [owner |-> p, whole |-> FALSE]
        \/ Goto(p, "judgeLease") \/ Goto(p, "idle")
    BY <1>5 DEF OpenLease, ReopenLease, GotoOr
  <2>3. \/ pc'[p] = "writeLease" /\ Present /\ lease' = [owner |-> p, whole |-> FALSE]
        \/ pc'[p] \in {"judgeLease", "idle"}
    BY <2>2, GotoIs DEF Step
  <2> QED
    BY <2>1, <2>3 DEF Writing, Held
<1>6. CASE JudgeLease(p)
  <2>1. refs' = refs /\ p \notin crashed /\ UNCHANGED <<lease, crashed>>
    BY <1>6 DEF JudgeLease, At
  <2>2. (Goto(p, "unlinkStale") /\ lease.owner \in crashed) \/ Goto(p, "idle")
    BY <1>6 DEF JudgeLease, GotoOr
  <2>3. (pc'[p] = "unlinkStale" /\ lease.owner \in crashed) \/ pc'[p] = "idle"
    BY <2>2, GotoIs DEF Step
  <2> QED
    BY <2>1, <2>3 DEF Writing, Held
<1>7. CASE WriteLease(p)
  <2>1. Goto(p, FirstStep(op[p])) /\ FirstStep(op[p]) \in {"idle", "assert", "remove", "load"}
    BY <1>7 DEF WriteLease, FirstStep
  <2>2. pc'[p] \in {"idle", "assert", "remove", "load"} /\ p \notin crashed
    BY <1>7, <2>1, GotoIs DEF Step, WriteLease, At
  <2> QED
    BY <1>7, <2>2 DEF Writing
<1>8. CASE Load(p) \/ LoadOnly(p) \/ WriteIntent(p) \/ RemoveSession(p)
  <2>1. \E s \in {"intend", "assert", "release"} : Goto(p, s)
    BY <1>8 DEF Load, LoadOnly, WriteIntent, RemoveSession, GotoOr
  <2>2. pc'[p] \in {"intend", "assert", "release"}
    BY <2>1, GotoIs DEF Step
  <2>3. refs' = refs /\ p \notin crashed
    BY <1>8 DEF Load, LoadOnly, WriteIntent, RemoveSession, At
  <2> QED
    BY <2>2, <2>3 DEF Writing, Held
<1>9. CASE AssertLease(p)
  <2>1. /\ p \notin beating /\ p \notin crashed /\ UNCHANGED <<lease, refs, directory, beating>>
        /\ (OwnLease(p) /\ Goto(p, "check")) \/ Goto(p, "release")
    BY <1>9 DEF AssertLease, At, GotoOr, fileVars
  <2>2. (OwnLease(p) /\ pc'[p] = "check") \/ pc'[p] = "release"
    BY <2>1, GotoIs DEF Step
  <2> QED
    BY <2>1, <2>2 DEF Writing, Held
<1>10. CASE CheckRevision(p) \/ RenameRevision(p) \/ CleanedUp(p) \/ DropIntent(p)
  <2>1. \E s \in {"rename", "cleanUp", "dropIntent", "release"} : Goto(p, s)
    BY <1>10 DEF CheckRevision, RenameRevision, CleanedUp, DropIntent, GotoOr
  <2>2. pc'[p] \in {"rename", "cleanUp", "dropIntent", "release"}
    BY <2>1, GotoIs DEF Step
  <2>3. refs' = refs /\ p \notin crashed /\ pc[p] \in Writing
    BY <1>10 DEF CheckRevision, RenameRevision, CleanedUp, DropIntent, At, Writing
  <2> QED
    BY <2>2, <2>3 DEF Held
<1>11. CASE \E r \in Revision : CleanUp(p, r)
  BY <1>11 DEF CleanUp, At, Writing, Held
<1>12. CASE Release(p)
  <2>1. /\ p \notin crashed /\ pc[p] = "release" /\ UNCHANGED <<lease, directory>>
        /\ (OwnLease(p) /\ Goto(p, "unlinkLease")) \/ Goto(p, "idle")
    BY <1>12 DEF Release, At, GotoOr, fileVars
  <2>2. (OwnLease(p) /\ pc'[p] = "unlinkLease") \/ pc'[p] = "idle"
    BY <2>1, GotoIs DEF Step
  <2>3. refs[p] >= 1
    BY <2>1 DEF Uses, Outside
  <2> QED
    BY <1>1, <2>1, <2>2, <2>3 DEF Writing, Held
<1>13. CASE UnlinkLease(p)
  <2>1. pc'[p] = "idle" /\ refs' = refs /\ p \notin crashed
    BY <1>13, GotoIs DEF UnlinkLease, At, Step
  <2> QED
    BY <2>1 DEF Writing, Held
<1>14. CASE Beat(p) \/ EndBeat(p)
  <2>1. pc' = pc /\ refs' = refs /\ Held(p)
    BY <1>1, <1>14 DEF Beat, EndBeat, Held
  <2> QED
    BY <1>1, <2>1 DEF Held, Outside
<1>15. CASE Crash(p)
  <2>1. pc'[p] = "idle" /\ refs'[p] = 0 /\ p \notin crashed
    BY <1>15 DEF Crash, TypeOK
  <2> QED
    BY <2>1 DEF Writing
<1> QED
  BY <1>2, <1>3, <1>4, <1>5, <1>6, <1>7, <1>8, <1>9, <1>10, <1>11, <1>12, <1>13, <1>14, <1>15
  DEF Act, Begins, Acquires, Writes, Releases

(* Only one process is left beside a dead one.                             *)
LEMMA OnePeer ==
  ASSUME TypeOK, FewLeft, NEW c \in crashed, NEW p \in Proc, NEW q \in Proc, p # c, q # c
  PROVE  p = q
<1>1. NumProcesses \in Nat /\ NumProcesses <= 2 /\ c \in 1 .. NumProcesses
  BY StoreAssumption DEF FewLeft, TypeOK, Proc
<1> QED
  BY <1>1 DEF Proc

(* The directory is made once and deleted once.                            *)
LEMMA DirectorySteps ==
  ASSUME NEW p \in Proc, Act(p)
  PROVE  \/ directory' = directory
         \/ directory = "absent" /\ directory' = "present" /\ LookUp(p) /\ lease' = lease
         \/ directory' = "deleted" /\ RemoveSession(p) /\ OwnLease(p)
<1>1. CASE LookUp(p)
  BY <1>1 DEF LookUp
<1>2. CASE RemoveSession(p)
  BY <1>2 DEF RemoveSession, fileVars
<1>3. CASE ~LookUp(p) /\ ~RemoveSession(p)
  BY <1>3 DEF Act, Begins, BeginCreate, BeginAttach, BeginOther, Begin, Detach, Acquires, Inspect, OpenLease,
     JudgeLease, UnlinkStale, ReopenLease, WriteLease, Writes, Load, LoadOnly, WriteIntent, AssertLease,
     CheckRevision, RenameRevision, CleanUp, CleanedUp, DropIntent, Releases, Release,
     UnlinkLease, Beat, EndBeat, Crash, fileVars
<1> QED
  BY <1>1, <1>2, <1>3

(* Who has the file of the lease keeps it through the steps of the others. *)
LEMMA LeaseStays ==
  ASSUME StoreInv, LeaseInv, NEW p \in Proc, Act(p), NEW q \in Proc \ {p},
         lease.owner = q, q \notin crashed
  PROVE  lease' = lease
<1>1. Nobody \notin Proc /\ NoLease.owner = Nobody
  BY DEF Proc, Nobody, NoLease
<1>2. ~UnlinkStale(p)
  BY DEF UnlinkStale, At, LeaseInv, Stealing
<1>3. ~UnlinkLease(p)
  BY DEF UnlinkLease, At, LeaseInv, Owned
<1>4. ~OwnLease(p)
  BY DEF OwnLease
<1>5. ~Beat(p)
  BY <1>4 DEF Beat
<1> QED
  BY <1>1, <1>2, <1>3, <1>4, <1>5, LeaseWrites

(* No step of a process breaks the ownership of the lease, while it can be *)
(* stolen once.                                                            *)
LEMMA LeaseInvStep ==
  ASSUME FewLeft, StoreInv, LeaseInv, NEW p \in Proc, Act(p)
  PROVE  LeaseInv'
<1> USE StoreAssumption
<1>1. TypeOK /\ Uses /\ Accounted /\ Owned /\ Stealing /\ SingleWriter /\ Protected
  BY DEF StoreInv, LeaseInv
<1>2. TypeOK' /\ Uses' /\ p \notin crashed
  BY <1>1, ActType, ActUses, WhatBegins
<1>3. \A q \in Proc \ {p} :
        /\ pc'[q] = pc[q] /\ refs'[q] = refs[q]
        /\ q \in crashed' <=> q \in crashed
        /\ q \in beating' <=> q \in beating
  BY <1>1, OthersStay
<1>4. ASSUME NEW q \in Proc, refs[q] > 0 \/ pc[q] # "idle"  PROVE q \notin crashed
  BY <1>1, <1>4 DEF Uses
<1>5. ASSUME NEW q \in Proc \ {p}, Present, lease.owner = q, q \notin crashed
      PROVE  lease' = lease /\ directory' = directory
  <2>1. lease' = lease
    BY <1>5, LeaseStays
  <2>2. ~OwnLease(p)
    BY <1>5 DEF OwnLease
  <2> QED
    BY <1>5, <2>1, <2>2, DirectorySteps DEF Present
<1>6. ASSUME NEW q \in Proc \ {p}, (directory' # "deleted" /\ refs'[q] > 0) \/ pc'[q] \in {"writeLease", "unlinkLease"}
      PROVE  directory' = "present" /\ lease'.owner = q
  <2>1. directory' # "deleted" => directory # "deleted"
    BY DirectorySteps
  <2>2. Present /\ lease.owner = q /\ q \notin crashed
    BY <1>1, <1>3, <1>4, <1>6, <2>1 DEF Owned, Held
  <2> QED
    BY <1>5, <2>2 DEF Present
<1>7. ASSUME (directory' # "deleted" /\ refs'[p] > 0) \/ pc'[p] \in {"writeLease", "unlinkLease"}
      PROVE  directory' = "present" /\ lease'.owner = p
  <2>1. CASE (Present /\ lease' = [owner |-> p, whole |-> FALSE] /\ UNCHANGED directory)
    BY <2>1 DEF Present
  <2>2. CASE OwnLease(p) /\ UNCHANGED <<lease, directory>>
    BY <2>2 DEF OwnLease, Present
  <2>3. CASE directory' # "deleted" /\ refs'[p] > 0
    <3>1. directory # "deleted" /\ (Held(p) \/ pc[p] = "writeLease")
      BY <1>1, <2>3, WhatBegins, DirectorySteps DEF WriteLease, At
    <3>2. Present /\ lease.owner = p
      BY <1>1, <3>1 DEF Owned
    <3>3. ~UnlinkStale(p) /\ ~UnlinkLease(p)
      <4>1. UnlinkStale(p) \/ UnlinkLease(p) => pc[p] \in Outside /\ refs' = refs
        BY DEF UnlinkStale, UnlinkLease, At, Outside
      <4>2. pc[p] \in Outside => refs[p] = 0
        BY <1>1 DEF Uses
      <4> QED
        BY <2>3, <4>1, <4>2
    <3>4. ~(RemoveSession(p) /\ OwnLease(p))
      BY <2>3 DEF RemoveSession
    <3>5. lease'.owner = p
      <4>1. ASSUME NEW l \in [owner : Proc \cup {Nobody}, whole : BOOLEAN]
            PROVE  [l EXCEPT !.whole = TRUE].owner = l.owner
        OBVIOUS
      <4>2. [lease EXCEPT !.whole = TRUE].owner = p
        BY <1>1, <3>2, <4>1 DEF TypeOK
      <4>3. [owner |-> p, whole |-> FALSE].owner = p
        OBVIOUS
      <4>4. lease' = lease \/ lease' = [lease EXCEPT !.whole = TRUE] \/ lease' = [owner |-> p, whole |-> FALSE]
        BY <3>3, <3>4, LeaseWrites
      <4> QED
        BY <3>2, <4>2, <4>3, <4>4
    <3> QED
      BY <2>3, <3>2, <3>5, DirectorySteps DEF Present
  <2> QED
    BY <1>1, <1>7, <2>1, <2>2, <2>3, WhatBegins
<1>8. Owned'
  BY <1>6, <1>7 DEF Owned, Held, Present
<1>9. Stealing'
  <2> SUFFICES ASSUME NEW q \in Proc, pc'[q] = "unlinkStale"
               PROVE  lease'.owner \in crashed'
    BY DEF Stealing
  <2>1. CASE q = p
    BY <1>1, <2>1, WhatBegins
  <2>2. CASE q # p
    <3>1. pc[q] = "unlinkStale" /\ lease.owner \in crashed
      BY <1>1, <1>3, <2>2 DEF Stealing
    <3>2. q # lease.owner /\ p # lease.owner
      BY <1>2, <1>4, <3>1
    <3> QED
      BY <1>1, <2>2, <3>1, <3>2, OnePeer
  <2> QED
    BY <2>1, <2>2
<1>10. SingleWriter'
  <2> SUFFICES ASSUME NEW q \in Proc, NEW r \in Proc, refs'[q] > 0, refs'[r] > 0
               PROVE  q = r
    BY DEF SingleWriter, Held
  <2>1. CASE directory' # "deleted"
    BY <1>6, <1>7, <2>1
  <2>2. CASE directory' = "deleted"
    <3>1. ~WriteLease(p)
      BY <1>1, <2>2, DirectorySteps DEF WriteLease, At, Owned, Present, RemoveSession
    <3>2. Held(q) /\ Held(r)
      BY <1>1, <1>3, <3>1, WhatBegins DEF Held
    <3> QED
      BY <1>1, <3>2 DEF SingleWriter
  <2> QED
    BY <2>1, <2>2
<1>11. Protected'
  <2> SUFFICES ASSUME NEW q \in Proc, pc'[q] \in Writing
               PROVE  /\ directory' = "present"
                      /\ lease' = [owner |-> q, whole |-> TRUE]
                      /\ q \notin beating'
    BY DEF Protected, OwnLease, Present
  <2>1. CASE q # p
    <3>1. OwnLease(q) /\ q \notin beating /\ pc[q] \in Writing
      BY <1>1, <1>3, <2>1 DEF Protected
    <3>2. lease.owner = q /\ Present /\ q \notin crashed
      BY <1>4, <3>1 DEF OwnLease, Writing
    <3> QED
      BY <1>3, <1>5, <2>1, <3>1, <3>2 DEF OwnLease, Present
  <2>2. CASE q = p
    <3>1. CASE OwnLease(p) /\ p \notin beating /\ UNCHANGED <<lease, directory, beating>>
      BY <2>2, <3>1 DEF OwnLease, Present
    <3>2. CASE pc[p] \in Writing
      <4>1. OwnLease(p) /\ p \notin beating
        BY <1>1, <3>2 DEF Protected
      <4>2. ~Beat(p) /\ ~EndBeat(p) /\ ~Crash(p)
        <5>1. Crash(p) => pc'[p] = "idle"
          BY <1>1 DEF Crash, TypeOK
        <5> QED
          BY <2>2, <3>2, <4>1, <5>1 DEF Beat, EndBeat, InFileOperation, Writing
      <4>3. CheckRevision(p) \/ RenameRevision(p) \/ (\E r \in Revision : CleanUp(p, r)) \/ CleanedUp(p) \/ DropIntent(p)
        BY <3>2, <4>2 DEF Act, Begins, BeginCreate, BeginAttach, BeginOther, Begin, Detach, Acquires, LookUp, Inspect,
           OpenLease, JudgeLease, UnlinkStale, ReopenLease, WriteLease, Writes, Load, LoadOnly, WriteIntent, AssertLease,
           RemoveSession, Releases, Release, UnlinkLease, At, Writing
      <4>4. UNCHANGED <<lease, directory, beating>>
        BY <4>3 DEF CheckRevision, RenameRevision, CleanUp, CleanedUp, DropIntent, fileVars
      <4> QED
        BY <2>2, <4>1, <4>4 DEF OwnLease, Present
    <3> QED
      BY <1>1, <2>2, <3>1, <3>2, WhatBegins
  <2> QED
    BY <2>1, <2>2
<1> QED
  BY <1>8, <1>9, <1>10, <1>11 DEF LeaseInv

(* Without crashes nobody has crashed.                                     *)
LEMMA CrashSteps ==
  ASSUME FewProcesses, FewLeft, NEW p \in Proc, Act(p)
  PROVE  FewLeft'
<1>1. crashed' = crashed \/ Cardinality(crashed) < MaxCrashes
  BY DEF Act, Begins, BeginCreate, BeginAttach, BeginOther, Begin, Detach, Acquires, LookUp, Inspect, OpenLease,
     JudgeLease, UnlinkStale, ReopenLease, WriteLease, Writes, Load, LoadOnly, WriteIntent, AssertLease,
     CheckRevision, RenameRevision, CleanUp, CleanedUp, DropIntent, RemoveSession, Releases, Release,
     UnlinkLease, Beat, EndBeat, Crash
<1>2. CASE NumProcesses <= 2
  BY <1>2 DEF FewLeft
<1>3. CASE MaxCrashes = 0
  <2>1. crashed = {} => Cardinality(crashed) = 0
    BY FS_EmptySet
  <2> QED
    BY <1>1, <1>3, <2>1 DEF FewLeft
<1> QED
  BY <1>2, <1>3 DEF FewProcesses

(* With two processes, or without crashes, the owner of the lease is the   *)
(* only writer in every behaviour.                                         *)
THEOREM LeaseInvariant == ASSUME FewProcesses PROVE Spec => []LeaseInv
<1> USE StoreAssumption
<1>1. Init => LeaseInv /\ FewLeft
  BY DEF Init, LeaseInv, FewLeft, Owned, Stealing, SingleWriter, Protected, Held, Writing
<1>2. LeaseInv /\ FewLeft /\ StoreInv /\ [Next]_vars => (LeaseInv /\ FewLeft)'
  <2> SUFFICES ASSUME LeaseInv, FewLeft, StoreInv, [Next]_vars  PROVE (LeaseInv /\ FewLeft)'
    OBVIOUS
  <2>1. CASE UNCHANGED vars
    BY <2>1 DEF vars, fileVars, mutateVars, LeaseInv, FewLeft, Owned, Stealing, SingleWriter, Protected, Held, Present, OwnLease
  <2>2. ASSUME NEW p \in Proc, Act(p)  PROVE (LeaseInv /\ FewLeft)'
    BY <2>2, LeaseInvStep, CrashSteps
  <2> QED
    BY <2>1, <2>2, ActIs
<1> QED
  BY <1>1, <1>2, StoreInvariant, PTL DEF Spec

(* Of two processes, of which one may crash anywhere, or of any number     *)
(* that do not crash, one believes that it holds the lease.                *)
THEOREM OneWriter == ASSUME FewProcesses PROVE Spec => []SingleWriter
<1>1. LeaseInv => SingleWriter
  BY DEF LeaseInv
<1> QED
  BY <1>1, LeaseInvariant, PTL

(* Under the same assumption what assertLease has found holds until the    *)
(* last file of the operation is written, heartbeats included.             *)
THEOREM WritesAreUnderLease == ASSUME FewProcesses PROVE Spec => []WritesUnderLease
<1>1. LeaseInv => WritesUnderLease
  BY DEF LeaseInv, Protected, WritesUnderLease, Writing
<1> QED
  BY <1>1, LeaseInvariant, PTL

-----------------------------------------------------------------------------
(* The steps that change the revisions, all of a process that holds the    *)
(* lease.                                                                  *)
LEMMA RevisionSteps ==
  ASSUME TypeOK, Uses, NEW p \in Proc, Act(p)
  PROVE  \/ UNCHANGED <<revisions, content>>
         \/ Held(p) /\ RenameRevision(p) /\ Present
         \/ Held(p) /\ \E r \in stale[p] : CleanUp(p, r)
         \/ Held(p) /\ RemoveSession(p) /\ OwnLease(p)
<1>1. pc[p] \in {"rename", "cleanUp", "remove"} => Held(p)
  <2>1. pc[p] \in {"rename", "cleanUp", "remove"} => refs[p] >= 1 /\ refs[p] \in 0 .. 2
    BY DEF Uses, Outside, TypeOK
  <2> QED
    BY <2>1 DEF Held
<1>2. CASE RenameRevision(p) \/ (\E r \in Revision : CleanUp(p, r)) \/ RemoveSession(p)
  BY <1>1, <1>2 DEF RenameRevision, CleanUp, RemoveSession, At, fileVars
<1>3. CASE ~(RenameRevision(p) \/ (\E r \in Revision : CleanUp(p, r)) \/ RemoveSession(p))
  BY <1>3 DEF Act, Begins, BeginCreate, BeginAttach, BeginOther, Begin, Detach, Acquires, LookUp, Inspect, OpenLease,
     JudgeLease, UnlinkStale, ReopenLease, WriteLease, Writes, Load, LoadOnly, WriteIntent, AssertLease,
     CheckRevision, CleanedUp, DropIntent, Releases, Release, UnlinkLease, Beat, EndBeat, Crash, fileVars
<1> QED
  BY <1>2, <1>3

-----------------------------------------------------------------------------
(* What a process does, seen from the process: where it goes on, and what  *)
(* it has drafted by then.                                                 *)
Same(p) == expected'[p] = expected[p] /\ draft'[p] = draft[p]
GoesOn(p, from, to) == pc[p] \in from /\ pc'[p] \in to /\ op'[p] = op[p] /\ Same(p)

Starts(p) ==
  /\ pc[p] = "idle" /\ Same(p)
  /\ \/ /\ ~Held(p) /\ pc'[p] = "lookUp" /\ op'[p] \in Operation \ {"none", "detach"}
        /\ op'[p] \in {"create", "newDraft"} => p = Author
        /\ op'[p] = "create" => revisions = {}
     \/ /\ Held(p) /\ pc'[p] = "assert" /\ op'[p] = "create" /\ p = Author /\ revisions = {}
     \/ /\ Held(p) /\ revisions # {}
        /\ \/ pc'[p] = "load" /\ op'[p] \in {"add", "touch", "clear"}
           \/ pc'[p] = "remove" /\ op'[p] = "delete"
     \/ /\ Held(p) /\ pc'[p] = "release" /\ op'[p] = "detach"

Looks(p) ==
  \/ GoesOn(p, {"lookUp"}, {"inspect"}) /\ op[p] \notin {"create", "newDraft"} /\ Present
  \/ GoesOn(p, {"lookUp"}, {"openLease"}) /\ op[p] \in {"create", "newDraft"} /\ directory' = "present"
  \/ GoesOn(p, {"inspect"}, {"openLease"}) /\ Loads

Takes(p) ==
  \/ GoesOn(p, Outside \ {"lookUp", "inspect", "writeLease", "unlinkLease"},
              Outside \ {"lookUp", "inspect", "openLease", "unlinkLease"})
  \/ pc[p] = "writeLease" /\ pc'[p] = FirstStep(op[p])
     /\ op'[p] = (IF pc'[p] = "idle" THEN "none" ELSE op[p]) /\ Same(p)

Drafting(p) ==
  \/ /\ pc[p] = "load" /\ op'[p] = op[p] /\ Loads /\ Held(p)
     /\ pc'[p] = (IF op[p] = "clear" THEN "intend" ELSE "assert")
     /\ expected'[p] = Latest /\ draft'[p] = Transcript(p)
  \/ GoesOn(p, {"intend"}, {"assert"})
  \/ GoesOn(p, {"assert"}, {"check"})
  \/ GoesOn(p, {"check"}, {"rename"}) /\ expected[p] = (IF Loads THEN Latest ELSE 0)
  \/ GoesOn(p, {"load", "intend", "assert", "check", "rename", "remove"}, {"release"})

Finishes(p) ==
  \/ GoesOn(p, {"rename"}, {"cleanUp"}) /\ RenameRevision(p) /\ Present
  \/ GoesOn(p, {"cleanUp"}, {"cleanUp"})
  \/ GoesOn(p, {"cleanUp"}, IF op[p] = "clear" THEN {"dropIntent"} ELSE {"release"})
  \/ GoesOn(p, {"dropIntent"}, {"release"})

Ends(p) ==
  \/ pc[p] \in Outside /\ pc'[p] = "idle" /\ op'[p] = "none" /\ Same(p)
  \/ /\ pc[p] = "release" /\ expected'[p] = 0 /\ draft'[p] = {}
     /\ \/ pc'[p] = "idle" /\ op'[p] = "none"
        \/ pc'[p] = "unlinkLease" /\ op'[p] = op[p]
  \/ pc'[p] = "idle" /\ op'[p] = "none" /\ expected'[p] = 0 /\ draft'[p] = {}

(* What a step of a process does to its own variables: every step is one   *)
(* of six kinds or keeps them.                                             *)
LEMMA LocalStep ==
  ASSUME TypeOK, Uses, NEW p \in Proc, Act(p)
  PROVE  \/ Starts(p) \/ Looks(p) \/ Takes(p) \/ Drafting(p) \/ Finishes(p) \/ Ends(p)
         \/ pc'[p] = pc[p] /\ op'[p] = op[p] /\ Same(p) /\ Held(p)
<1>1. CASE BeginCreate(p) \/ BeginAttach(p) \/ BeginOther(p)
  <2>1. PICK o \in Operation \ {"none", "detach"} :
           /\ Begin(p, o) /\ op'[p] = o
           /\ o \in {"create", "newDraft"} => p = Author
           /\ o = "create" => revisions = {}
           /\ Held(p) => o \in {"create", "add", "touch", "clear", "delete"}
           /\ Held(p) /\ o # "create" => revisions # {}
    <3>1. PICK o \in Operation \ {"none", "detach"} :
           /\ Begin(p, o)
           /\ o \in {"create", "newDraft"} => p = Author
           /\ o = "create" => revisions = {}
           /\ Held(p) => o \in {"create", "add", "touch", "clear", "delete"}
           /\ Held(p) /\ o # "create" => revisions # {}
      BY <1>1 DEF BeginCreate, BeginAttach, BeginOther, Operation
    <3>2. op'[p] = o
      BY <3>1 DEF Begin, TypeOK
    <3> QED
      BY <3>1, <3>2
  <2>2. pc[p] = "idle" /\ Same(p)
    BY <2>1 DEF Begin, At, Same
  <2>3. CASE ~Held(p)
    <3>1. pc'[p] = "lookUp"
      BY <2>1, <2>3 DEF Begin, TypeOK
    <3> QED
      BY <2>1, <2>2, <2>3, <3>1 DEF Starts
  <2>4. CASE Held(p)
    <3>1. pc'[p] = FirstStep(o)
      BY <2>1, <2>4 DEF Begin, TypeOK
    <3> QED
      BY <2>1, <2>2, <2>4, <3>1 DEF Starts, FirstStep
  <2> QED
    BY <2>3, <2>4
<1>2. CASE Detach(p)
  BY <1>2 DEF Detach, At, TypeOK, Starts, Same
<1>3. ASSUME NEW s \in Step \ {"idle"}, Goto(p, s), UNCHANGED mutateVars
      PROVE  GoesOn(p, {pc[p]}, {s})
  BY <1>3, GotoIs DEF GoesOn, Same, mutateVars
<1>4. ASSUME Goto(p, "idle"), UNCHANGED mutateVars, pc[p] \in Outside
      PROVE  Ends(p)
  <2>1. "idle" \in Step
    BY DEF Step
  <2>2. pc'[p] = "idle" /\ op'[p] = "none"
    BY <1>4, <2>1, GotoIs
  <2> QED
    BY <1>4, <2>2 DEF Ends, Same, mutateVars
<1>5. CASE LookUp(p)
  <2>1. UNCHANGED mutateVars /\ pc[p] = "lookUp"
    BY <1>5 DEF LookUp, At
  <2>2. \/ Goto(p, "idle")
        \/ Goto(p, "openLease") /\ op[p] \in {"create", "newDraft"} /\ directory' = "present"
        \/ Goto(p, "inspect") /\ op[p] \notin {"create", "newDraft"} /\ Present
    BY <1>5 DEF LookUp, GotoOr
  <2> QED
    BY <1>3, <1>4, <2>1, <2>2 DEF Looks, Outside, Step
<1>6. CASE Inspect(p)
  <2>1. UNCHANGED mutateVars /\ pc[p] = "inspect" /\ (Goto(p, "idle") \/ (Goto(p, "openLease") /\ Loads))
    BY <1>6 DEF Inspect, At, GotoOr
  <2> QED
    BY <1>3, <1>4, <2>1 DEF Looks, Outside, Step
<1>7. CASE OpenLease(p) \/ JudgeLease(p) \/ UnlinkStale(p) \/ ReopenLease(p)
  <2>1. /\ UNCHANGED mutateVars /\ pc[p] \in {"openLease", "judgeLease", "unlinkStale", "reopenLease"}
        /\ Goto(p, "idle") \/ (\E s \in {"writeLease", "judgeLease", "unlinkStale", "reopenLease"} : Goto(p, s))
    BY <1>7 DEF OpenLease, JudgeLease, UnlinkStale, ReopenLease, At, GotoOr
  <2>2. CASE Goto(p, "idle")
    BY <1>4, <2>1, <2>2 DEF Outside
  <2>3. ASSUME NEW s \in {"writeLease", "judgeLease", "unlinkStale", "reopenLease"}, Goto(p, s)  PROVE Takes(p)
    <3>1. GoesOn(p, {pc[p]}, {s})
      BY <1>3, <2>1, <2>3 DEF Step
    <3> QED
      BY <2>1, <2>3, <3>1 DEF Takes, GoesOn, Outside
  <2> QED
    BY <2>1, <2>2, <2>3
<1>8. CASE WriteLease(p)
  <2>1. FirstStep(op[p]) \in {"idle", "assert", "remove", "load"} /\ pc[p] = "writeLease" /\ UNCHANGED mutateVars
        /\ Goto(p, FirstStep(op[p]))
    BY <1>8 DEF FirstStep, WriteLease, At
  <2>2. pc'[p] = FirstStep(op[p]) /\ op'[p] = IF FirstStep(op[p]) = "idle" THEN "none" ELSE op[p]
    BY <2>1, GotoIs DEF Step
  <2> QED
    BY <2>1, <2>2 DEF Takes, Same, mutateVars
<1>9. CASE Load(p)
  <2>1. /\ pc[p] = "load" /\ Loads
        /\ Goto(p, IF op[p] = "clear" THEN "intend" ELSE "assert")
        /\ expected'[p] = Latest /\ draft'[p] = Transcript(p)
    BY <1>9 DEF Load, At, TypeOK
  <2>2. pc'[p] = (IF op[p] = "clear" THEN "intend" ELSE "assert") /\ op'[p] = op[p]
    BY <2>1, GotoIs DEF Step
  <2>3. Held(p)
    <3>1. refs[p] >= 1 /\ refs[p] \in 0 .. 2
      BY <2>1 DEF Uses, Outside, TypeOK
    <3> QED
      BY <3>1 DEF Held
  <2> QED
    BY <2>1, <2>2, <2>3 DEF Drafting
<1>10. CASE LoadOnly(p) \/ WriteIntent(p) \/ AssertLease(p) \/ RemoveSession(p)
  <2>1. UNCHANGED mutateVars
    BY <1>10 DEF LoadOnly, WriteIntent, AssertLease, RemoveSession
  <2>2. \/ pc[p] \in {"load", "intend", "assert", "remove"} /\ Goto(p, "release")
        \/ pc[p] = "intend" /\ Goto(p, "assert")
        \/ pc[p] = "assert" /\ Goto(p, "check")
    BY <1>10 DEF LoadOnly, WriteIntent, AssertLease, RemoveSession, At, GotoOr
  <2> QED
    BY <1>3, <2>1, <2>2 DEF Drafting, GoesOn, Step
<1>11. CASE CheckRevision(p)
  <2>1. UNCHANGED mutateVars /\ pc[p] = "check"
    BY <1>11 DEF CheckRevision, At
  <2>2. \/ Goto(p, "release")
        \/ Goto(p, "rename") /\ expected[p] = (IF Loads THEN Latest ELSE 0)
    BY <1>11 DEF CheckRevision, GotoOr
  <2> QED
    BY <1>3, <2>1, <2>2 DEF Drafting, GoesOn, Step
<1>12. CASE RenameRevision(p)
  <2>1. UNCHANGED mutateVars /\ pc[p] = "rename" /\ (Goto(p, "release") \/ (Goto(p, "cleanUp") /\ Present))
    BY <1>12 DEF RenameRevision, At
  <2> QED
    BY <1>3, <1>12, <2>1 DEF Drafting, Finishes, GoesOn, Step
<1>13. CASE (\E r \in Revision : CleanUp(p, r)) \/ CleanedUp(p) \/ DropIntent(p)
  <2>1. UNCHANGED mutateVars
    BY <1>13 DEF CleanUp, CleanedUp, DropIntent
  <2>2. \/ pc[p] = "cleanUp" /\ UNCHANGED <<pc, op>>
        \/ pc[p] = "cleanUp" /\ Goto(p, IF op[p] = "clear" THEN "dropIntent" ELSE "release")
        \/ pc[p] = "dropIntent" /\ Goto(p, "release")
    BY <1>13 DEF CleanUp, CleanedUp, DropIntent, At
  <2>3. CASE pc[p] = "cleanUp" /\ UNCHANGED <<pc, op>>
    BY <2>1, <2>3 DEF Finishes, GoesOn, Same, mutateVars
  <2> QED
    BY <1>3, <2>1, <2>2, <2>3 DEF Finishes, GoesOn, Step
<1>14. CASE Release(p)
  <2>1. /\ pc[p] = "release" /\ expected'[p] = 0 /\ draft'[p] = {}
        /\ Goto(p, "idle") \/ Goto(p, "unlinkLease")
    BY <1>14 DEF Release, At, GotoOr, TypeOK
  <2>2. (pc'[p] = "idle" /\ op'[p] = "none") \/ (pc'[p] = "unlinkLease" /\ op'[p] = op[p])
    BY <2>1, GotoIs DEF Step
  <2> QED
    BY <2>1, <2>2 DEF Ends
<1>15. CASE UnlinkLease(p)
  <2>1. UNCHANGED mutateVars /\ pc[p] = "unlinkLease" /\ Goto(p, "idle")
    BY <1>15 DEF UnlinkLease, At
  <2> QED
    BY <1>4, <2>1 DEF Outside
<1>16. CASE Beat(p) \/ EndBeat(p)
  BY <1>16 DEF Beat, EndBeat, Uses, Same, mutateVars
<1>17. CASE Crash(p)
  BY <1>17 DEF Crash, TypeOK, Ends
<1> QED
  BY <1>1, <1>2, <1>5, <1>6, <1>7, <1>8, <1>9, <1>10, <1>11, <1>12, <1>13, <1>14, <1>15, <1>16, <1>17
  DEF Act, Begins, Acquires, Writes, Releases

-----------------------------------------------------------------------------
LogInv == Routes /\ Drafts /\ Marked /\ Drafted /\ Undrafted /\ Cleaning /\ Deleting

(* The newest revision of any directory.                                   *)
LEMMA NewestIs ==
  ASSUME NEW S \in SUBSET Revision, NEW m \in S, \A s \in S : s <= m
  PROVE  (CHOOSE r \in S : \A s \in S : s <= r) = m
<1> DEFINE c == CHOOSE r \in S : \A s \in S : s <= r
<1>1. c \in S /\ \A s \in S : s <= c
  OBVIOUS
<1> SUFFICES c = m
  OBVIOUS
<1> HIDE DEF c
<1>2. c \in Revision /\ m \in Revision
  BY <1>1
<1>3. c <= m /\ m <= c
  BY <1>1
<1> QED
  BY <1>2, <1>3 DEF Revision

(* The three ways in which a step changes the revisions.                   *)
Commits(p) ==
  /\ Held(p) /\ Present /\ UNCHANGED directory /\ op[p] # "delete"
  /\ expected[p] + 1 \in Revision /\ expected[p] + 1 \notin revisions
  /\ revisions' = revisions \cup {expected[p] + 1}
  /\ Latest' = expected[p] + 1
  /\ content'[expected[p] + 1] = draft[p]
  /\ \A r \in revisions : content'[r] = content[r] /\ r < expected[p] + 1
  /\ pc[p] = "rename" /\ pc'[p] = "cleanUp" /\ op'[p] = op[p]
  /\ expected[p] + 1 \notin stale'[p]
  /\ \/ revisions = {} /\ p = Author /\ expected[p] = 0 /\ draft[p] = {}
     \/ /\ revisions # {} /\ op[p] \in {"add", "touch", "clear"}
        /\ expected[p] = Latest /\ draft[p] = Transcript(p)

CleansUp(p) ==
  /\ Held(p) /\ UNCHANGED directory
  /\ revisions # {} /\ revisions' # {} /\ revisions' \subseteq revisions /\ Latest' = Latest
  /\ Latest \in revisions'
  /\ \A r \in revisions' : content'[r] = content[r]
  /\ stale'[p] \subseteq stale[p] /\ pc[p] = "cleanUp" /\ pc'[p] = "cleanUp"

Deletes(p) ==
  /\ Held(p) /\ revisions # {} /\ revisions' = {} /\ directory' = "deleted"
  /\ pc'[p] = "release"

(* What a step does to the revisions: it leaves the latest one alone, or   *)
(* it commits, cleans up or deletes.                                       *)
LEMMA RevisionEffect ==
  ASSUME StoreInv, LeaseInv, LogInv, NEW p \in Proc, Act(p)
  PROVE  /\ \/ UNCHANGED <<revisions, content>> /\ Latest' = Latest
            \/ Commits(p) \/ CleansUp(p) \/ Deletes(p)
         /\ RenameRevision(p) /\ Present => Commits(p)
         /\ RemoveSession(p) /\ OwnLease(p) => Deletes(p)
<1> USE StoreAssumption
<1>1. TypeOK /\ Uses /\ Routes /\ Drafts /\ Drafted /\ Cleaning /\ Deleting
  BY DEF StoreInv, LogInv
<1>2. ASSUME UNCHANGED <<revisions, content>>
      PROVE  UNCHANGED <<revisions, content>> /\ Latest' = Latest
  <2>1. revisions' = revisions
    BY <1>2
  <2>2. Latest' = Latest
    BY <2>1, Zenon DEF Latest
  <2> QED
    BY <1>2, <2>2
<1>3. ASSUME Held(p), RenameRevision(p), Present  PROVE Commits(p)
  <2> DEFINE e == expected[p]
  <2>1. /\ pc[p] = "rename" /\ e < MaxRevision /\ UNCHANGED directory
        /\ revisions' = revisions \cup {e + 1}
        /\ content' = [content EXCEPT ![e + 1] = draft[p]]
        /\ stale' = [stale EXCEPT ![p] = revisions' \ Keep(p)]
        /\ Goto(p, "cleanUp")
    BY <1>3 DEF RenameRevision, At
  <2>2. e \in 0 .. MaxRevision /\ e + 1 \in Revision
    BY <1>1, <2>1 DEF TypeOK, Revision
  <2>3. pc'[p] = "cleanUp" /\ op'[p] = op[p]
    BY <1>1, <2>1, GotoIs DEF Step
  <2>4. \/ revisions = {} /\ p = Author /\ e = 0 /\ draft[p] = {}
        \/ /\ revisions # {} /\ op[p] \in {"add", "touch", "clear"}
           /\ e = Latest /\ draft[p] = Transcript(p)
    BY <1>1, <2>1 DEF Drafts, Drafted
  <2>5. \A r \in revisions : r < e + 1 /\ r \in Nat
    <3>1. CASE revisions = {}
      BY <3>1
    <3>2. CASE revisions # {}
      <4>1. e = Latest /\ \A r \in revisions : r <= Latest /\ r \in Nat
        BY <1>1, <2>4, <3>2, LatestType DEF TypeOK, Revision
      <4> QED
        BY <2>2, <4>1
    <3> QED
      BY <3>1, <3>2
  <2>6. e + 1 \notin revisions
    BY <2>2, <2>5
  <2>7. Latest' = e + 1
    <3>1. revisions' \in SUBSET Revision /\ e + 1 \in revisions'
      BY <1>1, <2>1, <2>2 DEF TypeOK
    <3>2. \A r \in revisions' : r <= e + 1
      BY <2>1, <2>2, <2>5
    <3> QED
      BY <3>1, <3>2, NewestIs DEF Latest
  <2>8. content'[e + 1] = draft[p] /\ \A r \in revisions : content'[r] = content[r]
    BY <1>1, <2>1, <2>2, <2>6 DEF TypeOK
  <2>9. e + 1 \notin stale'[p]
    BY <1>1, <2>1 DEF Keep, TypeOK
  <2>10. op[p] # "delete"
    BY <1>1, <2>1 DEF Routes, Route, Outside
  <2> QED
    BY <1>3, <2>1, <2>2, <2>3, <2>4, <2>5, <2>6, <2>7, <2>8, <2>9, <2>10 DEF Commits
<1>4. ASSUME NEW r \in stale[p], CleanUp(p, r), Held(p)  PROVE CleansUp(p)
  <2>1. /\ pc[p] = "cleanUp" /\ UNCHANGED <<directory, pc>>
        /\ stale' = [stale EXCEPT ![p] = @ \ {r}]
        /\ revisions' = revisions \ {r}
        /\ content' = [content EXCEPT ![r] = {}]
    BY <1>4 DEF CleanUp, At
  <2>2. revisions # {} /\ Latest \notin stale[p]
    BY <1>1, <2>1 DEF Cleaning
  <2>3. Latest \in revisions /\ (\A s \in revisions : s <= Latest)
    BY <1>1, <2>2, LatestType
  <2>4. Latest \in revisions'
    BY <1>4, <2>1, <2>2, <2>3
  <2>5. Latest' = Latest
    <3>1. revisions' \in SUBSET Revision /\ \A s \in revisions' : s <= Latest
      BY <1>1, <2>1, <2>3 DEF TypeOK
    <3> QED
      BY <2>4, <3>1, NewestIs DEF Latest
  <2>6. \A s \in revisions' : content'[s] = content[s]
    BY <1>1, <2>1 DEF TypeOK
  <2>7. stale'[p] \subseteq stale[p]
    BY <1>1, <2>1 DEF TypeOK
  <2> QED
    BY <1>4, <2>1, <2>2, <2>4, <2>5, <2>6, <2>7 DEF CleansUp
<1>5. ASSUME Held(p), RemoveSession(p), OwnLease(p)  PROVE Deletes(p)
  <2>1. pc[p] = "remove" /\ revisions' = {} /\ directory' = "deleted" /\ Goto(p, "release") /\ Present
    BY <1>5 DEF RemoveSession, At, OwnLease
  <2>2. op[p] = "delete"
    <3>1. \A o \in Operation \ {"delete"} : "remove" \notin Route(o)
      BY DEF Operation, Route, Outside
    <3> QED
      BY <1>1, <2>1, <3>1 DEF Routes, TypeOK
  <2>3. revisions # {}
    BY <1>1, <2>1, <2>2 DEF Deleting
  <2>4. pc'[p] = "release"
    BY <1>1, <2>1, GotoIs DEF Step
  <2> QED
    BY <1>5, <2>1, <2>3, <2>4 DEF Deletes
<1>6. RenameRevision(p) \/ RemoveSession(p) => Held(p)
  <2>1. RenameRevision(p) \/ RemoveSession(p) => refs[p] >= 1 /\ refs[p] \in 0 .. 2
    BY <1>1 DEF RenameRevision, RemoveSession, At, Uses, Outside, TypeOK
  <2> QED
    BY <2>1 DEF Held
<1> QED
  BY <1>1, <1>2, <1>3, <1>4, <1>5, <1>6, RevisionSteps

(* No step of a process breaks what the log is proved from.                *)
LEMMA LogInvStep ==
  ASSUME StoreInv, LeaseInv, LogInv, NEW p \in Proc, Act(p)
  PROVE  LogInv'
<1> USE StoreAssumption
<1>1. TypeOK /\ Uses /\ Routes /\ Drafts /\ Marked /\ Drafted /\ Undrafted /\ Cleaning /\ Deleting /\ SingleWriter /\ TypeOK' /\ Uses'
  BY ActType, ActUses DEF StoreInv, LeaseInv, LogInv
<1>2. \A q \in Proc \ {p} :
        /\ pc'[q] = pc[q] /\ op'[q] = op[q] /\ refs'[q] = refs[q]
        /\ expected'[q] = expected[q] /\ draft'[q] = draft[q] /\ stale'[q] = stale[q]
  BY <1>1, OthersStay
<1>3. \/ Starts(p) \/ Looks(p) \/ Takes(p) \/ Drafting(p) \/ Finishes(p) \/ Ends(p)
      \/ pc'[p] = pc[p] /\ op'[p] = op[p] /\ Same(p) /\ Held(p)
  BY <1>1, LocalStep
<1>4. \/ UNCHANGED <<revisions, content>> /\ Latest' = Latest
      \/ Commits(p) \/ CleansUp(p) \/ Deletes(p)
  BY RevisionEffect
<1>5. /\ pc[p] \in Step /\ op[p] \in Operation
      /\ pc[p] \in Route(op[p])
      /\ pc[p] \in Outside => ~Held(p)
      /\ pc[p] \notin Outside \cup {"idle"} => Held(p)
  <2>1. /\ refs[p] \in 0 .. 2
        /\ pc[p] \in Outside => refs[p] = 0
        /\ pc[p] \notin Outside \cup {"idle"} => refs[p] >= 1
    BY <1>1 DEF TypeOK, Uses
  <2> QED
    BY <1>1, <2>1 DEF TypeOK, Routes, Held
<1>6. ASSUME NEW q \in Proc \ {p}, Held(q)
      PROVE  /\ UNCHANGED <<revisions, content>> /\ Latest' = Latest
  <2>1. ~Held(p)
    BY <1>1, <1>6 DEF SingleWriter
  <2> QED
    BY <1>4, <2>1 DEF Commits, CleansUp, Deletes
<1>7. \A q \in Proc : pc[q] \notin Outside \cup {"idle"} => Held(q)
  <2> SUFFICES ASSUME NEW q \in Proc, pc[q] \notin Outside \cup {"idle"}  PROVE Held(q)
    OBVIOUS
  <2>1. refs[q] \in 0 .. 2 /\ refs[q] >= 1
    BY <1>1 DEF TypeOK, Uses
  <2> QED
    BY <2>1 DEF Held
<1>8. Routes'
  <2>1. pc'[p] \in Route(op'[p])
    <3>1. CASE Starts(p)
      BY <3>1 DEF Starts, Route, Outside, Operation
    <3>2. CASE Looks(p)
      BY <1>5, <3>2 DEF Looks, GoesOn, Route, Outside, Operation
    <3>3. CASE Takes(p)
      BY <1>5, <3>3 DEF Takes, GoesOn, Route, Outside, Operation, FirstStep
    <3>4. CASE Drafting(p)
      BY <1>5, <3>4 DEF Drafting, GoesOn, Route, Outside, Operation
    <3>5. CASE Finishes(p)
      BY <1>5, <3>5 DEF Finishes, GoesOn, Route, Outside, Operation
    <3>6. CASE Ends(p)
      BY <1>5, <3>6 DEF Ends, Route, Outside, Operation
    <3> QED
      BY <1>3, <1>5, <3>1, <3>2, <3>3, <3>4, <3>5, <3>6
  <2> QED
    BY <1>1, <1>2, <2>1 DEF Routes
<1>9. Marked'
  <2> SUFFICES ASSUME NEW r \in revisions', NEW m \in content'[r]
               PROVE  m[2] <= r
    BY DEF Marked
  <2>1. CASE UNCHANGED <<revisions, content>> \/ CleansUp(p)
    BY <1>1, <2>1 DEF Marked, CleansUp
  <2>2. CASE Deletes(p)
    BY <2>2 DEF Deletes
  <2>3. CASE Commits(p)
    <3>1. CASE r \in revisions
      BY <1>1, <2>3, <3>1 DEF Marked, Commits
    <3>2. CASE r \notin revisions
      <4>1. r = expected[p] + 1 /\ m \in draft[p]
        BY <2>3, <3>2 DEF Commits
      <4>2. revisions # {} /\ expected[p] = Latest /\ draft[p] = Transcript(p)
        BY <2>3, <4>1 DEF Commits
      <4>3. Latest \in Nat /\ \A n \in content[Latest] : n[2] <= Latest /\ n[2] \in Nat
        <5>1. Latest \in revisions /\ Latest \in Revision /\ content[Latest] \subseteq Message
          BY <1>1, <4>2, LatestType
        <5> QED
          BY <1>1, <5>1 DEF Marked, Message, Revision
      <4>4. m = <<p, Latest + 1>> \/ m \in content[Latest]
        BY <4>1, <4>2 DEF Transcript
      <4> QED
        BY <4>1, <4>2, <4>3, <4>4
    <3> QED
      BY <3>1, <3>2
  <2> QED
    BY <1>4, <2>1, <2>2, <2>3
<1>10. Drafted'
  <2> SUFFICES ASSUME NEW q \in Proc, op'[q] # "create", pc'[q] \in {"intend", "assert", "check", "rename"}
               PROVE  /\ op'[q] \in {"add", "touch", "clear"}
                      /\ revisions' # {}
                      /\ expected'[q] = Latest'
                      /\ draft'[q] = CASE op'[q] = "add" -> content'[Latest'] \cup {<<q, Latest' + 1>>}
                                       [] op'[q] = "touch" -> content'[Latest']
                                       [] OTHER -> {}
    BY DEF Drafted, Transcript
  <2>1. ASSUME op'[q] = op[q], expected'[q] = expected[q], draft'[q] = draft[q],
               pc[q] \in {"intend", "assert", "check", "rename"},
               UNCHANGED <<revisions, content>>, Latest' = Latest
        PROVE  /\ op'[q] \in {"add", "touch", "clear"}
               /\ revisions' # {}
               /\ expected'[q] = Latest'
               /\ draft'[q] = CASE op'[q] = "add" -> content'[Latest'] \cup {<<q, Latest' + 1>>}
                                [] op'[q] = "touch" -> content'[Latest']
                                [] OTHER -> {}
    BY <1>1, <2>1 DEF Drafted, Transcript
  <2>2. CASE q # p
    <3>1. pc[q] \in {"intend", "assert", "check", "rename"} /\ Held(q)
      BY <1>2, <1>7, <2>2 DEF Outside
    <3> QED
      BY <1>2, <1>6, <2>1, <2>2, <3>1
  <2>3. CASE q = p
    <3>1. UNCHANGED <<revisions, content>> /\ Latest' = Latest
      BY <1>4, <2>3 DEF Commits, CleansUp, Deletes
    <3>2. CASE Drafting(p) /\ pc[p] = "load"
      <4>1. op[p] \in {"add", "touch", "clear"}
        BY <1>5, <3>2 DEF Route, Outside, Operation
      <4>2. op'[p] = op[p] /\ expected'[p] = Latest /\ draft'[p] = Transcript(p) /\ revisions # {}
        BY <2>3, <3>2 DEF Drafting, GoesOn, Loads
      <4> QED
        BY <2>3, <3>1, <4>1, <4>2 DEF Transcript
    <3>3. CASE ~(Drafting(p) /\ pc[p] = "load")
      <4>1. ~Starts(p) /\ ~Looks(p) /\ ~Takes(p) /\ ~Finishes(p) /\ ~Ends(p)
        BY <2>3 DEF Starts, Looks, Takes, GoesOn, Finishes, Ends, FirstStep, Outside
      <4>2. op'[p] = op[p] /\ Same(p) /\ pc[p] \in {"intend", "assert", "check", "rename"}
        BY <1>3, <2>3, <3>3, <4>1 DEF Drafting, GoesOn
      <4> QED
        BY <2>1, <2>3, <3>1, <4>2 DEF Same
    <3> QED
      BY <3>2, <3>3
  <2> QED
    BY <2>2, <2>3
<1>11. Undrafted'
  <2>1. pc'[p] \in Outside \cup {"idle", "load", "remove"} => expected'[p] = 0 /\ draft'[p] = {}
    <3>1. pc[p] \in Outside \cup {"idle", "load", "remove"} => expected[p] = 0 /\ draft[p] = {}
      BY <1>1 DEF Undrafted
    <3>2. CASE Starts(p) \/ Looks(p) \/ Takes(p)
      BY <3>1, <3>2 DEF Starts, Looks, Takes, GoesOn, Same, Outside
    <3>3. CASE Drafting(p) \/ Finishes(p)
      BY <3>3 DEF Drafting, Finishes, GoesOn, Outside
    <3>4. CASE Ends(p)
      BY <3>1, <3>4 DEF Ends, Same
    <3> QED
      BY <1>3, <3>1, <3>2, <3>3, <3>4 DEF Same
  <2> QED
    BY <1>1, <1>2, <2>1 DEF Undrafted
<1>12. Cleaning'
  <2> SUFFICES ASSUME NEW q \in Proc, pc'[q] = "cleanUp"
               PROVE  revisions' # {} /\ Latest' = expected'[q] + 1 /\ Latest' \notin stale'[q]
    BY DEF Cleaning
  <2>1. CASE q # p
    <3>1. pc[q] = "cleanUp" /\ Held(q)
      BY <1>2, <1>7, <2>1 DEF Outside
    <3> QED
      BY <1>1, <1>2, <1>6, <2>1, <3>1 DEF Cleaning
  <2>2. CASE q = p
    <3>1. ~Starts(p) /\ ~Looks(p) /\ ~Takes(p) /\ ~Drafting(p) /\ ~Ends(p)
      BY <2>2 DEF Starts, Looks, Takes, GoesOn, Drafting, Ends, FirstStep, Outside
    <3>2. Same(p) /\ (pc[p] = "cleanUp" \/ (pc[p] = "rename" /\ RenameRevision(p) /\ Present))
      BY <1>3, <2>2, <3>1 DEF Finishes, GoesOn
    <3>3. CASE Commits(p)
      BY <2>2, <3>2, <3>3 DEF Commits, Same
    <3>4. CASE CleansUp(p)
      BY <1>1, <2>2, <3>2, <3>4 DEF CleansUp, Cleaning, Same
    <3>5. CASE UNCHANGED <<revisions, content>> /\ Latest' = Latest /\ ~Commits(p)
      <4>1. pc[p] = "cleanUp"
        BY <3>2, <3>5, RevisionEffect
      <4>2. stale'[p] \subseteq stale[p]
        <5>1. ~RenameRevision(p)
          BY <4>1 DEF RenameRevision, At
        <5>2. Crash(p) => pc'[p] = "idle"
          BY <1>1 DEF Crash, TypeOK
        <5>3. stale' = stale \/ \E r \in Revision : stale' = [stale EXCEPT ![p] = @ \ {r}]
          BY <2>2, <5>1, <5>2 DEF Act, Begins, BeginCreate, BeginAttach, BeginOther, Begin, Detach, Acquires, LookUp,
             Inspect, OpenLease, JudgeLease, UnlinkStale, ReopenLease, WriteLease, Writes, Load, LoadOnly, WriteIntent,
             AssertLease, CheckRevision, CleanUp, CleanedUp, DropIntent, RemoveSession, Releases, Release,
             UnlinkLease, Beat, EndBeat
        <5> QED
          BY <1>1, <5>3 DEF TypeOK
      <4> QED
        BY <1>1, <2>2, <3>2, <3>5, <4>1, <4>2 DEF Cleaning, Same
    <3> QED
      BY <1>4, <2>2, <3>3, <3>4, <3>5 DEF Deletes
  <2> QED
    BY <2>1, <2>2
<1>13. Drafts'
  <2>1. ASSUME NEW q \in Proc, op'[q] \in {"create", "newDraft"}  PROVE q = Author
    <3>1. q = p => op[p] \in {"create", "newDraft"} \/ p = Author
      BY <1>3, <2>1 DEF Starts, Looks, Takes, Drafting, Finishes, Ends, GoesOn, FirstStep
    <3> QED
      BY <1>1, <1>2, <2>1, <3>1 DEF Drafts
  <2>2. directory' # "deleted" => directory # "deleted"
    BY DirectorySteps
  <2>3. ASSUME revisions' = {}, directory' # "deleted"
        PROVE  revisions = {} /\ UNCHANGED <<revisions, content>>
    BY <1>4, <2>3 DEF Commits, CleansUp, Deletes
  <2>4. ASSUME revisions' = {}, directory' # "deleted", NEW q \in Proc \ {Author}
        PROVE  pc'[q] \in {"idle", "lookUp", "inspect"} /\ refs'[q] = 0
    <3>1. pc[q] \in {"idle", "lookUp", "inspect"} /\ refs[q] = 0 /\ revisions = {}
      BY <1>1, <2>2, <2>3, <2>4 DEF Drafts
    <3>2. CASE q = p
      <4>1. ~Held(p) /\ ~WriteLease(p)
        BY <3>1, <3>2 DEF Held, WriteLease, At
      <4>2. refs'[p] = 0
        <5>1. ~(refs'[p] > 0)
          BY <1>1, <4>1, WhatBegins
        <5>2. refs'[p] \in 0 .. 2
          BY <1>1 DEF TypeOK
        <5> QED
          BY <5>1, <5>2
      <4>3. ~Loads /\ op[p] \notin {"create", "newDraft"}
        BY <1>1, <2>4, <3>1, <3>2 DEF Loads, Drafts
      <4>4. pc'[p] \in {"idle", "lookUp", "inspect"}
        BY <1>3, <3>1, <3>2, <4>1, <4>3 DEF Starts, Looks, Takes, Drafting, Finishes, Ends, GoesOn, FirstStep, Outside
      <4> QED
        BY <3>2, <4>2, <4>4
    <3> QED
      BY <1>2, <3>1, <3>2
  <2>5. ASSUME directory' = "absent"
        PROVE  revisions' = {} /\ \A q \in Proc : pc'[q] \in {"idle", "lookUp"} /\ refs'[q] = 0
    <3>1. directory = "absent" /\ revisions = {} /\ \A q \in Proc : pc[q] \in {"idle", "lookUp"} /\ refs[q] = 0
      BY <1>1, <2>5, DirectorySteps DEF Drafts
    <3>2. revisions' = {}
      BY <1>4, <2>5, <3>1 DEF Commits, CleansUp, Deletes, Present
    <3>3. ~Held(p) /\ ~WriteLease(p) /\ ~Present
      BY <3>1 DEF Held, WriteLease, At, Present
    <3>4. refs'[p] = 0
      <4>1. ~(refs'[p] > 0)
        BY <1>1, <3>3, WhatBegins
      <4>2. refs'[p] \in 0 .. 2
        BY <1>1 DEF TypeOK
      <4> QED
        BY <4>1, <4>2
    <3>5. pc'[p] \in {"idle", "lookUp"}
      BY <1>3, <2>5, <3>1, <3>3 DEF Starts, Looks, Takes, Drafting, Finishes, Ends, GoesOn, Outside
    <3> QED
      BY <1>2, <3>1, <3>2, <3>4, <3>5
  <2>6. ASSUME NEW q \in Proc, op'[q] = "create", pc'[q] \notin {"cleanUp", "release", "unlinkLease"}
        PROVE  revisions' = {} /\ expected'[q] = 0 /\ draft'[q] = {}
    <3>1. q = Author
      BY <2>1, <2>6
    <3>2. CASE q # p
      <4>1. revisions = {} /\ expected[q] = 0 /\ draft[q] = {}
        BY <1>1, <1>2, <2>6, <3>2 DEF Drafts
      <4>2. ~Commits(p)
        <5>1. Present => refs[p] = 0
          BY <1>1, <3>1, <3>2, <4>1 DEF Drafts, Present
        <5> QED
          BY <5>1 DEF Commits, Held
      <4> QED
        BY <1>2, <1>4, <3>2, <4>1, <4>2 DEF CleansUp, Deletes
    <3>3. CASE q = p
      <4>1. revisions = {} /\ expected'[p] = 0 /\ draft'[p] = {}
        <5>1. CASE Starts(p)
          BY <1>1, <2>6, <3>3, <5>1 DEF Starts, Same, Undrafted
        <5>2. CASE ~Starts(p)
          <6>1. op[p] = "create" /\ Same(p) /\ pc[p] \notin {"cleanUp", "release", "unlinkLease"}
            BY <1>3, <1>5, <2>6, <3>3, <5>2 DEF Looks, Takes, Drafting, Finishes, Ends, GoesOn, Route, Outside
          <6> QED
            BY <1>1, <6>1 DEF Drafts, Same
        <5> QED
          BY <5>1, <5>2
      <4>2. ~Commits(p)
        BY <2>6, <3>3 DEF Commits
      <4> QED
        BY <1>4, <3>3, <4>1, <4>2 DEF CleansUp, Deletes
    <3> QED
      BY <3>2, <3>3
  <2> QED
    BY <2>1, <2>4, <2>5, <2>6 DEF Drafts
<1>14. Deleting'
  <2> DEFINE D == (Outside \ {"lookUp", "inspect", "unlinkLease"}) \cup {"remove"}
  <2> SUFFICES ASSUME NEW q \in Proc, directory' = "present", op'[q] = "delete", pc'[q] \in D, revisions' = {}
               PROVE  FALSE
    BY DEF Deleting, Present
  <2>1. revisions = {} /\ directory # "deleted"
    BY <1>4, DirectorySteps DEF Commits, CleansUp, Deletes
  <2>2. ~(directory = "present" /\ op[q] = "delete" /\ pc[q] \in D)
    BY <1>1, <2>1 DEF Deleting, Present
  <2>3. directory \in {"absent", "present"}
    BY <1>1, <2>1 DEF TypeOK
  <2>4. directory = "absent" => pc[q] \in {"idle", "lookUp"} /\ ~Held(q)
    BY <1>1 DEF Drafts, Held
  <2>5. CASE q # p
    BY <1>2, <2>2, <2>3, <2>4, <2>5 DEF Outside
  <2>6. CASE q = p
    <3>1. ~Starts(p) /\ ~Looks(p) /\ ~Drafting(p) /\ ~Finishes(p) /\ ~Ends(p)
      BY <2>1, <2>6 DEF Starts, Looks, Drafting, Finishes, Ends, GoesOn, Outside, Loads
    <3>2. Takes(p) => op[p] = "delete" /\ pc[p] \in D
      BY <2>6 DEF Takes, GoesOn, Outside
    <3> QED
      BY <1>3, <1>7, <2>2, <2>3, <2>4, <2>6, <3>1, <3>2 DEF Outside
  <2> QED
    BY <2>5, <2>6
<1> QED
  BY <1>8, <1>9, <1>10, <1>11, <1>12, <1>13, <1>14 DEF LogInv

(* The content of the files: what mutate has read is still what is there   *)
(* when it commits.                                                        *)
THEOREM LogInvariant == ASSUME FewProcesses PROVE Spec => []LogInv
<1> USE StoreAssumption
<1>1. Init => LogInv
  BY DEF Init, LogInv, Routes, Route, Drafts, Marked, Drafted, Undrafted, Cleaning, Deleting, Outside, Operation
<1>2. LogInv /\ LeaseInv /\ StoreInv /\ [Next]_vars => LogInv'
  <2> SUFFICES ASSUME LogInv, LeaseInv, StoreInv, [Next]_vars  PROVE LogInv'
    OBVIOUS
  <2>1. CASE UNCHANGED vars
    <3>1. /\ UNCHANGED <<directory, revisions, content, lease, pc, op, refs, expected, draft, stale>>
      BY <2>1 DEF vars, fileVars, mutateVars
    <3>2. Latest' = Latest
      BY <3>1, Zenon DEF Latest
    <3>3. \A q \in Proc : Transcript(q)' = Transcript(q)
      BY <3>1, <3>2 DEF Transcript
    <3> QED
      BY <3>1, <3>2, <3>3 DEF LogInv, Routes, Drafts, Marked, Drafted, Undrafted, Cleaning, Deleting, Present
  <2>2. ASSUME NEW p \in Proc, Act(p)  PROVE LogInv'
    BY <2>2, LogInvStep
  <2> QED
    BY <2>1, <2>2, ActIs
<1> QED
  BY <1>1, <1>2, StoreInvariant, LeaseInvariant, PTL DEF Spec

-----------------------------------------------------------------------------
(* What a step of a process is to the log: nothing, a commit or the        *)
(* deletion.                                                               *)
LEMMA LogSteps ==
  ASSUME StoreInv, LeaseInv, LogInv, NEW p \in Proc, Act(p)
  PROVE  Log!Next \/ UNCHANGED Log!logVars
<1> USE StoreAssumption
<1>1. TypeOK /\ Marked /\ Drafts
  BY DEF StoreInv, LogInv
<1>2. ~Deletes(p) => (directory = "deleted")' = (directory = "deleted")
  BY DirectorySteps, RevisionEffect
<1>3. CASE UNCHANGED <<revisions, content>> /\ Latest' = Latest
  <2>1. ~Deletes(p)
    BY <1>3 DEF Deletes
  <2> QED
    BY <1>2, <1>3, <2>1 DEF Log!logVars
<1>4. CASE Commits(p)
  <2>1. /\ Present /\ directory' = directory /\ expected[p] + 1 \in Revision
        /\ revisions' # {} /\ Latest' = expected[p] + 1 /\ content'[Latest'] = draft[p]
    BY <1>4 DEF Commits
  <2>2. expected[p] \in 0 .. MaxRevision /\ expected[p] < MaxRevision
    BY <1>1, <2>1 DEF TypeOK, Revision
  <2>3. ~(directory = "deleted") /\ (directory' = "deleted") = (directory = "deleted")
    BY <2>1 DEF Present
  <2>4. CASE revisions = {} /\ expected[p] = 0 /\ draft[p] = {}
    <3>1. Log!Create
      BY <2>1, <2>2, <2>3, <2>4 DEF Log!Create, Log!Commit
    <3> QED
      BY <3>1 DEF Log!Next
  <2>5. CASE revisions # {} /\ expected[p] = Latest /\ draft[p] = Transcript(p) /\ op[p] \in {"add", "touch", "clear"}
    <3>1. Latest \in revisions /\ Latest \in Revision
      BY <1>1, <2>5, LatestType
    <3>2. ASSUME NEW t, draft[p] = t  PROVE Log!Commit(t)
      BY <2>1, <2>2, <2>3, <2>5, <3>2 DEF Log!Commit
    <3>3. Latest > 0
      BY <3>1 DEF Revision
    <3>4. CASE op[p] = "add"
      <4>1. draft[p] = content[Latest] \cup {<<p, Latest + 1>>}
        BY <2>5, <3>4 DEF Transcript
      <4>2. <<p, Latest + 1>> \in Message
        BY <2>1, <2>5 DEF Message
      <4>3. <<p, Latest + 1>> \notin content[Latest]
        <5>1. <<p, Latest + 1>> \in content[Latest] => Latest + 1 <= Latest
          BY <1>1, <3>1 DEF Marked
        <5> QED
          BY <3>1, <5>1 DEF Revision
      <4>4. Log!Add(<<p, Latest + 1>>)
        BY <2>5, <3>2, <3>3, <4>1, <4>3 DEF Log!Add
      <4> QED
        BY <4>2, <4>4 DEF Log!Next
    <3>5. CASE op[p] = "touch"
      <4>1. draft[p] = content[Latest]
        BY <2>5, <3>5 DEF Transcript
      <4>2. Log!Touch
        BY <2>5, <3>2, <3>3, <4>1 DEF Log!Touch
      <4> QED
        BY <4>2 DEF Log!Next
    <3>6. CASE op[p] = "clear"
      <4>1. draft[p] = {}
        BY <2>5, <3>6 DEF Transcript
      <4>2. Log!Clear
        BY <2>5, <3>2, <3>3, <4>1 DEF Log!Clear
      <4> QED
        BY <4>2 DEF Log!Next
    <3> QED
      BY <2>5, <3>4, <3>5, <3>6
  <2> QED
    BY <1>4, <2>4, <2>5 DEF Commits
<1>5. CASE CleansUp(p)
  <2>1. /\ revisions # {} /\ revisions' # {} /\ Latest' = Latest /\ content'[Latest] = content[Latest]
        /\ directory' = directory
    BY <1>5 DEF CleansUp
  <2> QED
    BY <2>1 DEF Log!logVars
<1>6. CASE Deletes(p)
  <2>1. revisions # {} /\ revisions' = {} /\ directory' = "deleted"
    BY <1>6 DEF Deletes
  <2>2. Latest > 0
    BY <1>1, <2>1, LatestType DEF Revision
  <2>3. Log!Delete
    BY <2>1, <2>2 DEF Log!Delete
  <2> QED
    BY <2>3 DEF Log!Next
<1> QED
  BY <1>3, <1>4, <1>5, <1>6, RevisionEffect

(* Whatever the processes do, and wherever one of them crashes, the newest *)
(* revision on disk is a log: revisions grow by one, what a writer adds is *)
(* added to what was there, and a deleted session stays deleted.           *)
THEOREM SessionIsALog == ASSUME FewProcesses PROVE Spec => LogSpec
<1>1. Init => Log!Init
  BY DEF Init, Log!Init
<1>2. StoreInv /\ LeaseInv /\ LogInv /\ [Next]_vars => [Log!Next]_(Log!logVars)
  <2> SUFFICES ASSUME StoreInv, LeaseInv, LogInv, [Next]_vars  PROVE Log!Next \/ UNCHANGED Log!logVars
    OBVIOUS
  <2>1. CASE UNCHANGED vars
    <3>1. UNCHANGED <<directory, revisions, content>>
      BY <2>1 DEF vars, fileVars
    <3>2. Latest' = Latest
      BY <3>1, Zenon DEF Latest
    <3> QED
      BY <3>1, <3>2 DEF Log!logVars
  <2>2. ASSUME NEW p \in Proc, Act(p)  PROVE Log!Next \/ UNCHANGED Log!logVars
    BY <2>2, LogSteps
  <2> QED
    BY <2>1, <2>2, ActIs
<1> QED
  BY <1>1, <1>2, StoreInvariant, LeaseInvariant, LogInvariant, PTL DEF Spec, LogSpec, Log!Spec
===============================================================================
