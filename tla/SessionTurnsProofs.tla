-------------------------- MODULE SessionTurnsProofs --------------------------
(***************************************************************************)
(* Proofs about SessionTurns, for every number of sessions, turns, steps,  *)
(* tool uses, failures and crashes: what a lease, the controller's record, *)
(* the turns and the phases of a session are after any operation, failed,  *)
(* late or cut short by the end of the process.                            *)
(*                                                                         *)
(* The argument: IInv below is inductive.  Its types, its control, the     *)
(* lease and what the controller shows are kept action by action.  The     *)
(* turns and phases of the store are kept by kind of step: NextKind says   *)
(* that a step leaves them alone, interrupts or deletes a session, writes  *)
(* a turn or ends one, and what each of these does is proved once.         *)
(***************************************************************************)
EXTENDS SessionTurns, SequenceProofs

-----------------------------------------------------------------------------
(* What the operators of SessionTurns make of values of their types.       *)

(* A set of numbers up to a limit is finite.                               *)
LEMMA ImageIsFinite ==
  ASSUME NEW S, IsFiniteSet(S), NEW f
  PROVE  IsFiniteSet({f[x] : x \in S})
<1> DEFINE T == {f[x] : x \in S}
           g == [x \in S |-> f[x]]
<1>1. g \in Surjection(S, T)
  BY DEF Surjection
<1> QED
  BY <1>1, FS_Surjection

(* What is appended once is a transcript.                                  *)
LEMMA AppendUniqueType ==
  ASSUME NEW m \in Seq(Message), NEW n \in Seq(Message)
  PROVE  AppendUnique(m, n) \in Seq(Message)
<1>1. \A S : Kept(n, S) \in Seq(Message)
  BY KeptIs
<1> QED
  BY <1>1 DEF AppendUnique

(* The tool message that repairs a message has its type.                   *)
LEMMA MissingType ==
  ASSUME NEW m \in Seq(Message), NEW i \in DOMAIN m
  PROVE  /\ m[i] \in Message
         /\ [m[i] EXCEPT !.kind = "repair", !.uses = Missing(m, i)] \in Message
<1>1. m[i] \in Message
  OBVIOUS
<1>2. Missing(m, i) \subseteq m[i].uses
  BY DEF Missing
<1>3. m[i].uses \in SUBSET (Calls \cup {HandoffUse})
  BY <1>1 DEF Message
<1>4. \A c \in Message, U \in SUBSET (Calls \cup {HandoffUse}) :
        [c EXCEPT !.kind = "repair", !.uses = U] \in Message
  BY DEF Message
<1> QED
  BY <1>1, <1>2, <1>3, <1>4

(* What Repair puts at one place of the transcript.                        *)
Inserted(m, ids, p) ==
  {[m[i] EXCEPT !.kind = "repair", !.uses = Missing(m, i)] : i \in RepairAt(m, ids, p)}

(* What is repaired is a transcript, and so is what is put at each place.  *)
LEMMA RepairType ==
  ASSUME NEW m \in Seq(Message), NEW ids
  PROVE  /\ \A p \in DOMAIN m : <<m[p]>> \o SetToSeq(Inserted(m, ids, p)) \in Seq(Message)
         /\ Repair(m, ids) \in Seq(Message)
<1> DEFINE ss == [p \in 1 .. Len(m) |-> <<m[p]>> \o SetToSeq(Inserted(m, ids, p))]
<1>1. Len(m) \in Nat /\ DOMAIN m = 1 .. Len(m) /\ \A p \in 1 .. Len(m) : m[p] \in Message
  OBVIOUS
<1>2. ASSUME NEW p \in 1 .. Len(m)
      PROVE  ss[p] \in Seq(Message)
  <2> DEFINE S == Inserted(m, ids, p)
             f == [i \in 1 .. p |-> [m[i] EXCEPT !.kind = "repair", !.uses = Missing(m, i)]]
             A == RepairAt(m, ids, p)
  <2>1. A \subseteq 1 .. p /\ 1 .. p \subseteq DOMAIN m /\ p \in Nat
    BY <1>1 DEF RepairAt
  <2>2. IsFiniteSet(A)
    <3>1. IsFiniteSet(1 .. p)
      BY <2>1, FS_Interval
    <3> QED
      BY <2>1, <3>1, FS_Subset
  <2>3. S = {f[i] : i \in A}
    BY <2>1 DEF Inserted
  <2>4. S \subseteq Message
    BY <2>1, MissingType DEF Inserted
  <2> HIDE DEF f, A, S
  <2>5. IsFiniteSet(S)
    BY <2>2, <2>3, ImageIsFinite
  <2>6. SetToSeq(S) \in Seq(S)
    BY <2>5, SetToSeqIs
  <2>7. SetToSeq(S) \in Seq(Message)
    BY <2>4, <2>6
  <2>8. <<m[p]>> \in Seq(Message)
    BY <1>1
  <2>9. \A u, v \in Seq(Message) : u \o v \in Seq(Message)
    OBVIOUS
  <2> QED
    BY <2>7, <2>8, <2>9 DEF S
<1>3. ss \in Seq(Seq(Message)) /\ Len(ss) = Len(m)
  <2>1. ss \in [1 .. Len(m) -> Seq(Message)]
    <3> HIDE DEF ss
    <3>1. ss = [p \in 1 .. Len(m) |-> ss[p]]
      BY DEF ss
    <3> QED
      BY <1>2, <3>1
  <2> HIDE DEF ss
  <2> QED
    BY <1>1, <2>1
<1>4. Repair(m, ids) = FlattenSeq(ss)
  BY DEF Repair, Inserted
<1> HIDE DEF ss
<1>5. PICK f : f \in [0 .. Len(ss) -> Seq(Message)] /\ FlattenSeq(ss) = f[Len(ss)]
  BY <1>3, FlattenBy
<1>6. Len(ss) \in 0 .. Len(ss)
  BY <1>1, <1>3
<1>7. Repair(m, ids) \in Seq(Message)
  BY <1>4, <1>5, <1>6
<1> QED
  BY <1>1, <1>2, <1>7 DEF ss

(* A record is what its four fields are.                                   *)
LEMMA RecordIs ==
  ASSUME NEW r \in Record
  PROVE  /\ r.messages \in Seq(Message) /\ r.turns \in Seq(PersistedTurn)
         /\ r.phases \in Seq(Phase) /\ r.agent \in Agent
BY DEF Record

(* A record with other messages, turns, phases and another agent.          *)
With(r, m, t, p, a) == [r EXCEPT !.messages = m, !.turns = t, !.agent = a, !.phases = p]

(* What such a record is.                                                  *)
LEMMA RecordWith ==
  ASSUME NEW r \in Record, NEW m \in Seq(Message), NEW t \in Seq(PersistedTurn), NEW p \in Seq(Phase), NEW a \in Agent
  PROVE  /\ With(r, m, t, p, a) \in Record
         /\ With(r, m, t, p, a).messages = m /\ With(r, m, t, p, a).turns = t
         /\ With(r, m, t, p, a).phases = p /\ With(r, m, t, p, a).agent = a
BY DEF With, Record

(* Interrupted keeps the turns where they are and ends those that run.     *)
LEMMA InterruptedIs ==
  ASSUME NEW t \in Seq(PersistedTurn)
  PROVE  /\ Interrupted(t) \in Seq(PersistedTurn)
         /\ DOMAIN Interrupted(t) = DOMAIN t
         /\ \A i \in DOMAIN t :
              /\ Interrupted(t)[i].id = t[i].id
              /\ Interrupted(t)[i].status = IF t[i].status = "running" THEN "interrupted" ELSE t[i].status
<1>1. Len(t) \in Nat /\ DOMAIN t = 1 .. Len(t) /\ \A i \in DOMAIN t : t[i] \in PersistedTurn
  OBVIOUS
<1>2. \A u \in PersistedTurn :
        /\ [u EXCEPT !.status = "interrupted"] \in PersistedTurn
        /\ [u EXCEPT !.status = "interrupted"].id = u.id
        /\ [u EXCEPT !.status = "interrupted"].status = "interrupted"
  BY DEF PersistedTurn, Status
<1>3. \A i \in DOMAIN t : Interrupted(t)[i] \in PersistedTurn
  BY <1>1, <1>2 DEF Interrupted
<1>4. Interrupted(t) \in Seq(PersistedTurn)
  <2>1. Interrupted(t) \in [1 .. Len(t) -> PersistedTurn]
    BY <1>1, <1>3 DEF Interrupted
  <2> QED
    BY <1>1, <2>1
<1>5. DOMAIN Interrupted(t) = DOMAIN t
  BY DEF Interrupted
<1> QED
  BY <1>1, <1>2, <1>4, <1>5 DEF Interrupted

(* The record of a command that clears the session.                        *)
LEMMA ClearedIs ==
  ASSUME NEW r \in Record
  PROVE  /\ Cleared(r) \in Record
         /\ Cleared(r).messages = << >> /\ Cleared(r).phases = << >>
         /\ Cleared(r).turns = Interrupted(r.turns)
<1>1. Interrupted(r.turns) \in Seq(PersistedTurn)
  BY RecordIs, InterruptedIs
<1>2. << >> \in Seq(Message) /\ << >> \in Seq(Phase)
  OBVIOUS
<1> QED
  BY <1>1, <1>2 DEF Cleared, Record

(* The record of a resumption.                                             *)
LEMMA RepairedIs ==
  ASSUME NEW r \in Record
  PROVE  /\ Repaired(r) \in Record
         /\ Repaired(r).messages = Repair(r.messages, RunningTurns(r))
         /\ Repaired(r).phases = r.phases
         /\ Repaired(r).turns = Interrupted(r.turns)
<1>1. \A m \in Seq(Message), t \in Seq(PersistedTurn) :
        LET c == [r EXCEPT !.messages = m, !.turns = t] IN
        c \in Record /\ c.messages = m /\ c.phases = r.phases /\ c.turns = t
  BY DEF Record
<1>2. Repair(r.messages, RunningTurns(r)) \in Seq(Message)
  BY RecordIs, RepairType
<1>3. Interrupted(r.turns) \in Seq(PersistedTurn)
  BY RecordIs, InterruptedIs
<1> QED
  BY <1>1, <1>2, <1>3 DEF Repaired

(* The entry of a turn that starts, and the phases with it.                *)
NewEntry(r, id) == [id |-> id, status |-> "running", from |-> r.agent, to |-> r.agent]
NewPhases(r, id) ==
  IF HasActivePhase(r) THEN r.phases ELSE Append(r.phases, [status |-> "active", first |-> id, last |-> 0])

(* The record of a turn that starts.                                       *)
LEMMA StartedIs ==
  ASSUME NEW r \in Record, NEW id \in TurnId
  PROVE  /\ Started(r, id) \in Record
         /\ Started(r, id).messages = AppendUnique(r.messages, <<UserMessage(id)>>)
         /\ Started(r, id).turns = Append(r.turns, NewEntry(r, id))
         /\ Started(r, id).phases = NewPhases(r, id)
         /\ Started(r, id).agent = r.agent
<1>2. UserMessage(id) \in Message
  BY SessionAssumption DEF UserMessage, Message
<1>3. AppendUnique(r.messages, <<UserMessage(id)>>) \in Seq(Message)
  <2>1. <<UserMessage(id)>> \in Seq(Message) /\ r.messages \in Seq(Message)
    BY <1>2, RecordIs
  <2> QED
    BY <2>1, AppendUniqueType
<1>4. NewEntry(r, id) \in PersistedTurn
  BY RecordIs DEF NewEntry, PersistedTurn, Status
<1>5. Append(r.turns, NewEntry(r, id)) \in Seq(PersistedTurn)
  BY <1>4, RecordIs
<1>6. NewPhases(r, id) \in Seq(Phase)
  <2>1. [status |-> "active", first |-> id, last |-> 0] \in Phase
    BY DEF Phase
  <2> QED
    BY <2>1, RecordIs DEF NewPhases
<1> QED
  BY <1>3, <1>5, <1>6 DEF Started, NewEntry, NewPhases, Record

(* The turns and the phases of a record whose turn id ends.                *)
EndedTurn(t, status, final) == [t EXCEPT !.status = status, !.to = final]
EndedTurns(t, id, status, final) ==
  [i \in DOMAIN t |-> IF t[i].id = id THEN EndedTurn(t[i], status, final) ELSE t[i]]
EndedPhase(p, id) == [p EXCEPT !.status = "completed", !.last = id]
EndedPhases(p, id) == [i \in DOMAIN p |-> IF p[i].status = "active" THEN EndedPhase(p[i], id) ELSE p[i]]

(* EndedTurns keeps the turns where they are and ends those named id.      *)
LEMMA EndedTurnsIs ==
  ASSUME NEW t \in Seq(PersistedTurn), NEW id, NEW status \in Status, NEW final \in Agent
  PROVE  /\ EndedTurns(t, id, status, final) \in Seq(PersistedTurn)
         /\ DOMAIN EndedTurns(t, id, status, final) = DOMAIN t
         /\ \A i \in DOMAIN t :
              /\ EndedTurns(t, id, status, final)[i].id = t[i].id
              /\ EndedTurns(t, id, status, final)[i].status = IF t[i].id = id THEN status ELSE t[i].status
<1> DEFINE e == EndedTurns(t, id, status, final)
<1>1. Len(t) \in Nat /\ DOMAIN t = 1 .. Len(t) /\ \A i \in DOMAIN t : t[i] \in PersistedTurn
  OBVIOUS
<1>2. \A u \in PersistedTurn :
        /\ EndedTurn(u, status, final) \in PersistedTurn
        /\ EndedTurn(u, status, final).id = u.id
        /\ EndedTurn(u, status, final).status = status
  BY DEF PersistedTurn, EndedTurn
<1>3. \A i \in DOMAIN t : e[i] \in PersistedTurn
  BY <1>1, <1>2 DEF EndedTurns
<1>4. e \in Seq(PersistedTurn)
  <2>1. e \in [1 .. Len(t) -> PersistedTurn]
    BY <1>1, <1>3 DEF EndedTurns
  <2> HIDE DEF e
  <2> QED
    BY <1>1, <2>1
<1>5. DOMAIN e = DOMAIN t
  BY DEF EndedTurns
<1>6. \A i \in DOMAIN t : e[i] = IF t[i].id = id THEN EndedTurn(t[i], status, final) ELSE t[i]
  BY DEF EndedTurns
<1> HIDE DEF e
<1>7. \A i \in DOMAIN t : e[i].id = t[i].id /\ e[i].status = IF t[i].id = id THEN status ELSE t[i].status
  BY <1>1, <1>2, <1>6
<1> QED
  BY <1>4, <1>5, <1>7 DEF e

(* EndedPhases keeps the phases where they are and completes the active.   *)
LEMMA EndedPhasesIs ==
  ASSUME NEW p \in Seq(Phase), NEW id \in TurnId
  PROVE  /\ EndedPhases(p, id) \in Seq(Phase)
         /\ DOMAIN EndedPhases(p, id) = DOMAIN p /\ Len(EndedPhases(p, id)) = Len(p)
         /\ \A i \in DOMAIN p :
              /\ EndedPhases(p, id)[i].status = "completed"
              /\ EndedPhases(p, id)[i].first = p[i].first
              /\ EndedPhases(p, id)[i].last = IF p[i].status = "active" THEN id ELSE p[i].last
<1> DEFINE e == EndedPhases(p, id)
<1>1. Len(p) \in Nat /\ DOMAIN p = 1 .. Len(p) /\ \A i \in DOMAIN p : p[i] \in Phase
  OBVIOUS
<1>2. \A u \in Phase :
        /\ EndedPhase(u, id) \in Phase
        /\ EndedPhase(u, id).status = "completed"
        /\ EndedPhase(u, id).first = u.first
        /\ EndedPhase(u, id).last = id
        /\ u.status # "active" => u.status = "completed"
  BY DEF Phase, EndedPhase
<1>3. \A i \in DOMAIN p : e[i] \in Phase
  BY <1>1, <1>2 DEF EndedPhases
<1>4. e \in Seq(Phase) /\ Len(e) = Len(p)
  <2>1. e \in [1 .. Len(p) -> Phase]
    BY <1>1, <1>3 DEF EndedPhases
  <2> HIDE DEF e
  <2> QED
    BY <1>1, <2>1
<1>5. DOMAIN e = DOMAIN p
  BY DEF EndedPhases
<1>6. \A i \in DOMAIN p :
        e[i] = IF p[i].status = "active" THEN EndedPhase(p[i], id) ELSE p[i]
  BY DEF EndedPhases
<1> HIDE DEF e
<1>7. \A i \in DOMAIN p : /\ e[i].status = "completed" /\ e[i].first = p[i].first
                         /\ e[i].last = IF p[i].status = "active" THEN id ELSE p[i].last
  BY <1>1, <1>2, <1>6
<1> QED
  BY <1>4, <1>5, <1>7 DEF e

(* The record of a turn that ends.                                         *)
LEMMA FinishedIs ==
  ASSUME NEW r \in Record, NEW id \in TurnId, NEW status \in Status, NEW final \in Agent,
         NEW handed \in BOOLEAN, NEW transition \in BOOLEAN, pending \in Seq(Message)
  PROVE  LET f == Finished(r, id, status, final, handed, transition)
             p == IF transition /\ status = "completed" THEN EndedPhases(r.phases, id) ELSE r.phases
         IN
         /\ f \in Record
         /\ f.messages = Repair(AppendUnique(r.messages, pending), {id})
         /\ f.turns = EndedTurns(r.turns, id, status, final)
         /\ f.phases = p
<1> DEFINE m == Repair(AppendUnique(r.messages, pending), {id})
           t == EndedTurns(r.turns, id, status, final)
           p == IF transition /\ status = "completed" THEN EndedPhases(r.phases, id) ELSE r.phases
           a == IF handed THEN final ELSE r.agent
           f == Finished(r, id, status, final, handed, transition)
<1>1. f = With(r, m, t, p, a)
  BY DEF Finished, EndedTurns, EndedTurn, EndedPhases, EndedPhase, With
<1>2. m \in Seq(Message)
  BY RecordIs, AppendUniqueType, RepairType
<1>3. t \in Seq(PersistedTurn)
  BY RecordIs, EndedTurnsIs
<1>4. p \in Seq(Phase)
  BY RecordIs, EndedPhasesIs
<1>5. a \in Agent
  BY RecordIs
<1> HIDE DEF m, t, p, a, f
<1>6. f \in Record /\ f.messages = m /\ f.turns = t /\ f.phases = p
  BY <1>1, <1>2, <1>3, <1>4, <1>5, RecordWith
<1> QED
  BY <1>6 DEF m, t, p, f

(* The turns of such a record.                                             *)
LEMMA FinishedTurns ==
  ASSUME NEW r \in Record, NEW id \in TurnId, NEW status \in Status, NEW final \in Agent,
         NEW handed \in BOOLEAN, NEW transition \in BOOLEAN, pending \in Seq(Message)
  PROVE  Finished(r, id, status, final, handed, transition).turns = EndedTurns(r.turns, id, status, final)
BY FinishedIs, ZenonT(40)

(* The phases of such a record, ended or not.                              *)
LEMMA FinishedPhases ==
  ASSUME NEW r \in Record, NEW id \in TurnId, NEW status \in Status, NEW final \in Agent,
         NEW handed \in BOOLEAN, NEW transition \in BOOLEAN, pending \in Seq(Message)
  PROVE  \/ Finished(r, id, status, final, handed, transition).phases = EndedPhases(r.phases, id)
         \/ Finished(r, id, status, final, handed, transition).phases = r.phases
<1> DEFINE m == Repair(AppendUnique(r.messages, pending), {id})
           t == EndedTurns(r.turns, id, status, final)
           a == IF handed THEN final ELSE r.agent
           f == Finished(r, id, status, final, handed, transition)
<1>1. m \in Seq(Message) /\ t \in Seq(PersistedTurn) /\ a \in Agent
  BY RecordIs, AppendUniqueType, RepairType, EndedTurnsIs
<1>2. r.phases \in Seq(Phase) /\ EndedPhases(r.phases, id) \in Seq(Phase)
  BY RecordIs, EndedPhasesIs
<1>3. f = With(r, m, t, EndedPhases(r.phases, id), a) \/ f = With(r, m, t, r.phases, a)
  BY DEF Finished, EndedTurns, EndedTurn, EndedPhases, EndedPhase, With
<1> HIDE DEF m, t, a, f
<1>4. f.phases = EndedPhases(r.phases, id) \/ f.phases = r.phases
  BY <1>1, <1>2, <1>3, RecordWith
<1> QED
  BY <1>4 DEF f

(* The phases of such a record, if the turn did not complete.              *)
LEMMA FinishedKeepsPhases ==
  ASSUME NEW r \in Record, NEW id \in TurnId, NEW status \in Status, NEW final \in Agent, status # "completed",
         NEW handed \in BOOLEAN, NEW transition \in BOOLEAN, pending \in Seq(Message)
  PROVE  Finished(r, id, status, final, handed, transition).phases = r.phases
<1> DEFINE m == Repair(AppendUnique(r.messages, pending), {id})
           t == EndedTurns(r.turns, id, status, final)
           a == IF handed THEN final ELSE r.agent
           f == Finished(r, id, status, final, handed, transition)
<1>1. m \in Seq(Message) /\ t \in Seq(PersistedTurn) /\ a \in Agent
  BY RecordIs, AppendUniqueType, RepairType, EndedTurnsIs
<1>2. r.phases \in Seq(Phase) /\ EndedPhases(r.phases, id) \in Seq(Phase)
  BY RecordIs, EndedPhasesIs
<1>3. f = With(r, m, t, r.phases, a)
  BY DEF Finished, EndedTurns, EndedTurn, With
<1> HIDE DEF m, t, a, f
<1>4. f.phases = r.phases
  BY <1>1, <1>2, <1>3, RecordWith
<1> QED
  BY <1>4 DEF f

(* The record of a checkpoint, and of a handoff.                           *)
LEMMA SavedIs ==
  ASSUME NEW r \in Record, NEW m \in Seq(Message)
  PROVE  LET saved == [r EXCEPT !.messages = AppendUnique(@, m)]
             handed == [r EXCEPT !.messages = AppendUnique(@, m), !.agent = "target"]
         IN /\ saved \in Record /\ saved.messages = AppendUnique(r.messages, m)
            /\ saved.turns = r.turns /\ saved.phases = r.phases
            /\ handed \in Record /\ handed.messages = AppendUnique(r.messages, m)
            /\ handed.turns = r.turns /\ handed.phases = r.phases
<1>1. AppendUnique(r.messages, m) \in Seq(Message)
  BY RecordIs, AppendUniqueType
<1> QED
  BY <1>1 DEF Record, Agent

-----------------------------------------------------------------------------
(* The inductive invariant.                                                *)

(* A turn that has an id is one the controller began: the last one drawn,  *)
(* of the current session, and no other command than /mode goes with it.   *)
InTurn == turn.pc \notin {"idle", "open"}
Ending == turn.pc \in {"finish", "refinish", "giveUp"}

(* What a live loop waits for.                                             *)
Waiting ==
  CASE loop \in {"saveCalls", "saveStep"} -> Len(chain) = 1 /\ chain[1].kind = "save"
    [] loop = "transfer" -> Len(chain) = 1 /\ chain[1].kind = "handoff"
    [] OTHER -> chain = << >>

Control ==
  /\ InTurn => turn.id = drawn.turns /\ turn.id # 0 /\ turn.session = current.id
  /\ ~InTurn => turn.id = 0 /\ turn.session = NoSession /\ turn.outcome = "none"
  /\ turn.pc # "idle" => cmd.op \in {"none", "mode"}
  /\ cmd.op = "none" <=> cmd.pc = "done"
  /\ turn.pc \in {"finish", "refinish"} => turn.outcome # "none"
  /\ turn.pc # "run" /\ ~Ending => chain = <<>> /\ pending = <<>> /\ loop = "off" /\ turn.outcome = "none"
  /\ \A i \in DOMAIN chain : chain[i].kind = "finish" => Ending
  /\ turn.pc = "open" => drawn.turns < MaxTurns
  /\ turn.outcome = "completed" => view # << >>
  /\ Live => Waiting
  /\ Live /\ loop = "saveCalls" => view # << >> /\ Last(view).uses \in {Calls, {HandoffUse}}

(* The lease that is attached is held once, and no other; it is there      *)
(* before anything is created under it, and the directory outlives it.     *)
LeaseInv ==
  /\ attached \in {NoSession, current.id}
  /\ refs = [s \in Session |-> IF s = attached THEN 1 ELSE 0]
  /\ attached # NoSession => attached \in dirs
  /\ stored \subseteq dirs
  /\ cmd.pc = "materialize" \/ (turn.pc = "start" /\ turn.draft) => attached = current.id

(* What the controller shows is what the store has.                        *)
FreshInv ==
  ~current.draft /\ ~faults.late => current.id \in stored /\ current.record = db[current.id]

(* No turn of the store is younger than the last one drawn, and the turn   *)
(* that runs is in no other session than its own, and there once written.  *)
Young(s) ==
  \A i \in DOMAIN db[s].turns :
    LET id == db[s].turns[i].id IN
    /\ id <= drawn.turns
    /\ turn.pc = "start" => id < turn.id
    /\ id = turn.id => s = turn.session
Written == turn.pc \in {"attach", "create", "run", "finish", "giveUp", "refinish"}
TurnsInv ==
  /\ \A s \in Session : Young(s) /\ (s \notin stored => db[s] = EmptyRecord)
  /\ Written => /\ turn.session \in stored
                /\ \E i \in DOMAIN db[turn.session].turns : db[turn.session].turns[i].id = turn.id
  /\ Written /\ turn.pc # "refinish" =>
       \A i \in DOMAIN db[turn.session].turns :
         db[turn.session].turns[i].id = turn.id => db[turn.session].turns[i].status = "running"
  /\ \A s \in Session : \A i \in DOMAIN db[s].turns :
       db[s].turns[i].status = "running" => db[s].turns[i].id \in broken \/ db[s].turns[i].id = turn.id

(* The phases of a record: in order, all but the last one complete; and    *)
(* whatever runs, unless it was given up, has an active one.               *)
Ordered(p) ==
  /\ \A i \in DOMAIN p : /\ p[i].status = "active" => i = Len(p)
                         /\ p[i].status = "completed" => p[i].first <= p[i].last
  /\ \A i, j \in DOMAIN p : i < j => p[i].last < p[j].first
PhaseInv ==
  \A s \in Session :
    LET phases == db[s].phases IN
    /\ Ordered(phases)
    /\ \A i \in DOMAIN phases :
         /\ phases[i].first <= drawn.turns /\ phases[i].last <= drawn.turns
         /\ turn.pc = "start" => phases[i].first < turn.id /\ phases[i].last < turn.id
    /\ \A i \in DOMAIN db[s].turns :
         db[s].turns[i].status = "running" /\ db[s].turns[i].id \notin broken =>
           \E j \in DOMAIN phases : phases[j].status = "active"

IInv == TypeOK /\ Control /\ LeaseInv /\ FreshInv /\ TurnsInv /\ PhaseInv

-----------------------------------------------------------------------------
(* Types, one variable or group of variables at a time.                    *)
TurnType == [pc : {"idle", "open", "start", "attach", "create", "run", "finish", "refinish", "giveUp"},
             id : TurnId \cup {0}, session : Session \cup {NoSession}, draft : BOOLEAN,
             outcome : {"none", "completed", "failed", "cancelled"},
             agent : Agent, handed : BOOLEAN, step : 0 .. MaxSteps]
TStore == db \in [Session -> Record] /\ stored \subseteq Session
TLease == dirs \subseteq Session /\ refs \in [Session -> 0 .. 2] /\ attached \in Session \cup {NoSession}
TCurrent == current \in [id : Session, draft : BOOLEAN, record : Record]
TCmd == cmd \in [op : Op \cup {"none"}, pc : {"open", "materialize", "mutate", "attach", "done"}]
TTurn == turn \in TurnType
TLoop == loop \in {"off", "think", "saveCalls", "act", "saveStep", "handoff", "transfer"} /\ todo \subseteq Calls
TView == view \in Seq(Message)
TChain == chain \in Seq([kind : {"save", "handoff", "finish"}, messages : Seq(Message)]) /\ pending \in Seq(Message)
TDrawn == drawn \in [sessions : Session, turns : 0 .. MaxTurns]
TBroken == broken \subseteq TurnId
TFaults == faults \in [failures : 0 .. MaxFailures, crashes : 0 .. MaxCrashes, late : BOOLEAN]

(* The types together.                                                     *)
LEMMA TypeParts ==
  TypeOK <=> /\ TStore /\ TLease /\ TCurrent /\ TCmd /\ TTurn /\ TLoop /\ TView /\ TChain
             /\ TDrawn /\ TBroken /\ TFaults
BY DEF TypeOK, TStore, TLease, TCurrent, TCmd, TTurn, TurnType, TLoop, TView, TChain, TDrawn, TBroken, TFaults

(* The same in the next state.                                             *)
LEMMA TypePartsNext ==
  ASSUME TStore', TLease', TCurrent', TCmd', TTurn', TLoop', TView', TChain', TDrawn', TBroken', TFaults'
  PROVE  TypeOK'
BY DEF TypeOK, TStore, TLease, TCurrent, TCmd, TTurn, TurnType, TLoop, TView, TChain, TDrawn, TBroken, TFaults

(* What a step leaves alone keeps its type.                                *)
LEMMA Frames ==
  ASSUME TypeOK
  PROVE  /\ UNCHANGED storeVars => TStore'
         /\ UNCHANGED leaseVars => TLease'
         /\ UNCHANGED current => TCurrent'
         /\ UNCHANGED cmd => TCmd'
         /\ UNCHANGED turn => TTurn'
         /\ UNCHANGED <<loop, todo>> => TLoop'
         /\ UNCHANGED view => TView'
         /\ UNCHANGED <<chain, pending>> => TChain'
         /\ UNCHANGED drawn => TDrawn'
         /\ UNCHANGED broken => TBroken'
         /\ UNCHANGED faults => TFaults'
<1>1. TStore /\ TLease /\ TCurrent /\ TCmd /\ TTurn /\ TLoop /\ TView /\ TChain /\ TDrawn /\ TBroken /\ TFaults
  BY TypeParts
<1>2. UNCHANGED storeVars => TStore'
  BY <1>1 DEF TStore, storeVars
<1>3. UNCHANGED leaseVars => TLease'
  BY <1>1 DEF TLease, leaseVars
<1>4. UNCHANGED current => TCurrent'
  BY <1>1 DEF TCurrent
<1>5. UNCHANGED cmd => TCmd'
  BY <1>1 DEF TCmd
<1>6. UNCHANGED turn => TTurn'
  BY <1>1 DEF TTurn
<1>7. UNCHANGED <<loop, todo>> => TLoop'
  BY <1>1 DEF TLoop
<1>8. UNCHANGED view => TView'
  BY <1>1 DEF TView
<1>9. UNCHANGED <<chain, pending>> => TChain'
  BY <1>1 DEF TChain
<1>10. UNCHANGED drawn => TDrawn'
  BY <1>1 DEF TDrawn
<1>11. UNCHANGED broken => TBroken'
  BY <1>1 DEF TBroken
<1>12. UNCHANGED faults => TFaults'
  BY <1>1 DEF TFaults
<1> QED
  BY <1>2, <1>3, <1>4, <1>5, <1>6, <1>7, <1>8, <1>9, <1>10, <1>11, <1>12

(* A store operation counts its failure.                                   *)
LEMMA FaultsType ==
  ASSUME TypeOK, Works \/ Fails(FALSE) \/ Fails(TRUE)
  PROVE  TFaults'
<1>1. TFaults
  BY TypeParts
<1>2. CASE Works
  BY <1>1, <1>2 DEF Works, TFaults
<1>3. ASSUME NEW late \in BOOLEAN, Fails(late)  PROVE TFaults'
  <2>1. faults.failures + 1 \in 0 .. MaxFailures
    BY <1>1, <1>3, SessionAssumption DEF Fails, TFaults
  <2>2. PICK l \in BOOLEAN : l = (faults.late \/ late)
    OBVIOUS
  <2>3. faults' = [faults EXCEPT !.failures = faults.failures + 1, !.late = l]
    BY <1>3, <2>2, Zenon DEF Fails
  <2> QED
    BY <1>1, <2>1, <2>2, <2>3 DEF TFaults
<1> QED
  BY <1>2, <1>3

(* The record of a draft.                                                  *)
LEMMA EmptyType == EmptyRecord \in Record
<1>1. << >> \in Seq(Message) /\ << >> \in Seq(PersistedTurn) /\ << >> \in Seq(Phase)
  OBVIOUS
<1> QED
  BY <1>1 DEF EmptyRecord, Record, Agent

(* What a session, a draft and a loaded session are.                       *)
LEMMA CurrentType ==
  ASSUME NEW s \in Session, NEW r \in Record
  PROVE  /\ current' = Draft(s) => TCurrent'
         /\ current' = Loaded(s, r) => TCurrent'
<1>1. current' = Draft(s) => TCurrent'
  BY EmptyType DEF Draft, TCurrent
<1>2. current' = Loaded(s, r) => TCurrent'
  BY DEF Loaded, TCurrent
<1> QED
  BY <1>1, <1>2

(* A write of a record to a session.                                       *)
LEMMA WriteType ==
  ASSUME TypeOK, NEW s \in Session, NEW r \in Record, Write(s, r) \/ UNCHANGED storeVars
  PROVE  TStore'
<1>1. TStore
  BY TypeParts
<1> QED
  BY <1>1 DEF TStore, Write, storeVars

(* The records of the store, and what a command makes of one.              *)
LEMMA RecordOf ==
  ASSUME TypeOK, NEW s \in Session
  PROVE  db[s] \in Record /\ CommandReducer \in Record /\ current.id \in Session
<1>1. db[s] \in Record /\ db[current.id] \in Record /\ current.id \in Session
  BY DEF TypeOK
<1> QED
  BY <1>1, ClearedIs DEF CommandReducer

(* The uses of a lease that is taken.                                      *)
LEMMA HoldType ==
  ASSUME IInv, NEW s \in Session, Hold(s)
  PROVE  TLease'
<1>1. TLease /\ \A t \in Session : refs[t] \in {0, 1}
  BY TypeParts DEF IInv, LeaseInv
<1> QED
  BY <1>1 DEF Hold, TLease

(* The session of the next draft.                                          *)
LEMMA NextSession ==
  ASSUME TypeOK, drawn.sessions < NumSessions
  PROVE  drawn.sessions + 1 \in Session
<1>1. drawn.sessions \in 1 .. NumSessions
  BY DEF TypeOK, Session
<1> QED
  BY <1>1, SessionAssumption DEF Session

(* The turn that has an id, and the messages it is about.                  *)
LEMMA TurnIs ==
  ASSUME IInv, InTurn
  PROVE  /\ turn.id \in TurnId /\ turn.session \in Session /\ turn.session = current.id
         /\ turn \in TurnType /\ db[turn.session] \in Record
         /\ UserMessage(turn.id) \in Message
         /\ \A kind \in {"calls", "result", "text"}, uses \in SUBSET (Calls \cup {HandoffUse}) :
              Say(kind, uses) \in Message
<1>1. TTurn /\ TCurrent /\ TStore
  BY TypeParts DEF IInv
<1>2. turn.id \in TurnId /\ turn.session = current.id /\ current.id \in Session /\ turn.step \in 0 .. MaxSteps
  BY <1>1 DEF IInv, Control, TTurn, TurnType, TCurrent
<1>3. db[turn.session] \in Record
  BY <1>1, <1>2 DEF TStore
<1>4. UserMessage(turn.id) \in Message
  BY <1>2, SessionAssumption DEF UserMessage, Message
<1>5. \A kind \in {"calls", "result", "text"}, uses \in SUBSET (Calls \cup {HandoffUse}) :
        Say(kind, uses) \in Message
  BY <1>2 DEF Say, Message
<1> QED
  BY <1>1, <1>2, <1>3, <1>4, <1>5 DEF TTurn

(* The states of a turn that begins.                                       *)
LEMMA BegunType ==
  ASSUME NEW s \in Session, NEW i \in TurnId, NEW draft \in BOOLEAN
  PROVE  /\ [NoTurn EXCEPT !.pc = "start", !.id = i, !.session = s, !.draft = draft] \in TurnType
         /\ [NoTurn EXCEPT !.pc = "open"] \in TurnType
         /\ NoTurn \in TurnType
<1>1. NoTurn \in TurnType
  BY SessionAssumption DEF NoTurn, TurnType, Agent
<1> QED
  BY <1>1 DEF TurnType

(* A loop that fails.                                                      *)
LEMMA LoopFailsType ==
  ASSUME TypeOK, LoopFails
  PROVE  TTurn' /\ TLoop' /\ TView' /\ TCurrent' /\ UNCHANGED pending
<1>1. TTurn
  BY TypeParts
<1> DEFINE o == IF Live THEN "failed" ELSE turn.outcome
<1>2. o \in {"none", "completed", "failed", "cancelled"}
  BY <1>1 DEF TTurn, TurnType
<1>3. turn' = [turn EXCEPT !.outcome = o]
  BY Zenon DEF LoopFails
<1> HIDE DEF o
<1>4. TTurn'
  BY <1>1, <1>2, <1>3 DEF TTurn, TurnType
<1>5. TLoop'
  BY DEF LoopFails, TLoop
<1> QED
  BY <1>4, <1>5, Frames DEF LoopFails

(* A request to the coordinator.                                           *)
LEMMA RequestType ==
  ASSUME TypeOK, NEW kind \in {"save", "handoff", "finish"}, NEW m \in Seq(Message), Request(kind, m)
  PROVE  TChain'
<1> DEFINE Queued == [kind : {"save", "handoff", "finish"}, messages : Seq(Message)]
<1>1. chain \in Seq(Queued) /\ pending \in Seq(Message)
  BY DEF TypeOK
<1>2. [kind |-> kind, messages |-> m] \in Queued
  OBVIOUS
<1> HIDE DEF Queued
<1>3. Append(chain, [kind |-> kind, messages |-> m]) \in Seq(Queued)
  BY <1>1, <1>2
<1>4. pending \o m \in Seq(Message)
  BY <1>1
<1>5. chain' \in Seq(Queued) /\ pending' \in Seq(Message)
  BY <1>3, <1>4 DEF Request
<1> QED
  BY <1>5 DEF TChain, Queued

(* The coordinator's operation at the head of its tail.                    *)
LEMMA HeadType ==
  ASSUME TypeOK, NEW kind, HeadIs(kind)
  PROVE  /\ chain[1].messages \in Seq(Message)
         /\ Tail(chain) \in Seq([kind : {"save", "handoff", "finish"}, messages : Seq(Message)])
         /\ Append(Tail(chain), chain[1]) \in Seq([kind : {"save", "handoff", "finish"}, messages : Seq(Message)])
         /\ 1 \in DOMAIN chain /\ chain[1].kind = kind
         /\ \A messages : Forget(messages) \in Seq(Message)
<1> DEFINE Queued == [kind : {"save", "handoff", "finish"}, messages : Seq(Message)]
<1>1. chain \in Seq(Queued) /\ pending \in Seq(Message) /\ chain # << >> /\ chain[1].kind = kind
  BY DEF TypeOK, HeadIs
<1>2. \A messages : Forget(messages) \in Seq(Message)
  BY <1>1, KeptIs DEF Forget
<1> HIDE DEF Queued
<1>3. /\ 1 \in DOMAIN chain /\ chain[1] \in Queued /\ Tail(chain) \in Seq(Queued)
      /\ Append(Tail(chain), chain[1]) \in Seq(Queued)
  BY <1>1
<1>4. chain[1].messages \in Seq(Message)
  BY <1>3 DEF Queued
<1> QED
  BY <1>1, <1>2, <1>3, <1>4 DEF Queued

(* A command that has ended, a turn that has.                              *)
LEMMA EndedType ==
  /\ cmd' = NoCommand => TCmd'
  /\ turn' = NoTurn => TTurn'
  /\ EndTurn => TTurn' /\ TLoop' /\ TView' /\ TChain'
<1>1. cmd' = NoCommand => TCmd'
  BY DEF TCmd, NoCommand
<1>2. turn' = NoTurn => TTurn'
  BY SessionAssumption DEF TTurn, TurnType, NoTurn, Agent
<1>3. << >> \in Seq(Message) /\ << >> \in Seq([kind : {"save", "handoff", "finish"}, messages : Seq(Message)])
  OBVIOUS
<1> QED
  BY <1>1, <1>2, <1>3 DEF EndTurn, TLoop, TView, TChain

(* A command begins.                                                       *)
LEMMA BeginCommandType ==
  ASSUME IInv, NEW op \in Op, BeginCommand(op)
  PROVE  TypeOK'
<1>1. TStore /\ TLease /\ TCurrent /\ TCmd /\ TTurn /\ TLoop /\ TView /\ TChain /\ TDrawn /\ TBroken /\ TFaults
  BY TypeParts DEF IInv
<1>a. TypeOK
  BY DEF IInv
<1>2. TStore' /\ TLease' /\ TCurrent' /\ TTurn' /\ TLoop' /\ TView' /\ TChain' /\ TDrawn' /\ TBroken' /\ TFaults'
  BY <1>a, Frames DEF BeginCommand, storeVars, leaseVars, loopVars
<1>3. TCmd'
  BY <1>1 DEF TCmd, BeginCommand
<1> QED
  BY <1>2, <1>3, TypePartsNext

(* Opening for a command.                                                  *)
LEMMA OpenForCommandType ==
  ASSUME IInv, OpenForCommand
  PROVE  TypeOK'
<1>1. TStore /\ TLease /\ TCurrent /\ TCmd /\ TTurn /\ TLoop /\ TView /\ TChain /\ TDrawn /\ TBroken /\ TFaults
  BY TypeParts DEF IInv
<1>a. TypeOK
  BY DEF IInv
<1>b. current.id \in Session /\ (Hold(current.id) => TLease')
  BY <1>1, HoldType DEF TCurrent
<1>2. TStore' /\ TCurrent' /\ TTurn' /\ TLoop' /\ TView' /\ TChain' /\ TDrawn' /\ TBroken'
  BY <1>a, Frames DEF OpenForCommand, storeVars, leaseVars, loopVars
<1>3. TLease'
  BY <1>1, <1>b DEF OpenForCommand, Opens, TLease, leaseVars
<1>4. TCmd'
  BY <1>1, EndedType DEF OpenForCommand, Opens, TCmd
<1>5. TFaults'
  BY <1>a, FaultsType DEF OpenForCommand, Opens
<1> QED
  BY <1>2, <1>3, <1>4, <1>5, TypePartsNext

(* The draft becomes a record.                                             *)
LEMMA MaterializeType ==
  ASSUME IInv, Materialize
  PROVE  TypeOK'
<1>1. TStore /\ TLease /\ TCurrent /\ TCmd /\ TTurn /\ TLoop /\ TView /\ TChain /\ TDrawn /\ TBroken /\ TFaults
  BY TypeParts DEF IInv
<1>a. TypeOK
  BY DEF IInv
<1>b. EmptyRecord \in Record /\ current.id \in Session
  BY <1>a, EmptyType, RecordOf DEF TypeOK
<1>2. TLease' /\ TCurrent' /\ TTurn' /\ TLoop' /\ TView' /\ TChain' /\ TDrawn' /\ TBroken'
  BY <1>a, Frames DEF Materialize, storeVars, leaseVars, loopVars
<1>3. TStore'
  BY <1>a, <1>b, WriteType DEF Materialize, Committed, Refused, Lost, Late
<1>4. TCmd'
  BY <1>1, EndedType DEF Materialize, TCmd
<1>5. TFaults'
  BY <1>a, FaultsType DEF Materialize, Committed, Refused, Lost, Late
<1> QED
  BY <1>2, <1>3, <1>4, <1>5, TypePartsNext

(* A command's commit.                                                     *)
LEMMA MutateType ==
  ASSUME IInv, Mutate
  PROVE  TypeOK'
<1>1. TStore /\ TLease /\ TCurrent /\ TCmd /\ TTurn /\ TLoop /\ TView /\ TChain /\ TDrawn /\ TBroken /\ TFaults
  BY TypeParts DEF IInv
<1>a. TypeOK
  BY DEF IInv
<1>b. CommandReducer \in Record /\ current.id \in Session
  BY <1>a, RecordOf DEF TypeOK
<1>2. TLease' /\ TTurn' /\ TLoop' /\ TView' /\ TChain' /\ TDrawn' /\ TBroken'
  BY <1>a, Frames DEF Mutate, storeVars, leaseVars, loopVars
<1>3. TStore'
  BY <1>a, <1>b, WriteType DEF Mutate, Committed, Refused, Lost, Late
<1>4. TCurrent'
  BY <1>a, <1>b, CurrentType, Frames DEF Mutate
<1>5. TCmd'
  BY <1>1, EndedType DEF Mutate, TCmd
<1>6. TFaults'
  BY <1>a, FaultsType DEF Mutate, Committed, Refused, Lost, Late
<1> QED
  BY <1>2, <1>3, <1>4, <1>5, <1>6, TypePartsNext

(* Attaching for a command.                                                *)
LEMMA AttachForCommandType ==
  ASSUME IInv, AttachForCommand
  PROVE  TypeOK'
<1>1. TStore /\ TLease /\ TCurrent /\ TCmd /\ TTurn /\ TLoop /\ TView /\ TChain /\ TDrawn /\ TBroken /\ TFaults
  BY TypeParts DEF IInv
<1>a. TypeOK
  BY DEF IInv
<1>b. current.id \in Session /\ (Hold(current.id) => TLease')
  BY <1>1, HoldType DEF TCurrent
<1>2. TStore' /\ TCurrent' /\ TTurn' /\ TLoop' /\ TView' /\ TChain' /\ TDrawn' /\ TBroken'
  BY <1>a, Frames DEF AttachForCommand, storeVars, leaseVars, loopVars
<1>3. TLease'
  BY <1>1, <1>b DEF AttachForCommand, Attaches, TLease, leaseVars
<1>4. TCmd'
  BY <1>1, EndedType DEF AttachForCommand, Attaches
<1>5. TFaults'
  BY <1>a, FaultsType DEF AttachForCommand, Attaches
<1> QED
  BY <1>2, <1>3, <1>4, <1>5, TypePartsNext

(* A new draft.                                                            *)
LEMMA NewDraftType ==
  ASSUME IInv, NewDraft
  PROVE  TypeOK'
<1>1. TStore /\ TLease /\ TCurrent /\ TCmd /\ TTurn /\ TLoop /\ TView /\ TChain /\ TDrawn /\ TBroken /\ TFaults
  BY TypeParts DEF IInv
<1>a. TypeOK
  BY DEF IInv
<1>b. drawn.sessions + 1 \in Session /\ EmptyRecord \in Record
  BY <1>a, NextSession, EmptyType DEF NewDraft
<1>2. TStore' /\ TCmd' /\ TTurn' /\ TLoop' /\ TView' /\ TChain' /\ TBroken' /\ TFaults'
  BY <1>a, Frames DEF NewDraft, storeVars, leaseVars, loopVars
<1>3. TLease'
  BY <1>1 DEF NewDraft, Without, TLease
<1>4. TCurrent'
  BY <1>a, <1>b, CurrentType, Frames DEF NewDraft, NextDraft
<1>5. TDrawn'
  BY <1>1, <1>b DEF NewDraft, NextDraft, TDrawn
<1> QED
  BY <1>2, <1>3, <1>4, <1>5, TypePartsNext

(* A deletion.                                                             *)
LEMMA DeleteCurrentType ==
  ASSUME IInv, DeleteCurrent
  PROVE  TypeOK'
<1>1. TStore /\ TLease /\ TCurrent /\ TCmd /\ TTurn /\ TLoop /\ TView /\ TChain /\ TDrawn /\ TBroken /\ TFaults
  BY TypeParts DEF IInv
<1>a. TypeOK
  BY DEF IInv
<1>b. drawn.sessions + 1 \in Session /\ EmptyRecord \in Record
  BY <1>a, NextSession, EmptyType DEF DeleteCurrent
<1>2. TCmd' /\ TTurn' /\ TLoop' /\ TView' /\ TChain' /\ TBroken'
  BY <1>a, Frames DEF DeleteCurrent, storeVars, leaseVars, loopVars
<1>3. TStore'
  <2>1. \/ stored' = stored \ {current.id} /\ db' = [db EXCEPT ![current.id] = EmptyRecord]
        \/ stored' = stored /\ db' = db
    BY Zenon DEF DeleteCurrent, Lost, storeVars
  <2> QED
    BY <1>1, <1>b, <2>1 DEF TStore
<1>4. TLease'
  BY <1>1 DEF DeleteCurrent, Without, TLease
<1>5. TCurrent'
  BY <1>a, <1>b, CurrentType, Frames DEF DeleteCurrent, NextDraft
<1>6. TDrawn'
  BY <1>1, <1>b DEF DeleteCurrent, NextDraft, TDrawn
<1>7. TFaults'
  BY <1>a, FaultsType DEF DeleteCurrent, Lost
<1> QED
  BY <1>2, <1>3, <1>4, <1>5, <1>6, <1>7, TypePartsNext

(* A resumption.                                                           *)
LEMMA ResumeType ==
  ASSUME IInv, NEW s \in Session, Resume(s)
  PROVE  TypeOK'
<1>1. TStore /\ TLease /\ TCurrent /\ TCmd /\ TTurn /\ TLoop /\ TView /\ TChain /\ TDrawn /\ TBroken /\ TFaults
  BY TypeParts DEF IInv
<1>a. TypeOK
  BY DEF IInv
<1>b. Repaired(db[s]) \in Record
  BY <1>a, RecordOf, RepairedIs
<1>c. \A t \in Session : refs[t] \in {0, 1}
  BY <1>1 DEF IInv, LeaseInv
<1>2. TCmd' /\ TTurn' /\ TLoop' /\ TView' /\ TChain' /\ TDrawn' /\ TBroken'
  BY <1>a, Frames DEF Resume, storeVars, leaseVars, loopVars
<1>3. TStore'
  BY <1>a, <1>b, WriteType DEF Resume, Committed, Lost, Late
<1>4. TLease'
  BY <1>1, <1>c DEF Resume, Without, TLease
<1>5. TCurrent'
  BY <1>a, <1>b, CurrentType, Frames DEF Resume
<1>6. TFaults'
  BY <1>a, FaultsType DEF Resume, Committed, Lost, Late
<1> QED
  BY <1>2, <1>3, <1>4, <1>5, <1>6, TypePartsNext

(* A turn begins.                                                          *)
LEMMA BeginTurnType ==
  ASSUME IInv, BeginTurn
  PROVE  TypeOK'
<1>1. TStore /\ TLease /\ TCurrent /\ TCmd /\ TTurn /\ TLoop /\ TView /\ TChain /\ TDrawn /\ TBroken /\ TFaults
  BY TypeParts DEF IInv
<1>a. TypeOK
  BY DEF IInv
<1>b. current.id \in Session /\ current.record.messages \in Seq(Message)
  BY <1>1, RecordIs DEF TCurrent
<1>c. drawn.turns + 1 \in TurnId /\ drawn.turns + 1 \in 0 .. MaxTurns
  BY <1>1, SessionAssumption DEF TDrawn, TurnId, BeginTurn
<1>e. /\ [NoTurn EXCEPT !.pc = "start", !.id = drawn.turns + 1, !.session = current.id, !.draft = current.draft] \in TurnType
      /\ [NoTurn EXCEPT !.pc = "open"] \in TurnType /\ NoTurn \in TurnType
  BY <1>1, <1>b, <1>c, BegunType DEF TCurrent
<1>2. TStore' /\ TLease' /\ TCurrent' /\ TCmd' /\ TLoop' /\ TChain' /\ TBroken' /\ TFaults'
  BY <1>a, Frames DEF BeginTurn, storeVars, leaseVars, loopVars
<1>3. TTurn'
  BY <1>b, <1>e DEF BeginTurn, TTurn
<1>4. TView'
  BY <1>1, <1>b DEF BeginTurn, TView
<1>5. TDrawn'
  BY <1>1, <1>c DEF BeginTurn, TDrawn
<1> QED
  BY <1>2, <1>3, <1>4, <1>5, TypePartsNext

(* Opening for a turn.                                                     *)
LEMMA OpenForTurnType ==
  ASSUME IInv, OpenForTurn
  PROVE  TypeOK'
<1>1. TStore /\ TLease /\ TCurrent /\ TCmd /\ TTurn /\ TLoop /\ TView /\ TChain /\ TDrawn /\ TBroken /\ TFaults
  BY TypeParts DEF IInv
<1>a. TypeOK
  BY DEF IInv
<1>b. current.id \in Session /\ current.record.messages \in Seq(Message)
  BY <1>1, RecordIs DEF TCurrent
<1>c. drawn.turns + 1 \in TurnId /\ drawn.turns + 1 \in 0 .. MaxTurns
  BY <1>1, SessionAssumption DEF TDrawn, TurnId, OpenForTurn, IInv, Control
<1>e. /\ [NoTurn EXCEPT !.pc = "start", !.id = drawn.turns + 1, !.session = current.id, !.draft = current.draft] \in TurnType
      /\ [NoTurn EXCEPT !.pc = "open"] \in TurnType /\ NoTurn \in TurnType
  BY <1>1, <1>b, <1>c, BegunType DEF TCurrent
<1>d. Hold(current.id) => TLease'
  BY <1>b, HoldType
<1>2. TStore' /\ TCurrent' /\ TCmd' /\ TLoop' /\ TChain' /\ TBroken'
  BY <1>a, Frames DEF OpenForTurn, storeVars, leaseVars, loopVars
<1>3. TLease'
  BY <1>1, <1>b, <1>d DEF OpenForTurn, Opens, TLease, leaseVars
<1>4. TTurn'
  BY <1>b, <1>e DEF OpenForTurn, Opens, TTurn
<1>5. TView'
  BY <1>1, <1>b DEF OpenForTurn, Opens, TView
<1>6. TDrawn'
  BY <1>1, <1>c DEF OpenForTurn, Opens, TDrawn
<1>7. TFaults'
  BY <1>a, FaultsType DEF OpenForTurn, Opens
<1> QED
  BY <1>2, <1>3, <1>4, <1>5, <1>6, <1>7, TypePartsNext

(* A turn is written.                                                      *)
LEMMA StartTurnType ==
  ASSUME IInv, StartTurn
  PROVE  TypeOK'
<1>1. TStore /\ TLease /\ TCurrent /\ TCmd /\ TTurn /\ TLoop /\ TView /\ TChain /\ TDrawn /\ TBroken /\ TFaults
  BY TypeParts DEF IInv
<1>a. TypeOK
  BY DEF IInv
<1>b. InTurn
  BY DEF StartTurn, Live, InTurn
<1>c. /\ Started(db[turn.session], turn.id) \in Record /\ Started(db[turn.session], turn.id).agent \in Agent
      /\ turn.session \in Session /\ turn.id \in TurnId /\ UserMessage(turn.id) \in Message
  BY <1>b, TurnIs, StartedIs, RecordIs
<1>2. TLease' /\ TCmd' /\ TLoop' /\ TChain' /\ TDrawn'
  BY <1>a, Frames DEF StartTurn, storeVars, leaseVars, loopVars
<1>3. TStore'
  BY <1>a, <1>c, WriteType DEF StartTurn, Committed, Refused, Lost, Late
<1>4. TCurrent'
  BY <1>a, <1>c, CurrentType, Frames DEF StartTurn
<1>5. TTurn'
  BY <1>1, <1>c, EndedType DEF StartTurn, Abandon, TTurn, TurnType
<1>6. TView'
  <2>1. << >> \in Seq(Message)
    OBVIOUS
  <2>2. Append(view, UserMessage(turn.id)) \in Seq(Message)
    BY <1>1, <1>c DEF TView
  <2> QED
    BY <1>1, <2>1, <2>2 DEF StartTurn, Abandon, TView
<1>7. TBroken'
  BY <1>1, <1>c DEF StartTurn, Abandon, TBroken
<1>8. TFaults'
  BY <1>a, FaultsType DEF StartTurn, Committed, Refused, Lost, Late
<1> QED
  BY <1>2, <1>3, <1>4, <1>5, <1>6, <1>7, <1>8, TypePartsNext

(* Attaching for a turn.                                                   *)
LEMMA AttachForTurnType ==
  ASSUME IInv, AttachForTurn
  PROVE  TypeOK'
<1>1. TStore /\ TLease /\ TCurrent /\ TCmd /\ TTurn /\ TLoop /\ TView /\ TChain /\ TDrawn /\ TBroken /\ TFaults
  BY TypeParts DEF IInv
<1>a. TypeOK
  BY DEF IInv
<1>b. InTurn
  BY DEF AttachForTurn, Live, InTurn
<1>c. turn.session \in Session /\ turn.id \in TurnId /\ (Hold(turn.session) => TLease')
  BY <1>b, TurnIs, HoldType
<1>2. TStore' /\ TCurrent' /\ TCmd' /\ TLoop' /\ TChain' /\ TDrawn'
  BY <1>a, Frames DEF AttachForTurn, storeVars, leaseVars, loopVars
<1>3. TLease'
  BY <1>a, <1>1, <1>c, Frames DEF AttachForTurn, Attaches
<1>4. TTurn'
  BY <1>1, <1>c, EndedType DEF AttachForTurn, Attaches, Abandon, TTurn, TurnType
<1>5. TView'
  <2>1. << >> \in Seq(Message)
    OBVIOUS
  <2> QED
    BY <1>1, <2>1 DEF AttachForTurn, Attaches, Abandon, TView
<1>6. TBroken'
  BY <1>1, <1>c DEF AttachForTurn, Attaches, Abandon, TBroken
<1>7. TFaults'
  BY <1>a, FaultsType DEF AttachForTurn, Attaches
<1> QED
  BY <1>2, <1>3, <1>4, <1>5, <1>6, <1>7, TypePartsNext

(* The agent is created.                                                   *)
LEMMA CreateAgentType ==
  ASSUME IInv, CreateAgent
  PROVE  TypeOK'
<1>1. TStore /\ TLease /\ TCurrent /\ TCmd /\ TTurn /\ TLoop /\ TView /\ TChain /\ TDrawn /\ TBroken /\ TFaults
  BY TypeParts DEF IInv
<1>a. TypeOK
  BY DEF IInv
<1>b. << >> \in Seq(Message)
  OBVIOUS
<1>2. TStore' /\ TLease' /\ TCurrent' /\ TCmd' /\ TView' /\ TDrawn' /\ TBroken' /\ TFaults'
  BY <1>a, Frames DEF CreateAgent, storeVars, leaseVars, loopVars
<1>3. TTurn'
  <2>1. \/ turn' = [turn EXCEPT !.pc = "run"]
        \/ turn' = [turn EXCEPT !.pc = "giveUp", !.outcome = "failed"]
    BY Zenon DEF CreateAgent
  <2>2. turn \in TurnType
    BY <1>1 DEF TTurn
  <2>3. [turn EXCEPT !.pc = "run"] \in TurnType
    BY <2>2 DEF TurnType
  <2>4. [turn EXCEPT !.pc = "giveUp", !.outcome = "failed"] \in TurnType
    BY <2>2 DEF TurnType
  <2> QED
    BY <2>1, <2>3, <2>4 DEF TTurn
<1>4. TLoop'
  BY <1>1 DEF CreateAgent, TLoop
<1>5. TChain'
  BY <1>a, <1>b, RequestType, Frames DEF CreateAgent
<1> QED
  BY <1>2, <1>3, <1>4, <1>5, TypePartsNext

(* A text.                                                                 *)
LEMMA AnswerType ==
  ASSUME IInv, Answer
  PROVE  TypeOK'
<1>1. TStore /\ TLease /\ TCurrent /\ TCmd /\ TTurn /\ TLoop /\ TView /\ TChain /\ TDrawn /\ TBroken /\ TFaults
  BY TypeParts DEF IInv
<1>a. TypeOK
  BY DEF IInv
<1>b. InTurn
  BY DEF Answer, Live, InTurn
<1>c. Say("text", {}) \in Message
  BY <1>b, TurnIs
<1>2. TStore' /\ TLease' /\ TCurrent' /\ TCmd' /\ TChain' /\ TDrawn' /\ TBroken' /\ TFaults'
  BY <1>a, Frames DEF Answer, storeVars, leaseVars, loopVars
<1>3. TTurn'
  BY <1>1 DEF Answer, TTurn, TurnType
<1>4. TLoop'
  BY <1>1 DEF Answer, TLoop
<1>5. TView'
  BY <1>1, <1>c DEF Answer, TView
<1> QED
  BY <1>2, <1>3, <1>4, <1>5, TypePartsNext

(* Tool uses.                                                              *)
LEMMA CallToolsType ==
  ASSUME IInv, NEW uses \in {Calls, {HandoffUse}}, CallTools(uses)
  PROVE  TypeOK'
<1>1. TStore /\ TLease /\ TCurrent /\ TCmd /\ TTurn /\ TLoop /\ TView /\ TChain /\ TDrawn /\ TBroken /\ TFaults
  BY TypeParts DEF IInv
<1>a. TypeOK
  BY DEF IInv
<1>b. InTurn
  BY DEF CallTools, Live, InTurn
<1>c. turn.step + 1 \in 0 .. MaxSteps
  BY <1>1, SessionAssumption DEF CallTools, TTurn, TurnType
<1>d. /\ [Say("calls", uses) EXCEPT !.step = @ + 1] \in Message
      /\ <<[Say("calls", uses) EXCEPT !.step = @ + 1]>> \in Seq(Message)
  <2>1. [Say("calls", uses) EXCEPT !.step = @ + 1] \in Message
    BY <1>b, <1>c, TurnIs DEF Say, Message
  <2> QED
    BY <2>1
<1>2. TStore' /\ TLease' /\ TCurrent' /\ TCmd' /\ TDrawn' /\ TBroken' /\ TFaults'
  BY <1>a, Frames DEF CallTools, storeVars, leaseVars, loopVars
<1>3. TTurn'
  BY <1>1, <1>c DEF CallTools, TTurn, TurnType
<1>4. TLoop'
  BY <1>1 DEF CallTools, TLoop
<1>5. TView'
  BY <1>1, <1>d DEF CallTools, TView
<1>6. TChain'
  BY <1>a, <1>d, RequestType DEF CallTools
<1> QED
  BY <1>2, <1>3, <1>4, <1>5, <1>6, TypePartsNext

(* A result.                                                               *)
LEMMA ResultType ==
  ASSUME IInv, NEW u \in Calls, Result(u)
  PROVE  TypeOK'
<1>1. TStore /\ TLease /\ TCurrent /\ TCmd /\ TTurn /\ TLoop /\ TView /\ TChain /\ TDrawn /\ TBroken /\ TFaults
  BY TypeParts DEF IInv
<1>a. TypeOK
  BY DEF IInv
<1>b. InTurn
  BY DEF Result, Live, InTurn
<1>c. Say("result", {u}) \in Message
  BY <1>b, TurnIs
<1>d. Append(ResultsOfStep, Say("result", {u})) \in Seq(Message)
  <2>1. ResultsOfStep \in Seq(Message)
    BY <1>1, KeptIs DEF ResultsOfStep, TView
  <2> QED
    BY <1>c, <2>1
<1>2. TStore' /\ TLease' /\ TCurrent' /\ TCmd' /\ TTurn' /\ TDrawn' /\ TBroken' /\ TFaults'
  BY <1>a, Frames DEF Result, storeVars, leaseVars, loopVars
<1>3. TLoop'
  BY <1>1 DEF Result, TLoop
<1>4. TView'
  BY <1>1, <1>c DEF Result, TView
<1>5. TChain'
  BY <1>a, <1>d, RequestType, Frames DEF Result
<1> QED
  BY <1>2, <1>3, <1>4, <1>5, TypePartsNext

(* A failure or a cancellation.                                            *)
LEMMA EndType ==
  ASSUME IInv, NEW outcome \in {"failed", "cancelled"}, End(outcome)
  PROVE  TypeOK'
<1>1. TStore /\ TLease /\ TCurrent /\ TCmd /\ TTurn /\ TLoop /\ TView /\ TChain /\ TDrawn /\ TBroken /\ TFaults
  BY TypeParts DEF IInv
<1>a. TypeOK
  BY DEF IInv
<1>b. ResultsOfStep \in Seq(Message)
  BY <1>1, KeptIs DEF ResultsOfStep, TView
<1>2. TStore' /\ TLease' /\ TCurrent' /\ TCmd' /\ TView' /\ TDrawn' /\ TBroken' /\ TFaults'
  BY <1>a, Frames DEF End, storeVars, leaseVars, loopVars
<1>3. TTurn'
  BY <1>1 DEF End, TTurn, TurnType
<1>4. TLoop'
  BY <1>1 DEF End, TLoop
<1>5. TChain'
  BY <1>a, <1>b, RequestType, Frames DEF End
<1> QED
  BY <1>2, <1>3, <1>4, <1>5, TypePartsNext

(* A handoff that is rejected.                                             *)
LEMMA RejectHandoffType ==
  ASSUME IInv, RejectHandoff
  PROVE  TypeOK'
<1>1. TStore /\ TLease /\ TCurrent /\ TCmd /\ TTurn /\ TLoop /\ TView /\ TChain /\ TDrawn /\ TBroken /\ TFaults
  BY TypeParts DEF IInv
<1>a. TypeOK
  BY DEF IInv
<1>b. InTurn
  BY DEF RejectHandoff, Live, InTurn
<1>c. Say("result", {HandoffUse}) \in Message /\ <<Say("result", {HandoffUse})>> \in Seq(Message)
  BY <1>b, TurnIs
<1>2. TStore' /\ TLease' /\ TCurrent' /\ TCmd' /\ TTurn' /\ TDrawn' /\ TBroken' /\ TFaults'
  BY <1>a, Frames DEF RejectHandoff, storeVars, leaseVars, loopVars
<1>3. TLoop'
  BY <1>1 DEF RejectHandoff, TLoop
<1>4. TView'
  BY <1>1, <1>c DEF RejectHandoff, TView
<1>5. TChain'
  BY <1>a, <1>c, RequestType DEF RejectHandoff
<1> QED
  BY <1>2, <1>3, <1>4, <1>5, TypePartsNext

(* A handoff that is accepted.                                             *)
LEMMA SaveHandoffType ==
  ASSUME IInv, SaveHandoff
  PROVE  TypeOK'
<1>1. TStore /\ TLease /\ TCurrent /\ TCmd /\ TTurn /\ TLoop /\ TView /\ TChain /\ TDrawn /\ TBroken /\ TFaults
  BY TypeParts DEF IInv
<1>a. TypeOK
  BY DEF IInv
<1>b. InTurn
  BY DEF SaveHandoff, Live, InTurn
<1>c. <<Say("result", {HandoffUse})>> \in Seq(Message)
  BY <1>b, TurnIs
<1>2. TStore' /\ TLease' /\ TCurrent' /\ TCmd' /\ TTurn' /\ TView' /\ TDrawn' /\ TBroken' /\ TFaults'
  BY <1>a, Frames DEF SaveHandoff, storeVars, leaseVars, loopVars
<1>3. TLoop'
  BY <1>1 DEF SaveHandoff, TLoop
<1>4. TChain'
  BY <1>a, <1>c, RequestType DEF SaveHandoff
<1> QED
  BY <1>2, <1>3, <1>4, TypePartsNext

(* The result is there.                                                    *)
LEMMA SettleType ==
  ASSUME IInv, Settle
  PROVE  TypeOK'
<1>1. TStore /\ TLease /\ TCurrent /\ TCmd /\ TTurn /\ TLoop /\ TView /\ TChain /\ TDrawn /\ TBroken /\ TFaults
  BY TypeParts DEF IInv
<1>a. TypeOK
  BY DEF IInv
<1>b. /\ << >> \in Seq(Message)
      /\ turn.outcome = "completed" => <<Last(view)>> \in Seq(Message)
  <2>1. ASSUME turn.outcome = "completed"  PROVE <<Last(view)>> \in Seq(Message)
    <3>1. view \in Seq(Message) /\ view # << >>
      BY <1>1, <2>1 DEF IInv, Control, TView
    <3>2. view[Len(view)] \in Message
      BY <3>1
    <3> QED
      BY <3>2 DEF Last
  <2> QED
    BY <2>1
<1>2. TStore' /\ TLease' /\ TCurrent' /\ TCmd' /\ TLoop' /\ TView' /\ TDrawn' /\ TBroken' /\ TFaults'
  BY <1>a, Frames DEF Settle, storeVars, leaseVars, loopVars
<1>3. TTurn'
  BY <1>1 DEF Settle, TTurn, TurnType
<1>4. TChain'
  BY <1>a, <1>b, RequestType DEF Settle
<1> QED
  BY <1>2, <1>3, <1>4, TypePartsNext

(* A checkpoint.                                                           *)
LEMMA CommitSaveType ==
  ASSUME IInv, CommitSave
  PROVE  TypeOK'
<1>1. TStore /\ TLease /\ TCurrent /\ TCmd /\ TTurn /\ TLoop /\ TView /\ TChain /\ TDrawn /\ TBroken /\ TFaults
  BY TypeParts DEF IInv
<1>a. TypeOK
  BY DEF IInv
<1>b. InTurn
  <2>1. 1 \in DOMAIN chain /\ chain # << >>
    BY <1>a, HeadType DEF CommitSave, HeadIs
  <2> QED
    BY <2>1 DEF IInv, Control, InTurn, Ending
<1>c. turn.id \in TurnId /\ turn.session \in Session /\ db[turn.session] \in Record /\ turn \in TurnType
  BY <1>b, TurnIs
<1>d. /\ chain[1].messages \in Seq(Message)
      /\ Tail(chain) \in Seq([kind : {"save", "handoff", "finish"}, messages : Seq(Message)])
      /\ Append(Tail(chain), chain[1]) \in Seq([kind : {"save", "handoff", "finish"}, messages : Seq(Message)])
      /\ \A messages : Forget(messages) \in Seq(Message)
  BY <1>a, HeadType DEF CommitSave
<1>e. [db[turn.session] EXCEPT !.messages = AppendUnique(@, chain[1].messages)] \in Record
  BY <1>c, <1>d, SavedIs
<1>f. Live => loop \in {"saveCalls", "saveStep"} /\ (loop = "saveCalls" => Last(view).uses \in {Calls, {HandoffUse}})
  BY DEF IInv, Control, Waiting, CommitSave, HeadIs
<1>2. TLease' /\ TCmd' /\ TDrawn' /\ TBroken'
  BY <1>a, Frames DEF CommitSave, storeVars, leaseVars, loopVars
<1>3. TStore'
  BY <1>a, <1>c, <1>e, WriteType DEF CommitSave, Committed, Refused, Lost, Late
<1>4. TCurrent'
  BY <1>a, <1>c, <1>e, CurrentType, Frames DEF CommitSave, LoopFails
<1>5. TTurn'
  BY <1>a, <1>1, LoopFailsType DEF CommitSave, TTurn
<1>6. TLoop'
  BY <1>1, <1>f DEF CommitSave, LoopFails, AfterSave, TLoop
<1>7. TView'
  BY <1>a, Frames DEF CommitSave, LoopFails
<1>8. TChain'
  BY <1>1, <1>d DEF CommitSave, LoopFails, TChain
<1>9. TFaults'
  BY <1>a, FaultsType DEF CommitSave, Committed, Refused, Lost, Late
<1> QED
  BY <1>2, <1>3, <1>4, <1>5, <1>6, <1>7, <1>8, <1>9, TypePartsNext

(* A handoff.                                                              *)
LEMMA CommitHandoffType ==
  ASSUME IInv, CommitHandoff
  PROVE  TypeOK'
<1>1. TStore /\ TLease /\ TCurrent /\ TCmd /\ TTurn /\ TLoop /\ TView /\ TChain /\ TDrawn /\ TBroken /\ TFaults
  BY TypeParts DEF IInv
<1>a. TypeOK
  BY DEF IInv
<1>b. InTurn
  <2>1. 1 \in DOMAIN chain /\ chain # << >>
    BY <1>a, HeadType DEF CommitHandoff, HeadIs
  <2> QED
    BY <2>1 DEF IInv, Control, InTurn, Ending
<1>c. turn.id \in TurnId /\ turn.session \in Session /\ db[turn.session] \in Record /\ turn \in TurnType
  BY <1>b, TurnIs
<1>d. /\ chain[1].messages \in Seq(Message)
      /\ Tail(chain) \in Seq([kind : {"save", "handoff", "finish"}, messages : Seq(Message)])
      /\ Append(Tail(chain), chain[1]) \in Seq([kind : {"save", "handoff", "finish"}, messages : Seq(Message)])
      /\ \A messages : Forget(messages) \in Seq(Message)
  BY <1>a, HeadType DEF CommitHandoff
<1>e. [db[turn.session] EXCEPT !.messages = AppendUnique(@, chain[1].messages), !.agent = "target"] \in Record
  BY <1>c, <1>d, SavedIs
<1>f. view \o chain[1].messages \in Seq(Message)
  BY <1>1, <1>d DEF TView
<1>2. TLease' /\ TCmd' /\ TDrawn' /\ TBroken'
  BY <1>a, Frames DEF CommitHandoff, storeVars, leaseVars, loopVars
<1>3. TStore'
  BY <1>a, <1>c, <1>e, WriteType DEF CommitHandoff, Committed, Refused, Lost, Late
<1>4. TCurrent'
  BY <1>a, <1>c, <1>e, CurrentType, Frames DEF CommitHandoff, LoopFails
<1>5. TTurn'
  BY <1>a, <1>1, LoopFailsType, ZenonT(40) DEF CommitHandoff, TTurn, TurnType, Agent
<1>6. TLoop'
  BY <1>1 DEF CommitHandoff, LoopFails, TLoop
<1>7. TView'
  BY <1>a, <1>1, <1>f, Frames DEF CommitHandoff, LoopFails, TView
<1>8. TChain'
  BY <1>1, <1>d DEF CommitHandoff, LoopFails, TChain
<1>9. TFaults'
  BY <1>a, FaultsType DEF CommitHandoff, Committed, Refused, Lost, Late
<1> QED
  BY <1>2, <1>3, <1>4, <1>5, <1>6, <1>7, <1>8, <1>9, TypePartsNext

(* The end of a turn.                                                      *)
LEMMA CommitFinishType ==
  ASSUME IInv, NEW transition \in BOOLEAN, CommitFinish(transition)
  PROVE  TypeOK'
<1>1. TStore /\ TLease /\ TCurrent /\ TCmd /\ TTurn /\ TLoop /\ TView /\ TChain /\ TDrawn /\ TBroken /\ TFaults
  BY TypeParts DEF IInv
<1>a. TypeOK
  BY DEF IInv
<1>b. InTurn
  <2>1. 1 \in DOMAIN chain /\ chain # << >>
    BY <1>a, HeadType DEF CommitFinish, HeadIs
  <2> QED
    BY <2>1 DEF IInv, Control, InTurn, Ending
<1>c. turn.id \in TurnId /\ turn.session \in Session /\ db[turn.session] \in Record /\ turn \in TurnType
  BY <1>b, TurnIs
<1>d. /\ chain[1].messages \in Seq(Message)
      /\ Tail(chain) \in Seq([kind : {"save", "handoff", "finish"}, messages : Seq(Message)])
      /\ Append(Tail(chain), chain[1]) \in Seq([kind : {"save", "handoff", "finish"}, messages : Seq(Message)])
      /\ \A messages : Forget(messages) \in Seq(Message)
  BY <1>a, HeadType DEF CommitFinish
<1>e. Finished(db[turn.session], turn.id, turn.outcome, turn.agent, turn.handed, transition) \in Record
        \/ turn.pc # "finish"
  <2>1. turn.pc = "finish" => turn.outcome \in Status
    BY <1>c DEF IInv, Control, TurnType, Status
  <2> QED
    BY <1>1, <1>c, <2>1, FinishedIs DEF TurnType, TChain
<1>f. Initial(db[turn.session], turn.id) \in Agent
  <2>1. PICK i \in DOMAIN db[turn.session].turns : db[turn.session].turns[i].id = turn.id
    <3>1. turn.pc # "run" => turn.pc \in {"finish", "giveUp", "refinish"}
      <4>1. 1 \in DOMAIN chain /\ chain # << >>
        BY <1>a, HeadType DEF CommitFinish, HeadIs
      <4> QED
        BY <4>1 DEF IInv, Control, Ending
    <3> QED
      BY <3>1 DEF IInv, TurnsInv, Written
  <2>2. OfTurn(db[turn.session], turn.id) \in DOMAIN db[turn.session].turns
    BY <2>1 DEF OfTurn
  <2>3. \A k \in DOMAIN db[turn.session].turns : db[turn.session].turns[k] \in PersistedTurn
    BY <1>c, RecordIs
  <2> QED
    BY <2>2, <2>3 DEF Initial, PersistedTurn
<1>g. Finished(db[turn.session], turn.id, "failed", Initial(db[turn.session], turn.id), FALSE, FALSE) \in Record
  BY <1>1, <1>c, <1>f, FinishedIs DEF TChain, Status
<1>h. (IF turn.pc = "finish"
         THEN Finished(db[turn.session], turn.id, turn.outcome, turn.agent, turn.handed, transition)
         ELSE Finished(db[turn.session], turn.id, "failed", Initial(db[turn.session], turn.id), FALSE, FALSE)) \in Record
  BY <1>e, <1>g
<1>2. TLease' /\ TCmd' /\ TDrawn'
  BY <1>a, Frames DEF CommitFinish, storeVars, leaseVars, loopVars
<1>3. TStore'
  BY <1>a, <1>c, <1>h, WriteType DEF CommitFinish, Committed, Lost, Late
<1>4. TCurrent'
  BY <1>a, <1>c, <1>h, CurrentType, Frames DEF CommitFinish
<1>5. TTurn'
  BY <1>1, EndedType DEF CommitFinish, TTurn, TurnType
<1>6. TLoop'
  BY <1>a, EndedType, Frames DEF CommitFinish
<1>7. TView'
  BY <1>a, EndedType, Frames DEF CommitFinish
<1>8. TChain'
  BY <1>1, <1>d, EndedType DEF CommitFinish, TChain
<1>9. TBroken'
  BY <1>1, <1>c DEF CommitFinish, TBroken
<1>10. TFaults'
  BY <1>a, FaultsType DEF CommitFinish, Committed, Lost, Late
<1> QED
  BY <1>2, <1>3, <1>4, <1>5, <1>6, <1>7, <1>8, <1>9, <1>10, TypePartsNext

(* The end of the process.                                                 *)
LEMMA CrashType ==
  ASSUME IInv, Crash
  PROVE  TypeOK'
<1>1. TStore /\ TLease /\ TCurrent /\ TCmd /\ TTurn /\ TLoop /\ TView /\ TChain /\ TDrawn /\ TBroken /\ TFaults
  BY TypeParts DEF IInv
<1>a. TypeOK
  BY DEF IInv
<1>b. drawn.sessions + 1 \in Session /\ EmptyRecord \in Record
  BY <1>a, NextSession, EmptyType DEF Crash
<1>2. TStore'
  BY <1>a, Frames DEF Crash, storeVars, leaseVars, loopVars
<1>3. TLease'
  BY <1>1 DEF Crash, TLease
<1>4. TCurrent'
  BY <1>b, CurrentType DEF Crash, NextDraft
<1>5. TCmd'
  BY EndedType DEF Crash
<1>6. TTurn'
  BY EndedType DEF Crash
<1>7. TLoop'
  BY EndedType DEF Crash
<1>8. TView'
  BY EndedType DEF Crash
<1>9. TChain'
  BY EndedType DEF Crash
<1>10. TDrawn'
  BY <1>1, <1>b DEF Crash, NextDraft, TDrawn
<1>11. TBroken'
  BY <1>1 DEF Crash, TBroken, TTurn, TurnType
<1>12. TFaults'
  BY <1>1, SessionAssumption DEF Crash, TFaults
<1> QED
  BY <1>2, <1>3, <1>4, <1>5, <1>6, <1>7, <1>8, <1>9, <1>10, <1>11, <1>12, TypePartsNext

(* Every step keeps the types.                                             *)
LEMMA TypeStep ==
  ASSUME IInv, [Next]_vars
  PROVE  TypeOK'
<1>1. CASE UNCHANGED vars
  BY <1>1 DEF IInv, TypeOK, vars, storeVars, leaseVars, loopVars
<1>2. ASSUME Commands  PROVE TypeOK'
  BY <1>2, BeginCommandType, OpenForCommandType, MaterializeType, MutateType, AttachForCommandType, NewDraftType,
     DeleteCurrentType, ResumeType DEF Commands
<1>3. ASSUME Turns  PROVE TypeOK'
  BY <1>3, BeginTurnType, OpenForTurnType, StartTurnType, AttachForTurnType, CreateAgentType, AnswerType,
     CallToolsType, EndType, ResultType, RejectHandoffType, SaveHandoffType DEF Turns
<1>4. ASSUME Commits  PROVE TypeOK'
  BY <1>4, CommitSaveType, CommitHandoffType, CommitFinishType DEF Commits
<1> QED
  BY <1>1, <1>2, <1>3, <1>4, SettleType, CrashType DEF Next

-----------------------------------------------------------------------------
(* Control: what the turn, the command, the loop and the coordinator know  *)
(* of each other.                                                          *)

(* The rest of a sequence, and what is appended to one.                    *)
LEMMA TailIs ==
  ASSUME NEW E, NEW q \in Seq(E), q # << >>
  PROVE  /\ 1 \in DOMAIN q /\ Tail(q) \in Seq(E)
         /\ \A i \in DOMAIN Tail(q) : \E j \in DOMAIN q : Tail(q)[i] = q[j]
         /\ Len(q) = 1 => Tail(q) = << >>
<1>1. Len(q) \in Nat \ {0} /\ DOMAIN q = 1 .. Len(q)
  OBVIOUS
<1>2. /\ Tail(q) \in Seq(E) /\ Len(Tail(q)) = Len(q) - 1 /\ DOMAIN Tail(q) = 1 .. Len(q) - 1
      /\ \A i \in 1 .. Len(q) - 1 : Tail(q)[i] = q[i + 1]
  OBVIOUS
<1>5. Len(q) = 1 => Tail(q) = << >>
  BY <1>1, <1>2
<1>6. \A i \in 1 .. Len(q) - 1 : i + 1 \in 1 .. Len(q)
  BY <1>1
<1> QED
  BY <1>1, <1>2, <1>5, <1>6

(* What is appended to.                                                    *)
LEMMA LongerIs ==
  ASSUME NEW E, NEW q \in Seq(E), NEW r \in Seq(E), q # << >>
  PROVE  q \o r # << >>
<1>1. Len(q) \in Nat \ {0} /\ Len(r) \in Nat /\ Len(q \o r) = Len(q) + Len(r)
  OBVIOUS
<1> QED
  BY <1>1

(* BeginCommand keeps the control.                                         *)
LEMMA BeginCommandControl ==
  ASSUME IInv, NEW op \in Op, BeginCommand(op)
  PROVE  Control'
<1>1. Control /\ TTurn /\ TCmd /\ TChain /\ TView /\ TDrawn
  BY TypeParts DEF IInv
<1> QED
  BY <1>1, SMTT(20) DEF BeginCommand, MustOpen, Op, TTurn, TurnType, TCmd, TChain, TView, TDrawn,
     Control, Waiting, InTurn, Ending, Live, NoTurn, NoCommand, storeVars, leaseVars, loopVars

(* OpenForCommand keeps the control.                                       *)
LEMMA OpenForCommandControl ==
  ASSUME IInv, OpenForCommand
  PROVE  Control'
<1>1. Control /\ TTurn /\ TCmd /\ TChain /\ TView /\ TDrawn
  BY TypeParts DEF IInv
<1>2. /\ cmd' = [cmd EXCEPT !.pc = "materialize"] \/ cmd' = [cmd EXCEPT !.pc = "mutate"] \/ cmd' = NoCommand
      /\ cmd.pc = "open" /\ UNCHANGED <<current, turn, loop, view, chain, pending, drawn>>
  BY Zenon DEF OpenForCommand, Opens, loopVars
<1>3. cmd'.op \in {cmd.op, "none"} /\ (cmd'.op = "none" <=> cmd'.pc = "done")
  BY <1>1, <1>2 DEF Control, NoCommand, TCmd
<1>4. Waiting => Waiting'
  BY <1>2 DEF Waiting
<1> QED
  BY <1>1, <1>2, <1>3, <1>4 DEF Control, InTurn, Ending, Live

(* Materialize keeps the control.                                          *)
LEMMA MaterializeControl ==
  ASSUME IInv, Materialize
  PROVE  Control'
<1>1. Control /\ TTurn /\ TCmd /\ TChain /\ TView /\ TDrawn
  BY TypeParts DEF IInv
<1> QED
  BY <1>1, SMTT(20) DEF Materialize, TTurn, TurnType, TCmd, TChain, TView, TDrawn, Control, Waiting,
     InTurn, Ending, Live, NoTurn, NoCommand, storeVars, leaseVars, loopVars

(* Mutate keeps the control.                                               *)
LEMMA MutateControl ==
  ASSUME IInv, Mutate
  PROVE  Control'
<1>1. Control /\ TTurn /\ TCmd /\ TChain /\ TView /\ TDrawn
  BY TypeParts DEF IInv
<1> QED
  BY <1>1, SMTT(20) DEF Mutate, Loaded, TTurn, TurnType, TCmd, TChain, TView, TDrawn, Control, Waiting,
     InTurn, Ending, Live, NoTurn, NoCommand, storeVars, leaseVars, loopVars

(* AttachForCommand keeps the control.                                     *)
LEMMA AttachForCommandControl ==
  ASSUME IInv, AttachForCommand
  PROVE  Control'
<1>1. Control /\ TTurn /\ TCmd /\ TChain /\ TView /\ TDrawn
  BY TypeParts DEF IInv
<1>2. cmd' = NoCommand /\ UNCHANGED <<current, turn, loop, view, chain, pending, drawn>>
  BY Zenon DEF AttachForCommand, Attaches, loopVars
<1>3. cmd'.op = "none" /\ cmd'.pc = "done"
  BY <1>2 DEF NoCommand
<1>4. Waiting => Waiting'
  BY <1>2 DEF Waiting
<1> QED
  BY <1>1, <1>2, <1>3, <1>4 DEF Control, InTurn, Ending, Live

(* NewDraft keeps the control.                                             *)
LEMMA NewDraftControl ==
  ASSUME IInv, NewDraft
  PROVE  Control'
<1>1. Control /\ TTurn /\ TCmd /\ TChain /\ TView /\ TDrawn
  BY TypeParts DEF IInv
<1> QED
  BY <1>1, SMTT(20) DEF NewDraft, Resting, TTurn, TurnType, TCmd, TChain, TView, TDrawn, Control,
     Waiting, InTurn, Ending, Live, NoTurn, NoCommand, storeVars, leaseVars, loopVars

(* DeleteCurrent keeps the control.                                        *)
LEMMA DeleteCurrentControl ==
  ASSUME IInv, DeleteCurrent
  PROVE  Control'
<1>1. Control /\ TTurn /\ TCmd /\ TChain /\ TView /\ TDrawn
  BY TypeParts DEF IInv
<1> QED
  BY <1>1, SMTT(20) DEF DeleteCurrent, Resting, TTurn, TurnType, TCmd, TChain, TView, TDrawn, Control,
     Waiting, InTurn, Ending, Live, NoTurn, NoCommand, storeVars, leaseVars, loopVars

(* Resume keeps the control.                                               *)
LEMMA ResumeControl ==
  ASSUME IInv, NEW s \in Session, Resume(s)
  PROVE  Control'
<1>1. Control /\ TTurn /\ TCmd /\ TChain /\ TView /\ TDrawn
  BY TypeParts DEF IInv
<1> QED
  BY <1>1, SMTT(20) DEF Resume, Resting, Loaded, TTurn, TurnType, TCmd, TChain, TView, TDrawn, Control,
     Waiting, InTurn, Ending, Live, NoTurn, NoCommand, storeVars, leaseVars, loopVars

(* BeginTurn keeps the control.                                            *)
LEMMA BeginTurnControl ==
  ASSUME IInv, BeginTurn
  PROVE  Control'
<1>1. Control /\ TTurn /\ TCmd /\ TChain /\ TView /\ TDrawn
  BY TypeParts DEF IInv
<1>2. /\ turn' = NoTurn \/ turn' = [NoTurn EXCEPT !.pc = "open"]
         \/ turn' = [NoTurn EXCEPT !.pc = "start", !.id = drawn.turns + 1, !.session = current.id, !.draft = current.draft]
      /\ ~InTurn /\ cmd.op \in {"none", "mode"} /\ UNCHANGED <<current, cmd, loop, chain, pending>>
      /\ drawn.turns < MaxTurns
      /\ turn' = [NoTurn EXCEPT !.pc = "start", !.id = drawn.turns + 1, !.session = current.id, !.draft = current.draft]
           => drawn' = [drawn EXCEPT !.turns = @ + 1]
      /\ turn' = [NoTurn EXCEPT !.pc = "open"] => UNCHANGED drawn
  BY <1>1 DEF BeginTurn, Opens, loopVars, InTurn, Control, NoTurn
<1>3. /\ NoTurn.pc = "idle" /\ NoTurn.id = 0 /\ NoTurn.session = NoSession /\ NoTurn.outcome = "none"
      /\ [NoTurn EXCEPT !.pc = "open"].pc = "open" /\ [NoTurn EXCEPT !.pc = "open"].id = 0
      /\ [NoTurn EXCEPT !.pc = "open"].session = NoSession /\ [NoTurn EXCEPT !.pc = "open"].outcome = "none"
  BY DEF NoTurn
<1> DEFINE t == [NoTurn EXCEPT !.pc = "start", !.id = drawn.turns + 1, !.session = current.id, !.draft = current.draft]
<1>4. t.pc = "start" /\ t.id = drawn.turns + 1 /\ t.session = current.id /\ t.outcome = "none"
  BY DEF NoTurn
<1>5. drawn.turns + 1 # 0 /\ (turn' = t => drawn'.turns = drawn.turns + 1)
  BY <1>1, <1>2 DEF TDrawn
<1>6. chain' = << >> /\ pending' = << >> /\ loop' = "off"
  BY <1>1, <1>2 DEF Control, InTurn, Ending
<1> HIDE DEF t
<1>7. CASE turn' = NoTurn
  BY <1>1, <1>2, <1>3, <1>6, <1>7 DEF Control, InTurn, Ending, Live, Waiting
<1>8. CASE turn' = [NoTurn EXCEPT !.pc = "open"]
  BY <1>1, <1>2, <1>3, <1>6, <1>8 DEF Control, InTurn, Ending, Live, Waiting
<1>9. CASE turn' = t
  BY <1>1, <1>2, <1>4, <1>5, <1>6, <1>9 DEF Control, InTurn, Ending, Live, Waiting
<1> QED
  BY <1>2, <1>7, <1>8, <1>9 DEF t

(* OpenForTurn keeps the control.                                          *)
LEMMA OpenForTurnControl ==
  ASSUME IInv, OpenForTurn
  PROVE  Control'
<1>1. Control /\ TTurn /\ TCmd /\ TChain /\ TView /\ TDrawn
  BY TypeParts DEF IInv
<1>2. /\ turn' = NoTurn \/ turn' = [NoTurn EXCEPT !.pc = "open"]
         \/ turn' = [NoTurn EXCEPT !.pc = "start", !.id = drawn.turns + 1, !.session = current.id, !.draft = current.draft]
      /\ ~InTurn /\ cmd.op \in {"none", "mode"} /\ UNCHANGED <<current, cmd, loop, chain, pending>>
      /\ drawn.turns < MaxTurns
      /\ turn' = [NoTurn EXCEPT !.pc = "start", !.id = drawn.turns + 1, !.session = current.id, !.draft = current.draft]
           => drawn' = [drawn EXCEPT !.turns = @ + 1]
      /\ turn' = [NoTurn EXCEPT !.pc = "open"] => UNCHANGED drawn
  <2>1. \/ turn' = NoTurn /\ UNCHANGED drawn
        \/ /\ turn' = [NoTurn EXCEPT !.pc = "start", !.id = drawn.turns + 1, !.session = current.id, !.draft = current.draft]
           /\ drawn' = [drawn EXCEPT !.turns = @ + 1]
    BY Zenon DEF OpenForTurn, Opens
  <2>2. turn.pc = "open" /\ UNCHANGED <<current, cmd, loop, chain, pending>>
    BY DEF OpenForTurn, loopVars
  <2>3. ~InTurn /\ cmd.op \in {"none", "mode"} /\ drawn.turns < MaxTurns
    BY <1>1, <2>2 DEF InTurn, Control
  <2>4. NoTurn # [NoTurn EXCEPT !.pc = "open"]
    <3>1. NoTurn.pc = "idle" /\ [NoTurn EXCEPT !.pc = "open"].pc = "open"
      BY DEF NoTurn
    <3> QED
      BY <3>1
  <2>5. [NoTurn EXCEPT !.pc = "start", !.id = drawn.turns + 1, !.session = current.id, !.draft = current.draft]
          # [NoTurn EXCEPT !.pc = "open"]
    <3> DEFINE t == [NoTurn EXCEPT !.pc = "start", !.id = drawn.turns + 1, !.session = current.id, !.draft = current.draft]
    <3>1. t.pc = "start" /\ [NoTurn EXCEPT !.pc = "open"].pc = "open"
      BY DEF NoTurn
    <3> HIDE DEF t
    <3>2. t # [NoTurn EXCEPT !.pc = "open"]
      BY <3>1
    <3> QED
      BY <3>2 DEF t
  <2>6. [NoTurn EXCEPT !.pc = "start", !.id = drawn.turns + 1, !.session = current.id, !.draft = current.draft] # NoTurn
    <3> DEFINE t == [NoTurn EXCEPT !.pc = "start", !.id = drawn.turns + 1, !.session = current.id, !.draft = current.draft]
    <3>1. t.pc = "start" /\ NoTurn.pc = "idle"
      BY DEF NoTurn
    <3> HIDE DEF t
    <3>2. t # NoTurn
      BY <3>1
    <3> QED
      BY <3>2 DEF t
  <2> QED
    BY <2>1, <2>2, <2>3, <2>4, <2>5, <2>6, Zenon
<1>3. /\ NoTurn.pc = "idle" /\ NoTurn.id = 0 /\ NoTurn.session = NoSession /\ NoTurn.outcome = "none"
      /\ [NoTurn EXCEPT !.pc = "open"].pc = "open" /\ [NoTurn EXCEPT !.pc = "open"].id = 0
      /\ [NoTurn EXCEPT !.pc = "open"].session = NoSession /\ [NoTurn EXCEPT !.pc = "open"].outcome = "none"
  BY DEF NoTurn
<1> DEFINE t == [NoTurn EXCEPT !.pc = "start", !.id = drawn.turns + 1, !.session = current.id, !.draft = current.draft]
<1>4. t.pc = "start" /\ t.id = drawn.turns + 1 /\ t.session = current.id /\ t.outcome = "none"
  BY DEF NoTurn
<1>5. drawn.turns + 1 # 0 /\ (turn' = t => drawn'.turns = drawn.turns + 1)
  BY <1>1, <1>2 DEF TDrawn
<1>6. chain' = << >> /\ pending' = << >> /\ loop' = "off"
  BY <1>1, <1>2 DEF Control, InTurn, Ending
<1> HIDE DEF t
<1>7. CASE turn' = NoTurn
  BY <1>1, <1>2, <1>3, <1>6, <1>7 DEF Control, InTurn, Ending, Live, Waiting
<1>8. CASE turn' = [NoTurn EXCEPT !.pc = "open"]
  BY <1>1, <1>2, <1>3, <1>6, <1>8 DEF Control, InTurn, Ending, Live, Waiting
<1>9. CASE turn' = t
  BY <1>1, <1>2, <1>4, <1>5, <1>6, <1>9 DEF Control, InTurn, Ending, Live, Waiting
<1> QED
  BY <1>2, <1>7, <1>8, <1>9 DEF t

(* StartTurn keeps the control.                                            *)
LEMMA StartTurnControl ==
  ASSUME IInv, StartTurn
  PROVE  Control'
<1>1. Control /\ TTurn /\ TCmd /\ TChain /\ TView /\ TDrawn
  BY TypeParts DEF IInv
<1>2. /\ turn' = NoTurn \/ (turn'.pc \in {"attach", "create"} /\ turn'.id = turn.id
                              /\ turn'.session = turn.session /\ turn'.outcome = turn.outcome)
      /\ turn.pc \in {"start", "attach"} /\ UNCHANGED <<cmd, loop, chain, pending, drawn>> /\ current'.id = current.id
  <2>1. /\ turn.pc \in {"start", "attach"} /\ UNCHANGED <<cmd, loop, chain, pending>>
        /\ UNCHANGED current \/ \E r : current' = Loaded(turn.session, r)
    BY DEF StartTurn, loopVars
  <2>2. turn.session = current.id
    BY <1>1, <2>1 DEF Control, InTurn
  <2>3. current'.id = current.id
    BY <2>1, <2>2 DEF Loaded
  <2>4. turn' = NoTurn \/ (turn'.pc \in {"attach", "create"} /\ turn'.id = turn.id
                          /\ turn'.session = turn.session /\ turn'.outcome = turn.outcome)
    BY <1>1 DEF StartTurn, Attaches, Abandon, TTurn, TurnType
  <2>5. UNCHANGED drawn
    BY DEF StartTurn
  <2> QED
    BY <2>1, <2>3, <2>4, <2>5
<1>3. NoTurn.pc = "idle" /\ NoTurn.id = 0 /\ NoTurn.session = NoSession /\ NoTurn.outcome = "none"
  BY DEF NoTurn
<1>4. chain' = << >> /\ pending' = << >> /\ loop' = "off"
  BY <1>1, <1>2 DEF Control, Ending
<1>5. turn.outcome = "none"
  BY <1>1, <1>2 DEF Control, Ending
<1>6. CASE turn' = NoTurn
  BY <1>1, <1>2, <1>3, <1>4, <1>6 DEF Control, InTurn, Ending, Live, Waiting
<1>7. CASE turn' # NoTurn
  BY <1>1, <1>2, <1>4, <1>5, <1>7 DEF Control, InTurn, Ending, Live, Waiting
<1> QED
  BY <1>6, <1>7

(* AttachForTurn keeps the control.                                        *)
LEMMA AttachForTurnControl ==
  ASSUME IInv, AttachForTurn
  PROVE  Control'
<1>1. Control /\ TTurn /\ TCmd /\ TChain /\ TView /\ TDrawn
  BY TypeParts DEF IInv
<1>2. /\ turn' = NoTurn \/ (turn'.pc \in {"attach", "create"} /\ turn'.id = turn.id
                              /\ turn'.session = turn.session /\ turn'.outcome = turn.outcome)
      /\ turn.pc \in {"start", "attach"} /\ UNCHANGED <<cmd, loop, chain, pending, drawn>> /\ current'.id = current.id
  <2>1. /\ turn.pc \in {"start", "attach"} /\ UNCHANGED <<cmd, loop, chain, pending>>
        /\ UNCHANGED current \/ \E r : current' = Loaded(turn.session, r)
    BY DEF AttachForTurn, loopVars
  <2>2. turn.session = current.id
    BY <1>1, <2>1 DEF Control, InTurn
  <2>3. current'.id = current.id
    BY <2>1, <2>2 DEF Loaded
  <2>4. turn' = NoTurn \/ (turn'.pc \in {"attach", "create"} /\ turn'.id = turn.id
                          /\ turn'.session = turn.session /\ turn'.outcome = turn.outcome)
    BY <1>1 DEF AttachForTurn, Attaches, Abandon, TTurn, TurnType
  <2>5. UNCHANGED drawn
    BY DEF AttachForTurn
  <2> QED
    BY <2>1, <2>3, <2>4, <2>5
<1>3. NoTurn.pc = "idle" /\ NoTurn.id = 0 /\ NoTurn.session = NoSession /\ NoTurn.outcome = "none"
  BY DEF NoTurn
<1>4. chain' = << >> /\ pending' = << >> /\ loop' = "off"
  BY <1>1, <1>2 DEF Control, Ending
<1>5. turn.outcome = "none"
  BY <1>1, <1>2 DEF Control, Ending
<1>6. CASE turn' = NoTurn
  BY <1>1, <1>2, <1>3, <1>4, <1>6 DEF Control, InTurn, Ending, Live, Waiting
<1>7. CASE turn' # NoTurn
  BY <1>1, <1>2, <1>4, <1>5, <1>7 DEF Control, InTurn, Ending, Live, Waiting
<1> QED
  BY <1>6, <1>7

(* CreateAgent keeps the control.                                          *)
LEMMA CreateAgentControl ==
  ASSUME IInv, CreateAgent
  PROVE  Control'
<1>1. Control /\ TTurn /\ TCmd /\ TChain /\ TView /\ TDrawn
  BY TypeParts DEF IInv
<1> DEFINE o == [kind |-> "finish", messages |-> << >>]
<1>2. chain = << >> /\ chain' \in {<< >>, Append(<< >>, o)} /\ UNCHANGED <<current, cmd, view, drawn>>
  BY <1>1, Zenon DEF CreateAgent, Request, Control, Ending
<1>3. Append(<< >>, o) = <<o>> /\ <<o>>[1].kind = "finish" /\ DOMAIN <<o>> = {1} /\ DOMAIN << >> = {}
  OBVIOUS
<1> HIDE DEF o
<1>4. \/ turn'.pc = "run" /\ turn'.outcome = turn.outcome /\ loop' = "think" /\ chain' = << >> /\ pending' = pending
      \/ turn'.pc = "giveUp" /\ turn'.outcome = "failed"
  BY <1>1, <1>2 DEF CreateAgent, TTurn, TurnType
<1>5. turn'.id = turn.id /\ turn'.session = turn.session /\ turn.pc = "create" /\ turn.outcome # "completed"
  <2>1. turn'.id = turn.id /\ turn'.session = turn.session /\ turn.pc = "create"
    BY <1>1 DEF CreateAgent, TTurn, TurnType
  <2> QED
    BY <1>1, <2>1 DEF Control, Ending
<1>6. chain' = << >> \/ chain' = <<o>>
  BY <1>2, <1>3
<1> QED
  BY <1>1, <1>2, <1>3, <1>4, <1>5, <1>6 DEF Control, InTurn, Ending, Live, Waiting

(* Answer keeps the control.                                               *)
LEMMA AnswerControl ==
  ASSUME IInv, Answer
  PROVE  Control'
<1>1. Control /\ TTurn /\ TCmd /\ TChain /\ TView /\ TDrawn
  BY TypeParts DEF IInv
<1> QED
  BY <1>1, SMTT(20) DEF Answer, Say, TTurn, TurnType, TCmd, TChain, TView, TDrawn, Control, Waiting,
     InTurn, Ending, Live, NoTurn, NoCommand, storeVars, leaseVars, loopVars

(* CallTools keeps the control.                                            *)
LEMMA CallToolsControl ==
  ASSUME IInv, NEW uses \in {Calls, {HandoffUse}}, CallTools(uses)
  PROVE  Control'
<1>1. Control /\ TTurn /\ TCmd /\ TChain /\ TView /\ TDrawn
  BY TypeParts DEF IInv
<1> QED
  BY <1>1, SMTT(20) DEF CallTools, Request, Say, Last, TTurn, TurnType, TCmd, TChain, TView, TDrawn,
     Control, Waiting, InTurn, Ending, Live, NoTurn, NoCommand, storeVars, leaseVars, loopVars

(* Result keeps the control.                                               *)
LEMMA ResultControl ==
  ASSUME IInv, NEW u \in Calls, Result(u)
  PROVE  Control'
<1>1. Control /\ TTurn /\ TCmd /\ TChain /\ TView /\ TDrawn
  BY TypeParts DEF IInv
<1> QED
  BY <1>1, SMTT(20) DEF Result, Request, TTurn, TurnType, TCmd, TChain, TView, TDrawn, Control, Waiting,
     InTurn, Ending, Live, NoTurn, NoCommand, storeVars, leaseVars, loopVars

(* End keeps the control.                                                  *)
LEMMA EndControl ==
  ASSUME IInv, NEW outcome \in {"failed", "cancelled"}, End(outcome)
  PROVE  Control'
<1>1. Control /\ TTurn /\ TCmd /\ TChain /\ TView /\ TDrawn
  BY TypeParts DEF IInv
<1> QED
  BY <1>1, SMTT(20) DEF End, Request, TTurn, TurnType, TCmd, TChain, TView, TDrawn, Control, Waiting,
     InTurn, Ending, Live, NoTurn, NoCommand, storeVars, leaseVars, loopVars

(* RejectHandoff keeps the control.                                        *)
LEMMA RejectHandoffControl ==
  ASSUME IInv, RejectHandoff
  PROVE  Control'
<1>1. Control /\ TTurn /\ TCmd /\ TChain /\ TView /\ TDrawn
  BY TypeParts DEF IInv
<1> QED
  BY <1>1, SMTT(20) DEF RejectHandoff, Request, TTurn, TurnType, TCmd, TChain, TView, TDrawn, Control,
     Waiting, InTurn, Ending, Live, NoTurn, NoCommand, storeVars, leaseVars, loopVars

(* SaveHandoff keeps the control.                                          *)
LEMMA SaveHandoffControl ==
  ASSUME IInv, SaveHandoff
  PROVE  Control'
<1>1. Control /\ TTurn /\ TCmd /\ TChain /\ TView /\ TDrawn
  BY TypeParts DEF IInv
<1> QED
  BY <1>1, SMTT(20) DEF SaveHandoff, Request, TTurn, TurnType, TCmd, TChain, TView, TDrawn, Control,
     Waiting, InTurn, Ending, Live, NoTurn, NoCommand, storeVars, leaseVars, loopVars

(* Settle keeps the control.                                               *)
LEMMA SettleControl ==
  ASSUME IInv, Settle
  PROVE  Control'
<1>1. Control /\ TTurn /\ TCmd /\ TChain /\ TView /\ TDrawn
  BY TypeParts DEF IInv
<1> QED
  BY <1>1, SMTT(20) DEF Settle, Request, TTurn, TurnType, TCmd, TChain, TView, TDrawn, Control, Waiting,
     InTurn, Ending, Live, NoTurn, NoCommand, storeVars, leaseVars, loopVars

(* CommitSave keeps the control.                                           *)
LEMMA CommitSaveControl ==
  ASSUME IInv, CommitSave
  PROVE  Control'
<1>1. Control /\ TTurn /\ TCmd /\ TChain /\ TView /\ TDrawn
  BY TypeParts DEF IInv
<1> QED
  BY <1>1, SMTT(60) DEF CommitSave, HeadIs, LoopFails, AfterSave, Loaded, TTurn, TurnType, TCmd, TChain,
     TView, TDrawn, Control, Waiting, InTurn, Ending, Live, NoTurn, NoCommand, storeVars, leaseVars,
     loopVars

(* CommitHandoff keeps the control.                                        *)
LEMMA CommitHandoffControl ==
  ASSUME IInv, CommitHandoff
  PROVE  Control'
<1>1. Control /\ TTurn /\ TCmd /\ TChain /\ TView /\ TDrawn
  BY TypeParts DEF IInv
<1>2. /\ 1 \in DOMAIN chain /\ chain # << >> /\ chain[1].kind = "handoff"
      /\ Tail(chain) \in Seq([kind : {"save", "handoff", "finish"}, messages : Seq(Message)])
      /\ \A i \in DOMAIN Tail(chain) : \E j \in DOMAIN chain : Tail(chain)[i] = chain[j]
      /\ Len(chain) = 1 => Tail(chain) = << >>
  <2>1. chain # << >> /\ chain[1].kind = "handoff"
    BY DEF CommitHandoff, HeadIs
  <2>2. chain \in Seq([kind : {"save", "handoff", "finish"}, messages : Seq(Message)])
    BY <1>1 DEF TChain
  <2> DEFINE Queued == [kind : {"save", "handoff", "finish"}, messages : Seq(Message)]
  <2> HIDE DEF Queued
  <2>3. chain \in Seq(Queued)
    BY <2>2 DEF Queued
  <2> QED
    BY <2>1, <2>3, TailIs DEF Queued
<1>3. turn.pc = "run" \/ Ending
  BY <1>1, <1>2 DEF Control
<1>4. InTurn /\ turn.session = current.id
  BY <1>1, <1>3 DEF Ending, InTurn, Control
<1>5. UNCHANGED <<cmd, drawn>> /\ chain' = Tail(chain) /\ current'.id = current.id
  BY <1>4 DEF CommitHandoff, LoopFails, Loaded
<1>6. turn'.pc = turn.pc /\ turn'.id = turn.id /\ turn'.session = turn.session
  BY <1>1 DEF CommitHandoff, LoopFails, TTurn, TurnType
<1>7. /\ turn'.outcome # turn.outcome => turn'.outcome = "failed"
      /\ turn'.outcome = "none" => turn.outcome = "none" /\ (Live => loop' = "think")
  BY <1>1 DEF CommitHandoff, LoopFails, TTurn, TurnType, Live
<1>8. view # << >> => view' # << >>
  <2>0. view \in Seq(Message)
    BY <1>1 DEF TView
  <2>1. \A m \in Seq(Message) : view # << >> => view \o m # << >>
    <3> SUFFICES ASSUME view # << >>, NEW m \in Seq(Message)  PROVE view \o m # << >>
      OBVIOUS
    <3> QED
      BY <2>0, LongerIs, Zenon
  <2>2. chain[1].messages \in Seq(Message)
    BY HeadType DEF IInv, CommitHandoff
  <2> QED
    BY <2>1, <2>2 DEF CommitHandoff, LoopFails
<1>9. Live' => Waiting' /\ loop' = "think"
  <2>1. Live' => Live /\ loop' = "think" /\ chain' = << >>
    BY <1>1, <1>2, <1>5, <1>6, <1>7 DEF Live, Control, Waiting
  <2> QED
    BY <2>1 DEF Waiting
<1> QED
  BY <1>1, <1>2, <1>3, <1>4, <1>5, <1>6, <1>7, <1>8, <1>9 DEF Control, InTurn, Ending

(* CommitFinish keeps the control.                                         *)
LEMMA CommitFinishControl ==
  ASSUME IInv, NEW transition \in BOOLEAN, CommitFinish(transition)
  PROVE  Control'
<1>1. Control /\ TTurn /\ TCmd /\ TChain /\ TView /\ TDrawn
  BY TypeParts DEF IInv
<1>2. /\ 1 \in DOMAIN chain /\ chain # << >> /\ chain[1].kind = "finish"
      /\ Tail(chain) \in Seq([kind : {"save", "handoff", "finish"}, messages : Seq(Message)])
      /\ \A i \in DOMAIN Tail(chain) : \E j \in DOMAIN chain : Tail(chain)[i] = chain[j]
      /\ Len(chain) = 1 => Tail(chain) = << >>
  <2>1. chain # << >> /\ chain[1].kind = "finish"
    BY DEF CommitFinish, HeadIs
  <2>2. chain \in Seq([kind : {"save", "handoff", "finish"}, messages : Seq(Message)])
    BY <1>1 DEF TChain
  <2> DEFINE Queued == [kind : {"save", "handoff", "finish"}, messages : Seq(Message)]
  <2> HIDE DEF Queued
  <2>3. chain \in Seq(Queued)
    BY <2>2 DEF Queued
  <2> QED
    BY <2>1, <2>3, TailIs DEF Queued
<1>3. turn.pc = "run" \/ Ending
  BY <1>1, <1>2 DEF Control
<1>4. InTurn /\ turn.session = current.id
  BY <1>1, <1>3 DEF Ending, InTurn, Control
<1>5. UNCHANGED <<cmd, drawn>> /\ current'.id = current.id
  <2>1. UNCHANGED <<cmd, drawn>>
    BY DEF CommitFinish
  <2>2. UNCHANGED current \/ \E r : current' = Loaded(turn.session, r)
    BY Zenon DEF CommitFinish
  <2> QED
    BY <1>4, <2>1, <2>2 DEF Loaded
<1>6. Ending /\ (turn.pc = "finish" => turn.outcome # "none")
  BY <1>1, <1>2 DEF Control
<1>7. CASE EndTurn
  <2>1. NoTurn.pc = "idle" /\ NoTurn.id = 0 /\ NoTurn.session = NoSession /\ NoTurn.outcome = "none"
    BY DEF NoTurn
  <2>2. turn' = NoTurn /\ loop' = "off" /\ chain' = << >> /\ pending' = << >>
    BY <1>7 DEF EndTurn
  <2> QED
    BY <1>1, <1>5, <2>1, <2>2 DEF Control, InTurn, Ending, Live, Waiting
<1>8. CASE turn.pc = "finish" /\ turn' = [turn EXCEPT !.pc = "refinish"] /\ UNCHANGED <<view, loop>>
  <2>1. /\ turn'.pc = "refinish" /\ turn'.id = turn.id /\ turn'.session = turn.session
        /\ turn'.outcome = turn.outcome
    BY <1>1, <1>8 DEF TTurn, TurnType
  <2> QED
    BY <1>1, <1>5, <1>6, <1>8, <2>1 DEF Control, InTurn, Ending, Live
<1> QED
  BY <1>7, <1>8, Zenon DEF CommitFinish

(* Crash keeps the control.                                                *)
LEMMA CrashControl ==
  ASSUME IInv, Crash
  PROVE  Control'
<1>1. Control /\ TTurn /\ TCmd /\ TChain /\ TView /\ TDrawn
  BY TypeParts DEF IInv
<1> QED
  BY <1>1, SMTT(20) DEF Crash, EndTurn, TTurn, TurnType, TCmd, TChain, TView, TDrawn, Control, Waiting,
     InTurn, Ending, Live, NoTurn, NoCommand, storeVars, leaseVars, loopVars

(* Every step keeps the control.                                           *)
LEMMA ControlStep ==
  ASSUME IInv, [Next]_vars
  PROVE  Control'
<1>1. CASE UNCHANGED vars
  BY <1>1 DEF IInv, Control, Waiting, InTurn, Ending, Live, vars, storeVars, leaseVars, loopVars
<1>2. ASSUME Commands  PROVE Control'
  BY <1>2, BeginCommandControl, OpenForCommandControl, MaterializeControl, MutateControl, AttachForCommandControl,
     NewDraftControl, DeleteCurrentControl, ResumeControl DEF Commands
<1>3. ASSUME Turns  PROVE Control'
  BY <1>3, BeginTurnControl, OpenForTurnControl, StartTurnControl, AttachForTurnControl, CreateAgentControl,
     AnswerControl, CallToolsControl, EndControl, ResultControl, RejectHandoffControl, SaveHandoffControl DEF Turns
<1>4. ASSUME Commits  PROVE Control'
  BY <1>4, CommitSaveControl, CommitHandoffControl, CommitFinishControl DEF Commits
<1> QED
  BY <1>1, <1>2, <1>3, <1>4, SettleControl, CrashControl DEF Next

-----------------------------------------------------------------------------
(* The lease, and what the controller shows.                               *)

(* BeginCommand keeps the lease.                                           *)
LEMMA BeginCommandLease ==
  ASSUME IInv, NEW op \in Op, BeginCommand(op)
  PROVE  LeaseInv'
<1>1. LeaseInv /\ Control /\ TTurn /\ TCmd /\ TStore /\ TLease /\ TCurrent
  BY TypeParts DEF IInv
<1> QED
  BY <1>1, SMTT(20) DEF BeginCommand, MustOpen, Op, Works, Fails, Write, Committed, Late, Lost, Refused,
     Opens, Attaches, Hold, TTurn, TurnType, TCmd, TStore, TLease, TCurrent, Control, InTurn, LeaseInv,
     NoTurn, NoCommand, storeVars, leaseVars, loopVars, Session, NoSession

(* OpenForCommand keeps the lease.                                         *)
LEMMA OpenForCommandLease ==
  ASSUME IInv, OpenForCommand
  PROVE  LeaseInv'
<1>1. LeaseInv /\ Control /\ TTurn /\ TCmd /\ TStore /\ TLease /\ TCurrent
  BY TypeParts DEF IInv
<1> QED
  BY <1>1, SMTT(20) DEF OpenForCommand, Opens, Works, Fails, Write, Committed, Late, Lost, Refused,
     Opens, Attaches, Hold, TTurn, TurnType, TCmd, TStore, TLease, TCurrent, Control, InTurn, LeaseInv,
     NoTurn, NoCommand, storeVars, leaseVars, loopVars, Session, NoSession

(* Materialize keeps the lease.                                            *)
LEMMA MaterializeLease ==
  ASSUME IInv, Materialize
  PROVE  LeaseInv'
<1>1. LeaseInv /\ Control /\ TTurn /\ TCmd /\ TStore /\ TLease /\ TCurrent
  BY TypeParts DEF IInv
<1> QED
  BY <1>1, SMTT(20) DEF Materialize, CanCreate, Works, Fails, Write, Committed, Late, Lost, Refused,
     Opens, Attaches, Hold, TTurn, TurnType, TCmd, TStore, TLease, TCurrent, Control, InTurn, LeaseInv,
     NoTurn, NoCommand, storeVars, leaseVars, loopVars, Session, NoSession

(* Mutate keeps the lease.                                                 *)
LEMMA MutateLease ==
  ASSUME IInv, Mutate
  PROVE  LeaseInv'
<1>1. LeaseInv /\ Control /\ TTurn /\ TCmd /\ TStore /\ TLease /\ TCurrent
  BY TypeParts DEF IInv
<1> QED
  BY <1>1, SMTT(20) DEF Mutate, Loaded, MustAttach, Works, Fails, Write, Committed, Late, Lost, Refused,
     Opens, Attaches, Hold, TTurn, TurnType, TCmd, TStore, TLease, TCurrent, Control, InTurn, LeaseInv,
     NoTurn, NoCommand, storeVars, leaseVars, loopVars, Session, NoSession

(* AttachForCommand keeps the lease.                                       *)
LEMMA AttachForCommandLease ==
  ASSUME IInv, AttachForCommand
  PROVE  LeaseInv'
<1>1. LeaseInv /\ Control /\ TTurn /\ TCmd /\ TStore /\ TLease /\ TCurrent
  BY TypeParts DEF IInv
<1> QED
  BY <1>1, SMTT(20) DEF AttachForCommand, Attaches, Works, Fails, Write, Committed, Late, Lost, Refused,
     Opens, Attaches, Hold, TTurn, TurnType, TCmd, TStore, TLease, TCurrent, Control, InTurn, LeaseInv,
     NoTurn, NoCommand, storeVars, leaseVars, loopVars, Session, NoSession

(* NewDraft keeps the lease.                                               *)
LEMMA NewDraftLease ==
  ASSUME IInv, NewDraft
  PROVE  LeaseInv'
<1>1. LeaseInv /\ Control /\ TTurn /\ TCmd /\ TStore /\ TLease /\ TCurrent
  BY TypeParts DEF IInv
<1>2. attached \in Session => refs' = [refs EXCEPT ![attached] = 0]
  BY <1>1 DEF NewDraft, Without, LeaseInv, Session, NoSession
<1>3. attached = NoSession => refs' = refs
  BY DEF NewDraft, Without
<1>4. attached \in Session \/ attached = NoSession
  BY <1>1 DEF TLease
<1>5. \A s \in Session : refs'[s] = 0
  BY <1>1, <1>2, <1>3, <1>4 DEF LeaseInv, Session, NoSession
<1>6. refs' = [s \in Session |-> IF s = NoSession THEN 1 ELSE 0]
  <2>1. refs' = [s \in Session |-> refs'[s]]
    BY <1>1, <1>2, <1>3, <1>4 DEF TLease
  <2> QED
    BY <1>5, <2>1 DEF Session, NoSession
<1>7. attached' = NoSession /\ UNCHANGED <<stored, dirs, cmd, turn>> /\ turn.pc = "idle" /\ cmd.pc = "done"
  BY <1>1 DEF NewDraft, storeVars, Resting, NoCommand
<1> QED
  BY <1>1, <1>6, <1>7 DEF LeaseInv

(* DeleteCurrent keeps the lease.                                          *)
LEMMA DeleteCurrentLease ==
  ASSUME IInv, DeleteCurrent
  PROVE  LeaseInv'
<1>1. LeaseInv /\ Control /\ TTurn /\ TCmd /\ TStore /\ TLease /\ TCurrent
  BY TypeParts DEF IInv
<1> QED
  BY <1>1, SMTT(20) DEF DeleteCurrent, Resting, NextDraft, Without, Draft, Works, Fails, Write,
     Committed, Late, Lost, Refused, Opens, Attaches, Hold, TTurn, TurnType, TCmd, TStore, TLease,
     TCurrent, Control, InTurn, LeaseInv, NoTurn, NoCommand, storeVars, leaseVars, loopVars, Session,
     NoSession

(* Resume keeps the lease.                                                 *)
LEMMA ResumeLease ==
  ASSUME IInv, NEW s \in Session, Resume(s)
  PROVE  LeaseInv'
<1>1. LeaseInv /\ Control /\ TTurn /\ TCmd /\ TStore /\ TLease /\ TCurrent
  BY TypeParts DEF IInv
<1> QED
  BY <1>1, SMTT(20) DEF Resume, Resting, Loaded, Without, Works, Fails, Write, Committed, Late, Lost,
     Refused, Opens, Attaches, Hold, TTurn, TurnType, TCmd, TStore, TLease, TCurrent, Control, InTurn,
     LeaseInv, NoTurn, NoCommand, storeVars, leaseVars, loopVars, Session, NoSession

(* BeginTurn keeps the lease.                                              *)
LEMMA BeginTurnLease ==
  ASSUME IInv, BeginTurn
  PROVE  LeaseInv'
<1>1. LeaseInv /\ Control /\ TTurn /\ TCmd /\ TStore /\ TLease /\ TCurrent
  BY TypeParts DEF IInv
<1>2. /\ [NoTurn EXCEPT !.pc = "open"].pc = "open"
      /\ [NoTurn EXCEPT !.pc = "start", !.id = drawn.turns + 1, !.session = current.id, !.draft = current.draft].draft
           = current.draft
  BY DEF NoTurn
<1>3. turn'.pc = "start" /\ turn'.draft => ~MustOpen /\ current.draft
  BY <1>2 DEF BeginTurn
<1>4. UNCHANGED <<stored, dirs, refs, attached, cmd, current>>
  BY DEF BeginTurn, storeVars, leaseVars
<1> QED
  BY <1>1, <1>3, <1>4 DEF LeaseInv, MustOpen

(* OpenForTurn keeps the lease.                                            *)
LEMMA OpenForTurnLease ==
  ASSUME IInv, OpenForTurn
  PROVE  LeaseInv'
<1>1. LeaseInv /\ Control /\ TTurn /\ TCmd /\ TStore /\ TLease /\ TCurrent
  BY TypeParts DEF IInv
<1> QED
  BY <1>1, SMTT(20) DEF OpenForTurn, Opens, Works, Fails, Write, Committed, Late, Lost, Refused, Opens,
     Attaches, Hold, TTurn, TurnType, TCmd, TStore, TLease, TCurrent, Control, InTurn, LeaseInv, NoTurn,
     NoCommand, storeVars, leaseVars, loopVars, Session, NoSession

(* StartTurn keeps the lease.                                              *)
LEMMA StartTurnLease ==
  ASSUME IInv, StartTurn
  PROVE  LeaseInv'
<1>1. LeaseInv /\ Control /\ TTurn /\ TCmd /\ TStore /\ TLease /\ TCurrent
  BY TypeParts DEF IInv
<1>2. turn.pc = "start" /\ turn.session = current.id /\ turn.session \in Session
  BY <1>1 DEF StartTurn, Control, InTurn, TCurrent
<1>3. UNCHANGED <<dirs, refs, attached, cmd>>
  BY DEF StartTurn, leaseVars
<1>4. stored' \subseteq stored \cup {turn.session} /\ (turn.draft \/ turn.session \in stored \/ UNCHANGED stored)
  BY DEF StartTurn, Committed, Refused, Lost, Late, Write, storeVars
<1>5. UNCHANGED current \/ \E r : current' = Loaded(turn.session, r)
  BY Zenon DEF StartTurn
<1>6. current'.id = current.id
  BY <1>2, <1>5 DEF Loaded
<1>7. turn'.pc # "start"
  <2>1. turn' = NoTurn \/ turn'.pc \in {"attach", "create"}
    BY <1>1 DEF StartTurn, Abandon, TTurn, TurnType
  <2> QED
    BY <2>1 DEF NoTurn
<1>8. stored' \subseteq dirs
  BY <1>1, <1>2, <1>4 DEF LeaseInv, Session, NoSession
<1> QED
  BY <1>1, <1>3, <1>6, <1>7, <1>8 DEF LeaseInv

(* AttachForTurn keeps the lease.                                          *)
LEMMA AttachForTurnLease ==
  ASSUME IInv, AttachForTurn
  PROVE  LeaseInv'
<1>1. LeaseInv /\ Control /\ TTurn /\ TCmd /\ TStore /\ TLease /\ TCurrent
  BY TypeParts DEF IInv
<1> QED
  BY <1>1, SMTT(20) DEF AttachForTurn, Attaches, Abandon, Works, Fails, Write, Committed, Late, Lost,
     Refused, Opens, Attaches, Hold, TTurn, TurnType, TCmd, TStore, TLease, TCurrent, Control, InTurn,
     LeaseInv, NoTurn, NoCommand, storeVars, leaseVars, loopVars, Session, NoSession

(* CreateAgent keeps the lease.                                            *)
LEMMA CreateAgentLease ==
  ASSUME IInv, CreateAgent
  PROVE  LeaseInv'
<1>1. LeaseInv /\ Control /\ TTurn /\ TCmd /\ TStore /\ TLease /\ TCurrent
  BY TypeParts DEF IInv
<1>2. UNCHANGED <<stored, dirs, refs, attached, cmd, current>>
  BY DEF CreateAgent, storeVars, leaseVars
<1>3. turn'.pc # "start"
  BY <1>1 DEF CreateAgent, TTurn, TurnType
<1> QED
  BY <1>1, <1>2, <1>3 DEF LeaseInv

(* Answer keeps the lease.                                                 *)
LEMMA AnswerLease ==
  ASSUME IInv, Answer
  PROVE  LeaseInv'
<1>1. LeaseInv /\ Control /\ TTurn /\ TCmd /\ TStore /\ TLease /\ TCurrent
  BY TypeParts DEF IInv
<1> QED
  BY <1>1, SMTT(20) DEF Answer, Say, Works, Fails, Write, Committed, Late, Lost, Refused, Opens,
     Attaches, Hold, TTurn, TurnType, TCmd, TStore, TLease, TCurrent, Control, InTurn, LeaseInv, NoTurn,
     NoCommand, storeVars, leaseVars, loopVars, Session, NoSession

(* CallTools keeps the lease.                                              *)
LEMMA CallToolsLease ==
  ASSUME IInv, NEW uses \in {Calls, {HandoffUse}}, CallTools(uses)
  PROVE  LeaseInv'
<1>1. LeaseInv /\ Control /\ TTurn /\ TCmd /\ TStore /\ TLease /\ TCurrent
  BY TypeParts DEF IInv
<1> QED
  BY <1>1, SMTT(20) DEF CallTools, Request, Say, Last, Works, Fails, Write, Committed, Late, Lost,
     Refused, Opens, Attaches, Hold, TTurn, TurnType, TCmd, TStore, TLease, TCurrent, Control, InTurn,
     LeaseInv, NoTurn, NoCommand, storeVars, leaseVars, loopVars, Session, NoSession

(* Result keeps the lease.                                                 *)
LEMMA ResultLease ==
  ASSUME IInv, NEW u \in Calls, Result(u)
  PROVE  LeaseInv'
<1>1. LeaseInv /\ Control /\ TTurn /\ TCmd /\ TStore /\ TLease /\ TCurrent
  BY TypeParts DEF IInv
<1> QED
  BY <1>1, SMTT(20) DEF Result, Request, Works, Fails, Write, Committed, Late, Lost, Refused, Opens,
     Attaches, Hold, TTurn, TurnType, TCmd, TStore, TLease, TCurrent, Control, InTurn, LeaseInv, NoTurn,
     NoCommand, storeVars, leaseVars, loopVars, Session, NoSession

(* End keeps the lease.                                                    *)
LEMMA EndLease ==
  ASSUME IInv, NEW outcome \in {"failed", "cancelled"}, End(outcome)
  PROVE  LeaseInv'
<1>1. LeaseInv /\ Control /\ TTurn /\ TCmd /\ TStore /\ TLease /\ TCurrent
  BY TypeParts DEF IInv
<1> QED
  BY <1>1, SMTT(20) DEF End, Request, Works, Fails, Write, Committed, Late, Lost, Refused, Opens,
     Attaches, Hold, TTurn, TurnType, TCmd, TStore, TLease, TCurrent, Control, InTurn, LeaseInv, NoTurn,
     NoCommand, storeVars, leaseVars, loopVars, Session, NoSession

(* RejectHandoff keeps the lease.                                          *)
LEMMA RejectHandoffLease ==
  ASSUME IInv, RejectHandoff
  PROVE  LeaseInv'
<1>1. LeaseInv /\ Control /\ TTurn /\ TCmd /\ TStore /\ TLease /\ TCurrent
  BY TypeParts DEF IInv
<1> QED
  BY <1>1, SMTT(20) DEF RejectHandoff, Request, Works, Fails, Write, Committed, Late, Lost, Refused,
     Opens, Attaches, Hold, TTurn, TurnType, TCmd, TStore, TLease, TCurrent, Control, InTurn, LeaseInv,
     NoTurn, NoCommand, storeVars, leaseVars, loopVars, Session, NoSession

(* SaveHandoff keeps the lease.                                            *)
LEMMA SaveHandoffLease ==
  ASSUME IInv, SaveHandoff
  PROVE  LeaseInv'
<1>1. LeaseInv /\ Control /\ TTurn /\ TCmd /\ TStore /\ TLease /\ TCurrent
  BY TypeParts DEF IInv
<1> QED
  BY <1>1, SMTT(20) DEF SaveHandoff, Request, Works, Fails, Write, Committed, Late, Lost, Refused,
     Opens, Attaches, Hold, TTurn, TurnType, TCmd, TStore, TLease, TCurrent, Control, InTurn, LeaseInv,
     NoTurn, NoCommand, storeVars, leaseVars, loopVars, Session, NoSession

(* Settle keeps the lease.                                                 *)
LEMMA SettleLease ==
  ASSUME IInv, Settle
  PROVE  LeaseInv'
<1>1. LeaseInv /\ Control /\ TTurn /\ TCmd /\ TStore /\ TLease /\ TCurrent
  BY TypeParts DEF IInv
<1> QED
  BY <1>1, SMTT(20) DEF Settle, Request, Works, Fails, Write, Committed, Late, Lost, Refused, Opens,
     Attaches, Hold, TTurn, TurnType, TCmd, TStore, TLease, TCurrent, Control, InTurn, LeaseInv, NoTurn,
     NoCommand, storeVars, leaseVars, loopVars, Session, NoSession

(* CommitSave keeps the lease.                                             *)
LEMMA CommitSaveLease ==
  ASSUME IInv, CommitSave
  PROVE  LeaseInv'
<1>1. LeaseInv /\ Control /\ TTurn /\ TCmd /\ TStore /\ TLease /\ TCurrent
  BY TypeParts DEF IInv
<1>2. InTurn /\ turn.pc # "start" /\ turn.session = current.id
  <2>1. turn.pc = "run" \/ Ending
    BY HeadType DEF CommitSave, IInv, Control
  <2> QED
    BY <1>1, <2>1 DEF InTurn, Ending, Control
<1>3. UNCHANGED <<dirs, refs, attached, cmd>>
  BY DEF CommitSave, leaseVars
<1>4. stored' \subseteq stored \cup {turn.session} /\ turn.session \in stored
  <2>1. turn.session \in stored
    BY <1>2, HeadType DEF IInv, TurnsInv, Written, InTurn, Control, Ending, CommitSave
  <2>2. UNCHANGED stored \/ stored' = stored \cup {turn.session}
    BY Zenon DEF CommitSave, Committed, Refused, Lost, Late, Write, storeVars
  <2> QED
    BY <2>1, <2>2
<1>5. UNCHANGED current \/ \E r : current' = Loaded(turn.session, r)
  BY Zenon DEF CommitSave, LoopFails
<1>6. current'.id = current.id
  BY <1>2, <1>5 DEF Loaded
<1>7. turn'.pc # "start"
  <2>1. turn' = NoTurn \/ turn'.pc \in {turn.pc, "refinish"}
    BY <1>1 DEF CommitSave, LoopFails, EndTurn, TTurn, TurnType
  <2> QED
    BY <1>2, <2>1 DEF NoTurn
<1> QED
  BY <1>1, <1>3, <1>4, <1>6, <1>7 DEF LeaseInv

(* CommitHandoff keeps the lease.                                          *)
LEMMA CommitHandoffLease ==
  ASSUME IInv, CommitHandoff
  PROVE  LeaseInv'
<1>1. LeaseInv /\ Control /\ TTurn /\ TCmd /\ TStore /\ TLease /\ TCurrent
  BY TypeParts DEF IInv
<1>2. InTurn /\ turn.pc # "start" /\ turn.session = current.id
  <2>1. turn.pc = "run" \/ Ending
    BY HeadType DEF CommitHandoff, IInv, Control
  <2> QED
    BY <1>1, <2>1 DEF InTurn, Ending, Control
<1>3. UNCHANGED <<dirs, refs, attached, cmd>>
  BY DEF CommitHandoff, leaseVars
<1>4. stored' \subseteq stored \cup {turn.session} /\ turn.session \in stored
  <2>1. turn.session \in stored
    BY <1>2, HeadType DEF IInv, TurnsInv, Written, InTurn, Control, Ending, CommitHandoff
  <2>2. UNCHANGED stored \/ stored' = stored \cup {turn.session}
    BY Zenon DEF CommitHandoff, Committed, Refused, Lost, Late, Write, storeVars
  <2> QED
    BY <2>1, <2>2
<1>5. UNCHANGED current \/ \E r : current' = Loaded(turn.session, r)
  BY Zenon DEF CommitHandoff, LoopFails
<1>6. current'.id = current.id
  BY <1>2, <1>5 DEF Loaded
<1>7. turn'.pc # "start"
  <2>1. turn' = NoTurn \/ turn'.pc \in {turn.pc, "refinish"}
    BY <1>1 DEF CommitHandoff, LoopFails, EndTurn, TTurn, TurnType
  <2> QED
    BY <1>2, <2>1 DEF NoTurn
<1> QED
  BY <1>1, <1>3, <1>4, <1>6, <1>7 DEF LeaseInv

(* CommitFinish keeps the lease.                                           *)
LEMMA CommitFinishLease ==
  ASSUME IInv, NEW transition \in BOOLEAN, CommitFinish(transition)
  PROVE  LeaseInv'
<1>1. LeaseInv /\ Control /\ TTurn /\ TCmd /\ TStore /\ TLease /\ TCurrent
  BY TypeParts DEF IInv
<1>2. InTurn /\ turn.pc # "start" /\ turn.session = current.id
  <2>1. turn.pc = "run" \/ Ending
    BY HeadType DEF CommitFinish, IInv, Control
  <2> QED
    BY <1>1, <2>1 DEF InTurn, Ending, Control
<1>3. UNCHANGED <<dirs, refs, attached, cmd>>
  BY DEF CommitFinish, leaseVars
<1>4. stored' \subseteq stored \cup {turn.session} /\ turn.session \in stored
  <2>1. turn.session \in stored
    BY <1>2, HeadType DEF IInv, TurnsInv, Written, InTurn, Control, Ending, CommitFinish
  <2>2. UNCHANGED stored \/ stored' = stored \cup {turn.session}
    BY Zenon DEF CommitFinish, Committed, Refused, Lost, Late, Write, storeVars
  <2> QED
    BY <2>1, <2>2
<1>5. UNCHANGED current \/ \E r : current' = Loaded(turn.session, r)
  BY Zenon DEF CommitFinish, LoopFails
<1>6. current'.id = current.id
  BY <1>2, <1>5 DEF Loaded
<1>7. turn'.pc # "start"
  <2>1. turn' = NoTurn \/ turn'.pc \in {turn.pc, "refinish"}
    BY <1>1 DEF CommitFinish, LoopFails, EndTurn, TTurn, TurnType
  <2> QED
    BY <1>2, <2>1 DEF NoTurn
<1> QED
  BY <1>1, <1>3, <1>4, <1>6, <1>7 DEF LeaseInv

(* Crash keeps the lease.                                                  *)
LEMMA CrashLease ==
  ASSUME IInv, Crash
  PROVE  LeaseInv'
<1>1. LeaseInv /\ Control /\ TTurn /\ TCmd /\ TStore /\ TLease /\ TCurrent
  BY TypeParts DEF IInv
<1> QED
  BY <1>1, SMTT(20) DEF Crash, EndTurn, NextDraft, Draft, Works, Fails, Write, Committed, Late, Lost,
     Refused, Opens, Attaches, Hold, TTurn, TurnType, TCmd, TStore, TLease, TCurrent, Control, InTurn,
     LeaseInv, NoTurn, NoCommand, storeVars, leaseVars, loopVars, Session, NoSession

(* Every step keeps it.                                                    *)
LEMMA LeaseStep ==
  ASSUME IInv, [Next]_vars
  PROVE  LeaseInv'
<1>1. CASE UNCHANGED vars
  BY <1>1 DEF IInv, LeaseInv, vars, storeVars, leaseVars, loopVars
<1>2. ASSUME Commands  PROVE LeaseInv'
  BY <1>2, BeginCommandLease, OpenForCommandLease, MaterializeLease, MutateLease, AttachForCommandLease,
     NewDraftLease, DeleteCurrentLease, ResumeLease DEF Commands
<1>3. ASSUME Turns  PROVE LeaseInv'
  BY <1>3, BeginTurnLease, OpenForTurnLease, StartTurnLease, AttachForTurnLease, CreateAgentLease,
     AnswerLease, CallToolsLease, ResultLease, EndLease, RejectHandoffLease, SaveHandoffLease DEF Turns
<1>4. ASSUME Commits  PROVE LeaseInv'
  BY <1>4, CommitSaveLease, CommitHandoffLease, CommitFinishLease DEF Commits
<1> QED
  BY <1>1, <1>2, <1>3, <1>4, SettleLease, CrashLease DEF Next

(* What a step may do to the store and to what the controller shows.       *)
Takes == \E s \in Session : \E r : Write(s, r) /\ current' = Loaded(s, r)

(* What the controller shows stays fresh in a step that changes nothing,   *)
(* fails, or writes what it then shows.                                    *)
LEMMA FreshBy ==
  ASSUME IInv,
         \/ UNCHANGED <<db, stored, current>> /\ (Works \/ Fails(FALSE))
         \/ Fails(TRUE) \/ current'.draft \/ Takes
  PROVE  FreshInv'
<1>1. FreshInv /\ TStore /\ TFaults
  BY TypeParts DEF IInv
<1>2. CASE UNCHANGED <<db, stored, current>> /\ (Works \/ Fails(FALSE))
  <2>1. Works => faults'.late = faults.late
    BY DEF Works
  <2>2. Fails(FALSE) => faults'.late = (faults.late \/ FALSE)
    BY <1>1 DEF Fails, TFaults
  <2>3. faults'.late => faults.late
    BY <1>1, <1>2, <2>1, <2>2 DEF TFaults
  <2>4. ~faults'.late => ~faults.late
    <3>1. Fails(FALSE) => (faults.late => faults'.late)
      BY <2>2
    <3>2. Works => (faults.late => faults'.late)
      BY <2>1
    <3> QED
      BY <1>2, <3>1, <3>2
  <2> QED
    BY <1>1, <1>2, <2>4 DEF FreshInv
<1>3. CASE Fails(TRUE)
  <2>1. faults'.late = (faults.late \/ TRUE)
    BY <1>1, <1>3 DEF Fails, TFaults
  <2> QED
    BY <2>1 DEF FreshInv
<1>4. CASE current'.draft
  BY <1>4 DEF FreshInv
<1>5. CASE Takes
  BY <1>1, <1>5 DEF Takes, FreshInv, Write, Loaded, TStore
<1> QED
  BY <1>2, <1>3, <1>4, <1>5

(* BeginCommand keeps what the controller shows fresh.                     *)
LEMMA BeginCommandFresh ==
  ASSUME IInv, NEW op \in Op, BeginCommand(op)
  PROVE  FreshInv'
<1>1. FreshInv /\ Control /\ TStore /\ TCurrent /\ TFaults
  BY TypeParts DEF IInv
<1> QED
  BY <1>1, SMTT(20) DEF BeginCommand, MustOpen, Op, Works, Fails, Write, Committed, Late, Lost, Refused,
     Opens, Attaches, TStore, TCurrent, Control, InTurn, FreshInv, Loaded, Draft, TFaults, storeVars,
     leaseVars, loopVars

(* OpenForCommand keeps what the controller shows fresh.                   *)
LEMMA OpenForCommandFresh ==
  ASSUME IInv, OpenForCommand
  PROVE  FreshInv'
<1>1. FreshInv /\ Control /\ TStore /\ TCurrent /\ TFaults
  BY TypeParts DEF IInv
<1>2. UNCHANGED <<db, stored, current>> /\ (Works \/ Fails(FALSE))
  BY Zenon DEF OpenForCommand, Opens, Attaches, storeVars
<1> QED
  BY <1>2, FreshBy

(* Materialize keeps what the controller shows fresh.                      *)
LEMMA MaterializeFresh ==
  ASSUME IInv, Materialize
  PROVE  FreshInv'
<1>1. FreshInv /\ Control /\ TStore /\ TCurrent /\ TFaults
  BY TypeParts DEF IInv
<1>2. UNCHANGED current /\ current.id \in Session /\ cmd.pc = "materialize"
  BY <1>1 DEF Materialize, TCurrent
<1>3. \/ UNCHANGED <<db, stored>> /\ (Works \/ Fails(FALSE))
      \/ Fails(TRUE)
      \/ Works /\ current.id \notin stored /\ Write(current.id, EmptyRecord)
  BY Zenon DEF Materialize, Committed, Refused, Lost, Late, storeVars, CanCreate
<1>4. CASE Works /\ current.id \notin stored /\ Write(current.id, EmptyRecord)
  BY <1>1, <1>2, <1>4 DEF FreshInv, Works
<1> QED
  BY <1>2, <1>3, <1>4, FreshBy

(* Mutate keeps what the controller shows fresh.                           *)
LEMMA MutateFresh ==
  ASSUME IInv, Mutate
  PROVE  FreshInv'
<1>1. FreshInv /\ Control /\ TStore /\ TCurrent /\ TFaults
  BY TypeParts DEF IInv
<1>2. current.id \in Session
  BY <1>1 DEF TCurrent
<1>3. \/ UNCHANGED <<db, stored, current>> /\ (Works \/ Fails(FALSE))
      \/ Fails(TRUE)
      \/ Write(current.id, CommandReducer) /\ current' = Loaded(current.id, CommandReducer)
  BY Zenon DEF Mutate, Committed, Refused, Lost, Late, storeVars
<1>4. (Write(current.id, CommandReducer) /\ current' = Loaded(current.id, CommandReducer)) => Takes
  BY <1>2, Zenon DEF Takes
<1> QED
  BY <1>3, <1>4, FreshBy

(* AttachForCommand keeps what the controller shows fresh.                 *)
LEMMA AttachForCommandFresh ==
  ASSUME IInv, AttachForCommand
  PROVE  FreshInv'
<1>1. FreshInv /\ Control /\ TStore /\ TCurrent /\ TFaults
  BY TypeParts DEF IInv
<1>2. UNCHANGED <<db, stored, current>> /\ (Works \/ Fails(FALSE))
  BY Zenon DEF AttachForCommand, Opens, Attaches, storeVars
<1> QED
  BY <1>2, FreshBy

(* NewDraft keeps what the controller shows fresh.                         *)
LEMMA NewDraftFresh ==
  ASSUME IInv, NewDraft
  PROVE  FreshInv'
<1>1. FreshInv /\ Control /\ TStore /\ TCurrent /\ TFaults
  BY TypeParts DEF IInv
<1> QED
  BY <1>1, SMTT(20) DEF NewDraft, Resting, NextDraft, Without, Draft, Works, Fails, Write, Committed,
     Late, Lost, Refused, Opens, Attaches, TStore, TCurrent, Control, InTurn, FreshInv, Loaded, Draft,
     TFaults, storeVars, leaseVars, loopVars

(* DeleteCurrent keeps what the controller shows fresh.                    *)
LEMMA DeleteCurrentFresh ==
  ASSUME IInv, DeleteCurrent
  PROVE  FreshInv'
<1>1. FreshInv /\ Control /\ TStore /\ TCurrent /\ TFaults
  BY TypeParts DEF IInv
<1>2. \/ UNCHANGED <<db, stored, current>> /\ (Works \/ Fails(FALSE))
      \/ current' = Draft(drawn.sessions + 1)
  BY Zenon DEF DeleteCurrent, Lost, storeVars, NextDraft
<1>3. current' = Draft(drawn.sessions + 1) => current'.draft
  BY DEF Draft
<1> QED
  BY <1>2, <1>3, FreshBy

(* Resume keeps what the controller shows fresh.                           *)
LEMMA ResumeFresh ==
  ASSUME IInv, NEW s \in Session, Resume(s)
  PROVE  FreshInv'
<1>1. FreshInv /\ Control /\ TStore /\ TCurrent /\ TFaults
  BY TypeParts DEF IInv
<1>2. \/ UNCHANGED <<db, stored, current>> /\ (Works \/ Fails(FALSE))
      \/ Fails(TRUE)
      \/ Write(s, Repaired(db[s])) /\ current' = Loaded(s, Repaired(db[s]))
  BY Zenon DEF Resume, Committed, Lost, Late, storeVars
<1>3. (Write(s, Repaired(db[s])) /\ current' = Loaded(s, Repaired(db[s]))) => Takes
  BY Zenon DEF Takes
<1> QED
  BY <1>2, <1>3, FreshBy

(* BeginTurn keeps what the controller shows fresh.                        *)
LEMMA BeginTurnFresh ==
  ASSUME IInv, BeginTurn
  PROVE  FreshInv'
<1>1. FreshInv /\ Control /\ TStore /\ TCurrent /\ TFaults
  BY TypeParts DEF IInv
<1> QED
  BY <1>1, SMTT(20) DEF BeginTurn, MustOpen, Works, Fails, Write, Committed, Late, Lost, Refused, Opens,
     Attaches, TStore, TCurrent, Control, InTurn, FreshInv, Loaded, Draft, TFaults, storeVars,
     leaseVars, loopVars

(* OpenForTurn keeps what the controller shows fresh.                      *)
LEMMA OpenForTurnFresh ==
  ASSUME IInv, OpenForTurn
  PROVE  FreshInv'
<1>1. FreshInv /\ Control /\ TStore /\ TCurrent /\ TFaults
  BY TypeParts DEF IInv
<1>2. UNCHANGED <<db, stored, current>> /\ (Works \/ Fails(FALSE))
  BY Zenon DEF OpenForTurn, Opens, Attaches, storeVars
<1> QED
  BY <1>2, FreshBy

(* StartTurn keeps what the controller shows fresh.                        *)
LEMMA StartTurnFresh ==
  ASSUME IInv, StartTurn
  PROVE  FreshInv'
<1>1. FreshInv /\ Control /\ TStore /\ TCurrent /\ TFaults
  BY TypeParts DEF IInv
<1>2. turn.session \in Session
  BY <1>1 DEF StartTurn, Control, InTurn, TCurrent
<1>3. \/ UNCHANGED <<db, stored, current>> /\ (Works \/ Fails(FALSE))
      \/ Fails(TRUE)
      \/ \E r : Write(turn.session, r) /\ current' = Loaded(turn.session, r)
  BY Zenon DEF StartTurn, Committed, Refused, Lost, Late, storeVars
<1>4. (\E r : Write(turn.session, r) /\ current' = Loaded(turn.session, r)) => Takes
  BY <1>2, Zenon DEF Takes
<1> QED
  BY <1>3, <1>4, FreshBy

(* AttachForTurn keeps what the controller shows fresh.                    *)
LEMMA AttachForTurnFresh ==
  ASSUME IInv, AttachForTurn
  PROVE  FreshInv'
<1>1. FreshInv /\ Control /\ TStore /\ TCurrent /\ TFaults
  BY TypeParts DEF IInv
<1>2. UNCHANGED <<db, stored, current>> /\ (Works \/ Fails(FALSE))
  BY Zenon DEF AttachForTurn, Opens, Attaches, storeVars
<1> QED
  BY <1>2, FreshBy

(* CreateAgent keeps what the controller shows fresh.                      *)
LEMMA CreateAgentFresh ==
  ASSUME IInv, CreateAgent
  PROVE  FreshInv'
<1>1. FreshInv /\ Control /\ TStore /\ TCurrent /\ TFaults
  BY TypeParts DEF IInv
<1> QED
  BY <1>1, SMTT(20) DEF CreateAgent, Request, Works, Fails, Write, Committed, Late, Lost, Refused,
     Opens, Attaches, TStore, TCurrent, Control, InTurn, FreshInv, Loaded, Draft, TFaults, storeVars,
     leaseVars, loopVars

(* Answer keeps what the controller shows fresh.                           *)
LEMMA AnswerFresh ==
  ASSUME IInv, Answer
  PROVE  FreshInv'
<1>1. FreshInv /\ Control /\ TStore /\ TCurrent /\ TFaults
  BY TypeParts DEF IInv
<1> QED
  BY <1>1, SMTT(20) DEF Answer, Say, Works, Fails, Write, Committed, Late, Lost, Refused, Opens,
     Attaches, TStore, TCurrent, Control, InTurn, FreshInv, Loaded, Draft, TFaults, storeVars,
     leaseVars, loopVars

(* CallTools keeps what the controller shows fresh.                        *)
LEMMA CallToolsFresh ==
  ASSUME IInv, NEW uses \in {Calls, {HandoffUse}}, CallTools(uses)
  PROVE  FreshInv'
<1>1. FreshInv /\ Control /\ TStore /\ TCurrent /\ TFaults
  BY TypeParts DEF IInv
<1> QED
  BY <1>1, SMTT(20) DEF CallTools, Request, Say, Last, Works, Fails, Write, Committed, Late, Lost,
     Refused, Opens, Attaches, TStore, TCurrent, Control, InTurn, FreshInv, Loaded, Draft, TFaults,
     storeVars, leaseVars, loopVars

(* Result keeps what the controller shows fresh.                           *)
LEMMA ResultFresh ==
  ASSUME IInv, NEW u \in Calls, Result(u)
  PROVE  FreshInv'
<1>1. FreshInv /\ Control /\ TStore /\ TCurrent /\ TFaults
  BY TypeParts DEF IInv
<1> QED
  BY <1>1, SMTT(20) DEF Result, Request, Works, Fails, Write, Committed, Late, Lost, Refused, Opens,
     Attaches, TStore, TCurrent, Control, InTurn, FreshInv, Loaded, Draft, TFaults, storeVars,
     leaseVars, loopVars

(* End keeps what the controller shows fresh.                              *)
LEMMA EndFresh ==
  ASSUME IInv, NEW outcome \in {"failed", "cancelled"}, End(outcome)
  PROVE  FreshInv'
<1>1. FreshInv /\ Control /\ TStore /\ TCurrent /\ TFaults
  BY TypeParts DEF IInv
<1> QED
  BY <1>1, SMTT(20) DEF End, Request, Works, Fails, Write, Committed, Late, Lost, Refused, Opens,
     Attaches, TStore, TCurrent, Control, InTurn, FreshInv, Loaded, Draft, TFaults, storeVars,
     leaseVars, loopVars

(* RejectHandoff keeps what the controller shows fresh.                    *)
LEMMA RejectHandoffFresh ==
  ASSUME IInv, RejectHandoff
  PROVE  FreshInv'
<1>1. FreshInv /\ Control /\ TStore /\ TCurrent /\ TFaults
  BY TypeParts DEF IInv
<1> QED
  BY <1>1, SMTT(20) DEF RejectHandoff, Request, Works, Fails, Write, Committed, Late, Lost, Refused,
     Opens, Attaches, TStore, TCurrent, Control, InTurn, FreshInv, Loaded, Draft, TFaults, storeVars,
     leaseVars, loopVars

(* SaveHandoff keeps what the controller shows fresh.                      *)
LEMMA SaveHandoffFresh ==
  ASSUME IInv, SaveHandoff
  PROVE  FreshInv'
<1>1. FreshInv /\ Control /\ TStore /\ TCurrent /\ TFaults
  BY TypeParts DEF IInv
<1> QED
  BY <1>1, SMTT(20) DEF SaveHandoff, Request, Works, Fails, Write, Committed, Late, Lost, Refused,
     Opens, Attaches, TStore, TCurrent, Control, InTurn, FreshInv, Loaded, Draft, TFaults, storeVars,
     leaseVars, loopVars

(* Settle keeps what the controller shows fresh.                           *)
LEMMA SettleFresh ==
  ASSUME IInv, Settle
  PROVE  FreshInv'
<1>1. FreshInv /\ Control /\ TStore /\ TCurrent /\ TFaults
  BY TypeParts DEF IInv
<1> QED
  BY <1>1, SMTT(20) DEF Settle, Request, Works, Fails, Write, Committed, Late, Lost, Refused, Opens,
     Attaches, TStore, TCurrent, Control, InTurn, FreshInv, Loaded, Draft, TFaults, storeVars,
     leaseVars, loopVars

(* CommitSave keeps what the controller shows fresh.                       *)
LEMMA CommitSaveFresh ==
  ASSUME IInv, CommitSave
  PROVE  FreshInv'
<1>1. FreshInv /\ Control /\ TStore /\ TCurrent /\ TFaults
  BY TypeParts DEF IInv
<1>2. turn.session \in Session
  <2>1. turn.pc = "run" \/ Ending
    BY HeadType DEF CommitSave, IInv, Control
  <2> QED
    BY <1>1, <2>1 DEF InTurn, Ending, Control, TCurrent
<1>3. \/ UNCHANGED <<db, stored, current>> /\ (Works \/ Fails(FALSE))
      \/ Fails(TRUE)
      \/ \E r : Write(turn.session, r) /\ current' = Loaded(turn.session, r)
  BY Zenon DEF CommitSave, LoopFails, Committed, Refused, Lost, Late, storeVars
<1>4. (\E r : Write(turn.session, r) /\ current' = Loaded(turn.session, r)) => Takes
  BY <1>2, Zenon DEF Takes
<1> QED
  BY <1>3, <1>4, FreshBy

(* CommitHandoff keeps what the controller shows fresh.                    *)
LEMMA CommitHandoffFresh ==
  ASSUME IInv, CommitHandoff
  PROVE  FreshInv'
<1>1. FreshInv /\ Control /\ TStore /\ TCurrent /\ TFaults
  BY TypeParts DEF IInv
<1>2. turn.session \in Session
  <2>1. turn.pc = "run" \/ Ending
    BY HeadType DEF CommitHandoff, IInv, Control
  <2> QED
    BY <1>1, <2>1 DEF InTurn, Ending, Control, TCurrent
<1>3. \/ UNCHANGED <<db, stored, current>> /\ (Works \/ Fails(FALSE))
      \/ Fails(TRUE)
      \/ \E r : Write(turn.session, r) /\ current' = Loaded(turn.session, r)
  BY Zenon DEF CommitHandoff, LoopFails, Committed, Refused, Lost, Late, storeVars
<1>4. (\E r : Write(turn.session, r) /\ current' = Loaded(turn.session, r)) => Takes
  BY <1>2, Zenon DEF Takes
<1> QED
  BY <1>3, <1>4, FreshBy

(* CommitFinish keeps what the controller shows fresh.                     *)
LEMMA CommitFinishFresh ==
  ASSUME IInv, NEW transition \in BOOLEAN, CommitFinish(transition)
  PROVE  FreshInv'
<1>1. FreshInv /\ Control /\ TStore /\ TCurrent /\ TFaults
  BY TypeParts DEF IInv
<1>2. turn.session \in Session
  <2>1. turn.pc = "run" \/ Ending
    BY HeadType DEF CommitFinish, IInv, Control
  <2> QED
    BY <1>1, <2>1 DEF InTurn, Ending, Control, TCurrent
<1>3. \/ UNCHANGED <<db, stored, current>> /\ (Works \/ Fails(FALSE))
      \/ Fails(TRUE)
      \/ \E r : Write(turn.session, r) /\ current' = Loaded(turn.session, r)
  BY Zenon DEF CommitFinish, LoopFails, Committed, Refused, Lost, Late, storeVars
<1>4. (\E r : Write(turn.session, r) /\ current' = Loaded(turn.session, r)) => Takes
  BY <1>2, Zenon DEF Takes
<1> QED
  BY <1>3, <1>4, FreshBy

(* Crash keeps what the controller shows fresh.                            *)
LEMMA CrashFresh ==
  ASSUME IInv, Crash
  PROVE  FreshInv'
<1>1. FreshInv /\ Control /\ TStore /\ TCurrent /\ TFaults
  BY TypeParts DEF IInv
<1> QED
  BY <1>1, SMTT(20) DEF Crash, EndTurn, NextDraft, Draft, Works, Fails, Write, Committed, Late, Lost,
     Refused, Opens, Attaches, TStore, TCurrent, Control, InTurn, FreshInv, Loaded, Draft, TFaults,
     storeVars, leaseVars, loopVars

(* Every step keeps it.                                                    *)
LEMMA FreshStep ==
  ASSUME IInv, [Next]_vars
  PROVE  FreshInv'
<1>1. CASE UNCHANGED vars
  BY <1>1 DEF IInv, FreshInv, vars, storeVars, leaseVars, loopVars
<1>2. ASSUME Commands  PROVE FreshInv'
  BY <1>2, BeginCommandFresh, OpenForCommandFresh, MaterializeFresh, MutateFresh, AttachForCommandFresh,
     NewDraftFresh, DeleteCurrentFresh, ResumeFresh DEF Commands
<1>3. ASSUME Turns  PROVE FreshInv'
  BY <1>3, BeginTurnFresh, OpenForTurnFresh, StartTurnFresh, AttachForTurnFresh, CreateAgentFresh,
     AnswerFresh, CallToolsFresh, ResultFresh, EndFresh, RejectHandoffFresh, SaveHandoffFresh DEF Turns
<1>4. ASSUME Commits  PROVE FreshInv'
  BY <1>4, CommitSaveFresh, CommitHandoffFresh, CommitFinishFresh DEF Commits
<1> QED
  BY <1>1, <1>2, <1>3, <1>4, SettleFresh, CrashFresh DEF Next

-----------------------------------------------------------------------------
(* What a step may do to the turns and phases of the store, and to the     *)
(* turn that runs.                                                         *)

(* The store's turns and phases stay.                                      *)
Calm == \A s \in Session : db'[s].turns = db[s].turns /\ db'[s].phases = db[s].phases

(* The turn stays, begins, or is left.                                     *)
Stays ==
  /\ turn'.id = turn.id /\ turn'.session = turn.session
  /\ turn'.pc = "start" => turn.pc = "start"
  /\ turn'.pc \in {"attach", "create", "run", "finish", "giveUp", "refinish"} => Written
  /\ turn.pc = "refinish" => turn'.pc = "refinish"
  /\ broken' = broken /\ drawn'.turns = drawn.turns
Begins ==
  /\ turn.id = 0
  /\ turn'.pc = "start" /\ turn'.id = drawn.turns + 1 /\ drawn'.turns = drawn.turns + 1
  /\ broken' = broken
Leaves ==
  /\ turn'.pc \in {"idle", "open"} /\ turn'.id = 0
  /\ drawn'.turns = drawn.turns
  /\ broken \subseteq broken'
  /\ turn.id # 0 /\ turn.pc # "start" => turn.id \in broken'

(* A session is cleared or resumed.                                        *)
Halts(s) ==
  /\ turn.pc = "idle" /\ turn' = turn /\ broken' = broken /\ drawn'.turns = drawn.turns
  /\ s \in stored
  /\ db'[s].turns = Interrupted(db[s].turns) /\ db'[s].phases \in {db[s].phases, << >>}
  /\ \A t \in Session \ {s} : db'[t] = db[t]

(* A session is deleted.                                                   *)
Deletes ==
  /\ turn.pc = "idle" /\ turn' = turn /\ broken' = broken /\ drawn'.turns = drawn.turns
  /\ stored' = stored \ {current.id}
  /\ db' = [db EXCEPT ![current.id] = EmptyRecord]

(* A turn is written.                                                      *)
Starts ==
  /\ turn.pc = "start" /\ drawn'.turns = drawn.turns
  /\ Write(turn.session, Started(db[turn.session], turn.id))
  /\ \/ /\ turn'.id = turn.id /\ turn'.session = turn.session /\ turn'.pc \in {"attach", "create"}
        /\ broken' = broken
     \/ turn'.pc = "idle" /\ turn'.id = 0 /\ broken' = broken \cup {turn.id}

(* A turn is ended.                                                        *)
Ends(status, final) ==
  LET old == db[turn.session]
      new == db'[turn.session]
  IN
  /\ Ending /\ drawn'.turns = drawn.turns
  /\ new.turns = EndedTurns(old.turns, turn.id, status, final)
  /\ new.phases = old.phases \/ new.phases = EndedPhases(old.phases, turn.id)
  /\ \A t \in Session \ {turn.session} : db'[t] = db[t]
  /\ \/ turn'.pc = "refinish" /\ turn'.id = turn.id /\ turn'.session = turn.session /\ broken' = broken
     \/ turn'.pc = "idle" /\ turn'.id = 0 /\ broken' \in {broken, broken \cup {turn.id}}

(* BeginCommand is such a step.                                            *)
LEMMA BeginCommandKind ==
  ASSUME IInv, NEW op \in Op, BeginCommand(op)
  PROVE  Calm /\ Stays
<1>1. Control /\ TTurn /\ TDrawn /\ TStore /\ TCurrent
  BY TypeParts DEF IInv
<1>2. db' = db
  BY DEF BeginCommand, storeVars
<1>3. broken' = broken /\ drawn'.turns = drawn.turns
  BY <1>1 DEF BeginCommand, MustOpen, Op, TDrawn
<1> QED
  BY <1>1, <1>2, <1>3 DEF BeginCommand, MustOpen, Op, Calm, Stays, Written, TTurn, TurnType

(* OpenForCommand is such a step.                                          *)
LEMMA OpenForCommandKind ==
  ASSUME IInv, OpenForCommand
  PROVE  Calm /\ Stays
<1>1. Control /\ TTurn /\ TDrawn /\ TStore /\ TCurrent
  BY TypeParts DEF IInv
<1>2. db' = db
  BY DEF OpenForCommand, storeVars
<1>3. broken' = broken /\ drawn'.turns = drawn.turns
  BY <1>1 DEF OpenForCommand, Opens, TDrawn
<1> QED
  BY <1>1, <1>2, <1>3 DEF OpenForCommand, Opens, Calm, Stays, Written, TTurn, TurnType

(* Materialize is such a step.                                             *)
LEMMA MaterializeKind ==
  ASSUME IInv, Materialize
  PROVE  Calm /\ Stays
<1>1. Control /\ TTurn /\ TDrawn /\ TStore /\ TCurrent
  BY TypeParts DEF IInv
<1>2. current.id \in Session
  BY <1>1 DEF TCurrent
<1>3. \/ db' = db
      \/ current.id \notin stored /\ db' = [db EXCEPT ![current.id] = EmptyRecord]
  BY Zenon DEF Materialize, Committed, Refused, Lost, Late, Write, storeVars, CanCreate
<1>4. current.id \notin stored => db[current.id] = EmptyRecord
  BY <1>2 DEF IInv, TurnsInv
<1>5. Calm
  BY <1>1, <1>2, <1>3, <1>4 DEF Calm, TStore
<1> QED
  BY <1>5 DEF Materialize, Stays, Written

(* Mutate is such a step.                                                  *)
LEMMA MutateKind ==
  ASSUME IInv, Mutate
  PROVE  (Calm /\ Stays) \/ Halts(current.id)
<1>1. Control /\ TTurn /\ TDrawn /\ TStore /\ TCurrent
  BY TypeParts DEF IInv
<1>2. current.id \in Session /\ db[current.id] \in Record
  BY <1>1 DEF TCurrent, TStore
<1>3. /\ turn' = turn /\ broken' = broken /\ drawn' = drawn
      /\ cmd.pc = "mutate"
      /\ db' = db \/ (current.id \in stored /\ db' = [db EXCEPT ![current.id] = CommandReducer])
  BY Zenon DEF Mutate, Committed, Refused, Lost, Late, Write, storeVars
<1>4. Stays
  BY <1>3 DEF Stays, Written
<1>5. CASE db' = db
  BY <1>4, <1>5 DEF Calm
<1>6. CASE cmd.op # "clear" /\ db' = [db EXCEPT ![current.id] = CommandReducer]
  BY <1>1, <1>2, <1>4, <1>6 DEF Calm, CommandReducer, TStore
<1>7. CASE cmd.op = "clear" /\ current.id \in stored /\ db' = [db EXCEPT ![current.id] = CommandReducer]
  <2>1. turn.pc = "idle"
    BY <1>1, <1>7 DEF Control
  <2>2. db'[current.id] = Cleared(db[current.id]) /\ \A t \in Session \ {current.id} : db'[t] = db[t]
    BY <1>1, <1>2, <1>7 DEF CommandReducer, TStore
  <2>3. db'[current.id].turns = Interrupted(db[current.id].turns) /\ db'[current.id].phases = << >>
    BY <1>2, <2>2, ClearedIs
  <2> QED
    BY <1>3, <1>7, <2>1, <2>2, <2>3 DEF Halts
<1> QED
  BY <1>3, <1>5, <1>6, <1>7

(* AttachForCommand is such a step.                                        *)
LEMMA AttachForCommandKind ==
  ASSUME IInv, AttachForCommand
  PROVE  Calm /\ Stays
<1>1. Control /\ TTurn /\ TDrawn /\ TStore /\ TCurrent
  BY TypeParts DEF IInv
<1>2. db' = db
  BY DEF AttachForCommand, storeVars
<1>3. broken' = broken /\ drawn'.turns = drawn.turns
  BY <1>1 DEF AttachForCommand, Attaches, TDrawn
<1> QED
  BY <1>1, <1>2, <1>3 DEF AttachForCommand, Attaches, Calm, Stays, Written, TTurn, TurnType

(* NewDraft is such a step.                                                *)
LEMMA NewDraftKind ==
  ASSUME IInv, NewDraft
  PROVE  Calm /\ Stays
<1>1. Control /\ TTurn /\ TDrawn /\ TStore /\ TCurrent
  BY TypeParts DEF IInv
<1>2. db' = db
  BY DEF NewDraft, storeVars
<1>3. broken' = broken /\ drawn'.turns = drawn.turns
  BY <1>1 DEF NewDraft, Resting, NextDraft, Without, Draft, TDrawn
<1> QED
  BY <1>1, <1>2, <1>3 DEF NewDraft, Resting, NextDraft, Without, Draft, Calm, Stays, Written, TTurn, TurnType

(* DeleteCurrent is such a step.                                           *)
LEMMA DeleteCurrentKind ==
  ASSUME IInv, DeleteCurrent
  PROVE  (Calm /\ Stays) \/ Deletes
<1>1. Control /\ TTurn /\ TDrawn /\ TStore /\ TCurrent
  BY TypeParts DEF IInv
<1>2. /\ turn' = turn /\ broken' = broken /\ turn.pc = "idle"
      /\ \/ db' = db /\ drawn' = drawn
         \/ /\ stored' = stored \ {current.id} /\ db' = [db EXCEPT ![current.id] = EmptyRecord]
            /\ drawn' = [drawn EXCEPT !.sessions = @ + 1]
  BY DEF DeleteCurrent, Resting, Lost, storeVars, NextDraft
<1>3. drawn'.turns = drawn.turns
  BY <1>1, <1>2 DEF TDrawn
<1>4. CASE db' = db
  BY <1>2, <1>3, <1>4 DEF Calm, Stays, Written
<1> QED
  BY <1>2, <1>3, <1>4 DEF Deletes

(* Resume is such a step.                                                  *)
LEMMA ResumeKind ==
  ASSUME IInv, NEW s \in Session, Resume(s)
  PROVE  (Calm /\ Stays) \/ Halts(s)
<1>1. Control /\ TTurn /\ TDrawn /\ TStore /\ TCurrent
  BY TypeParts DEF IInv
<1>2. /\ turn' = turn /\ broken' = broken /\ drawn' = drawn /\ turn.pc = "idle" /\ s \in stored
      /\ db' = db \/ db' = [db EXCEPT ![s] = Repaired(db[s])]
  BY DEF Resume, Resting, Committed, Lost, Late, Write, storeVars
<1>3. CASE db' = db
  BY <1>2, <1>3 DEF Calm, Stays, Written
<1>4. CASE db' = [db EXCEPT ![s] = Repaired(db[s])]
  <2>1. db[s] \in Record
    BY <1>1 DEF TStore
  <2>2. db'[s] = Repaired(db[s]) /\ \A t \in Session \ {s} : db'[t] = db[t]
    BY <1>1, <1>4 DEF TStore
  <2>3. db'[s].turns = Interrupted(db[s].turns) /\ db'[s].phases = db[s].phases
    BY <2>1, <2>2, RepairedIs
  <2> QED
    BY <1>2, <2>2, <2>3 DEF Halts
<1> QED
  BY <1>2, <1>3, <1>4

(* BeginTurn is such a step.                                               *)
LEMMA BeginTurnKind ==
  ASSUME IInv, BeginTurn
  PROVE  Calm /\ (Stays \/ Begins)
<1>1. Control /\ TTurn /\ TDrawn /\ TStore /\ TCurrent
  BY TypeParts DEF IInv
<1>2. /\ turn.pc = "idle" /\ db' = db /\ broken' = broken
      /\ \/ turn' = NoTurn /\ drawn' = drawn
         \/ turn' = [NoTurn EXCEPT !.pc = "open"] /\ drawn' = drawn
         \/ /\ turn' = [NoTurn EXCEPT !.pc = "start", !.id = drawn.turns + 1,
                                      !.session = current.id, !.draft = current.draft]
            /\ drawn' = [drawn EXCEPT !.turns = @ + 1]
  BY Zenon DEF BeginTurn, Opens, storeVars
<1>3. turn.id = 0 /\ turn.session = NoSession
  BY <1>1, <1>2 DEF Control, InTurn
<1>4. Calm
  BY <1>2 DEF Calm
<1>5. CASE turn' = NoTurn /\ drawn' = drawn
  BY <1>2, <1>3, <1>4, <1>5 DEF Stays, Written, NoTurn
<1>6. CASE turn' = [NoTurn EXCEPT !.pc = "open"] /\ drawn' = drawn
  BY <1>2, <1>3, <1>4, <1>6 DEF Stays, Written, NoTurn
<1>7. CASE /\ turn' = [NoTurn EXCEPT !.pc = "start", !.id = drawn.turns + 1,
                                     !.session = current.id, !.draft = current.draft]
           /\ drawn' = [drawn EXCEPT !.turns = @ + 1]
  <2>1. turn'.pc = "start" /\ turn'.id = drawn.turns + 1
    BY <1>7 DEF NoTurn
  <2>2. drawn'.turns = drawn.turns + 1
    BY <1>1, <1>7 DEF TDrawn
  <2> QED
    BY <1>2, <1>3, <1>4, <2>1, <2>2 DEF Begins
<1> QED
  BY <1>2, <1>5, <1>6, <1>7

(* OpenForTurn is such a step.                                             *)
LEMMA OpenForTurnKind ==
  ASSUME IInv, OpenForTurn
  PROVE  Calm /\ (Stays \/ Begins)
<1>1. Control /\ TTurn /\ TDrawn /\ TStore /\ TCurrent
  BY TypeParts DEF IInv
<1>2. /\ turn.pc = "open" /\ db' = db /\ broken' = broken
      /\ \/ turn' = NoTurn /\ drawn' = drawn
         \/ turn' = [NoTurn EXCEPT !.pc = "open"] /\ drawn' = drawn
         \/ /\ turn' = [NoTurn EXCEPT !.pc = "start", !.id = drawn.turns + 1,
                                      !.session = current.id, !.draft = current.draft]
            /\ drawn' = [drawn EXCEPT !.turns = @ + 1]
  BY Zenon DEF OpenForTurn, Opens, storeVars
<1>3. turn.id = 0 /\ turn.session = NoSession
  BY <1>1, <1>2 DEF Control, InTurn
<1>4. Calm
  BY <1>2 DEF Calm
<1>5. CASE turn' = NoTurn /\ drawn' = drawn
  BY <1>2, <1>3, <1>4, <1>5 DEF Stays, Written, NoTurn
<1>6. CASE turn' = [NoTurn EXCEPT !.pc = "open"] /\ drawn' = drawn
  BY <1>2, <1>3, <1>4, <1>6 DEF Stays, Written, NoTurn
<1>7. CASE /\ turn' = [NoTurn EXCEPT !.pc = "start", !.id = drawn.turns + 1,
                                     !.session = current.id, !.draft = current.draft]
           /\ drawn' = [drawn EXCEPT !.turns = @ + 1]
  <2>1. turn'.pc = "start" /\ turn'.id = drawn.turns + 1
    BY <1>7 DEF NoTurn
  <2>2. drawn'.turns = drawn.turns + 1
    BY <1>1, <1>7 DEF TDrawn
  <2> QED
    BY <1>2, <1>3, <1>4, <2>1, <2>2 DEF Begins
<1> QED
  BY <1>2, <1>5, <1>6, <1>7

(* StartTurn is such a step.                                               *)
LEMMA StartTurnKind ==
  ASSUME IInv, StartTurn
  PROVE  (Calm /\ Leaves) \/ Starts
<1>1. Control /\ TTurn /\ TDrawn /\ TStore /\ TCurrent
  BY TypeParts DEF IInv
<1>2. /\ turn.pc = "start" /\ drawn' = drawn
      /\ \/ db' = db /\ turn' = NoTurn /\ broken' \in {broken, broken \cup {turn.id}}
         \/ /\ Write(turn.session, Started(db[turn.session], turn.id))
            /\ \/ turn' = NoTurn /\ broken' = broken \cup {turn.id}
               \/ /\ turn' = [turn EXCEPT !.pc = IF MustAttach THEN "attach" ELSE "create",
                                          !.agent = Started(db[turn.session], turn.id).agent]
                  /\ broken' = broken
  BY Zenon DEF StartTurn, Committed, Refused, Lost, Late, storeVars, Abandon
<1>3. NoTurn.pc = "idle" /\ NoTurn.id = 0
  BY DEF NoTurn
<1>4. turn' = [turn EXCEPT !.pc = IF MustAttach THEN "attach" ELSE "create",
                           !.agent = Started(db[turn.session], turn.id).agent]
        => turn'.id = turn.id /\ turn'.session = turn.session /\ turn'.pc \in {"attach", "create"}
  BY <1>1 DEF TTurn, TurnType
<1>5. CASE db' = db /\ turn' = NoTurn /\ broken' \in {broken, broken \cup {turn.id}}
  BY <1>2, <1>3, <1>5 DEF Calm, Leaves
<1>6. CASE Write(turn.session, Started(db[turn.session], turn.id))
  <2>1. \/ turn' = NoTurn /\ broken' = broken \cup {turn.id}
        \/ turn' = NoTurn /\ broken' = broken /\ db' = db
        \/ /\ turn'.id = turn.id /\ turn'.session = turn.session /\ turn'.pc \in {"attach", "create"}
           /\ broken' = broken
    BY <1>2, <1>4
  <2> QED
    BY <1>2, <1>3, <1>5, <1>6, <2>1 DEF Starts
<1> QED
  BY <1>2, <1>5, <1>6

(* AttachForTurn is such a step.                                           *)
LEMMA AttachForTurnKind ==
  ASSUME IInv, AttachForTurn
  PROVE  Calm /\ (Stays \/ Leaves)
<1>1. Control /\ TTurn /\ TDrawn /\ TStore /\ TCurrent
  BY TypeParts DEF IInv
<1>2. /\ turn.pc = "attach" /\ drawn' = drawn /\ db' = db
      /\ \/ turn' = [turn EXCEPT !.pc = "create"] /\ broken' = broken
         \/ turn' = NoTurn /\ broken' = broken \cup {turn.id}
  BY Zenon DEF AttachForTurn, Attaches, Abandon, storeVars
<1>3. CASE turn' = [turn EXCEPT !.pc = "create"] /\ broken' = broken
  BY <1>1, <1>2, <1>3 DEF Calm, Stays, Written, TTurn, TurnType
<1>4. CASE turn' = NoTurn /\ broken' = broken \cup {turn.id}
  BY <1>2, <1>4 DEF Calm, Leaves, NoTurn
<1> QED
  BY <1>2, <1>3, <1>4

(* CreateAgent is such a step.                                             *)
LEMMA CreateAgentKind ==
  ASSUME IInv, CreateAgent
  PROVE  Calm /\ Stays
<1>1. Control /\ TTurn /\ TDrawn /\ TStore /\ TCurrent
  BY TypeParts DEF IInv
<1>2. db' = db
  BY DEF CreateAgent, storeVars
<1>3. broken' = broken /\ drawn'.turns = drawn.turns
  BY <1>1 DEF CreateAgent, Request, TDrawn
<1> QED
  BY <1>1, <1>2, <1>3 DEF CreateAgent, Request, Calm, Stays, Written, TTurn, TurnType

(* Answer is such a step.                                                  *)
LEMMA AnswerKind ==
  ASSUME IInv, Answer
  PROVE  Calm /\ Stays
<1>1. Control /\ TTurn /\ TDrawn /\ TStore /\ TCurrent
  BY TypeParts DEF IInv
<1>2. db' = db
  BY DEF Answer, storeVars
<1>3. broken' = broken /\ drawn'.turns = drawn.turns
  BY <1>1 DEF Answer, Say, TDrawn
<1> QED
  BY <1>1, <1>2, <1>3 DEF Answer, Say, Calm, Stays, Written, TTurn, TurnType

(* CallTools is such a step.                                               *)
LEMMA CallToolsKind ==
  ASSUME IInv, NEW uses \in {Calls, {HandoffUse}}, CallTools(uses)
  PROVE  Calm /\ Stays
<1>1. Control /\ TTurn /\ TDrawn /\ TStore /\ TCurrent
  BY TypeParts DEF IInv
<1>2. db' = db
  BY DEF CallTools, storeVars
<1>3. broken' = broken /\ drawn'.turns = drawn.turns
  BY <1>1 DEF CallTools, Request, Say, Last, TDrawn
<1> QED
  BY <1>1, <1>2, <1>3 DEF CallTools, Request, Say, Last, Calm, Stays, Written, TTurn, TurnType

(* Result is such a step.                                                  *)
LEMMA ResultKind ==
  ASSUME IInv, NEW u \in Calls, Result(u)
  PROVE  Calm /\ Stays
<1>1. Control /\ TTurn /\ TDrawn /\ TStore /\ TCurrent
  BY TypeParts DEF IInv
<1>2. db' = db
  BY DEF Result, storeVars
<1>3. broken' = broken /\ drawn'.turns = drawn.turns
  BY <1>1 DEF Result, Request, TDrawn
<1> QED
  BY <1>1, <1>2, <1>3 DEF Result, Request, Calm, Stays, Written, TTurn, TurnType

(* End is such a step.                                                     *)
LEMMA EndKind ==
  ASSUME IInv, NEW outcome \in {"failed", "cancelled"}, End(outcome)
  PROVE  Calm /\ Stays
<1>1. Control /\ TTurn /\ TDrawn /\ TStore /\ TCurrent
  BY TypeParts DEF IInv
<1>2. db' = db
  BY DEF End, storeVars
<1>3. broken' = broken /\ drawn'.turns = drawn.turns
  BY <1>1 DEF End, Request, TDrawn
<1> QED
  BY <1>1, <1>2, <1>3 DEF End, Request, Calm, Stays, Written, TTurn, TurnType

(* RejectHandoff is such a step.                                           *)
LEMMA RejectHandoffKind ==
  ASSUME IInv, RejectHandoff
  PROVE  Calm /\ Stays
<1>1. Control /\ TTurn /\ TDrawn /\ TStore /\ TCurrent
  BY TypeParts DEF IInv
<1>2. db' = db
  BY DEF RejectHandoff, storeVars
<1>3. broken' = broken /\ drawn'.turns = drawn.turns
  BY <1>1 DEF RejectHandoff, Request, TDrawn
<1> QED
  BY <1>1, <1>2, <1>3 DEF RejectHandoff, Request, Calm, Stays, Written, TTurn, TurnType

(* SaveHandoff is such a step.                                             *)
LEMMA SaveHandoffKind ==
  ASSUME IInv, SaveHandoff
  PROVE  Calm /\ Stays
<1>1. Control /\ TTurn /\ TDrawn /\ TStore /\ TCurrent
  BY TypeParts DEF IInv
<1>2. db' = db
  BY DEF SaveHandoff, storeVars
<1>3. broken' = broken /\ drawn'.turns = drawn.turns
  BY <1>1 DEF SaveHandoff, Request, TDrawn
<1> QED
  BY <1>1, <1>2, <1>3 DEF SaveHandoff, Request, Calm, Stays, Written, TTurn, TurnType

(* Settle is such a step.                                                  *)
LEMMA SettleKind ==
  ASSUME IInv, Settle
  PROVE  Calm /\ Stays
<1>1. Control /\ TTurn /\ TDrawn /\ TStore /\ TCurrent
  BY TypeParts DEF IInv
<1>2. db' = db
  BY DEF Settle, storeVars
<1>3. broken' = broken /\ drawn'.turns = drawn.turns
  BY <1>1 DEF Settle, Request, TDrawn
<1> QED
  BY <1>1, <1>2, <1>3 DEF Settle, Request, Calm, Stays, Written, TTurn, TurnType

(* CommitSave is such a step.                                              *)
LEMMA CommitSaveKind ==
  ASSUME IInv, CommitSave
  PROVE  Calm /\ Stays
<1>1. Control /\ TTurn /\ TDrawn /\ TStore /\ TCurrent
  BY TypeParts DEF IInv
<1>2. turn.pc = "run" \/ Ending
  BY HeadType DEF CommitSave, IInv, Control
<1>3. turn.session \in Session /\ db[turn.session] \in Record /\ chain[1].messages \in Seq(Message)
  BY <1>2, TurnIs, HeadType DEF CommitSave, IInv, InTurn, Ending
<1> DEFINE record == [db[turn.session] EXCEPT !.messages = AppendUnique(@, chain[1].messages)]
<1>4. db' = db \/ db' = [db EXCEPT ![turn.session] = record]
  BY Zenon DEF CommitSave, Committed, Refused, Lost, Late, Write, storeVars
<1>5. record.turns = db[turn.session].turns /\ record.phases = db[turn.session].phases
  BY <1>3, SavedIs
<1>6. Calm
  BY <1>1, <1>3, <1>4, <1>5 DEF Calm, TStore
<1>7. /\ turn'.pc = turn.pc /\ turn'.id = turn.id /\ turn'.session = turn.session
      /\ broken' = broken /\ drawn' = drawn
  BY <1>1 DEF CommitSave, LoopFails, TTurn, TurnType
<1> QED
  BY <1>6, <1>7 DEF Stays, Written

(* CommitHandoff is such a step.                                           *)
LEMMA CommitHandoffKind ==
  ASSUME IInv, CommitHandoff
  PROVE  Calm /\ Stays
<1>1. Control /\ TTurn /\ TDrawn /\ TStore /\ TCurrent
  BY TypeParts DEF IInv
<1>2. turn.pc = "run" \/ Ending
  BY HeadType DEF CommitHandoff, IInv, Control
<1>3. turn.session \in Session /\ db[turn.session] \in Record /\ chain[1].messages \in Seq(Message)
  BY <1>2, TurnIs, HeadType DEF CommitHandoff, IInv, InTurn, Ending
<1> DEFINE record == [db[turn.session] EXCEPT !.messages = AppendUnique(@, chain[1].messages), !.agent = "target"]
<1>4. db' = db \/ db' = [db EXCEPT ![turn.session] = record]
  BY Zenon DEF CommitHandoff, Committed, Refused, Lost, Late, Write, storeVars
<1>5. record.turns = db[turn.session].turns /\ record.phases = db[turn.session].phases
  BY <1>3, SavedIs
<1>6. Calm
  BY <1>1, <1>3, <1>4, <1>5 DEF Calm, TStore
<1>7. /\ turn'.pc = turn.pc /\ turn'.id = turn.id /\ turn'.session = turn.session
      /\ broken' = broken /\ drawn' = drawn
  BY <1>1 DEF CommitHandoff, LoopFails, TTurn, TurnType
<1> QED
  BY <1>6, <1>7 DEF Stays, Written

(* CommitFinish is such a step.                                            *)
LEMMA CommitFinishKind ==
  ASSUME IInv, NEW transition \in BOOLEAN, CommitFinish(transition)
  PROVE  (Calm /\ (Stays \/ Leaves)) \/ \E status \in Status \ {"running"} : \E final \in Agent : Ends(status, final)
<1>1. Control /\ TTurn /\ TDrawn /\ TStore /\ TCurrent
  BY TypeParts DEF IInv
<1>2. turn.pc = "run" \/ Ending
  BY HeadType DEF CommitFinish, IInv, Control
<1>3. turn.session \in Session /\ db[turn.session] \in Record /\ chain[1].messages \in Seq(Message)
  BY <1>2, TurnIs, HeadType DEF CommitFinish, IInv, InTurn, Ending
<1> DEFINE F1 == Finished(db[turn.session], turn.id, turn.outcome, turn.agent, turn.handed, transition)
           F2 == Finished(db[turn.session], turn.id, "failed", Initial(db[turn.session], turn.id), FALSE, FALSE)
<1>4. /\ Ending /\ drawn' = drawn
      /\ \/ db' = db
         \/ turn.pc = "finish" /\ db' = [db EXCEPT ![turn.session] = F1]
         \/ turn.pc # "finish" /\ db' = [db EXCEPT ![turn.session] = F2]
      /\ \/ turn' = NoTurn /\ broken' = broken /\ db' = [db EXCEPT ![turn.session] = IF turn.pc = "finish" THEN F1 ELSE F2]
         \/ turn.pc = "finish" /\ turn' = [turn EXCEPT !.pc = "refinish"] /\ broken' = broken
         \/ turn' = NoTurn /\ broken' = broken \cup {turn.id}
  <2>1. Ending
    BY <1>1, HeadType DEF CommitFinish, IInv, Control
  <2>2. drawn' = drawn
    BY DEF CommitFinish
  <2>3. \/ db' = db
        \/ turn.pc = "finish" /\ db' = [db EXCEPT ![turn.session] = F1]
        \/ turn.pc # "finish" /\ db' = [db EXCEPT ![turn.session] = F2]
    BY Zenon DEF CommitFinish, Committed, Lost, Late, Write, storeVars
  <2>4. \/ turn' = NoTurn /\ broken' = broken /\ db' = [db EXCEPT ![turn.session] = IF turn.pc = "finish" THEN F1 ELSE F2]
        \/ turn.pc = "finish" /\ turn' = [turn EXCEPT !.pc = "refinish"] /\ broken' = broken
        \/ turn' = NoTurn /\ broken' = broken \cup {turn.id}
    BY Zenon DEF CommitFinish, Committed, Lost, Late, Write, storeVars, EndTurn
  <2> QED
    BY <2>1, <2>2, <2>3, <2>4
<1>5. NoTurn.pc = "idle" /\ NoTurn.id = 0 /\ turn.id \in TurnId /\ turn.id # 0 /\ InTurn /\ Written
  BY <1>4, TurnIs DEF NoTurn, Ending, InTurn, TurnId, Written
<1>6. turn' = [turn EXCEPT !.pc = "refinish"] => turn'.pc = "refinish" /\ turn'.id = turn.id /\ turn'.session = turn.session
  BY <1>1 DEF TTurn, TurnType
<1>7. CASE db' = db /\ (turn.pc = "finish" /\ turn' = [turn EXCEPT !.pc = "refinish"] /\ broken' = broken)
  BY <1>4, <1>5, <1>6, <1>7 DEF Calm, Stays
<1>8. CASE db' = db /\ turn' = NoTurn /\ broken' = broken \cup {turn.id}
  BY <1>4, <1>5, <1>8 DEF Calm, Leaves
<1>9. Initial(db[turn.session], turn.id) \in Agent
  <2>1. PICK i \in DOMAIN db[turn.session].turns : db[turn.session].turns[i].id = turn.id
    BY <1>5 DEF IInv, TurnsInv
  <2>2. OfTurn(db[turn.session], turn.id) \in DOMAIN db[turn.session].turns
    BY <2>1 DEF OfTurn
  <2>3. \A k \in DOMAIN db[turn.session].turns : db[turn.session].turns[k] \in PersistedTurn
    BY <1>3, RecordIs
  <2> QED
    BY <2>2, <2>3 DEF Initial, PersistedTurn
<1> DEFINE After == \/ turn'.pc = "refinish" /\ turn'.id = turn.id /\ turn'.session = turn.session /\ broken' = broken
                    \/ turn'.pc = "idle" /\ turn'.id = 0 /\ broken' \in {broken, broken \cup {turn.id}}
<1>10. After
  <2> HIDE DEF F1, F2
  <2>1. \/ turn' = NoTurn /\ broken' \in {broken, broken \cup {turn.id}}
        \/ turn' = [turn EXCEPT !.pc = "refinish"] /\ broken' = broken
    BY <1>4
  <2> QED
    BY <1>5, <1>6, <2>1
<1>11. CASE turn.pc = "finish" /\ db' = [db EXCEPT ![turn.session] = F1]
  <2>1. turn.outcome \in Status \ {"running"} /\ turn.agent \in Agent /\ turn.handed \in BOOLEAN /\ pending \in Seq(Message)
    <3>1. turn.outcome \in {"none", "completed", "failed", "cancelled"} /\ turn.agent \in Agent /\ turn.handed \in BOOLEAN
      BY <1>1 DEF TTurn, TurnType
    <3>2. turn.outcome # "none"
      BY <1>1, <1>11 DEF Control
    <3>3. pending \in Seq(Message)
      BY TypeParts DEF IInv, TChain
    <3> QED
      BY <3>1, <3>2, <3>3 DEF Status
  <2>2. F1.turns = EndedTurns(db[turn.session].turns, turn.id, turn.outcome, turn.agent)
    <3>1. turn.outcome \in Status
      BY <2>1
    <3> QED
      BY <1>3, <1>5, <2>1, <3>1, FinishedTurns
  <2>3. F1.phases = db[turn.session].phases \/ F1.phases = EndedPhases(db[turn.session].phases, turn.id)
    <3>1. turn.outcome \in Status
      BY <2>1
    <3> QED
      BY <1>3, <1>5, <2>1, <3>1, FinishedPhases
  <2> HIDE DEF F1, F2
  <2>4. db'[turn.session] = F1 /\ \A t \in Session \ {turn.session} : db'[t] = db[t]
    BY <1>1, <1>3, <1>11 DEF TStore
  <2>5. Ends(turn.outcome, turn.agent)
    BY <1>4, <1>10, <2>2, <2>3, <2>4 DEF Ends
  <2> QED
    BY <2>1, <2>5
<1>12. CASE turn.pc # "finish" /\ db' = [db EXCEPT ![turn.session] = F2]
  <2>1. "failed" \in Status \ {"running"} /\ pending \in Seq(Message)
    BY TypeParts DEF IInv, Status, TChain
  <2>2. F2.turns = EndedTurns(db[turn.session].turns, turn.id, "failed", Initial(db[turn.session], turn.id))
    <3>1. "failed" \in Status /\ FALSE \in BOOLEAN
      BY DEF Status
    <3> QED
      BY <1>3, <1>5, <1>9, <2>1, <3>1, FinishedTurns
  <2>3. F2.phases = db[turn.session].phases
    <3>1. "failed" \in Status /\ "failed" # "completed"
      BY DEF Status
    <3> QED
      BY <1>3, <1>5, <1>9, <2>1, <3>1, FinishedKeepsPhases, ZenonT(40)
  <2> HIDE DEF F1, F2
  <2>4. db'[turn.session] = F2 /\ \A t \in Session \ {turn.session} : db'[t] = db[t]
    BY <1>1, <1>3, <1>12 DEF TStore
  <2>5. Ends("failed", Initial(db[turn.session], turn.id))
    BY <1>4, <1>10, <2>2, <2>3, <2>4 DEF Ends
  <2> QED
    BY <1>9, <2>1, <2>5
<1> HIDE DEF F1, F2, After
<1>13. CASE db' = db /\ turn' = NoTurn /\ broken' = broken
  <2>1. \/ turn.pc = "finish" /\ db' = [db EXCEPT ![turn.session] = F1]
        \/ turn.pc # "finish" /\ db' = [db EXCEPT ![turn.session] = F2]
        \/ turn' = NoTurn /\ broken' = broken \cup {turn.id}
    BY <1>4, <1>5, <1>6, <1>13
  <2> QED
    BY <1>8, <1>11, <1>12, <1>13, <2>1
<1> QED
  BY <1>4, <1>7, <1>8, <1>11, <1>12, <1>13

(* Crash is such a step.                                                   *)
LEMMA CrashKind ==
  ASSUME IInv, Crash
  PROVE  Calm /\ Leaves
<1>1. Control /\ TTurn /\ TDrawn /\ TStore /\ TCurrent
  BY TypeParts DEF IInv
<1>2. /\ turn' = NoTurn /\ db' = db /\ drawn' = [drawn EXCEPT !.sessions = @ + 1]
      /\ broken' = broken \cup (IF turn.id = 0 THEN {} ELSE {turn.id})
  BY DEF Crash, EndTurn, NextDraft, storeVars
<1>3. drawn'.turns = drawn.turns
  BY <1>1, <1>2 DEF TDrawn
<1> QED
  BY <1>2, <1>3 DEF Calm, Leaves, NoTurn

-----------------------------------------------------------------------------
(* Every step of the system is of one of these kinds.                      *)
Steps == Calm /\ (Stays \/ Begins \/ Leaves)
Kinds ==
  \/ Steps
  \/ \E s \in Session : Halts(s)
  \/ Deletes
  \/ Starts
  \/ \E status \in Status \ {"running"}, final \in Agent : Ends(status, final)

(* The step of a command.                                                  *)
LEMMA CommandsKind ==
  ASSUME IInv, Commands
  PROVE  Kinds
<1>1. current.id \in Session
  BY TypeParts DEF IInv, TCurrent
<1>2. ASSUME Mutate  PROVE Kinds
  BY <1>1, <1>2, MutateKind DEF Kinds, Steps
<1>3. ASSUME DeleteCurrent  PROVE Kinds
  BY <1>3, DeleteCurrentKind DEF Kinds, Steps
<1>4. ASSUME NEW s \in Session, Resume(s)  PROVE Kinds
  BY <1>4, ResumeKind DEF Kinds, Steps
<1>5. ASSUME NEW op \in Op, BeginCommand(op)  PROVE Kinds
  BY <1>5, BeginCommandKind DEF Kinds, Steps
<1>6. ASSUME OpenForCommand \/ Materialize \/ AttachForCommand \/ NewDraft  PROVE Kinds
  BY <1>6, OpenForCommandKind, MaterializeKind, AttachForCommandKind, NewDraftKind DEF Kinds, Steps
<1> QED
  BY <1>2, <1>3, <1>4, <1>5, <1>6 DEF Commands

(* The step of a turn.                                                     *)
LEMMA TurnsKind ==
  ASSUME IInv, Turns
  PROVE  Kinds
<1>1. ASSUME BeginTurn \/ OpenForTurn \/ StartTurn \/ AttachForTurn \/ CreateAgent \/ Answer
             \/ RejectHandoff \/ SaveHandoff
      PROVE  Kinds
  BY <1>1, BeginTurnKind, OpenForTurnKind, StartTurnKind, AttachForTurnKind, CreateAgentKind, AnswerKind,
     RejectHandoffKind, SaveHandoffKind DEF Kinds, Steps
<1>2. ASSUME NEW uses \in {Calls, {HandoffUse}}, CallTools(uses)  PROVE Kinds
  BY <1>2, CallToolsKind DEF Kinds, Steps
<1>3. ASSUME NEW outcome \in {"failed", "cancelled"}, End(outcome)  PROVE Kinds
  BY <1>3, EndKind DEF Kinds, Steps
<1>4. ASSUME NEW u \in Calls, Result(u)  PROVE Kinds
  BY <1>4, ResultKind DEF Kinds, Steps
<1> QED
  BY <1>1, <1>2, <1>3, <1>4 DEF Turns

(* Any step.                                                               *)
LEMMA NextKind ==
  ASSUME IInv, [Next]_vars
  PROVE  Kinds
<1>1. ASSUME UNCHANGED vars  PROVE Kinds
  BY <1>1 DEF vars, storeVars, Kinds, Steps, Calm, Stays, Written
<1>2. ASSUME CommitSave \/ CommitHandoff \/ Settle \/ Crash  PROVE Kinds
  BY <1>2, CommitSaveKind, CommitHandoffKind, SettleKind, CrashKind DEF Kinds, Steps
<1>3. ASSUME NEW transition \in BOOLEAN, CommitFinish(transition)  PROVE Kinds
  <2>1. CASE Calm /\ (Stays \/ Leaves)
    BY <2>1 DEF Kinds, Steps
  <2>2. CASE \E status \in Status \ {"running"} : \E final \in Agent : Ends(status, final)
    BY <2>2 DEF Kinds
  <2> QED
    BY <1>3, <2>1, <2>2, CommitFinishKind
<1> QED
  BY <1>1, <1>2, <1>3, CommandsKind, TurnsKind DEF Next, Commits

(* What a step does to the store: nothing, one record, or one deleted.     *)
Moves == UNCHANGED storeVars \/ (\E s \in Session : \E r : Write(s, r)) \/ Deletes

(* The deletion of the current session.                                    *)
LEMMA DeleteCurrentMoves ==
  ASSUME IInv, DeleteCurrent
  PROVE  UNCHANGED storeVars \/ Deletes
<1>1. drawn \in [sessions : Session, turns : 0 .. MaxTurns]
  BY TypeParts DEF IInv, TDrawn
<1>2. /\ turn' = turn /\ broken' = broken /\ turn.pc = "idle"
      /\ \/ UNCHANGED storeVars
         \/ /\ stored' = stored \ {current.id} /\ db' = [db EXCEPT ![current.id] = EmptyRecord]
            /\ drawn' = [drawn EXCEPT !.sessions = @ + 1]
  BY DEF DeleteCurrent, Resting, Lost, storeVars, NextDraft
<1> QED
  BY <1>1, <1>2 DEF Deletes

(* Every step makes one such move.                                         *)
LEMMA NextMoves ==
  ASSUME IInv, [Next]_vars
  PROVE  Moves
<1>1. current.id \in Session
  BY TypeParts DEF IInv, TCurrent
<1>2. ASSUME turn.pc \notin {"idle", "open"}  PROVE turn.session \in Session
  BY <1>2, TurnIs DEF InTurn
<1>3. ASSUME UNCHANGED vars  PROVE Moves
  BY <1>3 DEF Moves, vars
<1>4. ASSUME Commands  PROVE Moves
  <2>1. ASSUME DeleteCurrent  PROVE Moves
    BY <2>1, DeleteCurrentMoves DEF Moves
  <2>2. ASSUME NEW s \in Session, Resume(s)  PROVE Moves
    BY <2>2, Zenon DEF Resume, Committed, Late, Lost, Moves
  <2>3. ASSUME Materialize \/ Mutate  PROVE Moves
    BY <1>1, <2>3, Zenon DEF Materialize, Mutate, Committed, Late, Lost, Refused, Moves
  <2>4. ASSUME NEW op \in Op, BeginCommand(op)  PROVE Moves
    BY <2>4 DEF BeginCommand, Moves
  <2>5. ASSUME OpenForCommand \/ AttachForCommand \/ NewDraft  PROVE Moves
    BY <2>5 DEF OpenForCommand, AttachForCommand, NewDraft, Moves
  <2> QED
    BY <1>4, <2>1, <2>2, <2>3, <2>4, <2>5 DEF Commands
<1>5. ASSUME Turns  PROVE Moves
  <2>1. ASSUME StartTurn  PROVE Moves
    <3>1. turn.session \in Session
      BY <1>2, <2>1 DEF StartTurn
    <3> QED
      BY <2>1, <3>1, Zenon DEF StartTurn, Committed, Late, Lost, Refused, Moves
  <2>2. ASSUME NEW uses \in {Calls, {HandoffUse}}, CallTools(uses)  PROVE Moves
    BY <2>2 DEF CallTools, Moves
  <2>3. ASSUME NEW outcome \in {"failed", "cancelled"}, End(outcome)  PROVE Moves
    BY <2>3 DEF End, Moves
  <2>4. ASSUME NEW u \in Calls, Result(u)  PROVE Moves
    BY <2>4 DEF Result, Moves
  <2>5. ASSUME BeginTurn \/ OpenForTurn \/ AttachForTurn \/ CreateAgent \/ Answer \/ RejectHandoff \/ SaveHandoff
        PROVE  Moves
    BY <2>5 DEF BeginTurn, OpenForTurn, AttachForTurn, CreateAgent, Answer, RejectHandoff, SaveHandoff, Moves
  <2> QED
    BY <1>5, <2>1, <2>2, <2>3, <2>4, <2>5 DEF Turns
<1>6. ASSUME Settle \/ Crash  PROVE Moves
  BY <1>6 DEF Settle, Crash, Moves
<1>7. ASSUME Commits  PROVE Moves
  <2>1. turn.session \in Session
    <3>1. chain # << >>
      BY <1>7 DEF Commits, CommitSave, CommitHandoff, CommitFinish, HeadIs
    <3>2. turn.pc = "run" \/ Ending
      BY <3>1 DEF IInv, Control
    <3> QED
      BY <1>2, <3>2 DEF Ending
  <2>2. ASSUME CommitSave  PROVE Moves
    BY <2>1, <2>2, Zenon DEF CommitSave, Committed, Late, Lost, Refused, Moves
  <2>3. ASSUME CommitHandoff  PROVE Moves
    BY <2>1, <2>3, Zenon DEF CommitHandoff, Committed, Late, Lost, Refused, Moves
  <2>4. ASSUME NEW transition \in BOOLEAN, CommitFinish(transition)  PROVE Moves
    BY <2>1, <2>4, Zenon DEF CommitFinish, Committed, Late, Lost, Refused, Moves
  <2> QED
    BY <1>7, <2>2, <2>3, <2>4 DEF Commits
<1> QED
  BY <1>3, <1>4, <1>5, <1>6, <1>7 DEF Next

-----------------------------------------------------------------------------
(* The turns of the store, after a step of each kind.                      *)

(* The types these proofs use.                                             *)
LEMMA TurnTypes ==
  ASSUME IInv
  PROVE  /\ db \in [Session -> Record] /\ stored \subseteq Session /\ broken \subseteq TurnId
         /\ drawn.turns \in Nat /\ turn.id \in Nat
         /\ \A s \in Session :
              /\ db[s].turns \in Seq(PersistedTurn)
              /\ \A i \in DOMAIN db[s].turns :
                   db[s].turns[i].id \in TurnId /\ db[s].turns[i].id \in Nat /\ db[s].turns[i].id # 0
<1>1. TStore /\ TBroken /\ TDrawn /\ TTurn
  BY TypeParts DEF IInv
<1>2. MaxTurns \in Nat
  BY SessionAssumption
<1>3. drawn.turns \in Nat /\ turn.id \in Nat
  BY <1>1, <1>2 DEF TDrawn, TTurn, TurnType, TurnId
<1>4. \A s \in Session : db[s] \in Record
  BY <1>1 DEF TStore
<1>5. \A s \in Session : db[s].turns \in Seq(PersistedTurn)
  BY <1>4, RecordIs
<1>6. \A t \in PersistedTurn : t.id \in TurnId /\ t.id \in Nat /\ t.id # 0
  BY <1>2 DEF PersistedTurn, TurnId
<1>7. \A s \in Session : \A i \in DOMAIN db[s].turns : db[s].turns[i] \in PersistedTurn
  BY <1>5
<1> QED
  BY <1>1, <1>3, <1>5, <1>6, <1>7 DEF TStore, TBroken

(* A turn of the store that a step leaves or changes: it keeps its id, and *)
(* runs afterwards only if it ran before.                                  *)
Old(s, i) ==
  /\ i \in DOMAIN db[s].turns
  /\ db'[s].turns[i].id = db[s].turns[i].id
  /\ db'[s].turns[i].status = "running" => db[s].turns[i].status = "running"

(* Such are all of them, but the one a step writes.                        *)
AllOld(s) == \A i \in DOMAIN db'[s].turns : Old(s, i)

(* Nothing is written by a step that leaves the store's turns.             *)
LEMMA CalmOld ==
  ASSUME Calm, NEW s \in Session
  PROVE  AllOld(s)
BY DEF Calm, AllOld, Old

(* Nothing is written by a command that interrupts.                        *)
LEMMA HaltsOld ==
  ASSUME IInv, NEW h \in Session, Halts(h), NEW s \in Session
  PROVE  AllOld(s) /\ \A i \in DOMAIN db'[h].turns : db'[h].turns[i].status # "running"
<1>1. db[h].turns \in Seq(PersistedTurn)
  BY TurnTypes
<1>2. DOMAIN db'[h].turns = DOMAIN db[h].turns
  BY <1>1, InterruptedIs DEF Halts
<1>3. \A i \in DOMAIN db[h].turns :
        /\ db'[h].turns[i].id = db[h].turns[i].id
        /\ db'[h].turns[i].status = IF db[h].turns[i].status = "running" THEN "interrupted" ELSE db[h].turns[i].status
  BY <1>1, InterruptedIs DEF Halts
<1>4. \A i \in DOMAIN db'[h].turns : db'[h].turns[i].status # "running"
  BY <1>2, <1>3
<1>5. CASE s = h
  BY <1>2, <1>3, <1>4, <1>5 DEF AllOld, Old
<1>6. CASE s # h
  <2>1. db'[s] = db[s]
    BY <1>6 DEF Halts
  <2> QED
    BY <1>4, <2>1 DEF AllOld, Old
<1> QED
  BY <1>4, <1>5, <1>6

(* Nothing is written by a deletion.                                       *)
LEMMA DeletesOld ==
  ASSUME IInv, Deletes, NEW s \in Session
  PROVE  AllOld(s)
<1>1. db \in [Session -> Record]
  BY TurnTypes
<1>2. db'[s] = IF s = current.id THEN EmptyRecord ELSE db[s]
  BY <1>1 DEF Deletes
<1>3. DOMAIN EmptyRecord.turns = {}
  BY DEF EmptyRecord
<1> QED
  BY <1>2, <1>3 DEF AllOld, Old

(* A turn that starts is written after the others of its session.          *)
LEMMA StartsOld ==
  ASSUME IInv, Starts
  PROVE  /\ turn.session \in Session /\ turn.id \in TurnId
         /\ \A s \in Session \ {turn.session} : db'[s] = db[s]
         /\ \A s \in Session : \A i \in DOMAIN db'[s].turns :
              Old(s, i) \/ (s = turn.session /\ db'[s].turns[i].id = turn.id)
         /\ \E i \in DOMAIN db'[turn.session].turns : db'[turn.session].turns[i].id = turn.id
         /\ \A i \in DOMAIN db'[turn.session].turns :
              db'[turn.session].turns[i].id = turn.id => db'[turn.session].turns[i].status = "running"
<1> DEFINE t == turn.session
           old == db[t].turns
           new == db'[t].turns
<1>1. InTurn
  BY DEF Starts, InTurn
<1>2. t \in Session /\ turn.id \in TurnId /\ db[t] \in Record
  BY <1>1, TurnIs
<1>3. db \in [Session -> Record] /\ old \in Seq(PersistedTurn)
  BY <1>2, TurnTypes
<1>4. db'[t] = Started(db[t], turn.id) /\ \A s \in Session \ {t} : db'[s] = db[s]
  <2>1. db' = [db EXCEPT ![t] = Started(db[t], turn.id)]
    BY Zenon DEF Starts, Write
  <2> QED
    BY <1>2, <1>3, <2>1
<1>5. new = Append(old, NewEntry(db[t], turn.id))
  <2>1. Started(db[t], turn.id).turns = Append(db[t].turns, NewEntry(db[t], turn.id))
    BY <1>2, StartedIs
  <2> QED
    BY <1>4, <2>1
<1>6. NewEntry(db[t], turn.id).id = turn.id /\ NewEntry(db[t], turn.id).status = "running"
  BY DEF NewEntry
<1> DEFINE e == NewEntry(db[t], turn.id)
<1> HIDE DEF e, old, new
<1>7. /\ Len(old) \in Nat /\ DOMAIN old = 1 .. Len(old) /\ DOMAIN new = 1 .. Len(old) + 1
      /\ \A i \in DOMAIN old : new[i] = old[i]
      /\ new[Len(old) + 1] = e
  BY <1>3, <1>5 DEF e
<1>8. \A i \in DOMAIN new : (i \in DOMAIN old /\ new[i] = old[i]) \/ (i = Len(old) + 1 /\ new[i] = e)
  BY <1>7
<1>9. \A i \in DOMAIN old : old[i].id # turn.id
  <2>1. Young(t) /\ turn.pc = "start"
    BY <1>2 DEF IInv, TurnsInv, Starts
  <2>2. \A i \in DOMAIN old : old[i].id < turn.id /\ old[i].id \in Nat
    BY <1>2, <2>1, TurnTypes DEF Young, old
  <2>3. turn.id \in Nat
    BY TurnTypes
  <2> QED
    BY <2>2, <2>3
<1>10. \A i \in DOMAIN new : Old(t, i) \/ new[i].id = turn.id
  BY <1>6, <1>8 DEF Old, e, old, new
<1>11. \A s \in Session \ {t} : \A i \in DOMAIN db'[s].turns : Old(s, i)
  BY <1>4 DEF Old
<1>12. \E i \in DOMAIN new : new[i].id = turn.id
  BY <1>6, <1>7 DEF e
<1>13. \A i \in DOMAIN new : new[i].id = turn.id => new[i].status = "running"
  BY <1>6, <1>8, <1>9 DEF e
<1>14. \A s \in Session : \A i \in DOMAIN db'[s].turns : Old(s, i) \/ (s = t /\ db'[s].turns[i].id = turn.id)
  BY <1>10, <1>11 DEF new
<1> QED
  BY <1>2, <1>4, <1>12, <1>13, <1>14 DEF new

(* Nothing is written by a turn that ends, and it runs no longer.          *)
LEMMA EndsOld ==
  ASSUME IInv, NEW status \in Status \ {"running"}, NEW final \in Agent, Ends(status, final)
  PROVE  /\ turn.session \in Session /\ turn.id \in TurnId
         /\ \A s \in Session : AllOld(s)
         /\ DOMAIN db'[turn.session].turns = DOMAIN db[turn.session].turns
         /\ \A i \in DOMAIN db'[turn.session].turns :
              db'[turn.session].turns[i].id = turn.id => db'[turn.session].turns[i].status # "running"
<1> DEFINE t == turn.session
           old == db[t].turns
           new == db'[t].turns
<1>1. InTurn
  BY DEF Ends, Ending, InTurn
<1>2. t \in Session /\ turn.id \in TurnId
  BY <1>1, TurnIs
<1>3. old \in Seq(PersistedTurn)
  BY <1>2, TurnTypes
<1>4. new = EndedTurns(old, turn.id, status, final) /\ \A s \in Session \ {t} : db'[s] = db[s]
  BY DEF Ends
<1> HIDE DEF old, new
<1>5. DOMAIN new = DOMAIN old
  BY <1>3, <1>4, EndedTurnsIs
<1>6. \A i \in DOMAIN old : new[i].id = old[i].id /\ new[i].status = IF old[i].id = turn.id THEN status ELSE old[i].status
  BY <1>3, <1>4, EndedTurnsIs
<1>7. \A i \in DOMAIN new : new[i].id = turn.id => new[i].status # "running"
  BY <1>5, <1>6
<1>8. AllOld(t)
  BY <1>5, <1>6 DEF AllOld, Old, old, new
<1>9. \A s \in Session \ {t} : AllOld(s)
  BY <1>4 DEF AllOld, Old
<1> QED
  BY <1>2, <1>5, <1>7, <1>8, <1>9 DEF old, new

-----------------------------------------------------------------------------
(* TurnsInv, after any step.                                               *)

(* What is not stored is empty.                                            *)
LEMMA EmptyStep ==
  ASSUME IInv, [Next]_vars
  PROVE  \A s \in Session : s \notin stored' => db'[s] = EmptyRecord
<1>1. db \in [Session -> Record] /\ Moves
  BY TurnTypes, NextMoves
<1>2. \A s \in Session : s \notin stored => db[s] = EmptyRecord
  BY DEF IInv, TurnsInv
<1>3. CASE UNCHANGED storeVars
  BY <1>2, <1>3 DEF storeVars
<1>4. ASSUME NEW s \in Session, NEW r, Write(s, r)
      PROVE  \A t \in Session : t \notin stored' => db'[t] = EmptyRecord
  BY <1>1, <1>2, <1>4 DEF Write
<1>5. CASE Deletes
  BY <1>1, <1>2, <1>5 DEF Deletes
<1> QED
  BY <1>1, <1>3, <1>4, <1>5 DEF Moves

(* The session of a turn that was written is stored.                       *)
LEMMA StoredStep ==
  ASSUME IInv, [Next]_vars, Written'
  PROVE  turn'.session \in stored'
<1>1. Written => turn.session \in stored
  BY DEF IInv, TurnsInv
<1>2. CASE Written /\ turn'.session = turn.session
  <2>1. ~Deletes
    BY <1>2 DEF Deletes, Written
  <2> QED
    BY <1>1, <1>2, <2>1, NextMoves DEF Moves, storeVars, Write
<1>3. CASE Starts
  BY <1>3 DEF Starts, Write, Written
<1>4. CASE Steps
  BY <1>2, <1>4 DEF Steps, Stays, Begins, Leaves, Written
<1>5. ASSUME NEW s \in Session, Halts(s)  PROVE FALSE
  BY <1>5 DEF Halts, Written
<1>6. ~Deletes
  BY DEF Deletes, Written
<1>7. ASSUME NEW status \in Status \ {"running"}, NEW final \in Agent, Ends(status, final)
      PROVE  turn'.session \in stored'
  BY <1>2, <1>7 DEF Ends, Ending, Written
<1> QED
  BY <1>3, <1>4, <1>5, <1>6, <1>7, NextKind DEF Kinds

(* A turn that was written stays in the transcript of its session.         *)
LEMMA KeptStep ==
  ASSUME IInv, [Next]_vars, Written'
  PROVE  /\ \E i \in DOMAIN db'[turn'.session].turns : db'[turn'.session].turns[i].id = turn'.id
         /\ turn'.pc # "refinish" =>
              \A i \in DOMAIN db'[turn'.session].turns :
                db'[turn'.session].turns[i].id = turn'.id => db'[turn'.session].turns[i].status = "running"
<1>1. /\ Written => /\ turn.session \in Session
                     /\ \E i \in DOMAIN db[turn.session].turns : db[turn.session].turns[i].id = turn.id
      /\ Written /\ turn.pc # "refinish" =>
           \A i \in DOMAIN db[turn.session].turns :
             db[turn.session].turns[i].id = turn.id => db[turn.session].turns[i].status = "running"
  <2>1. Written => turn.session \in Session
    BY TurnIs DEF Written, InTurn
  <2> QED
    BY <2>1 DEF IInv, TurnsInv
<1>2. CASE Steps
  <2>1. Stays /\ Calm /\ Written
    BY <1>2 DEF Steps, Stays, Begins, Leaves, Written
  <2>2. turn'.id = turn.id /\ turn'.session = turn.session /\ (turn.pc = "refinish" => turn'.pc = "refinish")
    BY <2>1 DEF Stays
  <2>3. db'[turn.session].turns = db[turn.session].turns
    BY <1>1, <2>1 DEF Calm
  <2> QED
    BY <1>1, <2>1, <2>2, <2>3
<1>3. CASE Starts
  <2>1. turn'.id = turn.id /\ turn'.session = turn.session
    BY <1>3 DEF Starts, Written
  <2> QED
    BY <1>3, <2>1, StartsOld
<1>4. ASSUME NEW s \in Session, Halts(s)  PROVE FALSE
  BY <1>4 DEF Halts, Written
<1>5. ~Deletes
  BY DEF Deletes, Written
<1>6. ASSUME NEW status \in Status \ {"running"}, NEW final \in Agent, Ends(status, final)
      PROVE  /\ \E i \in DOMAIN db'[turn'.session].turns : db'[turn'.session].turns[i].id = turn'.id
             /\ turn'.pc = "refinish"
  <2>1. Written /\ turn'.pc = "refinish" /\ turn'.id = turn.id /\ turn'.session = turn.session
    BY <1>6 DEF Ends, Ending, Written
  <2>2. /\ DOMAIN db'[turn.session].turns = DOMAIN db[turn.session].turns
        /\ \A i \in DOMAIN db'[turn.session].turns : db'[turn.session].turns[i].id = db[turn.session].turns[i].id
    BY <1>6, EndsOld DEF AllOld, Old
  <2> QED
    BY <1>1, <2>1, <2>2
<1> QED
  BY <1>2, <1>3, <1>4, <1>5, <1>6, NextKind DEF Kinds

(* No turn of the store is younger than the last one drawn.                *)
LEMMA YoungStep ==
  ASSUME IInv, [Next]_vars, NEW s \in Session, NEW i \in DOMAIN db'[s].turns
  PROVE  /\ db'[s].turns[i].id <= drawn'.turns
         /\ turn'.pc = "start" => db'[s].turns[i].id < turn'.id
         /\ db'[s].turns[i].id = turn'.id => s = turn'.session
<1> DEFINE id == db'[s].turns[i].id
           Goal == id <= drawn'.turns /\ (turn'.pc = "start" => id < turn'.id) /\ (id = turn'.id => s = turn'.session)
<1>1. drawn.turns \in Nat /\ turn.id \in Nat
  BY TurnTypes
<1>2. ASSUME Old(s, i)
      PROVE  /\ id \in Nat /\ id # 0 /\ id <= drawn.turns
             /\ turn.pc = "start" => id < turn.id
             /\ id = turn.id => s = turn.session
  <2>1. i \in DOMAIN db[s].turns /\ id = db[s].turns[i].id
    BY <1>2 DEF Old
  <2>2. Young(s)
    BY DEF IInv, TurnsInv
  <2>3. db[s].turns[i].id \in Nat /\ db[s].turns[i].id # 0
    BY <2>1, TurnTypes
  <2> QED
    BY <2>1, <2>2, <2>3 DEF Young
<1>3. CASE Steps
  <2>1. Old(s, i)
    BY <1>3, CalmOld DEF Steps, AllOld
  <2>2. CASE Stays
    BY <1>2, <2>1, <2>2 DEF Stays
  <2>3. CASE Begins
    BY <1>1, <1>2, <2>1, <2>3 DEF Begins
  <2>4. CASE Leaves
    BY <1>2, <2>1, <2>4 DEF Leaves
  <2> QED
    BY <1>3, <2>2, <2>3, <2>4 DEF Steps
<1>4. ASSUME NEW h \in Session, Halts(h)  PROVE Goal
  <2>1. Old(s, i)
    BY <1>4, HaltsOld DEF AllOld
  <2> QED
    BY <1>2, <1>4, <2>1 DEF Halts
<1>5. CASE Deletes
  <2>1. Old(s, i)
    BY <1>5, DeletesOld DEF AllOld
  <2> QED
    BY <1>2, <1>5, <2>1 DEF Deletes
<1>6. CASE Starts
  <2>1. InTurn
    BY <1>6 DEF Starts, InTurn
  <2>2. turn.id = drawn.turns
    BY <2>1 DEF IInv, Control
  <2>3. Old(s, i) \/ (s = turn.session /\ id = turn.id)
    BY <1>6, StartsOld
  <2>4. id \in Nat /\ id # 0 /\ id <= drawn.turns /\ (id = turn.id => s = turn.session)
    <3>1. turn.id # 0
      BY <2>1 DEF IInv, Control
    <3> QED
      BY <1>1, <1>2, <2>2, <2>3, <3>1
  <2>5. /\ drawn'.turns = drawn.turns /\ turn'.pc # "start"
        /\ turn'.id = 0 \/ (turn'.id = turn.id /\ turn'.session = turn.session)
    BY <1>6 DEF Starts
  <2> QED
    BY <2>4, <2>5
<1>7. ASSUME NEW status \in Status \ {"running"}, NEW final \in Agent, Ends(status, final)  PROVE Goal
  <2>1. Old(s, i)
    BY <1>7, EndsOld DEF AllOld
  <2>2. /\ drawn'.turns = drawn.turns /\ turn'.pc # "start"
        /\ turn'.id = 0 \/ (turn'.id = turn.id /\ turn'.session = turn.session)
    BY <1>7 DEF Ends
  <2>3. id \in Nat /\ id # 0 /\ id <= drawn.turns /\ (id = turn.id => s = turn.session)
    BY <1>2, <2>1
  <2> HIDE DEF id
  <2> QED
    BY <2>2, <2>3
<1> QED
  BY <1>3, <1>4, <1>5, <1>6, <1>7, NextKind DEF Kinds

(* What runs in the store is the turn that runs, or was given up.          *)
LEMMA RunningStep ==
  ASSUME IInv, [Next]_vars, NEW s \in Session, NEW i \in DOMAIN db'[s].turns, db'[s].turns[i].status = "running"
  PROVE  db'[s].turns[i].id \in broken' \/ db'[s].turns[i].id = turn'.id
<1> DEFINE id == db'[s].turns[i].id
           Goal == id \in broken' \/ id = turn'.id
<1>1. ASSUME Old(s, i)
      PROVE  /\ id \in Nat /\ id # 0
             /\ id \in broken \/ id = turn.id
             /\ turn.pc = "start" => id # turn.id
  <2>1. turn.id \in Nat /\ id \in Nat /\ id # 0
    BY <1>1, TurnTypes DEF Old
  <2>2. id \in broken \/ id = turn.id
    BY <1>1 DEF IInv, TurnsInv, Old
  <2>3. turn.pc = "start" => id < turn.id
    BY <1>1 DEF IInv, TurnsInv, Young, Old
  <2> HIDE DEF id
  <2> QED
    BY <2>1, <2>2, <2>3
<1>2. CASE Steps
  <2>1. Old(s, i)
    BY <1>2, CalmOld DEF Steps, AllOld
  <2>2. CASE Stays
    BY <1>1, <2>1, <2>2 DEF Stays
  <2>3. CASE Begins
    BY <1>1, <2>1, <2>3 DEF Begins
  <2>4. CASE Leaves
    BY <1>1, <2>1, <2>4 DEF Leaves
  <2> QED
    BY <1>2, <2>2, <2>3, <2>4 DEF Steps
<1>3. ASSUME NEW h \in Session, Halts(h)  PROVE Goal
  <2>1. Old(s, i)
    BY <1>3, HaltsOld DEF AllOld
  <2> QED
    BY <1>1, <1>3, <2>1 DEF Halts
<1>4. CASE Deletes
  <2>1. Old(s, i)
    BY <1>4, DeletesOld DEF AllOld
  <2> QED
    BY <1>1, <1>4, <2>1 DEF Deletes
<1>5. CASE Starts
  <2>1. Old(s, i) \/ id = turn.id
    BY <1>5, StartsOld
  <2>2. /\ turn.pc = "start" /\ broken \subseteq broken'
        /\ turn'.id = turn.id \/ turn.id \in broken'
    BY <1>5 DEF Starts
  <2> QED
    BY <1>1, <2>1, <2>2
<1>6. ASSUME NEW status \in Status \ {"running"}, NEW final \in Agent, Ends(status, final)  PROVE Goal
  <2>1. Old(s, i)
    BY <1>6, EndsOld DEF AllOld
  <2>2. s = turn.session => id # turn.id
    BY <1>6, EndsOld
  <2>3. id = turn.id => s = turn.session
    BY <2>1 DEF IInv, TurnsInv, Young, Old
  <2>4. broken \subseteq broken'
    BY <1>6 DEF Ends
  <2> HIDE DEF id
  <2> QED
    BY <1>1, <2>1, <2>2, <2>3, <2>4
<1> QED
  BY <1>2, <1>3, <1>4, <1>5, <1>6, NextKind DEF Kinds

(* Together: the turns of the store after any step.                        *)
LEMMA TurnsStep ==
  ASSUME IInv, [Next]_vars
  PROVE  TurnsInv'
<1>1. \A s \in Session : Young(s)'
  BY YoungStep DEF Young
<1> QED
  BY <1>1, EmptyStep, StoredStep, KeptStep, RunningStep DEF TurnsInv

-----------------------------------------------------------------------------
(* PhaseInv, after any step.                                               *)

(* No phase of p is younger than turn n.                                   *)
UpTo(p, n) == \A i \in DOMAIN p : p[i].first <= n /\ p[i].last <= n
Under(p, n) == \A i \in DOMAIN p : p[i].first < n /\ p[i].last < n
HasActive(p) == \E i \in DOMAIN p : p[i].status = "active"

(* What the elements of a sequence of phases are.                          *)
LEMMA PhasesAre ==
  ASSUME NEW p \in Seq(Phase)
  PROVE  /\ Len(p) \in Nat /\ DOMAIN p = 1 .. Len(p)
         /\ \A i \in DOMAIN p : /\ p[i].status \in {"active", "completed"}
                                /\ p[i].first \in Nat /\ p[i].last \in Nat
<1>1. Len(p) \in Nat /\ DOMAIN p = 1 .. Len(p) /\ \A i \in DOMAIN p : p[i] \in Phase
  OBVIOUS
<1>2. MaxTurns \in Nat
  BY SessionAssumption
<1>3. \A u \in Phase : u.status \in {"active", "completed"} /\ u.first \in Nat /\ u.last \in Nat
  BY <1>2 DEF Phase, TurnId
<1> QED
  BY <1>1, <1>3

(* A turn that starts opens a phase after the last one, if that is over.   *)
LEMMA NewPhasesOrdered ==
  ASSUME NEW r \in Record, NEW id \in TurnId, Ordered(r.phases), Under(r.phases, id)
  PROVE  Ordered(NewPhases(r, id)) /\ UpTo(NewPhases(r, id), id) /\ HasActive(NewPhases(r, id))
<1> DEFINE p == r.phases
           e == [status |-> "active", first |-> id, last |-> 0]
           q == Append(p, e)
<1>1. p \in Seq(Phase) /\ id \in Nat /\ id # 0
  BY RecordIs, SessionAssumption DEF TurnId
<1>2. CASE HasActivePhase(r)
  <2>1. NewPhases(r, id) = p
    BY <1>2 DEF NewPhases
  <2>2. HasActive(p)
    BY <1>2 DEF HasActivePhase, HasActive
  <2>3. UpTo(p, id)
    BY <1>1, PhasesAre DEF UpTo, Under
  <2> QED
    BY <2>1, <2>2, <2>3
<1>3. CASE ~HasActivePhase(r)
  <2>1. NewPhases(r, id) = q
    BY <1>3 DEF NewPhases
  <2>2. \A i \in DOMAIN p : p[i].status # "active"
    BY <1>3 DEF HasActivePhase
  <2>3. e.status = "active" /\ e.first = id /\ e.last = 0
    OBVIOUS
  <2> HIDE DEF p, e
  <2>4. /\ Len(p) \in Nat /\ DOMAIN p = 1 .. Len(p)
        /\ \A i \in DOMAIN p : p[i].status \in {"active", "completed"} /\ p[i].first \in Nat /\ p[i].last \in Nat
    BY <1>1, PhasesAre
  <2>5. /\ DOMAIN q = 1 .. Len(p) + 1 /\ Len(q) = Len(p) + 1
        /\ \A i \in 1 .. Len(p) : q[i] = p[i]
        /\ q[Len(p) + 1] = e
    BY <1>1
  <2> HIDE DEF q
  <2>6. HasActive(q)
    BY <2>3, <2>4, <2>5 DEF HasActive
  <2>7. \A i \in 1 .. Len(p) : p[i].first < id /\ p[i].last < id
    BY <2>4 DEF Under, p
  <2>8. UpTo(q, id)
    <3> SUFFICES ASSUME NEW i \in DOMAIN q  PROVE q[i].first <= id /\ q[i].last <= id
      BY DEF UpTo
    <3>1. CASE i \in 1 .. Len(p)
      BY <2>4, <2>5, <2>7, <3>1, <1>1
    <3>2. CASE i = Len(p) + 1
      BY <2>3, <2>5, <3>2, <1>1
    <3> QED
      BY <2>4, <2>5, <3>1, <3>2
  <2>9. Ordered(q)
    <3>1. ASSUME NEW i \in DOMAIN q
          PROVE  /\ q[i].status = "active" => i = Len(q)
                 /\ q[i].status = "completed" => q[i].first <= q[i].last
      <4>1. CASE i \in 1 .. Len(p)
        BY <2>2, <2>4, <2>5, <4>1 DEF Ordered, p
      <4>2. CASE i = Len(p) + 1
        BY <2>3, <2>5, <4>2
      <4> QED
        BY <2>4, <2>5, <3>1, <4>1, <4>2
    <3>2. ASSUME NEW i \in DOMAIN q, NEW j \in DOMAIN q, i < j
          PROVE  q[i].last < q[j].first
      <4>1. i \in 1 .. Len(p)
        BY <2>4, <2>5, <3>2
      <4>2. CASE j \in 1 .. Len(p)
        BY <2>4, <2>5, <3>2, <4>1, <4>2 DEF Ordered, p
      <4>3. CASE j = Len(p) + 1
        BY <2>3, <2>5, <2>7, <4>1, <4>3
      <4> QED
        BY <2>4, <2>5, <3>2, <4>2, <4>3
    <3> QED
      BY <3>1, <3>2 DEF Ordered
  <2> QED
    BY <2>1, <2>6, <2>8, <2>9
<1> QED
  BY <1>2, <1>3

(* A turn that completes a phase completes the last one.                   *)
LEMMA EndedPhasesOrdered ==
  ASSUME NEW p \in Seq(Phase), NEW id \in TurnId, Ordered(p), UpTo(p, id)
  PROVE  Ordered(EndedPhases(p, id)) /\ UpTo(EndedPhases(p, id), id)
<1> DEFINE q == EndedPhases(p, id)
<1>1. id \in Nat
  BY SessionAssumption DEF TurnId
<1>2. /\ Len(p) \in Nat /\ DOMAIN p = 1 .. Len(p)
      /\ \A i \in DOMAIN p : p[i].status \in {"active", "completed"} /\ p[i].first \in Nat /\ p[i].last \in Nat
  BY PhasesAre
<1>3. DOMAIN q = DOMAIN p /\ Len(q) = Len(p)
  BY EndedPhasesIs
<1>4. \A i \in DOMAIN p : /\ q[i].status = "completed" /\ q[i].first = p[i].first
                         /\ q[i].last = IF p[i].status = "active" THEN id ELSE p[i].last
  BY EndedPhasesIs
<1> HIDE DEF q
<1>5. UpTo(q, id)
  <2>1. \A i \in DOMAIN p : p[i].first <= id /\ p[i].last <= id
    BY DEF UpTo
  <2>2. \A i \in DOMAIN p : q[i].first <= id /\ q[i].last <= id
    BY <1>1, <1>4, <2>1
  <2> QED
    BY <1>3, <2>2, Zenon DEF UpTo
<1>6. \A i \in DOMAIN q : q[i].status # "active" /\ q[i].first <= q[i].last
  BY <1>1, <1>2, <1>3, <1>4 DEF UpTo, Ordered
<1>7. \A i, j \in DOMAIN q : i < j => q[i].last < q[j].first
  <2> SUFFICES ASSUME NEW i \in DOMAIN p, NEW j \in DOMAIN p, i < j  PROVE q[i].last < q[j].first
    BY <1>3
  <2>1. p[i].status # "active"
    BY <1>2 DEF Ordered
  <2> QED
    BY <1>4, <2>1 DEF Ordered
<1>8. Ordered(q)
  BY <1>6, <1>7 DEF Ordered
<1> QED
  BY <1>5, <1>8 DEF q

(* What the invariant says of the phases of a session.                     *)
LEMMA OldPhases ==
  ASSUME IInv, NEW s \in Session
  PROVE  /\ db[s].phases \in Seq(Phase)
         /\ Ordered(db[s].phases) /\ UpTo(db[s].phases, drawn.turns)
         /\ turn.pc = "start" => Under(db[s].phases, turn.id)
         /\ \A i \in DOMAIN db[s].turns :
              db[s].turns[i].status = "running" /\ db[s].turns[i].id \notin broken => HasActive(db[s].phases)
<1>1. db[s].phases \in Seq(Phase)
  BY TypeParts, RecordIs DEF IInv, TStore
<1> QED
  BY <1>1 DEF IInv, PhaseInv, UpTo, Under, HasActive

(* No phases are in order.                                                 *)
LEMMA NoPhases ==
  ASSUME NEW n
  PROVE  Ordered(<< >>) /\ UpTo(<< >>, n) /\ Under(<< >>, n)
<1>1. DOMAIN << >> = {}
  OBVIOUS
<1> QED
  BY <1>1 DEF Ordered, UpTo, Under

(* The phases of a session, after any step.                                *)
LEMMA PhasesOfStep ==
  ASSUME IInv, [Next]_vars, NEW s \in Session
  PROVE  /\ Ordered(db'[s].phases) /\ UpTo(db'[s].phases, drawn'.turns)
         /\ turn'.pc = "start" => Under(db'[s].phases, turn'.id)
<1> DEFINE old == db[s].phases
           new == db'[s].phases
           Goal == Ordered(new) /\ UpTo(new, drawn'.turns) /\ (turn'.pc = "start" => Under(new, turn'.id))
<1>1. /\ old \in Seq(Phase) /\ Ordered(old) /\ UpTo(old, drawn.turns)
      /\ turn.pc = "start" => Under(old, turn.id)
  BY OldPhases
<1>2. /\ Len(old) \in Nat /\ DOMAIN old = 1 .. Len(old)
      /\ \A i \in DOMAIN old : old[i].first \in Nat /\ old[i].last \in Nat
  BY <1>1, PhasesAre
<1>3. drawn.turns \in Nat /\ turn.id \in Nat
  BY TurnTypes
<1>4. InTurn => turn.id = drawn.turns /\ turn.id \in TurnId
  BY TurnIs DEF IInv, Control
<1>5. CASE Steps
  <2>1. new = old
    BY <1>5 DEF Steps, Calm
  <2> HIDE DEF old
  <2>2. CASE Stays
    <3>1. /\ drawn'.turns = drawn.turns /\ turn'.id = turn.id
          /\ turn'.pc = "start" => turn.pc = "start"
      BY <2>2 DEF Stays
    <3> QED
      BY <1>1, <2>1, <3>1
  <2>3. CASE Begins
    <3>1. \A i \in DOMAIN old : old[i].first <= drawn.turns /\ old[i].last <= drawn.turns
      BY <1>1 DEF UpTo
    <3>2. \A i \in DOMAIN old : old[i].first < drawn.turns + 1 /\ old[i].last < drawn.turns + 1
      BY <1>2, <1>3, <3>1
    <3>3. \A i \in DOMAIN old : old[i].first <= drawn.turns + 1 /\ old[i].last <= drawn.turns + 1
      BY <1>2, <1>3, <3>1
    <3> QED
      BY <1>1, <2>1, <2>3, <3>2, <3>3 DEF Begins, UpTo, Under
  <2>4. CASE Leaves
    <3>1. drawn'.turns = drawn.turns /\ turn'.pc # "start"
      BY <2>4 DEF Leaves
    <3> QED
      BY <1>1, <2>1, <3>1
  <2> QED
    BY <1>5, <2>2, <2>3, <2>4 DEF Steps
<1>6. ASSUME NEW h \in Session, Halts(h)  PROVE Goal
  <2>1. new = old \/ new = << >>
    BY <1>6 DEF Halts
  <2>2. drawn'.turns = drawn.turns /\ turn'.pc # "start"
    BY <1>6 DEF Halts
  <2> HIDE DEF old, new
  <2> QED
    BY <1>1, <2>1, <2>2, NoPhases
<1>7. CASE Deletes
  <2>1. db'[s] = IF s = current.id THEN EmptyRecord ELSE db[s]
    BY <1>7, TurnTypes DEF Deletes
  <2>2. new = old \/ new = << >>
    BY <2>1 DEF EmptyRecord
  <2>3. drawn'.turns = drawn.turns /\ turn'.pc # "start"
    BY <1>7 DEF Deletes
  <2> HIDE DEF old
  <2>4. Ordered(new) /\ UpTo(new, drawn.turns)
    <3> HIDE DEF new
    <3> QED
      BY <1>1, <2>2, NoPhases
  <2> QED
    BY <2>3, <2>4
<1>8. CASE Starts
  <2>1. InTurn /\ drawn'.turns = drawn.turns /\ turn'.pc # "start" /\ turn.pc = "start"
    BY <1>8 DEF Starts, InTurn
  <2>2. CASE s # turn.session
    <3>1. db'[s] = db[s]
      BY <1>8, <2>2, StartsOld
    <3> QED
      BY <1>1, <2>1, <3>1
  <2>3. CASE s = turn.session
    <3>1. db[s] \in Record
      BY <2>1, <2>3, TurnIs
    <3>2. db'[s] = Started(db[s], turn.id)
      <4>1. db' = [db EXCEPT ![turn.session] = Started(db[turn.session], turn.id)]
        BY <1>8, Zenon DEF Starts, Write
      <4> QED
        BY <2>3, <4>1, TurnTypes
    <3>3. new = NewPhases(db[s], turn.id)
      <4>1. Started(db[s], turn.id).phases = NewPhases(db[s], turn.id)
        BY <1>4, <2>1, <3>1, StartedIs
      <4> QED
        BY <3>2, <4>1
    <3>4. Ordered(NewPhases(db[s], turn.id)) /\ UpTo(NewPhases(db[s], turn.id), turn.id)
      BY <1>1, <1>4, <2>1, <3>1, NewPhasesOrdered
    <3> QED
      BY <1>4, <2>1, <3>3, <3>4
  <2> QED
    BY <2>2, <2>3
<1>9. ASSUME NEW status \in Status \ {"running"}, NEW final \in Agent, Ends(status, final)  PROVE Goal
  <2>1. InTurn /\ drawn'.turns = drawn.turns /\ turn'.pc # "start"
    BY <1>9 DEF Ends, Ending, InTurn
  <2>2. CASE new = old
    <3> HIDE DEF old, new
    <3> QED
      BY <1>1, <2>1, <2>2
  <2>3. CASE new = EndedPhases(old, turn.id)
    <3> HIDE DEF old, new
    <3>1. Ordered(new) /\ UpTo(new, turn.id)
      BY <1>1, <1>4, <2>1, <2>3, EndedPhasesOrdered
    <3> QED
      BY <1>4, <2>1, <3>1
  <2> QED
    BY <1>9, <2>2, <2>3 DEF Ends
<1> QED
  BY <1>5, <1>6, <1>7, <1>8, <1>9, NextKind DEF Kinds

(* What runs after a step has an active phase, unless it was given up.     *)
LEMMA ActiveStep ==
  ASSUME IInv, [Next]_vars, NEW s \in Session, NEW i \in DOMAIN db'[s].turns,
         db'[s].turns[i].status = "running", db'[s].turns[i].id \notin broken'
  PROVE  HasActive(db'[s].phases)
<1> DEFINE id == db'[s].turns[i].id
<1>1. ASSUME Old(s, i), broken \subseteq broken'
      PROVE  HasActive(db[s].phases)
  <2>1. i \in DOMAIN db[s].turns /\ db[s].turns[i].status = "running" /\ db[s].turns[i].id \notin broken
    BY <1>1 DEF Old
  <2> QED
    BY <2>1, OldPhases
<1>2. CASE Steps
  <2>1. Old(s, i) /\ db'[s].phases = db[s].phases
    BY <1>2, CalmOld DEF Steps, Calm, AllOld
  <2>2. broken \subseteq broken'
    BY <1>2 DEF Steps, Stays, Begins, Leaves
  <2> QED
    BY <1>1, <2>1, <2>2
<1>3. ASSUME NEW h \in Session, Halts(h)  PROVE HasActive(db'[s].phases)
  <2>1. Old(s, i) /\ s # h
    BY <1>3, HaltsOld DEF AllOld
  <2>2. db'[s] = db[s] /\ broken' = broken
    BY <1>3, <2>1 DEF Halts
  <2> QED
    BY <1>1, <2>1, <2>2
<1>4. CASE Deletes
  <2>1. db'[s] = IF s = current.id THEN EmptyRecord ELSE db[s]
    BY <1>4, TurnTypes DEF Deletes
  <2>2. s # current.id
    <3>1. DOMAIN EmptyRecord.turns = {}
      BY DEF EmptyRecord
    <3> QED
      BY <2>1, <3>1
  <2>3. db'[s] = db[s] /\ broken' = broken
    BY <1>4, <2>1, <2>2 DEF Deletes
  <2> QED
    BY <1>1, <1>4, <2>3, DeletesOld DEF AllOld
<1>5. CASE Starts
  <2>1. CASE s # turn.session
    <3>1. db'[s] = db[s]
      BY <1>5, <2>1, StartsOld
    <3>2. Old(s, i) /\ broken \subseteq broken'
      BY <1>5, <2>1, StartsOld DEF Starts
    <3> QED
      BY <1>1, <3>1, <3>2
  <2>2. CASE s = turn.session
    <3>1. InTurn /\ turn.pc = "start"
      BY <1>5 DEF Starts, InTurn
    <3>2. db[s] \in Record /\ turn.id \in TurnId
      BY <2>2, <3>1, TurnIs
    <3>3. db'[s] = Started(db[s], turn.id)
      <4>1. db' = [db EXCEPT ![turn.session] = Started(db[turn.session], turn.id)]
        BY <1>5, Zenon DEF Starts, Write
      <4> QED
        BY <2>2, <4>1, TurnTypes
    <3>4. Ordered(db[s].phases) /\ Under(db[s].phases, turn.id)
      BY <3>1, OldPhases
    <3>5. Started(db[s], turn.id).phases = NewPhases(db[s], turn.id)
      BY <3>2, StartedIs
    <3>6. HasActive(NewPhases(db[s], turn.id))
      BY <3>2, <3>4, NewPhasesOrdered
    <3> QED
      BY <3>3, <3>5, <3>6
  <2> QED
    BY <2>1, <2>2
<1>6. ASSUME NEW status \in Status \ {"running"}, NEW final \in Agent, Ends(status, final)
      PROVE  HasActive(db'[s].phases)
  <2>1. Old(s, i) /\ broken \subseteq broken'
    BY <1>6, EndsOld DEF AllOld, Ends
  <2>2. i \in DOMAIN db[s].turns /\ db[s].turns[i].id = id /\ db[s].turns[i].status = "running"
    BY <2>1 DEF Old
  <2>3. id \in broken \/ id = turn.id
    BY <2>2 DEF IInv, TurnsInv
  <2>4. id = turn.id
    BY <2>1, <2>3
  <2>5. s = turn.session
    BY <2>2, <2>4 DEF IInv, TurnsInv, Young
  <2> QED
    BY <1>6, <2>4, <2>5, EndsOld
<1> QED
  BY <1>2, <1>3, <1>4, <1>5, <1>6, NextKind DEF Kinds

(* Together: the phases of the store after any step.                       *)
LEMMA PhaseStep ==
  ASSUME IInv, [Next]_vars
  PROVE  PhaseInv'
<1>1. \A s \in Session : Ordered(db'[s].phases)
  BY PhasesOfStep
<1> QED
  BY <1>1, PhasesOfStep, ActiveStep DEF PhaseInv, Ordered, UpTo, Under, HasActive

-----------------------------------------------------------------------------
(* The invariant, and the properties of the module that follow from it.    *)

(* It holds at first.                                                      *)
LEMMA InitIs ==
  ASSUME Init
  PROVE  IInv
<1>1. /\ 1 \in Session /\ NumSessions \in Nat /\ MaxTurns \in Nat /\ MaxSteps \in Nat /\ MaxFailures \in Nat
      /\ MaxCrashes \in Nat
  BY SessionAssumption DEF Session
<1>2. EmptyRecord \in Record /\ DOMAIN EmptyRecord.turns = {} /\ EmptyRecord.phases = << >>
  BY DEF EmptyRecord, Record, Agent
<1>3. /\ turn.pc = "idle" /\ turn.id = 0 /\ turn.session = NoSession /\ turn.outcome = "none" /\ turn.draft = FALSE
      /\ cmd.op = "none" /\ cmd.pc = "done" /\ current.id = 1 /\ current.draft = TRUE /\ current.record = EmptyRecord
      /\ NoTurn \in TurnType
  BY <1>1 DEF Init, NoTurn, NoCommand, Draft, TurnType, TurnId, Agent
<1>4. TypeOK
  <2>1. TStore /\ TLease
    BY <1>1, <1>2 DEF Init, TStore, TLease
  <2>2. TCurrent
    BY <1>1, <1>2 DEF Init, TCurrent, Draft
  <2>3. TCmd
    BY DEF Init, TCmd, NoCommand
  <2>4. TTurn
    BY <1>3 DEF Init, TTurn
  <2>5. TLoop /\ TView /\ TChain
    BY DEF Init, TLoop, TView, TChain
  <2>6. TDrawn /\ TBroken
    BY <1>1 DEF Init, TDrawn, TBroken
  <2>7. TFaults
    BY <1>1 DEF Init, TFaults
  <2> QED
    BY <2>1, <2>2, <2>3, <2>4, <2>5, <2>6, <2>7, TypeParts
<1>5. Control
  BY <1>3 DEF Init, Control, InTurn, Ending, Live
<1>6. LeaseInv
  BY <1>1, <1>3 DEF Init, LeaseInv, Session, NoSession
<1>7. FreshInv
  BY <1>3 DEF FreshInv
<1>8. \A s \in Session : db[s] = EmptyRecord
  BY DEF Init
<1>9. TurnsInv
  BY <1>2, <1>3, <1>8 DEF TurnsInv, Young, Written
<1>10. PhaseInv
  <2>1. Ordered(<< >>) /\ DOMAIN << >> = {}
    BY NoPhases
  <2> QED
    BY <1>2, <1>8, <2>1 DEF PhaseInv
<1> QED
  BY <1>4, <1>5, <1>6, <1>7, <1>9, <1>10 DEF IInv

(* Every step keeps it.                                                    *)
LEMMA StepIs ==
  ASSUME IInv, [Next]_vars
  PROVE  IInv'
BY TypeStep, ControlStep, LeaseStep, FreshStep, TurnsStep, PhaseStep DEF IInv

(* It always holds.                                                        *)
LEMMA SessionInvariant == Spec => []IInv
BY InitIs, StepIs, PTL DEF Spec

(* The session layer's state always has its type: no failure, crash or     *)
(* command leaves a turn, a lease or a record half made.                   *)
THEOREM SessionTypeCorrect == Spec => []TypeOK
<1>1. IInv => TypeOK
  BY DEF IInv
<1> QED
  BY <1>1, SessionInvariant, PTL

(* At rest the lease of the attached session is held once, no other is,    *)
(* and it is the current one: newDraft, deleteCurrent and resume neither   *)
(* leak a lease nor release one twice, whatever failed in them.            *)
THEOREM LeasesAreAccounted == Spec => []LeaseAccounted
<1>1. IInv => LeaseAccounted
  BY DEF IInv, LeaseInv, LeaseAccounted
<1> QED
  BY <1>1, SessionInvariant, PTL

(* At rest what the controller shows is what the store has, whichever of a *)
(* command and a turn has written last, as long as no error came late.     *)
THEOREM CurrentIsFresh == Spec => []CurrentFresh
<1>1. IInv => CurrentFresh
  BY DEF IInv, FreshInv, CurrentFresh
<1> QED
  BY <1>1, SessionInvariant, PTL

(* A turn is running in the store only while the controller runs it,       *)
(* unless the process or the store failed it.                              *)
THEOREM RunningTurnIsLive == Spec => []RunningIsLive
<1>1. ASSUME IInv  PROVE RunningIsLive
  <2> SUFFICES ASSUME NEW s \in stored, NEW id \in RunningTurns(db[s])
               PROVE  id \in broken \cup (IF turn.id = 0 THEN {} ELSE {turn.id})
    BY DEF RunningIsLive
  <2>1. s \in Session
    BY <1>1, TurnTypes
  <2>2. PICK i \in DOMAIN db[s].turns : db[s].turns[i].id = id /\ db[s].turns[i].status = "running"
    BY DEF RunningTurns, Range
  <2>3. id \in broken \/ id = turn.id
    BY <1>1, <2>1, <2>2 DEF IInv, TurnsInv
  <2>4. id # 0
    BY <1>1, <2>1, <2>2, TurnTypes
  <2> QED
    BY <2>3, <2>4
<1> QED
  BY <1>1, SessionInvariant, PTL

(* At most one phase of a session is active and it is the last; the turns  *)
(* of its phases follow one another, and the turn that runs has a phase.   *)
THEOREM PhasesFollow == Spec => []PhasesInOrder
<1>1. ASSUME IInv  PROVE PhasesInOrder
  <2> SUFFICES ASSUME NEW s \in stored
               PROVE  LET phases == db[s].phases IN
                      /\ \A i \in DOMAIN phases : phases[i].status = "active" => i = Len(phases)
                      /\ \A i, j \in DOMAIN phases :
                           i < j => phases[i].first <= phases[i].last /\ phases[i].last < phases[j].first
                      /\ RunningTurns(db[s]) \ broken # {} => HasActivePhase(db[s])
    BY DEF PhasesInOrder
  <2> DEFINE p == db[s].phases
  <2>1. s \in Session
    BY <1>1, TurnTypes
  <2>2. p \in Seq(Phase) /\ Ordered(p)
    BY <1>1, <2>1, OldPhases
  <2>3. /\ Len(p) \in Nat /\ DOMAIN p = 1 .. Len(p)
        /\ \A i \in DOMAIN p : p[i].status \in {"active", "completed"}
    BY <2>2, PhasesAre
  <2>4. ASSUME RunningTurns(db[s]) \ broken # {}  PROVE HasActivePhase(db[s])
    <3>1. PICK id \in RunningTurns(db[s]) : id \notin broken
      BY <2>4
    <3>2. PICK i \in DOMAIN db[s].turns : db[s].turns[i].id = id /\ db[s].turns[i].status = "running"
      BY DEF RunningTurns, Range
    <3>3. HasActive(p)
      BY <1>1, <2>1, <3>1, <3>2, OldPhases
    <3> QED
      BY <3>3 DEF HasActive, HasActivePhase
  <2>5. \A i \in DOMAIN p : p[i].status = "active" => i = Len(p)
    BY <2>2 DEF Ordered
  <2>6. ASSUME NEW i \in DOMAIN p, NEW j \in DOMAIN p, i < j
        PROVE  p[i].first <= p[i].last /\ p[i].last < p[j].first
    <3>1. p[i].status = "completed"
      BY <2>3, <2>5, <2>6
    <3> QED
      BY <2>2, <2>6, <3>1 DEF Ordered
  <2> QED
    BY <2>4, <2>5, <2>6
<1> QED
  BY <1>1, SessionInvariant, PTL

(* A turn's status, once it is no longer running, is never changed again,  *)
(* but by the retry of a finish that reported an error.                    *)
THEOREM StatusIsFinal == Spec => StatusFinal
<1>1. ASSUME IInv, [Next]_vars,
             NEW s \in stored \cap stored', NEW i \in DOMAIN db[s].turns, db[s].turns[i].status # "running"
      PROVE  db'[s].turns[i].status = db[s].turns[i].status \/ turn.pc = "refinish"
  <2>1. s \in Session /\ db[s].turns \in Seq(PersistedTurn)
    BY <1>1, TurnTypes
  <2>2. CASE Steps
    BY <2>1, <2>2 DEF Steps, Calm
  <2>3. ASSUME NEW h \in Session, Halts(h)  PROVE db'[s].turns[i].status = db[s].turns[i].status
    <3>1. CASE s = h
      <4>1. Interrupted(db[s].turns)[i].status = db[s].turns[i].status
        BY <1>1, <2>1, InterruptedIs
      <4> QED
        BY <2>3, <3>1, <4>1 DEF Halts
    <3>2. CASE s # h
      <4>1. db'[s] = db[s]
        BY <2>1, <2>3, <3>2 DEF Halts
      <4> QED
        BY <4>1
    <3> QED
      BY <3>1, <3>2
  <2>4. CASE Deletes
    <3>1. s # current.id
      BY <2>4 DEF Deletes
    <3>2. db'[s] = db[s]
      BY <1>1, <2>1, <2>4, <3>1, TurnTypes DEF Deletes
    <3> QED
      BY <3>2
  <2>5. CASE Starts
    <3>1. CASE s # turn.session
      <4>1. db'[s] = db[s]
        BY <1>1, <2>1, <2>5, <3>1, StartsOld
      <4> QED
        BY <4>1
    <3>2. CASE s = turn.session
      <4>1. InTurn
        BY <2>5 DEF Starts, InTurn
      <4>2. db[s] \in Record /\ turn.id \in TurnId
        BY <1>1, <3>2, <4>1, TurnIs
      <4>3. db'[s] = Started(db[s], turn.id)
        <5>1. db' = [db EXCEPT ![turn.session] = Started(db[turn.session], turn.id)]
          BY <2>5, Zenon DEF Starts, Write
        <5> QED
          BY <1>1, <2>1, <3>2, <5>1, TurnTypes
      <4>4. Started(db[s], turn.id).turns = Append(db[s].turns, NewEntry(db[s], turn.id))
        BY <4>2, StartedIs
      <4>5. \A e : Append(db[s].turns, e)[i] = db[s].turns[i]
        BY <1>1, <2>1
      <4> QED
        BY <4>3, <4>4, <4>5
    <3> QED
      BY <3>1, <3>2
  <2>6. ASSUME NEW status \in Status \ {"running"}, NEW final \in Agent, Ends(status, final)
        PROVE  db'[s].turns[i].status = db[s].turns[i].status \/ turn.pc = "refinish"
    <3>1. CASE s # turn.session
      <4>1. db'[s] = db[s]
        BY <2>1, <2>6, <3>1 DEF Ends
      <4> QED
        BY <4>1
    <3>2. CASE s = turn.session /\ db[s].turns[i].id # turn.id
      <4>1. EndedTurns(db[s].turns, turn.id, status, final)[i].status = db[s].turns[i].status
        <5>1. status \in Status
          OBVIOUS
        <5> QED
          BY <1>1, <2>1, <3>2, <5>1, EndedTurnsIs
      <4> QED
        BY <2>6, <3>2, <4>1 DEF Ends
    <3>3. CASE s = turn.session /\ db[s].turns[i].id = turn.id
      <4>1. Written
        BY <2>6 DEF Ends, Ending, Written
      <4> QED
        BY <1>1, <3>3, <4>1 DEF IInv, TurnsInv
    <3> QED
      BY <3>1, <3>2, <3>3
  <2> QED
    BY <1>1, <2>2, <2>3, <2>4, <2>5, <2>6, NextKind DEF Kinds
<1>2. IInv /\ [Next]_vars =>
        [\A s \in stored \cap stored' : \A i \in DOMAIN db[s].turns :
           db[s].turns[i].status # "running" =>
             db'[s].turns[i].status = db[s].turns[i].status \/ turn.pc = "refinish"]_vars
  BY <1>1
<1> QED
  BY <1>2, SessionInvariant, PTL DEF Spec, StatusFinal

=============================================================================
