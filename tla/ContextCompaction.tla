-------------------------- MODULE ContextCompaction --------------------------
(***************************************************************************)
(* The context manager of the root branch and the compaction state of the  *)
(* session: summary nodes over whole turns, the frontier that stands for a *)
(* prefix of the transcript, and the phases that say what may be summed up *)
(* with what.                                                              *)
(*                                                                         *)
(* Token counts are abstracted: which prefix is compacted, where a segment *)
(* is cut and whether the budget holds are choices.  A node is its level,  *)
(* phase, range, children and policy version: two summaries of the same    *)
(* children are one node.  A turn is its number of messages up to the      *)
(* message that a repair inserts; what is in the current turn is counted   *)
(* in blocks, an assistant message with the results of its tool uses.      *)
(* A frontier that is given up for one over more turns is not kept: a node *)
(* of it that the code takes up again stands for the turns of the node     *)
(* made here, if perhaps over other children.                              *)
(***************************************************************************)
EXTENDS Integers, Sequences, SequencesExt, FiniteSets, Functions

CONSTANTS
  MaxTurns,      \* bound: turns of the session
  MaxBlocks,     \* bound: blocks of a turn
  MaxSize,       \* bound: turns, and blocks of the last one, together
  MaxPolicy,     \* bound: times the program is replaced by one with a new policy version
  RecentTurns,   \* recentTurns of the policy
  RecentBlocks,  \* activeTurnRecentBlocks of the policy
  Modes          \* the modes turns run in, a subset of Mode

\* Compaction is off for every agent, on for the active agent, or on for an agent that
\* the active one may hand off to.
Mode == {"off", "auto", "spare"}
ASSUME CompactionAssumption ==
  /\ {MaxTurns, MaxBlocks, MaxSize, RecentTurns, RecentBlocks} \subseteq Nat \ {0}
  /\ MaxPolicy \in Nat
  /\ Modes \subseteq Mode

VARIABLES
  turns,     \* the transcript: messages of each turn, and whether tool uses lack results
  phases,    \* compaction.phases: first and last turn, 0 while the phase is active
  nodes,     \* compaction.nodes, in the order they were appended
  checkpoint,\* compaction.checkpoint: frontier, active phase and policy version
  policy,    \* the policy version of the program that runs
  pc,        \* where the current turn stands
  manager,   \* RuntimeContextManager
  blocks,    \* blocks of the current turn
  view,      \* the messages the last preparation returned
  outcome    \* how the last preparation ended

stored == <<turns, phases, nodes, checkpoint, policy>>
vars == <<stored, pc, manager, blocks, view, outcome>>

NoPhase == 0
NoView == [front |-> <<>>, raw |-> 0, text |-> {}]
NoManager == [on |-> FALSE, nodes |-> <<>>, checkpoint |-> <<>>, invalid |-> FALSE, text |-> {}]
EmptyCheckpoint == [front |-> <<>>, phase |-> NoPhase, ver |-> 0]

TypeOK ==
  /\ turns \in Seq([size : 1 .. 2, open : BOOLEAN]) /\ Len(turns) <= MaxTurns
  /\ phases \in Seq([first : 1 .. MaxTurns, last : 0 .. MaxTurns])
  /\ policy \in 0 .. MaxPolicy
  /\ pc \in {"idle", "prepare", "rebuild", "model", "failing"}
  /\ blocks \in 0 .. MaxBlocks
  /\ manager.text \subseteq 1 .. MaxBlocks
  /\ outcome \in {"none", "ok", "invalid", "rejected", "stuck"}

Init ==
  /\ turns = <<>> /\ phases = <<>> /\ nodes = <<>> /\ checkpoint = EmptyCheckpoint /\ policy = 0
  /\ pc = "idle" /\ manager = NoManager /\ blocks = 0 /\ view = NoView /\ outcome = "none"

-----------------------------------------------------------------------------
(* The sources of the transcript.                                          *)

FirstMessage(ts, t) == 1 + SumFunctionOnSet([i \in 1 .. t - 1 |-> ts[i].size], 1 .. t - 1)
LastMessage(ts, t) == FirstMessage(ts, t) + ts[t].size - 1

Covers(ps, i, t) == ps[i].first <= t /\ (ps[i].last = 0 \/ t <= ps[i].last)
PhaseOf(ps, t) == LET over == {i \in DOMAIN ps : Covers(ps, i, t)}
                  IN  IF over = {} THEN NoPhase ELSE CHOOSE i \in over : \A j \in over : j <= i
\* Mutant: only the first phase is looked at.
ActiveFirst(ps) == {i \in {1} \cap DOMAIN ps : ps[i].last = 0}
Active(ps) == {i \in DOMAIN ps : ps[i].last = 0}
ActivePhase(ps) == IF Active(ps) = {} THEN NoPhase ELSE CHOOSE i \in Active(ps) : TRUE
Completed(ps) == DOMAIN ps \ Active(ps)

-----------------------------------------------------------------------------
(* Nodes and frontiers.                                                    *)

Span(from, to) == [from |-> from, to |-> to, first |-> FirstMessage(turns, from),
                   last |-> LastMessage(turns, to)]
Merged(kids) == [from |-> kids[1].span.from, to |-> Last(kids).span.to,
                 first |-> kids[1].span.first, last |-> Last(kids).span.last]

RECURSIVE Under(_)
Under(n) == {n} \cup UNION {Under(n.kids[i]) : i \in DOMAIN n.kids}
Reachable(front) == UNION {Under(front[i]) : i \in DOMAIN front}

\* Children before their parent, as the manager appends them.
RECURSIVE PostOrder(_)
PostOrder(n) == Append(FlattenSeq([i \in DOMAIN n.kids |-> PostOrder(n.kids[i])]), n)
TopNodes(front) == front          \* mutant: the descendants are not appended
AllNodes(front) == FlattenSeq([i \in DOMAIN front |-> PostOrder(front[i])])

Tiled(ns) == \A i \in 1 .. Len(ns) - 1 : ns[i].span.last + 1 = ns[i + 1].span.first
FromStart(ns) == ns # <<>> => ns[1].span.first = 1
CoveredTurns(front) == IF front = <<>> THEN 0 ELSE Last(front).span.to

ValidRange(n) ==
  /\ n.span.from <= n.span.to /\ n.span.to <= Len(turns)
  /\ n.span = Span(n.span.from, n.span.to)
  /\ n.level # "session" => n.ph = PhaseOf(phases, n.span.from) /\ n.ph = PhaseOf(phases, n.span.to)

ValidChildren(n) ==
  IF n.level = "turn" THEN n.kids = <<>>
  ELSE /\ n.kids # <<>> /\ Tiled(n.kids)
       /\ n.kids[1].span.first = n.span.first /\ Last(n.kids).span.last = n.span.last
       /\ n.level = "segment" => \A i \in DOMAIN n.kids : n.kids[i].level = "turn"
       /\ n.level = "phase" => \A i \in DOMAIN n.kids : n.kids[i].ph = n.ph

ValidPhases(cp) ==
  LET active == Active(phases) IN
  /\ cp.phase = ActivePhase(phases)
  /\ \A n \in Reachable(cp.front) :
       /\ n.cp => n.level = "phase" /\ n.ph \in active
       /\ n.level = "phase" /\ n.ph \in active => n.cp
       /\ n.level = "session" => \A k \in Under(n) : k.ph \notin active

\* What validateFrontier checks of a checkpoint over the nodes of known.
ValidFrontier(cp, known) ==
  /\ Reachable(cp.front) \subseteq known
  /\ \A n \in Reachable(cp.front) : n.ver = cp.ver /\ ValidRange(n) /\ ValidChildren(n)
  /\ FromStart(cp.front) /\ Tiled(cp.front)
  /\ ValidPhases(cp)

\* The cheaper check of a frontier the manager has validated before.
ValidFast(cp) ==
  /\ cp.ver = policy
  /\ \A i \in DOMAIN cp.front : cp.front[i].ver = cp.ver /\ ValidRange(cp.front[i])
  /\ FromStart(cp.front) /\ Tiled(cp.front)
  /\ cp.phase = ActivePhase(phases)
  /\ \A i \in DOMAIN cp.front : cp.front[i].cp => cp.front[i].ph = ActivePhase(phases)

\* A completed phase's checkpoints give way to their children.
RECURSIVE Expanded(_, _)
Expanded(n, done) == IF n.cp /\ n.ph \in done
                       THEN FlattenSeq([i \in DOMAIN n.kids |-> Expanded(n.kids[i], done)])
                       ELSE <<n>>
KeepCheckpoints(front, done) == front       \* mutant: the checkpoints of the phase stay
ExpandCompleted(front, done) == FlattenSeq([i \in DOMAIN front |-> Expanded(front[i], done)])
Expandable(front, done) == LET expanded == ExpandCompleted(front, done) IN
  /\ ToSet(expanded) \subseteq ToSet(nodes)
  /\ Cardinality(ToSet(expanded)) = Len(expanded)
  /\ FromStart(expanded) /\ Tiled(expanded)

-----------------------------------------------------------------------------
(* Building the summaries of a longer prefix.                              *)

\* The newest node of a level over a range is used again if it is a checkpoint or not alike.
Remembered(known, level, span) ==
  {i \in DOMAIN known : known[i].level = level /\ known[i].span = span /\ known[i].ver = policy}
Node(known, level, ph, cp, span, kids) ==
  LET same == Remembered(known, level, span)
      fresh == [level |-> level, ph |-> ph, cp |-> cp, span |-> span, kids |-> kids, ver |-> policy]
  IN  IF same = {} THEN fresh
      ELSE LET n == known[CHOOSE i \in same : \A j \in same : j <= i]
           IN  IF n.cp = cp THEN n ELSE fresh
TurnNode(known, t) == Node(known, "turn", PhaseOf(phases, t), FALSE, Span(t, t), <<>>)

\* A parent has the phase it is given, or the one its children share.
SharedPhase(kids) == IF \A i \in DOMAIN kids : kids[i].ph = kids[1].ph THEN kids[1].ph ELSE NoPhase
Parent(known, level, kids, cp, ph) ==
  Node(known, level, IF ph # NoPhase THEN ph ELSE SharedPhase(kids), cp, Merged(kids), kids)

\* A node joins the group before it unless the group is full (its turn is in cuts) or, below
\* the session level, both have a phase and these differ.
GroupPhase(group) == LET phased == SelectSeq(group, LAMBDA n : n.ph # NoPhase)
                     IN  IF phased = <<>> THEN NoPhase ELSE phased[1].ph
CrossesPhase(level, group, n) ==
  level # "session" /\ NoPhase \notin {GroupPhase(group), n.ph} /\ GroupPhase(group) # n.ph
Grouped(ns, level, cuts) ==
  FoldLeft(LAMBDA groups, n :
             IF groups = <<>> \/ n.span.from \in cuts \/ CrossesPhase(level, Last(groups), n)
               THEN Append(groups, <<n>>)
               ELSE Append(Front(groups), Append(Last(groups), n)),
           <<>>, ns)
Parents(known, level, ns, cuts) ==
  LET groups == Grouped(ns, level, cuts) IN
  [i \in DOMAIN groups |-> IF Len(groups[i]) = 1 THEN groups[i][1]
                           ELSE Parent(known, level, groups[i], FALSE, NoPhase)]

\* Runs of nodes of one phase.
ByPhase(ns) ==
  FoldLeft(LAMBDA runs, n : IF runs = <<>> \/ Last(runs)[1].ph # n.ph
                              THEN Append(runs, <<n>>)
                              ELSE Append(Front(runs), Append(Last(runs), n)),
           <<>>, ns)

\* A completed phase always gets its node, an active one a checkpoint if it has several nodes.
PhaseEntries(known, segments, cuts) ==
  LET runs == ByPhase(segments)
      Entry(run) == CASE run[1].ph \in Completed(phases) ->
                           <<Parent(known, "phase", run, FALSE, run[1].ph)>>
                      [] run[1].ph \in Active(phases) ->
                           IF Len(run) = 1 THEN run ELSE <<Parent(known, "phase", run, TRUE, run[1].ph)>>
                      [] OTHER -> Parents(known, "phase", run, cuts)
  IN  FlattenSeq([i \in DOMAIN runs |-> Entry(runs[i])])

IsCheckpoint(n) == n.cp           \* mutant: only checkpoints count as active
IsActive(n) == n.cp \/ n.ph \in Active(phases)
IsPast(n) == ~IsActive(n)

\* The graphs over turns from .. to: segments, phases, and session nodes over the past, wherever
\* the groups of these three levels end.
Starts(ns) == {ns[i].span.from : i \in 2 .. Len(ns)}
Graphs(known, from, to) ==
  LET leaves == [i \in 1 .. to - from + 1 |-> TurnNode(known, from + i - 1)]
      segmented == {Parents(known, "segment", leaves, cuts) : cuts \in SUBSET Starts(leaves)}
      phased == UNION {{PhaseEntries(known, ns, cuts) : cuts \in SUBSET Starts(ns)} : ns \in segmented}
      OverPast(ns, cuts) == Parents(known, "session", SelectSeq(ns, IsPast), cuts) \o SelectSeq(ns, IsActive)
  IN  UNION {{OverPast(ns, cuts) : cuts \in SUBSET Starts(ns)} : ns \in phased}

\* The nodes of a completed phase become one node of the phase.
Finalized(known, front) ==
  LET runs == ByPhase(front)
      Open(n) == IF n.level = "phase" /\ ~n.cp THEN n.kids ELSE <<n>>
      Final(run) ==
        IF run[1].ph \notin Completed(phases)
           \/ (Len(run) = 1 /\ run[1].level = "phase" /\ ~run[1].cp)
          THEN run
          ELSE <<Parent(known, "phase", FlattenSeq([i \in DOMAIN run |-> Open(run[i])]), FALSE, run[1].ph)>>
  IN  FlattenSeq([i \in DOMAIN runs |-> Final(runs[i])])

\* The budget leaves room for one session node and one checkpoint of the active phase.
Tightened(known, front) ==
  LET past == SelectSeq(front, IsPast)
      current == SelectSeq(front, IsActive)
      One(ns, node) == IF ns = <<>> THEN <<>> ELSE <<node>>
  IN  One(past, IF Len(past) = 1 /\ past[1].level = "session" THEN past[1]
                ELSE Parent(known, "session", past, FALSE, NoPhase))
      \o One(current, IF Len(current) = 1 /\ current[1].level = "phase" /\ current[1].cp THEN current[1]
                      ELSE Parent(known, "phase", current, TRUE, current[1].ph))

\* The frontiers after compacting the raw tail of stable up to a turn, tightened or not.
Frontiers(known, stable, to) ==
  LET fronts == {Finalized(known, stable \o graph) : graph \in Graphs(known, CoveredTurns(stable) + 1, to)}
  IN  fronts \cup {Tightened(known, front) : front \in fronts}

SelectableAny(stable) == CoveredTurns(stable) + 1 .. Len(turns) - 1       \* mutant: open turns too
\* Turns that may be compacted: complete ones before the current turn, none skipped.
Selectable(stable) ==
  {to \in CoveredTurns(stable) + 1 .. Len(turns) - 1 :
     \A t \in CoveredTurns(stable) + 1 .. to : ~turns[t].open}

\* Of these, the ones the policy does not protect while the input fits.
NormalEnds(stable) == {to \in Selectable(stable) : to <= Len(turns) - RecentTurns}

-----------------------------------------------------------------------------
(* The manager.                                                            *)

Restored ==
  LET valid == checkpoint.ver = policy /\ ValidFrontier(checkpoint, ToSet(nodes)) IN
  [NoManager EXCEPT !.on = TRUE, !.invalid = ~valid,
                    !.nodes = IF valid THEN nodes ELSE <<>>,
                    !.checkpoint = IF valid THEN checkpoint ELSE EmptyCheckpoint]

Invalidated(m) == [m EXCEPT !.nodes = <<>>, !.checkpoint = EmptyCheckpoint, !.invalid = TRUE, !.text = {}]
HasFrontier(m) == ~m.invalid /\ m.checkpoint.front # <<>>
Baseline == IF HasFrontier(manager) /\ ~ValidFast(manager.checkpoint) THEN Invalidated(manager) ELSE manager
NoStable(m) == <<>>               \* mutant: the frontier is not reused
Stable(m) == IF HasFrontier(m) THEN m.checkpoint.front ELSE <<>>

ViewOf(front, text) == [front |-> front, raw |-> CoveredTurns(front) + 1, text |-> text]

\* The blocks of the current turn the in-process summary stands for once it is extended.
EarlierText(m) ==
  LET earlier == 1 .. blocks - RecentBlocks IN
  IF m.text # {} /\ m.text \subseteq earlier
    THEN m.text \cup {b \in earlier : b > Cardinality(m.text)}
    ELSE earlier
Summarised(m) == [m EXCEPT !.text = EarlierText(m)]

NewCheckpoint(front) == [front |-> front, phase |-> ActivePhase(phases), ver |-> policy]

\* commitCompactionState: the session's nodes with the update's, and whether it is accepted.
WithNodes(new) == nodes \o SelectSeq(new, LAMBDA n : n \notin ToSet(nodes))
Accepts(cp, new) ==
  /\ ValidFrontier(cp, ToSet(WithNodes(new)))
  /\ ToSet(new) \subseteq Reachable(cp.front)

\* persistStateUpdate: the update is validated, committed, and then taken over.
Persist(m, cp, sent) ==
  LET new == SelectSeq(AllNodes(cp.front), LAMBDA n : n \notin ToSet(m.nodes))
  IN IF ~ValidFrontier(cp, ToSet(m.nodes) \cup Reachable(cp.front))
       THEN /\ UNCHANGED <<nodes, checkpoint, view>>
            /\ IF HasFrontier(m)
                 THEN manager' = Invalidated(m) /\ pc' = "rebuild" /\ outcome' = "none"
                 ELSE manager' = m /\ pc' = "failing" /\ outcome' = "invalid"
     ELSE IF ~Accepts(cp, new)
       THEN /\ UNCHANGED <<nodes, checkpoint, view>>
            /\ manager' = m /\ pc' = "failing" /\ outcome' = "rejected"
     ELSE /\ nodes' = WithNodes(new) /\ checkpoint' = cp
          /\ manager' = [m EXCEPT !.nodes = @ \o new, !.checkpoint = cp, !.invalid = FALSE]
          /\ view' = sent /\ pc' = "model" /\ outcome' = "ok"

Send(m, sent) ==
  /\ manager' = m /\ view' = sent /\ pc' = "model" /\ outcome' = "ok"
  /\ UNCHANGED <<nodes, checkpoint>>

Preparing == pc \in {"prepare", "rebuild"}
preparing == <<turns, phases, policy, blocks>>

(* The input, or the frontier and the raw tail, fit the trigger budget; or *)
(* they exceed it and nothing may be compacted while the input fits.  The  *)
(* current turn is sent as it is, whatever has been summed up of it.       *)
SendAsItIs ==
  /\ Preparing
  /\ Baseline.invalid => NormalEnds(<<>>) = {}
  /\ Send(Baseline, ViewOf(Stable(Baseline), {}))
  /\ UNCHANGED preparing

(* A state found invalid is replaced by an empty frontier if the input is  *)
(* small enough.                                                           *)
StartOver ==
  /\ Preparing
  /\ Baseline.invalid
  /\ Persist(Baseline, NewCheckpoint(<<>>), ViewOf(<<>>, {}))
  /\ UNCHANGED preparing

(* The oldest turns of the raw tail are compacted, and, when the input     *)
(* still exceeds the budget, the earlier blocks of the current turn.       *)
Compact ==
  /\ Preparing
  /\ \E m \in {Baseline} :
       \E to \in Selectable(Stable(m)) : \E front \in Frontiers(m.nodes, Stable(m), to) :
         \/ Persist(m, NewCheckpoint(front), ViewOf(front, {}))
         \/ EarlierText(m) # {} /\ Persist(Summarised(m), NewCheckpoint(front), ViewOf(front, EarlierText(m)))
  /\ UNCHANGED preparing

(* No turn may be compacted and the input exceeds the budget.              *)
CompactCurrentTurn ==
  /\ Preparing
  /\ Selectable(Stable(Baseline)) = {}
  /\ Send(Summarised(Baseline), ViewOf(Stable(Baseline), EarlierText(Baseline)))
  /\ UNCHANGED preparing

-----------------------------------------------------------------------------
(* The session around it.                                                  *)

OpensPhase(mode) == mode = "auto" /\ Active(phases) = {}

(* startTurn, then the manager of the turn is made from the record.        *)
StartTurn ==
  /\ pc = "idle" /\ Len(turns) < MaxTurns
  /\ turns' = Append(turns, [size |-> 1, open |-> FALSE])
  /\ \E mode \in Modes :
       /\ phases' = IF OpensPhase(mode) THEN Append(phases, [first |-> Len(turns) + 1, last |-> 0])
                    ELSE phases
       /\ checkpoint' = IF OpensPhase(mode)
                          THEN [checkpoint EXCEPT !.phase = Len(phases) + 1, !.ver = policy]
                          ELSE checkpoint
       /\ UNCHANGED <<nodes, policy>>
       /\ manager' = IF mode = "off" THEN NoManager ELSE Restored'
       /\ pc' = IF mode = "auto" THEN "prepare" ELSE "model"
  /\ blocks' = 0 /\ view' = NoView /\ outcome' = "none"

(* The model answered with tool uses and their results are in; in a turn   *)
(* of mode "spare" the first of them is the handoff.  Without a manager    *)
(* nothing here depends on the blocks.                                     *)
Work ==
  /\ pc = "model" /\ manager.on
  /\ blocks < MaxBlocks /\ Len(turns) + blocks < MaxSize
  /\ blocks' = blocks + 1
  /\ pc' = "prepare"
  /\ view' = NoView /\ outcome' = "none"
  /\ UNCHANGED <<stored, manager>>

EndTurn ==
  /\ pc' = "idle" /\ manager' = NoManager /\ blocks' = 0 /\ view' = NoView /\ outcome' = "none"
  /\ UNCHANGED <<nodes, policy>>

\* phase_transition is a tool: its call is in a block of the turn.
MayTransition == manager.on /\ blocks > 0

(* finishTurn of a completed turn, perhaps with a phase transition that    *)
(* the phase_transition tool has registered.                               *)
FinishTurn ==
  /\ pc = "model"
  /\ \/ EndTurn /\ UNCHANGED <<turns, phases, checkpoint>>
     \/ /\ MayTransition
        /\ IF Expandable(checkpoint.front, Active(phases))
             THEN /\ phases' = [i \in DOMAIN phases |-> IF i \in Active(phases)
                                  THEN [phases[i] EXCEPT !.last = Len(turns)] ELSE phases[i]]
                  /\ checkpoint' = [front |-> ExpandCompleted(checkpoint.front, Active(phases)),
                                    phase |-> NoPhase, ver |-> policy]
                  /\ EndTurn /\ UNCHANGED turns
             ELSE /\ pc' = "failing" /\ outcome' = "stuck"
                  /\ UNCHANGED <<stored, manager, blocks, view>>

(* The turn fails or is cancelled, also because a summary fails or the     *)
(* context is too large all the same; if its end is not written, the tool  *)
(* uses of the last message may stay without results.                      *)
AbandonTurn ==
  /\ pc # "idle"
  /\ \E open \in BOOLEAN :
       /\ open => pc = "model"
       /\ turns' = [turns EXCEPT ![Len(turns)].open = open]
  /\ EndTurn /\ UNCHANGED <<phases, checkpoint>>

(* A new process resumes the session: the results that lack are inserted.  *)
Restart ==
  /\ pc = "idle"
  /\ turns' = [t \in DOMAIN turns |-> IF turns[t].open THEN [size |-> 2, open |-> FALSE] ELSE turns[t]]
  /\ policy' \in {policy, policy + 1} \cap 0 .. MaxPolicy
  /\ UNCHANGED <<phases, nodes, checkpoint, pc, manager, blocks, view, outcome>>

Next ==
  \/ SendAsItIs \/ StartOver \/ Compact \/ CompactCurrentTurn
  \/ StartTurn \/ Work \/ FinishTurn \/ AbandonTurn \/ Restart

Spec == Init /\ [][Next]_vars

-----------------------------------------------------------------------------
(* Properties.                                                             *)

(* What the manager has built and validated itself, from the active phase  *)
(* alone and from the nodes it remembers, the session service accepts; and *)
(* the end of a phase never finds a checkpoint it cannot expand, which     *)
(* would leave the turn running.                                           *)
UpdatesAccepted == outcome \notin {"rejected", "stuck"}

PhaseBorder == \E t \in 1 .. Len(turns) - 1 :
                 (PhaseOf(phases, t) = NoPhase) # (PhaseOf(phases, t + 1) = NoPhase)
OldPolicy == checkpoint.ver # policy \/ \E n \in Reachable(checkpoint.front) : n.ver # policy

(* The manager finds its state invalid, or builds an invalid frontier,     *)
(* only when the stored frontier is of another policy version, or in a     *)
(* session where turns without a phase (compaction was off) adjoin turns   *)
(* with one.                                                               *)
InvalidForAReason == manager.invalid \/ outcome = "invalid" => OldPolicy \/ PhaseBorder

Leaves(front) == SelectSeq(AllNodes(front), LAMBDA n : n.level = "turn")

(* The model gets every turn once and in order: the summaries stand for    *)
(* exactly the turns before the raw tail, of which none lacks a tool       *)
(* result, the current user message is raw, and the checkpoint of the      *)
(* current turn stands for its first blocks without a gap.                 *)
ViewExact ==
  view # NoView =>
    /\ LET leaves == Leaves(view.front) IN
         /\ Len(leaves) = view.raw - 1
         /\ \A i \in DOMAIN leaves : leaves[i].span = Span(i, i) /\ ~turns[i].open
    /\ view.raw <= Len(turns)
    /\ view.text = 1 .. Cardinality(view.text)
    /\ Cardinality(view.text) < blocks \/ view.text = {}

(* The next turn's manager, or this one's next preparation, can take up    *)
(* the stored frontier: after any sequence of compactions, phase ends,     *)
(* broken turns, repairs and mode changes it is still a valid one.         *)
StoredFrontierUsable ==
  (\A n \in Reachable(checkpoint.front) : n.ver = checkpoint.ver) =>
    ValidFrontier(checkpoint, ToSet(nodes))

(* A session summary the model gets stands for no turn of the active       *)
(* phase, wherever in the graph.                                           *)
SessionSummariesClosed ==
  \A n \in Reachable(view.front) : n.level = "session" =>
    \A t \in n.span.from .. n.span.to, i \in DOMAIN phases :
      phases[i].last = 0 => ~Covers(phases, i, t)

(* Only a manager that has found its state invalid gives up turns that     *)
(* the stored frontier covers.                                             *)
CoverageKept ==
  [][CoveredTurns(checkpoint'.front) < CoveredTurns(checkpoint.front) => Baseline.invalid]_vars
=============================================================================
