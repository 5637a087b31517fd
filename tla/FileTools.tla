------------------------------ MODULE FileTools -------------------------------
(***************************************************************************)
(* The tools of coding/tools that change or read workspace files, as the   *)
(* ToolExecutor runs the tool uses of one assistant message: all at the    *)
(* same time, one step per await.  In a dry run the tools that mutate only *)
(* preview, and a report lists every call.                                 *)
(*                                                                         *)
(* A path is the sequence of its names; the directory << >> always exists. *)
(* The contents of a file are its lines; the text that str_replace looks   *)
(* for is a whole line.                                                    *)
(***************************************************************************)
EXTENDS UnifiedPatch, FiniteSets, TLC

CONSTANTS
  Calls,
  Relative,      \* a path that is not absolute
  DevNull,       \* /dev/null
  Dir,           \* what a directory is in the workspace
  Unlimited,     \* count is omitted
  Messages,      \* [Calls -> inputs or None]: the assistant messages
  Workspaces,    \* [paths -> contents or Dir]: the workspaces they may find
  Modes          \* subset of {"execute", "dry_run"}

VARIABLES
  initial,   \* the workspace before the message
  files,     \* the workspace
  input,     \* [Calls -> input or None]
  mode,
  pc,        \* [Calls -> Place]
  section,   \* [Calls -> Nat]: the file of the patch that is being worked on
  seen,      \* [Calls -> contents]: the text as read, or the paths found
  walk,      \* [Calls -> paths]: the directories list_files has still to read
  draft,     \* [Calls -> contents or None]: the text to be written
  answer,    \* [Calls -> Answer]
  entries    \* DryRunReportBuilder.entries

vars == <<initial, files, input, mode, pc, section, seen, walk, draft, answer, entries>>
given == <<initial, input, mode>>

(* The tools of coding/tools that read or change workspace files.          *)
Tools ==
  {"read_file", "file_info", "list_files", "glob_search",
   "write_file", "str_replace", "apply_patch", "move_path", "mkdir"}

IsInput(in) ==
  /\ in.tool \in Tools
  /\ in.tool = "write_file" => in.content \in Content
  /\ in.tool = "str_replace" => in.new \in Line
  /\ in.tool = "apply_patch" => IsPatch(in.patch)

IsWorkspace(ws) ==
  IsFiniteSet(DOMAIN ws) /\ \A p \in DOMAIN ws : ws[p] = Dir \/ ws[p] \in Content

ASSUME FilesAssumption ==
  /\ Modes \subseteq {"execute", "dry_run"}
  /\ \A message \in Messages, c \in Calls : message[c] = None \/ IsInput(message[c])
  /\ \A ws \in Workspaces : IsWorkspace(ws)
  /\ None \notin Content

Place == {"idle", "reading", "parent", "writing", "done"}
Answer == {"none", "changed", "unchanged", "read", "failed", "thrown", "planned", "no_change", "blocked"}

-----------------------------------------------------------------------------
(* The file system (external): what access, stat, mkdir, rename and the    *)
(* reads and writes of Bun.file do with a path.                            *)
IsDir(ws, p) == p = << >> \/ (p \in DOMAIN ws /\ ws[p] = Dir)
IsFile(ws, p) == p \in DOMAIN ws /\ ws[p] # Dir
Exists(ws, p) == IsDir(ws, p) \/ IsFile(ws, p)
Text(ws, p) == IF IsFile(ws, p) THEN ws[p] ELSE << >>
Ancestors(p) == {SubSeq(p, 1, n) : n \in 1 .. Len(p) - 1}
UnderFile(ws, p) == \E q \in Ancestors(p) : IsFile(ws, q)

WithDirs(ws, ps) == [p \in ps \cup DOMAIN ws |-> IF p \in DOMAIN ws THEN ws[p] ELSE Dir]
CanMakeDirs(ws, p) == ~UnderFile(ws, p) /\ ~IsFile(ws, p)
MakeDirs(ws, p) == WithDirs(ws, Ancestors(p) \cup ({p} \ {<< >>}))

CanWrite(ws, p) == ~UnderFile(ws, p) /\ ~IsDir(ws, p)
Written(ws, p, text) == [WithDirs(ws, Ancestors(p) \cup {p}) EXCEPT ![p] = text]

CanRename(ws, from, to) ==
  /\ Exists(ws, from)
  /\ IsDir(ws, Front(to))
  /\ \/ from = to
     \/ ~IsPrefix(from, to) /\ ~IsPrefix(to, from) /\ ~Exists(ws, to)
     \/ ~IsPrefix(from, to) /\ IsFile(ws, from) /\ IsFile(ws, to)
     \/ /\ ~IsPrefix(from, to) /\ IsDir(ws, from) /\ IsDir(ws, to)
        /\ ~\E q \in DOMAIN ws : IsStrictPrefix(to, q)

Renamed(ws, from, to) ==
  LET moved == {q \in DOMAIN ws : IsPrefix(from, q)}
      New(q) == to \o SubSeq(q, Len(from) + 1, Len(q))
      under == {New(q) : q \in moved}
  IN IF from = to THEN ws
     ELSE [q \in under \cup (DOMAIN ws \ moved) |->
             ws[IF q \in under THEN CHOOSE r \in moved : New(r) = q ELSE q]]

-----------------------------------------------------------------------------
(* What the tools compute.                                                 *)
IsAbsolute(p) == p # Relative

(* The lines that match, in order, and the first `count` of them.          *)
Occurrences(text, old) == {i \in DOMAIN text : text[i] = old}
Chosen(text, in) ==
  {i \in Occurrences(text, in.old) :
     in.count = Unlimited \/ Cardinality({j \in Occurrences(text, in.old) : j <= i}) <= in.count}
Replaced(text, in) == [i \in DOMAIN text |-> IF i \in Chosen(text, in) THEN in.new ELSE text[i]]

Mutating(in) == in.tool \notin {"read_file", "file_info", "list_files", "glob_search"}
Sections(in) == ParsePatch(in.patch)

(* The paths of an input that ensureAbsolutePath looks at.                 *)
CheckedPaths(in) ==
  CASE in.tool = "move_path" -> {in.from, in.to}
    [] in.tool = "apply_patch" -> {}
    [] OTHER -> {in.path}
Valid(in) == \A p \in CheckedPaths(in) : IsAbsolute(p)

(* What list_files finds in a directory, and what it goes on to walk.      *)
Items(ws, dir) == {q \in DOMAIN ws : Len(q) = Len(dir) + 1 /\ IsPrefix(dir, q)}
Deeper(ws, in, dir) ==
  {q \in Items(ws, dir) : IsDir(ws, q) /\ Len(dir) - Len(in.path) < in.maxDepth}

(* The files under a directory that glob_search may report: pattern is the *)
(* set of names it stands for.                                             *)
Matches(ws, in) ==
  {q \in DOMAIN ws : IsFile(ws, q) /\ IsStrictPrefix(in.path, q) /\ Last(q) \in in.pattern}
Scans(ws, in) ==
  LET found == Matches(ws, in)
  IN IF Cardinality(found) <= in.limit THEN {found} ELSE kSubset(in.limit, found)

Patchable(p) == p # DevNull /\ IsAbsolute(p)

(* Mutant: the preview of a patch looks at its paths, not at its hunks.    *)
PreviewOfPaths(ws, in) ==
  IF Sections(in) # << >> /\ \A i \in DOMAIN Sections(in) : Patchable(Sections(in)[i].newPath)
    THEN "planned" ELSE "blocked"

PreviewOfPatch(ws, in) ==
  IF /\ Sections(in) # << >>
     /\ \A i \in DOMAIN Sections(in) :
          LET file == Sections(in)[i]
          IN Patchable(file.newPath) /\ ApplyHunks(Text(ws, file.newPath), file.hunks) # None
    THEN "planned" ELSE "blocked"

PreviewOfWrite(ws, in) == IF Text(ws, in.path) # in.content THEN "planned" ELSE "no_change"

PreviewOfReplace(ws, in) ==
  CASE ~IsFile(ws, in.path) \/ in.old = "" \/ Chosen(ws[in.path], in) = {} -> "blocked"
    [] OTHER -> IF Replaced(ws[in.path], in) # ws[in.path] THEN "planned" ELSE "no_change"

PreviewOfMove(ws, in) ==
  CASE ~Exists(ws, in.from) \/ UnderFile(ws, in.to) -> "blocked"
    [] OTHER -> IF in.from = in.to THEN "no_change" ELSE "planned"

(* mkdir catches its own complaint about a file in its place, and plans    *)
(* the directory.                                                          *)
PreviewOfMkdir(ws, in) ==
  CASE IsDir(ws, in.path) -> "no_change"
    [] UnderFile(ws, in.path) -> "blocked"
    [] OTHER -> "planned"

(* tool.preview: blocked stands for a preview that throws.                 *)
PreviewOf(ws, in) ==
  IF ~Valid(in) THEN "blocked"
  ELSE CASE in.tool = "write_file" -> PreviewOfWrite(ws, in)
         [] in.tool = "str_replace" -> PreviewOfReplace(ws, in)
         [] in.tool = "apply_patch" -> PreviewOfPatch(ws, in)
         [] in.tool = "move_path" -> PreviewOfMove(ws, in)
         [] in.tool = "mkdir" -> PreviewOfMkdir(ws, in)

-----------------------------------------------------------------------------
Init ==
  /\ initial \in Workspaces
  /\ files = initial
  /\ input \in Messages
  /\ mode \in Modes
  /\ pc = [c \in Calls |-> IF input[c] = None THEN "done" ELSE "idle"]
  /\ section = [c \in Calls |-> 1]
  /\ seen = [c \in Calls |-> << >>]
  /\ walk = [c \in Calls |-> << >>]
  /\ draft = [c \in Calls |-> None]
  /\ answer = [c \in Calls |-> "none"]
  /\ entries = << >>

Is(c, tool) == input[c].tool = tool
Goto(c, place) == pc' = [pc EXCEPT ![c] = place]

(* Mutant: the mode is not looked at.                                      *)
RunsAnyway(c) == TRUE

(* ToolExecutor.route: in a dry run only the tools that do not mutate run. *)
Runs(c) == mode = "execute" \/ ~Mutating(input[c])

At(c, place) == pc[c] = place /\ input[c] # None /\ Runs(c)

(* toRuntimeToolOutcome: a tool that answers ok: false is an outcome with  *)
(* an error.                                                               *)
Outcome(result) ==
  [ok |-> result \notin {"failed", "blocked"}, summary |-> result]

(* finish: the disposition of an entry says how the call was routed, not   *)
(* whether it succeeded; a tool that throws gets no entry.                 *)
Disposition(result) ==
  CASE result \in {"planned", "no_change"} -> "previewed"
    [] result = "blocked" -> "blocked"
    [] OTHER -> "executed"

Reply(c, result) ==
  /\ Goto(c, "done")
  /\ answer' = [answer EXCEPT ![c] = result]
  /\ entries' = IF mode = "dry_run" /\ result # "thrown"
                  THEN Append(entries, [call |-> c, disposition |-> Disposition(result), outcome |-> Outcome(result)])
                  ELSE entries

Preview(c) ==
  /\ pc[c] = "idle"
  /\ ~Runs(c)
  /\ Reply(c, PreviewOf(files, input[c]))
  /\ UNCHANGED <<given, files, section, seen, draft, walk>>

RefusePath(c) ==
  /\ At(c, "idle")
  /\ ~Valid(input[c])
  /\ Reply(c, "failed")
  /\ UNCHANGED <<given, files, section, seen, draft, walk>>

MovePath(c) ==
  /\ At(c, "idle") /\ Is(c, "move_path") /\ Valid(input[c])
  /\ LET from == input[c].from
         to == input[c].to
     IN IF CanRename(files, from, to)
          THEN files' = Renamed(files, from, to) /\ Reply(c, "changed")
          ELSE UNCHANGED files /\ Reply(c, "failed")
  /\ UNCHANGED <<given, section, seen, draft, walk>>

CanMkdir(ws, in) ==
  IF in.recursive THEN CanMakeDirs(ws, in.path)
  ELSE IsDir(ws, Front(in.path)) /\ ~Exists(ws, in.path)

Mkdir(c) ==
  /\ At(c, "idle") /\ Is(c, "mkdir") /\ Valid(input[c])
  /\ IF CanMkdir(files, input[c])
       THEN files' = MakeDirs(files, input[c].path) /\ Reply(c, "changed")
       ELSE UNCHANGED files /\ Reply(c, "failed")
  /\ UNCHANGED <<given, section, seen, draft, walk>>

BeginWrite(c) ==
  /\ At(c, "idle") /\ Is(c, "write_file") /\ Valid(input[c])
  /\ draft' = [draft EXCEPT ![c] = input[c].content]
  /\ Goto(c, "parent")
  /\ UNCHANGED <<given, files, section, seen, answer, entries, walk>>

(* file.exists of str_replace and read_file.                               *)
Look(c) ==
  /\ At(c, "idle") /\ (Is(c, "str_replace") \/ Is(c, "read_file")) /\ Valid(input[c])
  /\ IF ~IsFile(files, input[c].path) \/ (Is(c, "str_replace") /\ input[c].old = "")
       THEN Reply(c, "failed")
       ELSE Goto(c, "reading") /\ UNCHANGED <<answer, entries>>
  /\ UNCHANGED <<given, files, section, seen, draft, walk>>

(* file_info: one stat.                                                    *)
Inspect(c) ==
  /\ At(c, "idle") /\ Is(c, "file_info") /\ Valid(input[c])
  /\ Reply(c, IF Exists(files, input[c].path) THEN "read" ELSE "failed")
  /\ UNCHANGED <<given, files, section, seen, draft, walk>>

(* ensureDirectoryPath of list_files and glob_search.                      *)
OpenDirectory(c) ==
  /\ At(c, "idle") /\ (Is(c, "list_files") \/ Is(c, "glob_search")) /\ Valid(input[c])
  /\ IF IsDir(files, input[c].path)
       THEN /\ walk' = [walk EXCEPT ![c] = <<input[c].path>>]
            /\ Goto(c, "reading")
            /\ UNCHANGED <<answer, entries>>
       ELSE Reply(c, "failed") /\ UNCHANGED walk
  /\ UNCHANGED <<given, files, section, seen, draft>>

(* walk: one readdir; the directories found are walked at once, before the *)
(* rest.  A directory that has gone ends the call in an exception.         *)
ListDirectory(c) ==
  /\ At(c, "reading") /\ Is(c, "list_files")
  /\ LET dir == Head(walk[c])
         rest == SetToSeq(Deeper(files, input[c], dir)) \o Tail(walk[c])
     IN IF IsDir(files, dir)
          THEN /\ seen' = [seen EXCEPT ![c] = @ \o SetToSeq(Items(files, dir))]
               /\ walk' = [walk EXCEPT ![c] = rest]
               /\ IF rest = << >> THEN Reply(c, "read") ELSE UNCHANGED <<pc, answer, entries>>
          ELSE Reply(c, "thrown") /\ UNCHANGED <<seen, walk>>
  /\ UNCHANGED <<given, files, section, draft>>

(* globber.scan, up to the limit.                                          *)
Scan(c) ==
  /\ At(c, "reading") /\ Is(c, "glob_search")
  /\ IF IsDir(files, input[c].path)
       THEN /\ \E found \in Scans(files, input[c]) : seen' = [seen EXCEPT ![c] = SetToSeq(found)]
            /\ Reply(c, "read")
       ELSE Reply(c, "failed") /\ UNCHANGED seen
  /\ UNCHANGED <<given, files, section, draft, walk>>

(* file.text throws if the file has gone since.                            *)
ReadFile(c) ==
  /\ At(c, "reading") /\ Is(c, "read_file")
  /\ IF IsFile(files, input[c].path)
       THEN seen' = [seen EXCEPT ![c] = files[input[c].path]] /\ Reply(c, "read")
       ELSE UNCHANGED seen /\ Reply(c, "thrown")
  /\ UNCHANGED <<given, files, section, draft, walk>>

ReplaceText(c) ==
  /\ At(c, "reading") /\ Is(c, "str_replace")
  /\ LET in == input[c]
         text == Text(files, in.path)
     IN \/ /\ ~IsFile(files, in.path)
           /\ Reply(c, "thrown")
           /\ UNCHANGED draft
        \/ /\ IsFile(files, in.path)
           /\ in.count # 0 /\ Chosen(text, in) = {}
           /\ Reply(c, "failed")
           /\ UNCHANGED draft
        \/ /\ IsFile(files, in.path)
           /\ in.count = 0 \/ (Chosen(text, in) # {} /\ Replaced(text, in) = text)
           /\ Reply(c, "unchanged")
           /\ UNCHANGED draft
        \/ /\ IsFile(files, in.path)
           /\ in.count # 0 /\ Replaced(text, in) # text
           /\ draft' = [draft EXCEPT ![c] = Replaced(text, in)]
           /\ Goto(c, "writing")
           /\ UNCHANGED <<answer, entries>>
  /\ UNCHANGED <<given, files, section, seen, walk>>

(* The loop of apply_patch over the files of the patch: the original is    *)
(* the file as it is when its turn comes.                                  *)
PatchFile(c) == Sections(input[c])[section[c]]
MayPatch(c) == Sections(input[c]) # << >> /\ Patchable(PatchFile(c).newPath)

(* The hunks applied to a text, or the end of the call in an error.        *)
Patched(c, text) ==
  /\ seen' = [seen EXCEPT ![c] = text]
  /\ draft' = [draft EXCEPT ![c] = ApplyHunks(text, PatchFile(c).hunks)]
  /\ IF draft'[c] = None THEN Reply(c, "failed")
     ELSE Goto(c, "parent") /\ UNCHANGED <<answer, entries>>

OpenPatchFile(c) ==
  /\ At(c, "idle") /\ Is(c, "apply_patch")
  /\ \/ /\ ~MayPatch(c)
        /\ Reply(c, "failed")
        /\ UNCHANGED <<seen, draft>>
     \/ /\ MayPatch(c)
        /\ IF IsFile(files, PatchFile(c).newPath)
             THEN Goto(c, "reading") /\ UNCHANGED <<seen, draft, answer, entries>>
             ELSE Patched(c, << >>)
  /\ UNCHANGED <<given, files, section, walk>>

(* Mutant: a patch reads its files before it writes the first of them.     *)
ReadPatchFileAtFirst(c) ==
  /\ At(c, "reading") /\ Is(c, "apply_patch")
  /\ Patched(c, Text(initial, PatchFile(c).newPath))
  /\ UNCHANGED <<given, files, section, walk>>

ReadPatchFile(c) ==
  /\ At(c, "reading") /\ Is(c, "apply_patch")
  /\ IF IsFile(files, PatchFile(c).newPath) THEN Patched(c, files[PatchFile(c).newPath])
     ELSE Reply(c, "failed") /\ UNCHANGED <<seen, draft>>
  /\ UNCHANGED <<given, files, section, walk>>

PathOf(c) == IF Is(c, "apply_patch") THEN PatchFile(c).newPath ELSE input[c].path

(* access, and mkdir if the parent does not exist.                         *)
EnsureParent(c) ==
  /\ At(c, "parent")
  /\ LET parent == Front(PathOf(c))
     IN \/ /\ Exists(files, parent)
           /\ Goto(c, "writing")
           /\ UNCHANGED <<files, answer, entries>>
        \/ /\ ~Exists(files, parent) /\ CanMakeDirs(files, parent)
           /\ files' = MakeDirs(files, parent)
           /\ Goto(c, "writing")
           /\ UNCHANGED <<answer, entries>>
        \/ /\ ~Exists(files, parent) /\ ~CanMakeDirs(files, parent)
           /\ Reply(c, "failed")
           /\ UNCHANGED files
  /\ UNCHANGED <<given, section, seen, draft, walk>>

(* file.write; a patch goes on with its next file.                         *)
WriteFile(c) ==
  /\ At(c, "writing")
  /\ IF CanWrite(files, PathOf(c))
       THEN /\ files' = Written(files, PathOf(c), draft[c])
            /\ IF Is(c, "apply_patch") /\ section[c] < Len(Sections(input[c]))
                 THEN /\ section' = [section EXCEPT ![c] = @ + 1]
                      /\ Goto(c, "idle")
                      /\ UNCHANGED <<answer, entries>>
                 ELSE Reply(c, "changed") /\ UNCHANGED section
       ELSE Reply(c, "failed") /\ UNCHANGED <<files, section>>
  /\ UNCHANGED <<given, seen, draft, walk>>

Next ==
  \E c \in Calls :
    \/ Preview(c) \/ RefusePath(c) \/ MovePath(c) \/ Mkdir(c) \/ BeginWrite(c)
    \/ Inspect(c) \/ OpenDirectory(c) \/ ListDirectory(c) \/ Scan(c)
    \/ Look(c) \/ ReadFile(c) \/ ReplaceText(c)
    \/ OpenPatchFile(c) \/ ReadPatchFile(c) \/ EnsureParent(c) \/ WriteFile(c)

Spec == Init /\ [][Next]_vars

-----------------------------------------------------------------------------
(* Properties.                                                             *)
TypeOK ==
  /\ mode \in Modes
  /\ pc \in [Calls -> Place]
  /\ section \in [Calls -> Nat \ {0}]
  /\ answer \in [Calls -> Answer]

(* Hunks that replace lines, in order and inside the file, change exactly  *)
(* the lines they name: apply_patch computes what the unified diff says of *)
(* the file with LF line ends, or refuses it where that file does not have *)
(* the lines it replaces.  Every CR before a line end goes with the patch. *)
PatchLands ==
  \A c \in Calls :
    input[c] # None /\ Is(c, "apply_patch") /\ MayPatch(c) =>
      LET hunks == PatchFile(c).hunks
          source == SourceLines(seen[c])
          refused == answer[c] = "failed" /\ draft[c] = None /\ hunks # << >>
      IN (pc[c] = "parent" \/ refused) /\ Plain(source, hunks) => draft[c] = Reference(source, hunks)

(* The same of every patch that apply_patch accepts, read as its author    *)
(* wrote it.  The code does not keep this: see the README.                 *)
AcceptedPatchLands ==
  \A c \in Calls :
    input[c] # None /\ Is(c, "apply_patch") /\ pc[c] = "parent" =>
      draft[c] = Reference(SourceLines(seen[c]), AsWritten(input[c].patch)[section[c]].hunks)

(* What a call does when nothing else runs.                                *)
Done(ws, result) == [files |-> ws, answer |-> result]

WrittenAlone(ws, p, text) ==
  IF CanWrite(ws, p) THEN Done(Written(ws, p, text), "changed") ELSE Done(ws, "failed")

SectionAlone(done, file) ==
  LET text == ApplyHunks(Text(done.files, file.newPath), file.hunks)
  IN IF done.answer = "failed" \/ ~Patchable(file.newPath) \/ text = None
       THEN [done EXCEPT !.answer = "failed"]
       ELSE WrittenAlone(done.files, file.newPath, text)

ReplacedAlone(ws, in) ==
  LET text == Text(ws, in.path)
  IN CASE ~IsFile(ws, in.path) \/ in.old = "" -> Done(ws, "failed")
       [] OTHER ->
            IF in.count # 0 /\ Chosen(text, in) = {} THEN Done(ws, "failed")
            ELSE IF in.count = 0 \/ Replaced(text, in) = text THEN Done(ws, "unchanged")
            ELSE WrittenAlone(ws, in.path, Replaced(text, in))

PatchedAlone(ws, in) ==
  IF Sections(in) = << >> THEN Done(ws, "failed")
  ELSE FoldLeft(SectionAlone, Done(ws, "changed"), Sections(in))

Alone(ws, in) ==
  LET If(possible, after) == IF possible THEN after ELSE Done(ws, "failed")
  IN IF ~Valid(in) THEN Done(ws, "failed")
     ELSE CASE in.tool = "write_file" -> WrittenAlone(ws, in.path, in.content)
            [] in.tool = "str_replace" -> ReplacedAlone(ws, in)
            [] in.tool = "apply_patch" -> PatchedAlone(ws, in)
            [] in.tool = "read_file" -> If(IsFile(ws, in.path), Done(ws, "read"))
            [] in.tool = "file_info" -> If(Exists(ws, in.path), Done(ws, "read"))
            [] in.tool \in {"list_files", "glob_search"} -> If(IsDir(ws, in.path), Done(ws, "read"))
            [] in.tool = "move_path" ->
                 If(CanRename(ws, in.from, in.to), Done(Renamed(ws, in.from, in.to), "changed"))
            [] in.tool = "mkdir" -> If(CanMkdir(ws, in), Done(MakeDirs(ws, in.path), "changed"))

(* What a reading tool reports of a workspace.                             *)
Reports(ws, in, found) ==
  CASE in.tool = "read_file" -> found = Text(ws, in.path)
    [] in.tool = "glob_search" -> ToSet(found) \in Scans(ws, in)
    [] in.tool = "list_files" ->
         ToSet(found) = {q \in DOMAIN ws : IsStrictPrefix(in.path, q)
                                              /\ Len(q) - Len(in.path) <= in.maxDepth + 1}
    [] OTHER -> TRUE

Named(in) ==
  IF in.tool = "apply_patch" THEN {Sections(in)[i].newPath : i \in DOMAIN Sections(in)} ELSE CheckedPaths(in)

(* The paths a call may look at or change: those it names and the          *)
(* directories above them that are missing.                                *)
Footprint(in) ==
  LET paths == Named(in) \ {Relative, DevNull}
  IN paths \cup UNION {{q \in Ancestors(p) : ~Exists(initial, q)} : p \in paths}

Apart(in, other) ==
  \A p \in Footprint(in), q \in Footprint(other) : ~IsPrefix(p, q) /\ ~IsPrefix(q, p)

Used == {c \in Calls : input[c] # None}

(* Calls of one message that run at the same time and do not meet at a     *)
(* path do what they would do one after the other: the files of a patch    *)
(* build on each other, a call that fails has changed nothing but the      *)
(* earlier files of its patch, and each answer and each listing is the one *)
(* its call would have got alone.                                          *)
SerialIfApart ==
  (\A c \in Calls : pc[c] = "done") /\ mode = "execute"
    /\ (\A c, d \in Used : c # d => Apart(input[c], input[d]))
  => LET order == SetToSeq(Used)
         ws == [n \in 0 .. Len(order) |->
                 FoldLeft(LAMBDA w, c : Alone(w, input[c]).files, initial, SubSeq(order, 1, n))]
     IN /\ files = ws[Len(order)]
        /\ \A n \in DOMAIN order :
             /\ answer[order[n]] = Alone(ws[n - 1], input[order[n]]).answer
             /\ answer[order[n]] = "read" => Reports(ws[n - 1], input[order[n]], seen[order[n]])

(* DryRunReportBuilder.snapshot and finish.                                *)
Count(disposition) == Cardinality({i \in DOMAIN entries : entries[i].disposition = disposition})

Summary ==
  [executedReads |-> Count("executed"),
   previews |-> Count("previewed"),
   noChanges |-> Cardinality({i \in DOMAIN entries : entries[i].outcome.summary = "no_change"}),
   blocked |-> Count("blocked")]

ReportStatus(ended) ==
  IF ended = "completed" /\ (\E i \in DOMAIN entries : entries[i].disposition = "blocked")
    THEN "partial" ELSE ended

(* A dry run leaves the workspace alone, and its report tells of every     *)
(* call once: as read, previewed or blocked, with an error if its preview  *)
(* was blocked or it reads what it cannot read, and as partial if a        *)
(* preview was blocked.  Whether a call that would change the workspace    *)
(* could succeed is the matter of PreviewsForetell.                        *)
DryRunAccounts ==
  mode = "dry_run" =>
    LET answered == {c \in Calls : answer[c] # "none"}
        Answered(results) == Cardinality({c \in answered : answer[c] \in results})
    IN /\ files = initial
       /\ {entries[i].call : i \in DOMAIN entries} = answered
       /\ Len(entries) = Cardinality(answered)
       /\ \A c \in answered : ~Mutating(input[c]) => answer[c] = Alone(files, input[c]).answer
       /\ \A i \in DOMAIN entries : ~entries[i].outcome.ok <=> answer[entries[i].call] \in {"failed", "blocked"}
       /\ Summary.executedReads = Cardinality({c \in answered : ~Mutating(input[c])})
       /\ Summary.previews = Answered({"planned", "no_change"})
       /\ Summary.noChanges = Answered({"no_change"})
       /\ Summary.blocked = Answered({"blocked"})
       /\ ReportStatus("completed") = "partial" <=> \E c \in answered : answer[c] = "blocked"

(* What no preview of write_file, mkdir, move_path and apply_patch looks   *)
(* at: that the file system would not let the call do it.                  *)
Refused(ws, in) ==
  CASE in.tool = "write_file" -> ~CanWrite(ws, in.path)
    [] in.tool = "mkdir" -> ~CanMkdir(ws, in)
    [] in.tool = "move_path" -> ~CanRename(ws, in.from, in.to)
    [] in.tool = "apply_patch" -> \E p \in Named(in) : Patchable(p) /\ ~CanWrite(ws, p)
    [] in.tool = "str_replace" -> FALSE

(* The calls whose preview computes what the call would: not the files of  *)
(* a patch that build on each other, a str_replace of no occurrence, or an *)
(* empty file where there is none.                                         *)
Foretellable(ws, in) ==
  CASE in.tool = "apply_patch" ->
         LET path == [i \in DOMAIN Sections(in) |-> Sections(in)[i].newPath]
         IN \A i, j \in DOMAIN path :
              i # j /\ Patchable(path[i]) /\ Patchable(path[j]) => ~IsPrefix(path[i], path[j])
    [] in.tool = "str_replace" -> in.count # 0
    [] in.tool = "write_file" -> in.content # << >> \/ IsFile(ws, in.path)
    [] OTHER -> TRUE

(* Nothing changes the workspace while a dry run previews, and a preview   *)
(* foretells what its call would do alone in that workspace: what is       *)
(* blocked would fail and what is no change would change nothing; what is  *)
(* planned would be done, but that the file system may still refuse it,    *)
(* which previews do not find out although their confidence is exact.      *)
PreviewsForetell ==
  mode = "dry_run" =>
    \A c \in Calls :
      LET in == input[c]
          alone == Alone(initial, in)
      IN answer[c] # "none" /\ Mutating(in) /\ Foretellable(initial, in) =>
           /\ answer[c] = "blocked" => alone.answer = "failed"
           /\ answer[c] = "no_change" => alone.files = initial
           /\ answer[c] = "planned" =>
                alone.answer = IF Refused(initial, in) THEN "failed" ELSE "changed"
=============================================================================
