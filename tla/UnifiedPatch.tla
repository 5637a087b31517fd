----------------------------- MODULE UnifiedPatch -----------------------------
(***************************************************************************)
(* parsePatch, validateHunkCounts and applyHunks of                        *)
(* coding/tools/apply-patch.ts, as functions on lines.                     *)
(*                                                                         *)
(* A line of the patch text is a record whose kind is what its first       *)
(* characters make of it: "---" and "+++" headers, "@@" hunk headers, "@@  *)
(* text" hunk headers with a section heading, the hunk lines " ", "-" and  *)
(* "+", "blank", and "other".  A file is the sequence of its lines; the    *)
(* empty file has none.  A line that ends in CR LF is one with a CR at its *)
(* end; a patch knows lines without.                                       *)
(***************************************************************************)
EXTENDS Integers, SequencesExt, Selection

CONSTANTS
  None,
  Line,    \* the texts a line may be
  Unix     \* [Line -> Line]: a line without the CR at its end

ASSUME LineAssumption == "" \in Line /\ Unix \in [Line -> Line]

(* What the lines of a patch text carry.                                   *)
IsPatchLine(line) ==
  /\ line.kind \in {"---", "+++", "@@", "@@ text", " ", "-", "+", "blank", "other"}
  /\ line.kind \in {"@@", "@@ text"} => {line.oldStart, line.oldCount, line.newCount} \subseteq Nat
  /\ line.kind \in {" ", "-", "+", "+++"} => line.text \in Line
IsPatch(patch) == patch \in Seq(ToSet(patch)) /\ \A i \in DOMAIN patch : IsPatchLine(patch[i])

Content == Seq(Line)
HunkLine == [type : {" ", "-", "+"}, text : Line]
Hunk == [oldStart : Nat, oldCount : Nat, newCount : Nat, lines : Seq(HunkLine)]

NewHunk(line) ==
  [oldStart |-> line.oldStart, oldCount |-> line.oldCount, newCount |-> line.newCount, lines |-> << >>]

WithHunk(files, hunk) ==
  [files EXCEPT ![Len(files)].hunks = Append(@, hunk)]

WithLine(files, type, text) ==
  [files EXCEPT ![Len(files)].hunks[Len(Last(files).hunks)].lines = Append(@, [type |-> type, text |-> text])]

(* One turn of the loop.  A "--- " line ends a hunk wherever it stands and *)
(* must be followed by "+++ ", which in a hunk is a line that is added; a  *)
(* hunk header with a heading ends the hunk as well, but is not one        *)
(* itself, and what follows it up to the next header is skipped.           *)
ParseLine(acc, line) ==
  LET InHunk(files) == [acc EXCEPT !.files = files, !.inHunk = TRUE]
      Failed == [acc EXCEPT !.failed = TRUE]
      Skipped(files) == IF acc.inHunk THEN InHunk(files) ELSE acc
  IN IF acc.failed THEN acc
     ELSE IF acc.header # None
       THEN IF line.kind # "+++" THEN Failed
            ELSE [acc EXCEPT !.header = None, !.files = Append(@, [newPath |-> line.path, hunks |-> << >>])]
     ELSE CASE line.kind = "---" -> [acc EXCEPT !.header = line.path, !.inHunk = FALSE]
            [] line.kind = "@@" -> IF acc.files = << >> THEN Failed ELSE InHunk(WithHunk(acc.files, NewHunk(line)))
            [] line.kind = "@@ text" -> [acc EXCEPT !.inHunk = FALSE]
            [] line.kind \in {" ", "-", "+"} -> Skipped(WithLine(acc.files, line.kind, line.text))
            [] line.kind = "+++" -> Skipped(WithLine(acc.files, "+", line.text))
            [] line.kind = "blank" -> acc
            [] line.kind = "other" -> IF acc.inHunk THEN Failed ELSE acc

(* The files a patch names, or no file at all if the parser throws.        *)
ParsePatch(patch) ==
  LET parsed[n \in 0 .. Len(patch)] ==
        IF n = 0 THEN [files |-> << >>, header |-> None, inHunk |-> FALSE, failed |-> FALSE]
        ELSE ParseLine(parsed[n - 1], patch[n])
      end == parsed[Len(patch)]
  IN IF end.failed \/ end.header # None THEN << >> ELSE end.files

-----------------------------------------------------------------------------
LinesOf(hunk, types) == Kept(hunk.lines, {l \in ToSet(hunk.lines) : l.type \in types})

CountsMatch(hunk) ==
  /\ Len(LinesOf(hunk, {" ", "-"})) = hunk.oldCount
  /\ Len(LinesOf(hunk, {" ", "+"})) = hunk.newCount

(* sourceLines: every CR LF of the original is an LF.  The last line has   *)
(* no line end, and keeps its CR.                                          *)
SourceLines(original) ==
  [i \in DOMAIN original |-> IF i < Len(original) THEN Unix[original[i]] ELSE original[i]]

(* sourceLines[i] ?? ""                                                    *)
LineAt(source, i) == IF i \in DOMAIN source THEN source[i] ELSE ""

(* One line of a hunk: the next line of the source is kept or dropped if   *)
(* it is the one the hunk says.                                            *)
ApplyLine(source, acc, line) ==
  IF line.type = "+" THEN [acc EXCEPT !.output = Append(@, line.text)]
  ELSE [output |-> IF line.type = " " THEN Append(acc.output, line.text) ELSE acc.output,
        index |-> acc.index + 1,
        failed |-> acc.failed \/ line.text # LineAt(source, acc.index + 1)]

LinesApplied(source, acc, lines) ==
  LET applied[n \in 0 .. Len(lines)] ==
        IF n = 0 THEN acc ELSE ApplyLine(source, applied[n - 1], lines[n])
  IN  applied[Len(lines)]

(* The lines from acc.index up to a later one, padded beyond the end.      *)
CopiedTo(source, acc, index) ==
  IF acc.index >= index THEN acc
  ELSE [output |-> acc.output \o [i \in 1 .. index - acc.index |-> LineAt(source, acc.index + i)],
        index |-> index,
        failed |-> acc.failed]

(* Mutant: a hunk starts where the previous one has ended.                 *)
ApplyHunkAnywhere(source, acc, hunk) ==
  IF CountsMatch(hunk) THEN LinesApplied(source, acc, hunk.lines) ELSE [acc EXCEPT !.failed = TRUE]

ApplyHunk(source, acc, hunk) ==
  IF CountsMatch(hunk) THEN LinesApplied(source, CopiedTo(source, acc, hunk.oldStart - 1), hunk.lines)
  ELSE [acc EXCEPT !.failed = TRUE]

HunksApplied(source, hunks) ==
  LET applied[n \in 0 .. Len(hunks)] ==
        IF n = 0 THEN [output |-> << >>, index |-> 0, failed |-> FALSE]
        ELSE ApplyHunk(source, applied[n - 1], hunks[n])
  IN  applied[Len(hunks)]

(* output.join: a file of one empty line is the empty file.                *)
Joined(lines) == IF lines = <<"">> THEN << >> ELSE lines

LinesPatched(source, hunks) ==
  LET end == HunksApplied(source, hunks)
  IN IF end.failed THEN None ELSE Joined(CopiedTo(source, end, Len(source)).output)

(* The updated file, or None if a hunk does not match.  The lines that the *)
(* hunks leave alone are written as they were read, without their CR.      *)
ApplyHunks(original, hunks) == LinesPatched(SourceLines(original), hunks)

-----------------------------------------------------------------------------
(* Reference: what a unified diff says.  A hunk replaces its old lines at  *)
(* its place by its new lines; a hunk without old lines inserts after the  *)
(* line it names.  Replacing from the last hunk to the first keeps every   *)
(* place valid.                                                            *)
OldTexts(hunk) == [i \in 1 .. Len(LinesOf(hunk, {" ", "-"})) |-> LinesOf(hunk, {" ", "-"})[i].text]
NewTexts(hunk) == [i \in 1 .. Len(LinesOf(hunk, {" ", "+"})) |-> LinesOf(hunk, {" ", "+"})[i].text]

Before(hunk) == IF hunk.oldCount = 0 THEN hunk.oldStart ELSE hunk.oldStart - 1
After(hunk) == Before(hunk) + hunk.oldCount
Inside(source, hunk) == Before(hunk) >= 0 /\ After(hunk) <= Len(source)

Fits(source, hunk) ==
  /\ CountsMatch(hunk) /\ Inside(source, hunk)
  /\ SubSeq(source, Before(hunk) + 1, After(hunk)) = OldTexts(hunk)

Spliced(source, hunk) ==
  SubSeq(source, 1, Before(hunk)) \o NewTexts(hunk) \o SubSeq(source, After(hunk) + 1, Len(source))

AllSpliced(source, hunks) ==
  LET spliced[n \in 0 .. Len(hunks)] ==
        IF n = 0 THEN source ELSE Spliced(spliced[n - 1], hunks[Len(hunks) + 1 - n])
  IN  spliced[Len(hunks)]

Reference(source, hunks) ==
  IF \A i \in DOMAIN hunks : Fits(source, hunks[i]) THEN Joined(AllSpliced(source, hunks)) ELSE None

InOrder(hunks) ==
  \A i, j \in DOMAIN hunks : i < j => After(hunks[i]) <= Before(hunks[j])

(* The hunks for which the code promises the reference: they replace       *)
(* lines, in order and inside the file.                                    *)
Plain(source, hunks) ==
  InOrder(hunks) /\ \A i \in DOMAIN hunks : hunks[i].oldCount > 0 /\ Inside(source, hunks[i])

(* A patch as its author reads it: headings are part of the hunk header.   *)
AsWritten(patch) ==
  ParsePatch([i \in DOMAIN patch |->
               IF patch[i].kind = "@@ text" THEN [patch[i] EXCEPT !.kind = "@@"] ELSE patch[i]])
=============================================================================
