--------------------------- MODULE FileToolsProofs ----------------------------
(***************************************************************************)
(* Proofs about UnifiedPatch and FileTools.                                *)
(*                                                                         *)
(*   - PatchComputed: applyHunks computes of plain hunks what a unified    *)
(*     diff says.  The code goes through the hunks forwards and copies;    *)
(*     the reference splices them in backwards.  They meet in the fact     *)
(*     that what has been written, with the rest of the file in which the  *)
(*     remaining hunks are spliced, is the whole result (Onward).          *)
(*   - FilesTypeCorrect: TypeOK.                                           *)
(*   - DryRunIsAccounted: DryRunAccounts, from the entries, which are one  *)
(*     for each call with an answer (Listed), by counting.                 *)
(*   - PatchesLand: PatchLands, from the parser, which makes hunks of      *)
(*     every patch (PatchIsParsed), and where a patch stands (Patching).   *)
(***************************************************************************)
EXTENDS FileTools, SequenceProofs

-----------------------------------------------------------------------------
(* The hunks of one file: what has been written, up to which line of the   *)
(* source, and whether a line was not the one it should be.                *)
Progress == [output : Content, index : Nat, failed : BOOLEAN]

(* A line of the source, or the empty line beyond its end, is a line.      *)
LEMMA LineAtType ==
  ASSUME NEW source \in Content, NEW i
  PROVE  LineAt(source, i) \in Line
<1>1. i \in DOMAIN source => source[i] \in Line
  BY DEF Content
<1>2. "" \in Line
  BY LineAssumption
<1> QED
  BY <1>1, <1>2 DEF LineAt

(* What a record of progress holds.                                        *)
LEMMA ProgressIs ==
  ASSUME NEW acc \in Progress
  PROVE  acc.output \in Seq(Line) /\ acc.index \in Nat /\ acc.failed \in BOOLEAN
BY DEF Progress, Content

(* One line of a hunk keeps the progress a record of progress.             *)
LEMMA ApplyLineType ==
  ASSUME NEW source \in Content, NEW acc \in Progress, NEW line \in HunkLine
  PROVE  ApplyLine(source, acc, line) \in Progress
<1>a. acc.output \in Seq(Line) /\ acc.index \in Nat /\ acc.failed \in BOOLEAN
  BY ProgressIs
<1>b. line.text \in Line
  BY DEF HunkLine
<1>1. /\ acc.output \in Seq(Line) /\ acc.index \in Nat /\ acc.failed \in BOOLEAN
      /\ line.text \in Line /\ acc.index + 1 \in Nat
  BY <1>a, <1>b
<1>2. Append(acc.output, line.text) \in Seq(Line)
  BY <1>1
<1>3. CASE line.type = "+"
  BY <1>1, <1>2, <1>3 DEF ApplyLine, Progress, Content
<1>4. CASE line.type # "+"
  <2>1. (acc.failed \/ line.text # LineAt(source, acc.index + 1)) \in BOOLEAN
    OBVIOUS
  <2>2. (IF line.type = " " THEN Append(acc.output, line.text) ELSE acc.output) \in Seq(Line)
    BY <1>1, <1>2
  <2> QED
    BY <1>1, <1>4, <2>1, <2>2 DEF ApplyLine, Progress, Content
<1> QED
  BY <1>3, <1>4

(* The lines of a hunk, one after the other.                               *)
RunsLines(f, source, acc, lines) ==
  /\ f[0] = acc
  /\ \A n \in 0 .. Len(lines) : f[n] \in Progress
  /\ \A n \in 1 .. Len(lines) : f[n] = ApplyLine(source, f[n - 1], lines[n])

(* The lines of a hunk are applied one after the other, from the progress  *)
(* so far.                                                                 *)
LEMMA LinesAppliedBy ==
  ASSUME NEW source \in Content, NEW acc \in Progress, NEW lines \in Seq(HunkLine)
  PROVE  \E f : RunsLines(f, source, acc, lines) /\ LinesApplied(source, acc, lines) = f[Len(lines)]
<1> DEFINE N == Len(lines)
           applied[n \in 0 .. Len(lines)] ==
             IF n = 0 THEN acc ELSE ApplyLine(source, applied[n - 1], lines[n])
           g == [x \in (1 .. N) \X Progress |-> ApplyLine(source, x[2], lines[x[1]])]
<1>1. LinesApplied(source, acc, lines) = applied[N]
  BY DEF LinesApplied
<1>2. N \in Nat /\ \A n \in 1 .. N : lines[n] \in HunkLine
  OBVIOUS
<1>3. g \in [(1 .. N) \X Progress -> Progress]
  BY <1>2, ApplyLineType
<1>4. PICK f \in [0 .. N -> Progress] : f[0] = acc /\ \A n \in 1 .. N : f[n] = g[<<n, f[n - 1]>>]
  <2>1. IsRule(g, N, Progress) /\ N \in Nat
    BY <1>2, <1>3 DEF IsRule
  <2> HIDE DEF g, N
  <2>2. \E f : Follows(f, g, N, Progress, acc)
    BY <2>1, Recursion
  <2> QED
    BY <2>2 DEF Follows
<1>5. \A n \in 1 .. N : f[n] = ApplyLine(source, f[n - 1], lines[n])
  <2> SUFFICES ASSUME NEW n \in 1 .. N  PROVE f[n] = ApplyLine(source, f[n - 1], lines[n])
    OBVIOUS
  <2>1. n - 1 \in 0 .. N /\ f[n - 1] \in Progress
    BY <1>2, <1>4
  <2> QED
    BY <1>4, <2>1
<1>6. f = [n \in 0 .. N |-> IF n = 0 THEN acc ELSE ApplyLine(source, f[n - 1], lines[n])]
  <2>1. \A n \in 0 .. N : n # 0 => n \in 1 .. N
    BY <1>2
  <2> QED
    BY <1>4, <1>5, <2>1
<1>7. applied = [n \in 0 .. N |-> IF n = 0 THEN acc ELSE ApplyLine(source, applied[n - 1], lines[n])]
  BY <1>6
<1> HIDE DEF applied, g
<1>8. \A n \in 1 .. N : applied[n] = ApplyLine(source, applied[n - 1], lines[n])
  <2>1. \A n \in 1 .. N : n \in 0 .. N /\ n # 0
    BY <1>2
  <2> QED
    BY <1>7, <2>1
<1>9. applied[0] = acc
  <2>1. 0 \in 0 .. N
    BY <1>2
  <2> QED
    BY <1>7, <2>1
<1> DEFINE Good == {n \in Nat : n <= N => applied[n] \in Progress}
<1>10. 0 \in Good
  BY <1>9
<1>11. ASSUME NEW n \in Nat, n \in Good  PROVE n + 1 \in Good
  <2> SUFFICES ASSUME n + 1 <= N  PROVE applied[n + 1] \in Progress
    OBVIOUS
  <2>1. n + 1 \in 1 .. N /\ (n + 1) - 1 = n /\ applied[n] \in Progress
    BY <1>2, <1>11
  <2>2. applied[n + 1] = ApplyLine(source, applied[n], lines[n + 1]) /\ lines[n + 1] \in HunkLine
    BY <1>2, <1>8, <2>1
  <2> HIDE DEF N
  <2> QED
    BY <2>1, <2>2, ApplyLineType
<1>12. \A n \in Nat : n \in Good
  <2> HIDE DEF Good, N
  <2> QED
    BY <1>10, <1>11, Induct
<1>13. \A n \in 0 .. N : applied[n] \in Progress
  BY <1>2, <1>12
<1> QED
  BY <1>1, <1>8, <1>9, <1>13 DEF RunsLines

(* The texts of some lines of a hunk.                                      *)
Texts(lines) == [i \in 1 .. Len(lines) |-> lines[i].text]

(* What a line of a hunk holds.                                            *)
LEMMA HunkLineIs ==
  ASSUME NEW line \in HunkLine
  PROVE  line.type \in {" ", "-", "+"} /\ line.text \in Line
BY DEF HunkLine

(* The texts of hunk lines are lines, one for each.                        *)
LEMMA TextsAre ==
  ASSUME NEW lines \in Seq(HunkLine)
  PROVE  /\ Texts(lines) \in Seq(Line) /\ Len(Texts(lines)) = Len(lines) /\ Len(lines) \in Nat
         /\ DOMAIN Texts(lines) = 1 .. Len(lines)
         /\ \A i \in 1 .. Len(lines) : Texts(lines)[i] = lines[i].text
<1>1. Len(lines) \in Nat /\ \A i \in 1 .. Len(lines) : lines[i] \in HunkLine
  OBVIOUS
<1>2. \A i \in 1 .. Len(lines) : lines[i].text \in Line
  BY <1>1, HunkLineIs
<1> QED
  BY <1>1, <1>2 DEF Texts

(* The texts of one hunk line more.                                        *)
LEMMA TextsAppend ==
  ASSUME NEW lines \in Seq(HunkLine), NEW line \in HunkLine
  PROVE  Texts(Append(lines, line)) = Append(Texts(lines), line.text)
<1> DEFINE more == Append(lines, line)
           a == Texts(more)
           b == Append(Texts(lines), line.text)
<1>1. line.text \in Line
  BY HunkLineIs
<1>2. /\ more \in Seq(HunkLine) /\ Len(more) = Len(lines) + 1 /\ Len(lines) \in Nat
      /\ \A i \in 1 .. Len(lines) : more[i] = lines[i]
      /\ more[Len(lines) + 1] = line
  OBVIOUS
<1>3. /\ Texts(lines) \in Seq(Line) /\ Len(Texts(lines)) = Len(lines)
      /\ \A i \in 1 .. Len(lines) : Texts(lines)[i] = lines[i].text
  BY TextsAre
<1>4. a \in Seq(Line) /\ Len(a) = Len(lines) + 1 /\ \A i \in 1 .. Len(lines) + 1 : a[i] = more[i].text
  <2> HIDE DEF more
  <2> QED
    BY <1>2, TextsAre
<1>5. /\ b \in Seq(Line) /\ Len(b) = Len(lines) + 1 /\ b[Len(lines) + 1] = line.text
      /\ \A i \in 1 .. Len(lines) : b[i] = Texts(lines)[i]
  BY <1>1, <1>2, <1>3
<1> HIDE DEF a, b, more
<1>6. \A i \in 1 .. Len(lines) + 1 : a[i] = b[i]
  <2>1. \A i \in 1 .. Len(lines) + 1 : i \in 1 .. Len(lines) \/ i = Len(lines) + 1
    BY <1>2
  <2> QED
    BY <1>2, <1>3, <1>4, <1>5, <2>1
<1>7. a = b
  BY <1>4, <1>5, <1>6
<1> QED
  BY <1>7 DEF a, b, more

(* Where an application stands that began at acc and has passed the old    *)
(* lines o and the new lines w.                                            *)
Mismatch(source, index, o) == \E i \in 1 .. Len(o) : o[i].text # LineAt(source, index + i)

Passed(source, acc, p, o, w) ==
  /\ p.index = acc.index + Len(o)
  /\ p.output = acc.output \o Texts(w)
  /\ p.failed = (acc.failed \/ Mismatch(source, acc.index, o))

(* What Append and \o are, element by element.                             *)
LEMMA AppendIs ==
  ASSUME NEW E, NEW s \in Seq(E), NEW x \in E
  PROVE  /\ Append(s, x) \in Seq(E) /\ Len(Append(s, x)) = Len(s) + 1 /\ Len(s) \in Nat
         /\ Append(s, x)[Len(s) + 1] = x /\ \A i \in 1 .. Len(s) : Append(s, x)[i] = s[i]
OBVIOUS

(* Sequences that have the same elements are the same.                     *)
LEMMA SameElements ==
  ASSUME NEW E, NEW s \in Seq(E), NEW t \in Seq(E), Len(s) = Len(t), \A i \in 1 .. Len(s) : s[i] = t[i]
  PROVE  s = t
OBVIOUS

(* r is s followed by t; r is what follows in s upon i, up to j.           *)
Joins(r, s, t) == r = s \o t
Piece(r, s, i, j) == r = SubSeq(s, i + 1, j)

(* The length and the elements of a concatenation.                         *)
LEMMA ConcatIs ==
  ASSUME NEW s \in Seq(Line), NEW t \in Seq(Line), NEW r, Joins(r, s, t)
  PROVE  /\ r \in Seq(Line) /\ Len(r) = Len(s) + Len(t) /\ Len(s) \in Nat /\ Len(t) \in Nat
         /\ \A i \in 1 .. Len(s) : r[i] = s[i]
         /\ \A i \in 1 .. Len(t) : r[Len(s) + i] = t[i]
BY DEF Joins

(* The length and the elements of a piece of a sequence.                   *)
LEMMA SubIs ==
  ASSUME NEW s \in Seq(Line), NEW i \in Nat, NEW j \in Nat, i <= j, j <= Len(s), NEW r, Piece(r, s, i, j)
  PROVE  /\ r \in Seq(Line) /\ Len(r) = j - i
         /\ \A k \in 1 .. j - i : r[k] = s[i + k]
BY DEF Piece

(* One old line more does not match if it or an earlier one does not.      *)
LEMMA MismatchAppend ==
  ASSUME NEW source, NEW index \in Nat, NEW o \in Seq(HunkLine), NEW line \in HunkLine
  PROVE  Mismatch(source, index, Append(o, line)) <=>
           Mismatch(source, index, o) \/ line.text # LineAt(source, index + (Len(o) + 1))
<1>1. PICK q : q = Append(o, line)
  OBVIOUS
<1>2. /\ Len(q) = Len(o) + 1 /\ q[Len(o) + 1] = line /\ Len(o) \in Nat
      /\ \A i \in 1 .. Len(o) : q[i] = o[i]
  BY <1>1, AppendIs
<1>3. /\ \A i \in 1 .. Len(o) + 1 : i \in 1 .. Len(o) \/ i = Len(o) + 1
      /\ \A i \in 1 .. Len(o) : i \in 1 .. Len(o) + 1
      /\ Len(o) + 1 \in 1 .. Len(o) + 1
  BY <1>2
<1>4. Mismatch(source, index, q) <=>
        Mismatch(source, index, o) \/ line.text # LineAt(source, index + (Len(o) + 1))
  BY <1>2, <1>3 DEF Mismatch
<1> QED
  BY <1>1, <1>4

(* No line has been passed at first.                                       *)
LEMMA PassedBegins ==
  ASSUME NEW source, NEW acc \in Progress
  PROVE  Passed(source, acc, acc, << >>, << >>)
<1>1. acc.output \in Seq(Line) /\ acc.index \in Nat /\ acc.failed \in BOOLEAN
  BY ProgressIs
<1>2. Texts(<< >>) = << >> /\ Len(<< >>) = 0
  BY DEF Texts
<1>3. ~Mismatch(source, acc.index, << >>)
  BY DEF Mismatch
<1> QED
  BY <1>1, <1>2, <1>3 DEF Passed

(* What is appended to the second part is appended to the whole.           *)
LEMMA ConcatAppend ==
  ASSUME NEW s \in Seq(Line), NEW u \in Seq(Line), NEW x \in Line
  PROVE  Append(s \o u, x) = s \o Append(u, x)
OBVIOUS

(* One more text.                                                          *)
LEMMA TextsMore ==
  ASSUME NEW s \in Seq(Line), NEW w \in Seq(HunkLine), NEW line \in HunkLine
  PROVE  Append(s \o Texts(w), line.text) = s \o Texts(Append(w, line))
<1>1. line.text \in Line /\ Texts(w) \in Seq(Line)
  BY HunkLineIs, TextsAre
<1>2. Texts(Append(w, line)) = Append(Texts(w), line.text)
  BY TextsAppend
<1>3. PICK u \in Seq(Line), x \in Line : u = Texts(w) /\ x = line.text
  BY <1>1, Zenon
<1>4. Append(s \o u, x) = s \o Append(u, x)
  BY <1>1, <1>3, ConcatAppend
<1> QED
  BY <1>2, <1>3, <1>4

(* One further on.                                                         *)
LEMMA OneOn ==
  ASSUME NEW a \in Nat, NEW b \in Nat, NEW c, c = a + b
  PROVE  c + 1 = a + (b + 1)
OBVIOUS

(* One line of a hunk more has been passed.                                *)
LEMMA PassedLine ==
  ASSUME NEW source \in Content, NEW acc \in Progress, NEW p \in Progress, NEW line \in HunkLine,
         NEW o \in Seq(HunkLine), NEW w \in Seq(HunkLine), Passed(source, acc, p, o, w),
         NEW q, q = ApplyLine(source, p, line),
         NEW oo, oo = (IF line.type \in {" ", "-"} THEN Append(o, line) ELSE o),
         NEW ww, ww = (IF line.type \in {" ", "+"} THEN Append(w, line) ELSE w)
  PROVE  Passed(source, acc, q, oo, ww)
<1>1. line.type \in {" ", "-", "+"} /\ line.text \in Line
  BY HunkLineIs
<1>2. /\ p.output \in Seq(Line) /\ p.index \in Nat /\ p.failed \in BOOLEAN
      /\ acc.output \in Seq(Line) /\ acc.index \in Nat /\ acc.failed \in BOOLEAN
  BY ProgressIs
<1>3. /\ p.index = acc.index + Len(o) /\ p.output = acc.output \o Texts(w)
      /\ p.failed = (acc.failed \/ Mismatch(source, acc.index, o))
  BY DEF Passed
<1>4. Len(o) \in Nat /\ Texts(w) \in Seq(Line)
  BY TextsAre
<1>5. Append(p.output, line.text) = acc.output \o Texts(Append(w, line))
  BY <1>2, <1>3, TextsMore
<1>6. /\ p.index + 1 = acc.index + Len(Append(o, line))
      /\ (p.failed \/ line.text # LineAt(source, p.index + 1)) =
           (acc.failed \/ Mismatch(source, acc.index, Append(o, line)))
  <2>1. Len(Append(o, line)) = Len(o) + 1
    BY AppendIs
  <2>2. p.index + 1 = acc.index + (Len(o) + 1)
    BY <1>2, <1>3, <1>4, OneOn
  <2>3. Mismatch(source, acc.index, Append(o, line)) <=>
          Mismatch(source, acc.index, o) \/ line.text # LineAt(source, p.index + 1)
    BY <1>2, <2>2, MismatchAppend
  <2> QED
    BY <1>2, <1>3, <2>1, <2>2, <2>3
<1>7. CASE line.type = "+"
  <2>1. q.output = Append(p.output, line.text) /\ q.index = p.index /\ q.failed = p.failed
    BY <1>7 DEF ApplyLine, Progress
  <2>2. oo = o /\ ww = Append(w, line)
    BY <1>7
  <2> QED
    BY <1>3, <1>5, <2>1, <2>2 DEF Passed
<1>8. CASE line.type # "+"
  <2>1. /\ q.output = IF line.type = " " THEN Append(p.output, line.text) ELSE p.output
        /\ q.index = p.index + 1 /\ q.failed = (p.failed \/ line.text # LineAt(source, p.index + 1))
    BY <1>8, Zenon DEF ApplyLine
  <2>2. oo = Append(o, line) /\ ww = IF line.type = " " THEN Append(w, line) ELSE w
    BY <1>1, <1>8
  <2>3. q.output = acc.output \o Texts(ww)
    BY <1>3, <1>5, <2>1, <2>2
  <2> QED
    BY <1>6, <2>1, <2>2, <2>3 DEF Passed
<1> QED
  BY <1>7, <1>8

(* What the lines of a hunk do: the new ones are written, the old ones are *)
(* compared with the source.                                               *)
LEMMA LinesSay ==
  ASSUME NEW source \in Content, NEW acc \in Progress, NEW hunk \in Hunk, NEW r,
         r = LinesApplied(source, acc, hunk.lines)
  PROVE  /\ r \in Progress
         /\ LinesOf(hunk, {" ", "-"}) \in Seq(HunkLine) /\ LinesOf(hunk, {" ", "+"}) \in Seq(HunkLine)
         /\ Passed(source, acc, r, LinesOf(hunk, {" ", "-"}), LinesOf(hunk, {" ", "+"}))
<1>1. PICK lines \in Seq(HunkLine) : lines = hunk.lines
  BY DEF Hunk
<1>2. PICK f : RunsLines(f, source, acc, lines) /\ r = f[Len(lines)]
  BY <1>1, LinesAppliedBy
<1>3. PICK O, W : /\ O = {l \in ToSet(lines) : l.type \in {" ", "-"}}
                  /\ W = {l \in ToSet(lines) : l.type \in {" ", "+"}}
  OBVIOUS
<1>4. PICK ko : Keeps(ko, HunkLine, lines, O) /\ Kept(lines, O) = ko[Len(lines)]
  BY KeptBy
<1>5. PICK kn : Keeps(kn, HunkLine, lines, W) /\ Kept(lines, W) = kn[Len(lines)]
  BY KeptBy
<1>6. /\ Len(lines) \in Nat
      /\ \A n \in 1 .. Len(lines) : lines[n] \in HunkLine /\ lines[n] \in ToSet(lines)
  BY DEF ToSet
<1>7. /\ ko[0] = << >> /\ kn[0] = << >> /\ f[0] = acc
      /\ \A n \in 0 .. Len(lines) : ko[n] \in Seq(HunkLine) /\ kn[n] \in Seq(HunkLine) /\ f[n] \in Progress
      /\ \A n \in 1 .. Len(lines) : /\ f[n] = ApplyLine(source, f[n - 1], lines[n])
                                    /\ ko[n] = IF lines[n] \in O THEN Append(ko[n - 1], lines[n]) ELSE ko[n - 1]
                                    /\ kn[n] = IF lines[n] \in W THEN Append(kn[n - 1], lines[n]) ELSE kn[n - 1]
  BY <1>2, <1>4, <1>5 DEF RunsLines, Keeps
<1> DEFINE Good == {n \in Nat : n <= Len(lines) => Passed(source, acc, f[n], ko[n], kn[n])}
<1>8. 0 \in Good
  BY <1>7, PassedBegins
<1>9. ASSUME NEW n \in Nat, n \in Good  PROVE n + 1 \in Good
  <2> SUFFICES ASSUME n + 1 <= Len(lines)  PROVE Passed(source, acc, f[n + 1], ko[n + 1], kn[n + 1])
    OBVIOUS
  <2>1. n + 1 \in 1 .. Len(lines) /\ n \in 0 .. Len(lines) /\ (n + 1) - 1 = n /\ n <= Len(lines)
    BY <1>6
  <2>2. PICK line \in HunkLine : line = lines[n + 1]
    BY <1>6, <2>1
  <2>3. (line \in O <=> line.type \in {" ", "-"}) /\ (line \in W <=> line.type \in {" ", "+"})
    BY <1>3, <1>6, <2>1, <2>2
  <2>4. PICK p \in Progress, o \in Seq(HunkLine), w \in Seq(HunkLine) : p = f[n] /\ o = ko[n] /\ w = kn[n]
    BY <1>7, <2>1
  <2>5. PICK q, oo, ww : q = f[n + 1] /\ oo = ko[n + 1] /\ ww = kn[n + 1]
    OBVIOUS
  <2>6. /\ q = ApplyLine(source, p, line)
        /\ oo = (IF line.type \in {" ", "-"} THEN Append(o, line) ELSE o)
        /\ ww = (IF line.type \in {" ", "+"} THEN Append(w, line) ELSE w)
    BY <1>7, <2>1, <2>2, <2>3, <2>4, <2>5
  <2>7. Passed(source, acc, p, o, w)
    BY <1>9, <2>1, <2>4
  <2>8. Passed(source, acc, q, oo, ww)
    BY <2>6, <2>7, PassedLine
  <2> QED
    BY <2>5, <2>8
<1>10. Len(lines) \in Good
  <2> HIDE DEF Good
  <2> QED
    BY <1>6, <1>8, <1>9, Induct
<1>11. LinesOf(hunk, {" ", "-"}) = ko[Len(lines)] /\ LinesOf(hunk, {" ", "+"}) = kn[Len(lines)]
  BY <1>1, <1>3, <1>4, <1>5, Zenon DEF LinesOf
<1>12. Len(lines) \in 0 .. Len(lines) /\ Len(lines) <= Len(lines)
  BY <1>6
<1> QED
  BY <1>2, <1>7, <1>10, <1>11, <1>12

(* The lines between two hunks are copied.                                 *)
LEMMA CopiedType ==
  ASSUME NEW source \in Content, NEW acc \in Progress, NEW index \in Int
  PROVE  CopiedTo(source, acc, index) \in Progress
<1>1. acc.output \in Seq(Line) /\ acc.index \in Nat /\ acc.failed \in BOOLEAN
  BY ProgressIs
<1>2. CASE acc.index >= index
  BY <1>2 DEF CopiedTo
<1>3. CASE ~(acc.index >= index)
  <2> DEFINE more == [i \in 1 .. index - acc.index |-> LineAt(source, acc.index + i)]
             r == [output |-> acc.output \o more, index |-> index, failed |-> acc.failed]
  <2>1. index \in Nat /\ index - acc.index \in Nat
    BY <1>1, <1>3
  <2>2. \A i \in 1 .. index - acc.index : LineAt(source, acc.index + i) \in Line
    BY LineAtType
  <2>3. more \in Seq(Line)
    BY <2>1, <2>2
  <2>4. acc.output \o more \in Seq(Line)
    BY <1>1, <2>3
  <2>5. CopiedTo(source, acc, index) = r
    BY <1>3 DEF CopiedTo
  <2> HIDE DEF more
  <2>6. r \in Progress
    BY <1>1, <2>1, <2>4 DEF Progress, Content
  <2> QED
    BY <2>5, <2>6
<1> QED
  BY <1>2, <1>3

(* The lines of the source up to one that it has are copied.               *)
Copied(source, acc, index, r) ==
  /\ r.index = index /\ r.failed = acc.failed
  /\ r.output = acc.output \o SubSeq(source, acc.index + 1, index)

(* Up to a line inside the source nothing is padded: the lines themselves  *)
(* are copied.                                                             *)
LEMMA CopiedIs ==
  ASSUME NEW source \in Content, NEW acc \in Progress, NEW index \in Nat,
         acc.index <= index, index <= Len(source), NEW r, r = CopiedTo(source, acc, index)
  PROVE  r \in Progress /\ Copied(source, acc, index, r)
<1>1. acc.output \in Seq(Line) /\ acc.index \in Nat /\ acc.failed \in BOOLEAN
  BY ProgressIs
<1>2. source \in Seq(Line) /\ Len(source) \in Nat /\ DOMAIN source = 1 .. Len(source)
  BY DEF Content
<1>3. CASE acc.index = index
  <2>1. r = acc
    BY <1>1, <1>3 DEF CopiedTo
  <2>2. SubSeq(source, acc.index + 1, index) = << >>
    BY <1>1, <1>2, <1>3
  <2>3. acc.output \o << >> = acc.output
    BY <1>1
  <2> QED
    BY <1>3, <2>1, <2>2, <2>3 DEF Copied
<1>4. CASE acc.index # index
  <2> DEFINE more == [i \in 1 .. index - acc.index |-> LineAt(source, acc.index + i)]
             sub == SubSeq(source, acc.index + 1, index)
             s == [output |-> acc.output \o more, index |-> index, failed |-> acc.failed]
  <2>1. ~(acc.index >= index) /\ index - acc.index \in Nat
    BY <1>1, <1>4
  <2>2. r = s
    BY <2>1 DEF CopiedTo
  <2>3. \A i \in 1 .. index - acc.index : acc.index + i \in DOMAIN source /\ source[acc.index + i] \in Line
    BY <1>1, <1>2, <2>1
  <2>4. more = [i \in 1 .. index - acc.index |-> source[acc.index + i]]
    BY <2>3 DEF LineAt
  <2>5. more \in Seq(Line) /\ Len(more) = index - acc.index
    <3>1. \A i \in 1 .. index - acc.index : LineAt(source, acc.index + i) \in Line
      BY LineAtType
    <3> QED
      BY <2>1, <3>1
  <2>6. /\ sub \in Seq(Line) /\ Len(sub) = index - acc.index
        /\ \A i \in 1 .. index - acc.index : sub[i] = source[acc.index + i]
    <3>1. PICK x, sb : x \in Nat /\ x = acc.index /\ sb = sub /\ Piece(sb, source, x, index)
      BY <1>1 DEF Piece
    <3> HIDE DEF sub, more
    <3>2. x \in Nat /\ x <= index /\ source \in Seq(Line) /\ Piece(sb, source, x, index)
      BY <1>2, <3>1
    <3>3. /\ sb \in Seq(Line) /\ Len(sb) = index - x
          /\ \A i \in 1 .. index - x : sb[i] = source[x + i]
      BY <3>2, SubIs
    <3> QED
      BY <3>1, <3>3
  <2>7. more = sub
    <3>1. \A i \in 1 .. index - acc.index : more[i] = sub[i]
      BY <2>4, <2>6
    <3> HIDE DEF more, sub
    <3> QED
      BY <2>5, <2>6, <3>1, SameElements
  <2> HIDE DEF more, sub
  <2>8. s.index = index /\ s.failed = acc.failed /\ s.output = acc.output \o more
    OBVIOUS
  <2> HIDE DEF s
  <2>9. r.index = index /\ r.failed = acc.failed /\ r.output = acc.output \o sub
    BY <2>2, <2>7, <2>8
  <2>10. r \in Progress
    BY CopiedType
  <2> QED
    BY <2>9, <2>10 DEF sub, Copied
<1> QED
  BY <1>3, <1>4

(* What a record of a hunk holds.                                          *)
LEMMA HunkIs ==
  ASSUME NEW hunk \in Hunk
  PROVE  hunk.oldStart \in Nat /\ hunk.oldCount \in Nat /\ hunk.newCount \in Nat /\ hunk.lines \in Seq(HunkLine)
BY DEF Hunk

(* A hunk keeps the progress a record of progress.                         *)
LEMMA ApplyHunkType ==
  ASSUME NEW source \in Content, NEW acc \in Progress, NEW hunk \in Hunk
  PROVE  ApplyHunk(source, acc, hunk) \in Progress
<1>1. hunk.oldStart - 1 \in Int
  BY HunkIs
<1>2. PICK index \in Int : index = hunk.oldStart - 1
  BY <1>1
<1>3. PICK from \in Progress : from = CopiedTo(source, acc, index)
  BY <1>2, CopiedType
<1>4. PICK r : r = LinesApplied(source, from, hunk.lines)
  OBVIOUS
<1>5. r \in Progress
  BY <1>3, <1>4, LinesSay
<1>6. [acc EXCEPT !.failed = TRUE] \in Progress
  BY DEF Progress
<1> QED
  BY <1>2, <1>3, <1>4, <1>5, <1>6 DEF ApplyHunk

(* The hunks, one after the other.                                         *)
RunsHunks(f, source, hunks) ==
  /\ f[0] = [output |-> << >>, index |-> 0, failed |-> FALSE]
  /\ \A n \in 0 .. Len(hunks) : f[n] \in Progress
  /\ \A n \in 1 .. Len(hunks) : f[n] = ApplyHunk(source, f[n - 1], hunks[n])

(* The hunks are applied one after the other, from the beginning.          *)
LEMMA HunksAppliedBy ==
  ASSUME NEW source \in Content, NEW hunks \in Seq(Hunk)
  PROVE  \E f : RunsHunks(f, source, hunks) /\ HunksApplied(source, hunks) = f[Len(hunks)]
<1> DEFINE N == Len(hunks)
           acc == [output |-> << >>, index |-> 0, failed |-> FALSE]
           applied[n \in 0 .. Len(hunks)] ==
             IF n = 0 THEN [output |-> << >>, index |-> 0, failed |-> FALSE]
             ELSE ApplyHunk(source, applied[n - 1], hunks[n])
           g == [x \in (1 .. N) \X Progress |-> ApplyHunk(source, x[2], hunks[x[1]])]
<1>1. HunksApplied(source, hunks) = applied[N]
  BY DEF HunksApplied
<1>2. N \in Nat /\ \A n \in 1 .. N : hunks[n] \in Hunk
  OBVIOUS
<1>a. acc \in Progress
  BY DEF Progress, Content
<1>3. g \in [(1 .. N) \X Progress -> Progress]
  BY <1>2, ApplyHunkType
<1>4. PICK f \in [0 .. N -> Progress] : f[0] = acc /\ \A n \in 1 .. N : f[n] = g[<<n, f[n - 1]>>]
  <2>1. IsRule(g, N, Progress) /\ N \in Nat
    BY <1>2, <1>3 DEF IsRule
  <2> HIDE DEF g, N, acc
  <2>2. \E f : Follows(f, g, N, Progress, acc)
    BY <1>a, <2>1, Recursion
  <2> QED
    BY <2>2 DEF Follows
<1>5. \A n \in 1 .. N : f[n] = ApplyHunk(source, f[n - 1], hunks[n])
  <2> SUFFICES ASSUME NEW n \in 1 .. N  PROVE f[n] = ApplyHunk(source, f[n - 1], hunks[n])
    OBVIOUS
  <2>1. n - 1 \in 0 .. N /\ f[n - 1] \in Progress
    BY <1>2, <1>4
  <2> QED
    BY <1>4, <2>1
<1>6. f = [n \in 0 .. N |-> IF n = 0 THEN acc ELSE ApplyHunk(source, f[n - 1], hunks[n])]
  <2>1. \A n \in 0 .. N : n # 0 => n \in 1 .. N
    BY <1>2
  <2> HIDE DEF acc, N, g
  <2> QED
    BY <1>4, <1>5, <2>1
<1>7. applied = [n \in 0 .. N |-> IF n = 0 THEN acc ELSE ApplyHunk(source, applied[n - 1], hunks[n])]
  BY <1>6
<1> HIDE DEF applied, g, acc
<1>8. \A n \in 1 .. N : applied[n] = ApplyHunk(source, applied[n - 1], hunks[n])
  <2>1. \A n \in 1 .. N : n \in 0 .. N /\ n # 0
    BY <1>2
  <2> QED
    BY <1>7, <2>1
<1>9. applied[0] = acc
  <2>1. 0 \in 0 .. N
    BY <1>2
  <2> QED
    BY <1>7, <2>1
<1> DEFINE Good == {n \in Nat : n <= N => applied[n] \in Progress}
<1>10. 0 \in Good
  BY <1>9, <1>a
<1>11. ASSUME NEW n \in Nat, n \in Good  PROVE n + 1 \in Good
  <2> SUFFICES ASSUME n + 1 <= N  PROVE applied[n + 1] \in Progress
    OBVIOUS
  <2>1. n + 1 \in 1 .. N /\ (n + 1) - 1 = n /\ applied[n] \in Progress
    BY <1>2, <1>11
  <2>2. applied[n + 1] = ApplyHunk(source, applied[n], hunks[n + 1]) /\ hunks[n + 1] \in Hunk
    BY <1>2, <1>8, <2>1
  <2> HIDE DEF N
  <2> QED
    BY <2>1, <2>2, ApplyHunkType
<1>12. \A n \in Nat : n \in Good
  <2> HIDE DEF Good, N
  <2> QED
    BY <1>10, <1>11, Induct
<1>13. \A n \in 0 .. N : applied[n] \in Progress
  BY <1>2, <1>12
<1> USE DEF acc
<1> QED
  BY <1>1, <1>8, <1>9, <1>13 DEF RunsHunks

(* A hunk that does not fail has been compared with its lines of the       *)
(* source, and what fails goes on failing.                                 *)
Sane(source, hunk) == hunk.oldCount > 0 /\ Before(hunk) \in Nat /\ After(hunk) <= Len(source)

(* A failure that is noted is one.                                         *)
LEMMA FailedBy ==
  ASSUME NEW acc \in Progress
  PROVE  [acc EXCEPT !.failed = TRUE].failed
BY DEF Progress

(* What has failed stays failed, whatever the next hunk is.                *)
LEMMA FailedStays ==
  ASSUME NEW source \in Content, NEW acc \in Progress, NEW hunk \in Hunk, acc.failed
  PROVE  ApplyHunk(source, acc, hunk).failed
<1>1. PICK index \in Int : index = hunk.oldStart - 1
  BY HunkIs
<1>2. PICK from : from = CopiedTo(source, acc, index)
  OBVIOUS
<1>3. from \in Progress /\ from.failed
  <2>1. from \in Progress
    BY <1>1, <1>2, CopiedType
  <2>2. from.failed = acc.failed
    BY <1>2 DEF CopiedTo
  <2> QED
    BY <2>1, <2>2
<1>4. PICK r : r = LinesApplied(source, from, hunk.lines)
  OBVIOUS
<1>5. r.failed = (from.failed \/ Mismatch(source, from.index, LinesOf(hunk, {" ", "-"})))
  <2>1. Passed(source, from, r, LinesOf(hunk, {" ", "-"}), LinesOf(hunk, {" ", "+"}))
    BY <1>3, <1>4, LinesSay
  <2> QED
    BY <2>1 DEF Passed
<1>6. CASE CountsMatch(hunk)
  BY <1>1, <1>2, <1>3, <1>4, <1>5, <1>6 DEF ApplyHunk
<1>7. CASE ~CountsMatch(hunk)
  <2>1. ApplyHunk(source, acc, hunk) = [acc EXCEPT !.failed = TRUE]
    BY <1>7 DEF ApplyHunk
  <2> QED
    BY <2>1, FailedBy
<1> QED
  BY <1>6, <1>7

(* A hunk's old lines are those of the source or not.                      *)
LEMMA FitsIs ==
  ASSUME NEW source \in Content, NEW hunk \in Hunk, Sane(source, hunk), CountsMatch(hunk)
  PROVE  Fits(source, hunk) <=> ~Mismatch(source, Before(hunk), LinesOf(hunk, {" ", "-"}))
<1>1. PICK o : o = LinesOf(hunk, {" ", "-"})
  OBVIOUS
<1>2. o \in Seq(HunkLine)
  <2>1. << >> \in Seq(Line)
    OBVIOUS
  <2>2. [output |-> << >>, index |-> 0, failed |-> FALSE] \in Progress
    BY <2>1 DEF Progress, Content
  <2> QED
    BY <1>1, <2>2, LinesSay
<1>3. PICK b \in Nat, a \in Nat : b = Before(hunk) /\ a = After(hunk)
  BY HunkIs DEF Sane, After
<1>4. a = b + Len(o) /\ a <= Len(source) /\ Len(o) \in Nat
  BY <1>1, <1>2, <1>3, HunkIs DEF Sane, After, CountsMatch
<1>5. source \in Seq(Line) /\ Len(source) \in Nat /\ DOMAIN source = 1 .. Len(source)
  BY DEF Content
<1>6. PICK t, s : t = Texts(o) /\ s = SubSeq(source, b + 1, a) /\ Piece(s, source, b, a)
  BY DEF Piece
<1>7. t \in Seq(Line) /\ Len(t) = Len(o) /\ \A i \in 1 .. Len(o) : t[i] = o[i].text
  BY <1>2, <1>6, TextsAre
<1>8. s \in Seq(Line) /\ Len(s) = Len(o) /\ \A i \in 1 .. Len(o) : s[i] = source[b + i]
  <2>1. b <= a /\ a - b = Len(o)
    BY <1>4
  <2> QED
    BY <1>4, <1>5, <1>6, <2>1, SubIs
<1>9. \A i \in 1 .. Len(o) : LineAt(source, b + i) = source[b + i]
  <2>1. \A i \in 1 .. Len(o) : b + i \in DOMAIN source
    BY <1>4, <1>5
  <2> QED
    BY <2>1 DEF LineAt
<1>10. s = t <=> ~Mismatch(source, b, o)
  <2>1. s = t <=> \A i \in 1 .. Len(o) : s[i] = t[i]
    BY <1>7, <1>8, SameElements
  <2> QED
    BY <1>7, <1>8, <1>9, <2>1 DEF Mismatch
<1>11. OldTexts(hunk) = t
  BY <1>1, <1>6 DEF OldTexts, Texts
<1>12. Inside(source, hunk)
  BY <1>3, <1>4 DEF Inside
<1> QED
  BY <1>1, <1>3, <1>6, <1>10, <1>11, <1>12 DEF Fits

(* What a plain hunk does after the earlier ones.                          *)
LEMMA PlainHunk ==
  ASSUME NEW source \in Content, NEW acc \in Progress, NEW hunk \in Hunk, Sane(source, hunk),
         ~acc.failed, acc.index <= Before(hunk), NEW r, r = ApplyHunk(source, acc, hunk)
  PROVE  /\ r \in Progress
         /\ r.failed <=> ~Fits(source, hunk)
         /\ ~r.failed => /\ r.index = After(hunk)
                         /\ r.output = (acc.output \o SubSeq(source, acc.index + 1, Before(hunk))) \o NewTexts(hunk)
                         /\ NewTexts(hunk) \in Seq(Line)
<1>1. r \in Progress
  BY ApplyHunkType
<1>2. CASE ~CountsMatch(hunk)
  <2>1. r = [acc EXCEPT !.failed = TRUE]
    BY <1>2 DEF ApplyHunk
  <2>2. r.failed
    BY <2>1, FailedBy
  <2> QED
    BY <1>1, <1>2, <2>2 DEF Fits
<1>3. CASE CountsMatch(hunk)
  <2>1. PICK b \in Nat, a \in Nat : b = Before(hunk) /\ a = After(hunk)
    BY HunkIs DEF Sane, After
  <2>2. b <= Len(source) /\ hunk.oldStart - 1 = b /\ a = b + hunk.oldCount
    <3>1. hunk.oldCount \in Nat /\ Len(source) \in Nat
      BY HunkIs DEF Content
    <3>2. a = b + hunk.oldCount /\ a <= Len(source) /\ hunk.oldCount > 0
      BY <2>1 DEF Sane, After
    <3>3. b = hunk.oldStart - 1
      BY <2>1, <3>1, <3>2 DEF Before
    <3>4. b <= Len(source)
      <4> PICK c \in Nat, l \in Nat : c = hunk.oldCount /\ l = Len(source)
        BY <3>1
      <4>1. b + c <= l
        BY <3>2
      <4> QED
        BY <4>1
    <3> QED
      BY <3>2, <3>3, <3>4
  <2>3. PICK from : from = CopiedTo(source, acc, b)
    OBVIOUS
  <2>4. /\ from \in Progress /\ from.index = b /\ from.failed = acc.failed
        /\ from.output = acc.output \o SubSeq(source, acc.index + 1, b)
    <3>1. b \in Nat /\ acc.index <= b /\ b <= Len(source)
      BY <2>1, <2>2
    <3>2. from \in Progress /\ Copied(source, acc, b, from)
      BY <2>3, <3>1, CopiedIs
    <3> QED
      BY <3>2 DEF Copied
  <2>5. r = LinesApplied(source, from, hunk.lines)
    BY <1>3, <2>2, <2>3 DEF ApplyHunk
  <2>6. PICK o, w : o = LinesOf(hunk, {" ", "-"}) /\ w = LinesOf(hunk, {" ", "+"})
    OBVIOUS
  <2>7. o \in Seq(HunkLine) /\ w \in Seq(HunkLine) /\ Passed(source, from, r, o, w)
    BY <2>4, <2>5, <2>6, LinesSay
  <2>8. /\ r.index = b + Len(o) /\ r.output = from.output \o Texts(w)
        /\ r.failed = (acc.failed \/ Mismatch(source, b, o))
    BY <2>4, <2>7 DEF Passed
  <2>9. r.failed <=> ~Fits(source, hunk)
    BY <1>3, <2>1, <2>6, <2>8, FitsIs
  <2>10. Len(o) = hunk.oldCount
    BY <1>3, <2>6 DEF CountsMatch
  <2>11. Texts(w) = NewTexts(hunk) /\ Texts(w) \in Seq(Line)
    BY <2>6, <2>7, TextsAre DEF NewTexts, Texts
  <2> QED
    BY <1>1, <2>1, <2>2, <2>4, <2>8, <2>9, <2>10, <2>11
<1> QED
  BY <1>2, <1>3

(* Pieces of what is put together.                                         *)
LEMMA ConcatAssoc ==
  ASSUME NEW s \in Seq(Line), NEW t \in Seq(Line), NEW u \in Seq(Line)
  PROVE  (s \o t) \o u = s \o (t \o u) /\ t \o u \in Seq(Line)
OBVIOUS

Starts(s, p, q) == /\ s \in Seq(Line) /\ Len(s) = Len(p) + Len(q) /\ Len(q) \in Nat
                   /\ \A i \in 1 .. Len(p) : s[i] = p[i]

(* A concatenation starts with its first part.                             *)
LEMMA PrefixOfConcat ==
  ASSUME NEW p \in Seq(Line), NEW q \in Seq(Line), NEW s, Joins(s, p, q)
  PROVE  Starts(s, p, q)
BY ConcatIs DEF Starts

(* The rest of a concatenation, from a place in its first part.            *)
LEMMA RestOfConcat ==
  ASSUME NEW p \in Seq(Line), NEW q \in Seq(Line), NEW i \in Nat, i <= Len(p), NEW s, Joins(s, p, q),
         NEW a, Piece(a, s, i, Len(s)), NEW c, Piece(c, p, i, Len(p)), NEW b, Joins(b, c, q)
  PROVE  a = b
<1>2. /\ s \in Seq(Line) /\ Len(s) = Len(p) + Len(q) /\ Len(p) \in Nat /\ Len(q) \in Nat
      /\ \A j \in 1 .. Len(p) : s[j] = p[j]
      /\ \A j \in 1 .. Len(q) : s[Len(p) + j] = q[j]
  BY ConcatIs
<1>3. a \in Seq(Line) /\ Len(a) = Len(s) - i /\ \A k \in 1 .. Len(s) - i : a[k] = s[i + k]
  <2>1. i <= Len(s) /\ Len(s) \in Nat /\ Len(s) <= Len(s)
    BY <1>2
  <2> QED
    BY <1>2, <2>1, SubIs
<1>4. c \in Seq(Line) /\ Len(c) = Len(p) - i /\ \A k \in 1 .. Len(p) - i : c[k] = p[i + k]
  <2>1. Len(p) <= Len(p) /\ Len(p) \in Nat
    BY <1>2
  <2> QED
    BY <2>1, SubIs
<1>5. /\ b \in Seq(Line) /\ Len(b) = Len(c) + Len(q)
      /\ \A j \in 1 .. Len(c) : b[j] = c[j]
      /\ \A j \in 1 .. Len(q) : b[Len(c) + j] = q[j]
  <2>1. c \in Seq(Line) /\ Joins(b, c, q)
    BY <1>4
  <2> QED
    BY <2>1, ConcatIs
<1>6. Len(a) = Len(b)
  BY <1>2, <1>3, <1>4, <1>5
<1>7. ASSUME NEW k \in 1 .. Len(a)  PROVE a[k] = b[k]
  <2>1. k \in Nat /\ k >= 1 /\ k <= Len(s) - i
    BY <1>2, <1>3, <1>7
  <2>2. CASE k <= Len(c)
    <3>1. k \in 1 .. Len(c) /\ i + k \in 1 .. Len(p) /\ k \in 1 .. Len(s) - i
      BY <1>2, <1>3, <1>4, <2>1, <2>2
    <3> QED
      BY <1>2, <1>3, <1>4, <1>5, <3>1
  <2>3. CASE ~(k <= Len(c))
    <3>1. PICK j \in 1 .. Len(q) : k = Len(c) + j /\ i + k = Len(p) + j
      <4>1. /\ k - Len(c) \in 1 .. Len(q) /\ k = Len(c) + (k - Len(c))
            /\ i + k = Len(p) + (k - Len(c))
        BY <1>2, <1>4, <2>1, <2>3
      <4> QED
        BY <4>1
    <3> QED
      BY <1>2, <1>3, <1>5, <3>1
  <2> QED
    BY <2>2, <2>3
<1> QED
  BY <1>3, <1>5, <1>6, <1>7, SameElements

Assoc3(s, t, u) == (s \o t) \o u = s \o (t \o u)
Assoc4(o, c, w, t) == ((o \o c) \o w) \o t = o \o (c \o (w \o t))

(* Three sequences in a row.                                               *)
LEMMA Associative ==
  ASSUME NEW s \in Seq(Line), NEW t \in Seq(Line), NEW u \in Seq(Line)
  PROVE  Assoc3(s, t, u)
BY ConcatAssoc DEF Assoc3

(* Four sequences in a row, however they are put together.                 *)
LEMMA ConcatAssoc4 ==
  ASSUME NEW o \in Seq(Line), NEW c \in Seq(Line), NEW w \in Seq(Line), NEW t \in Seq(Line)
  PROVE  Assoc4(o, c, w, t)
<1>1. ((o \o c) \o w) \o t = o \o (c \o (w \o t))
  <2>1. o \o c \in Seq(Line) /\ w \o t \in Seq(Line)
    OBVIOUS
  <2>2. Assoc3(o \o c, w, t) /\ Assoc3(o, c, w \o t)
    BY <2>1, Associative
  <2> QED
    BY <2>2, Zenon DEF Assoc3
<1> QED
  BY <1>1, Zenon DEF Assoc4

(* r has the first n lines of the source.                                  *)
Agree(r, source, n) == n <= Len(r) /\ \A i \in 1 .. n : r[i] = source[i]

(* A plain hunk put into a file that agrees with the source so far.        *)
Parts(source, hunk, r, s, x) ==
  /\ SubSeq(r, After(hunk) + 1, Len(r)) \in Seq(Line)
  /\ SubSeq(source, x + 1, Before(hunk)) \in Seq(Line)
  /\ SubSeq(s, x + 1, Len(s)) =
       SubSeq(source, x + 1, Before(hunk)) \o (NewTexts(hunk) \o SubSeq(r, After(hunk) + 1, Len(r)))

(* A hunk spliced into a file that is the source up to the end of its      *)
(* place: before its place the file is still the source, and from a place  *)
(* before it the rest is the lines in between, the new lines and what      *)
(* followed.                                                               *)
LEMMA SplicedIs ==
  ASSUME NEW source \in Content, NEW hunk \in Hunk, Sane(source, hunk),
         NEW r \in Content, Agree(r, source, After(hunk)), NewTexts(hunk) \in Seq(Line),
         NEW s, s = Spliced(r, hunk), NEW x \in Nat, x <= Before(hunk)
  PROVE  /\ s \in Content
         /\ Agree(s, source, Before(hunk))
         /\ Parts(source, hunk, r, s, x)
<1>1. PICK b \in Nat, a \in Nat : b = Before(hunk) /\ a = After(hunk)
  BY HunkIs DEF Sane, After
<1>2. b <= a /\ a <= Len(r) /\ a <= Len(source) /\ x <= b /\ Len(r) \in Nat /\ Len(source) \in Nat
  <2>1. a = b + hunk.oldCount /\ hunk.oldCount \in Nat
    BY <1>1, HunkIs DEF After
  <2>2. b <= a
    BY <2>1
  <2>3. a <= Len(r) /\ a <= Len(source) /\ x <= b
    BY <1>1 DEF Sane, Agree
  <2> QED
    BY <2>2, <2>3 DEF Content
<1>3. r \in Seq(Line) /\ source \in Seq(Line)
  BY DEF Content
<1>4. PICK w \in Seq(Line) : w = NewTexts(hunk)
  OBVIOUS
<1>a. PICK p : p = SubSeq(r, 1, b) /\ Piece(p, r, 0, b)
  <2>1. 0 + 1 = 1
    OBVIOUS
  <2> QED
    BY <2>1, Zenon DEF Piece
<1>b. PICK t : t = SubSeq(r, a + 1, Len(r)) /\ Piece(t, r, a, Len(r))
  BY DEF Piece
<1>c. PICK q : q = w \o t /\ Joins(q, w, t)
  BY DEF Joins
<1>5. /\ p = SubSeq(r, 1, b) /\ t = SubSeq(r, a + 1, Len(r)) /\ q = w \o t
      /\ Piece(p, r, 0, b) /\ Piece(t, r, a, Len(r)) /\ Joins(q, w, t)
  BY <1>a, <1>b, <1>c, Zenon
<1>6. /\ p \in Seq(Line) /\ Len(p) = b /\ \A k \in 1 .. b : p[k] = r[k]
  <2>1. PICK z \in Nat : z = 0 /\ z <= b /\ b <= Len(r) /\ Piece(p, r, z, b)
    BY <1>2, <1>5
  <2>2. p \in Seq(Line) /\ Len(p) = b - z /\ \A k \in 1 .. b - z : p[k] = r[z + k]
    BY <1>3, <2>1, SubIs
  <2> QED
    BY <2>1, <2>2
<1>7. t \in Seq(Line)
  <2>1. a <= Len(r) /\ Len(r) \in Nat /\ Len(r) <= Len(r)
    BY <1>2
  <2> QED
    BY <1>3, <1>5, <2>1, SubIs
<1>8. q \in Seq(Line)
  BY <1>5, <1>7, ConcatIs
<1>9. s = p \o q /\ Joins(s, p, q)
  <2>1. s = (p \o w) \o t
    BY <1>1, <1>4, <1>5 DEF Spliced
  <2>2. p \in Seq(Line)
    BY <1>6
  <2>3. (p \o w) \o t = p \o (w \o t)
    BY <1>7, <2>2, ConcatAssoc
  <2> QED
    BY <1>5, <2>1, <2>3 DEF Joins
<1>10. /\ s \in Seq(Line) /\ Len(s) = Len(p) + Len(q) /\ Len(q) \in Nat
       /\ \A i \in 1 .. Len(p) : s[i] = p[i]
  <2>1. p \in Seq(Line) /\ q \in Seq(Line) /\ Joins(s, p, q)
    BY <1>6, <1>8, <1>9
  <2>2. Starts(s, p, q)
    BY <2>1, PrefixOfConcat
  <2> QED
    BY <2>2 DEF Starts
<1>11. \A k \in 1 .. b : r[k] = source[k]
  <2>1. \A k \in 1 .. b : k \in 1 .. a
    BY <1>2
  <2> QED
    BY <1>1, <2>1 DEF Agree
<1>12. Agree(s, source, b)
  <2>1. b <= Len(s)
    BY <1>6, <1>10
  <2>2. \A k \in 1 .. b : s[k] = source[k]
    BY <1>6, <1>10, <1>11
  <2> QED
    BY <2>1, <2>2 DEF Agree
<1>13. PICK u, v, y, z : /\ u = SubSeq(p, x + 1, b) /\ v = SubSeq(source, x + 1, b)
                        /\ y = SubSeq(s, x + 1, Len(s)) /\ z = u \o q
                        /\ Piece(u, p, x, b) /\ Piece(v, source, x, b) /\ Piece(y, s, x, Len(s)) /\ Joins(z, u, q)
  BY DEF Piece, Joins
<1>14. y = z
  <2>1. x <= Len(p) /\ Len(p) = b /\ p \in Seq(Line)
    BY <1>2, <1>6
  <2>2. Piece(u, p, x, Len(p)) /\ Piece(y, s, x, Len(s)) /\ Joins(z, u, q) /\ Joins(s, p, q)
    BY <1>9, <1>13, <2>1
  <2> QED
    BY <1>8, <2>1, <2>2, RestOfConcat
<1>15. u \in Seq(Line) /\ Len(u) = b - x /\ \A k \in 1 .. b - x : u[k] = p[x + k]
  <2>1. x <= b /\ b <= Len(p) /\ p \in Seq(Line) /\ Piece(u, p, x, b)
    BY <1>2, <1>6, <1>13
  <2> QED
    BY <2>1, SubIs
<1>16. v \in Seq(Line) /\ Len(v) = b - x /\ \A k \in 1 .. b - x : v[k] = source[x + k]
  <2>1. x <= b /\ b <= Len(source) /\ source \in Seq(Line) /\ Piece(v, source, x, b)
    BY <1>2, <1>3, <1>13
  <2> QED
    BY <2>1, SubIs
<1>17. u = v
  <2>1. \A k \in 1 .. b - x : x + k \in 1 .. b
    BY <1>2
  <2>2. \A k \in 1 .. b - x : u[k] = v[k]
    BY <1>6, <1>11, <1>15, <1>16, <2>1
  <2> QED
    BY <1>15, <1>16, <2>2, SameElements
<1>18. s \in Content
  BY <1>10 DEF Content
<1> QED
  BY <1>1, <1>4, <1>5, <1>7, <1>12, <1>13, <1>14, <1>16, <1>17, <1>18, Zenon DEF Parts

(* The new lines of a hunk are lines.                                      *)
LEMMA NewTextsType ==
  ASSUME NEW hunk \in Hunk
  PROVE  NewTexts(hunk) \in Seq(Line)
<1>1. PICK w : w = LinesOf(hunk, {" ", "+"})
  OBVIOUS
<1>2. PICK lines \in Seq(HunkLine) : lines = hunk.lines
  BY HunkIs
<1>3. w \in Seq(HunkLine)
  <2>1. PICK S : w = Kept(lines, S)
    BY <1>1, <1>2, Zenon DEF LinesOf
  <2> QED
    BY <1>2, <2>1, KeptIs
<1>4. Texts(w) \in Seq(Line)
  BY <1>3, TextsAre
<1>5. NewTexts(hunk) = Texts(w)
  BY <1>1, Zenon DEF NewTexts, Texts
<1> QED
  BY <1>4, <1>5

(* Plain hunks, one by one and two by two.                                 *)
LEMMA PlainIs ==
  ASSUME NEW source \in Content, NEW hunks \in Seq(Hunk), Plain(source, hunks)
  PROVE  /\ Len(hunks) \in Nat
         /\ \A i \in 1 .. Len(hunks) : /\ hunks[i] \in Hunk
                                       /\ Sane(source, hunks[i]) /\ Inside(source, hunks[i])
         /\ \A i \in 1 .. Len(hunks) : i + 1 <= Len(hunks) => After(hunks[i]) <= Before(hunks[i + 1])
<1>1. Len(hunks) \in Nat /\ DOMAIN hunks = 1 .. Len(hunks) /\ \A i \in 1 .. Len(hunks) : hunks[i] \in Hunk
  OBVIOUS
<1>2. ASSUME NEW i \in 1 .. Len(hunks)  PROVE Sane(source, hunks[i]) /\ Inside(source, hunks[i])
  <2>1. PICK h \in Hunk : h = hunks[i]
    BY <1>1
  <2>2. h.oldCount > 0 /\ Inside(source, h)
    BY <1>1, <2>1 DEF Plain
  <2>3. h.oldStart \in Nat /\ h.oldCount \in Nat
    BY HunkIs
  <2>4. Before(h) \in Nat /\ After(h) <= Len(source)
    BY <2>2, <2>3 DEF Inside, Before
  <2> QED
    BY <2>1, <2>2, <2>4 DEF Sane
<1>3. ASSUME NEW i \in 1 .. Len(hunks), i + 1 <= Len(hunks)  PROVE After(hunks[i]) <= Before(hunks[i + 1])
  <2>1. i + 1 \in 1 .. Len(hunks) /\ i < i + 1
    BY <1>1, <1>3
  <2> QED
    BY <1>1, <2>1 DEF Plain, InOrder
<1> QED
  BY <1>1, <1>2, <1>3

(* The hunks put into the file, from the last one to the first: r[n] has   *)
(* the last n of them and agrees with the source before them.              *)
Reach(source, hunks, n) == IF n = 0 THEN Len(source) ELSE Before(hunks[Len(hunks) + 1 - n])

Splices(r, source, hunks) ==
  /\ r[0] = source
  /\ \A n \in 0 .. Len(hunks) : r[n] \in Content /\ Agree(r[n], source, Reach(source, hunks, n))
  /\ \A n \in 1 .. Len(hunks) : r[n] = Spliced(r[n - 1], hunks[Len(hunks) + 1 - n])

(* Files that agree up to a place agree up to an earlier one.              *)
LEMMA AgreeLess ==
  ASSUME NEW r \in Content, NEW source, NEW m, NEW n \in Nat, Agree(r, source, m), n <= m, m \in Nat
  PROVE  Agree(r, source, n)
<1>1. Len(r) \in Nat
  BY DEF Content
<1>2. m <= Len(r) /\ \A i \in 1 .. m : r[i] = source[i]
  BY DEF Agree
<1>3. \A i \in 1 .. n : i \in 1 .. m
  OBVIOUS
<1>4. n <= Len(r)
  BY <1>1, <1>2
<1> QED
  BY <1>2, <1>3, <1>4 DEF Agree

(* What the next hunk needs of what comes after it.                        *)
LEMMA ReachNext ==
  ASSUME NEW source \in Content, NEW hunks \in Seq(Hunk), Plain(source, hunks),
         NEW n \in Nat, n + 1 <= Len(hunks), NEW r \in Content, Agree(r, source, Reach(source, hunks, n)),
         NEW h, h = hunks[Len(hunks) + 1 - (n + 1)]
  PROVE  h \in Hunk /\ Sane(source, h) /\ Agree(r, source, After(h))
<1>1. PICK N, k : /\ N \in Nat /\ k \in 1 .. N /\ N = Len(hunks)
                  /\ k = N - n /\ Len(hunks) + 1 - (n + 1) = k
  <2>1. Len(hunks) \in Nat
    BY PlainIs
  <2>2. Len(hunks) - n \in 1 .. Len(hunks) /\ Len(hunks) + 1 - (n + 1) = Len(hunks) - n
    BY <2>1
  <2> QED
    BY <2>1, <2>2
<1>2. h \in Hunk /\ h = hunks[k] /\ Sane(source, h)
  BY <1>1, PlainIs
<1>3. After(h) \in Nat /\ After(h) <= Len(source) /\ Len(source) \in Nat
  BY <1>2, HunkIs DEF Sane, After, Content
<1>4. CASE n = 0
  <2>1. Reach(source, hunks, n) = Len(source)
    BY <1>4 DEF Reach
  <2> QED
    BY <1>2, <1>3, <2>1, AgreeLess
<1>5. CASE n # 0
  <2>1. k + 1 \in 1 .. N /\ Len(hunks) + 1 - n = k + 1 /\ k + 1 <= Len(hunks)
    BY <1>1, <1>5
  <2>2. After(hunks[k]) <= Before(hunks[k + 1]) /\ Sane(source, hunks[k + 1])
    BY <1>1, <2>1, PlainIs
  <2>3. Reach(source, hunks, n) = Before(hunks[k + 1])
    BY <1>5, <2>1 DEF Reach
  <2>4. Before(hunks[k + 1]) \in Nat
    BY <2>2 DEF Sane
  <2> QED
    BY <1>2, <1>3, <2>2, <2>3, <2>4, AgreeLess
<1> QED
  BY <1>4, <1>5

(* The hunks are spliced in from the last to the first, and the file is    *)
(* still the source before the place of the last one spliced.              *)
LEMMA AllSplicedBy ==
  ASSUME NEW source \in Content, NEW hunks \in Seq(Hunk), Plain(source, hunks)
  PROVE  \E r : Splices(r, source, hunks) /\ AllSpliced(source, hunks) = r[Len(hunks)]
<1> DEFINE N == Len(hunks)
           at(n) == hunks[Len(hunks) + 1 - n]
           spliced[n \in 0 .. Len(hunks)] ==
             IF n = 0 THEN source ELSE Spliced(spliced[n - 1], hunks[Len(hunks) + 1 - n])
           g == [x \in (1 .. N) \X Content |->
                  IF Spliced(x[2], at(x[1])) \in Content THEN Spliced(x[2], at(x[1])) ELSE x[2]]
<1>1. AllSpliced(source, hunks) = spliced[N]
  BY DEF AllSpliced
<1>2. N \in Nat
  BY PlainIs
<1>3. g \in [(1 .. N) \X Content -> Content]
  OBVIOUS
<1>4. PICK f \in [0 .. N -> Content] : f[0] = source /\ \A n \in 1 .. N : f[n] = g[<<n, f[n - 1]>>]
  <2>1. IsRule(g, N, Content)
    BY <1>3 DEF IsRule
  <2> HIDE DEF g, N
  <2>2. \E f : Follows(f, g, N, Content, source)
    BY <1>2, <2>1, Recursion
  <2> QED
    BY <2>2 DEF Follows
<1>5. ASSUME NEW n \in 1 .. N
      PROVE  f[n] = IF Spliced(f[n - 1], at(n)) \in Content THEN Spliced(f[n - 1], at(n)) ELSE f[n - 1]
  <2>1. n - 1 \in 0 .. N /\ f[n - 1] \in Content
    BY <1>2, <1>4
  <2> QED
    BY <1>4, <2>1
<1> DEFINE Good == {n \in Nat : n <= N => /\ Agree(f[n], source, Reach(source, hunks, n))
                                          /\ n > 0 => f[n] = Spliced(f[n - 1], at(n))}
<1>6. 0 \in Good
  <2>1. Agree(source, source, Len(source))
    BY DEF Agree, Content
  <2> QED
    BY <1>4, <2>1 DEF Reach
<1> HIDE DEF g
<1>7. ASSUME NEW n \in Nat, n \in Good  PROVE n + 1 \in Good
  <2> SUFFICES ASSUME n + 1 <= N
               PROVE  Agree(f[n + 1], source, Reach(source, hunks, n + 1)) /\ f[n + 1] = Spliced(f[n], at(n + 1))
    OBVIOUS
  <2>1. n + 1 \in 1 .. N /\ (n + 1) - 1 = n /\ n \in 0 .. N /\ n <= N /\ n + 1 # 0
    BY <1>2
  <2>2. PICK r, h : r \in Content /\ r = f[n] /\ h = at(n + 1)
    BY <1>4, <2>1
  <2>3. Agree(r, source, Reach(source, hunks, n))
    BY <1>7, <2>1, <2>2
  <2>4. h \in Hunk /\ Sane(source, h) /\ Agree(r, source, After(h))
    BY <2>2, <2>3, ReachNext
  <2>5. PICK s : s = Spliced(r, h)
    OBVIOUS
  <2>6. NewTexts(h) \in Seq(Line) /\ Before(h) \in Nat
    BY <2>4, NewTextsType DEF Sane
  <2>7. s \in Content /\ Agree(s, source, Before(h))
    BY <2>2, <2>4, <2>5, <2>6, SplicedIs
  <2>8. f[n + 1] = s
    BY <1>5, <2>1, <2>2, <2>5, <2>7
  <2>9. Reach(source, hunks, n + 1) = Before(h)
    BY <2>1, <2>2 DEF Reach
  <2> QED
    BY <2>2, <2>5, <2>7, <2>8, <2>9
<1>8. \A n \in Nat : n \in Good
  <2> HIDE DEF Good
  <2> QED
    BY <1>6, <1>7, Induct
<1>9. /\ \A n \in 0 .. N : f[n] \in Content /\ Agree(f[n], source, Reach(source, hunks, n))
      /\ \A n \in 1 .. N : f[n] = Spliced(f[n - 1], at(n))
  <2>1. \A n \in 0 .. N : n \in Nat /\ n <= N
    BY <1>2
  <2>2. \A n \in 1 .. N : n \in Nat /\ n <= N /\ n > 0
    BY <1>2
  <2> QED
    BY <1>4, <1>8, <2>1, <2>2
<1>10. f = [n \in 0 .. N |-> IF n = 0 THEN source ELSE Spliced(f[n - 1], at(n))]
  <2>1. \A n \in 0 .. N : n # 0 => n \in 1 .. N
    BY <1>2
  <2> QED
    BY <1>4, <1>9, <2>1
<1>11. spliced = [n \in 0 .. N |-> IF n = 0 THEN source ELSE Spliced(spliced[n - 1], at(n))]
  BY <1>10
<1> HIDE DEF spliced
<1> DEFINE Same == {n \in Nat : n <= N => spliced[n] = f[n]}
<1>12. 0 \in Same
  <2>1. 0 \in 0 .. N
    BY <1>2
  <2> QED
    BY <1>4, <1>11, <2>1
<1>13. ASSUME NEW n \in Nat, n \in Same  PROVE n + 1 \in Same
  <2> SUFFICES ASSUME n + 1 <= N  PROVE spliced[n + 1] = f[n + 1]
    OBVIOUS
  <2>1. n + 1 \in 0 .. N /\ n + 1 \in 1 .. N /\ n + 1 # 0 /\ (n + 1) - 1 = n /\ spliced[n] = f[n]
    BY <1>2, <1>13
  <2>2. f[n + 1] = Spliced(f[n], at(n + 1))
    BY <1>9, <2>1
  <2>3. spliced[n + 1] = Spliced(spliced[n], at(n + 1))
    BY <1>11, <2>1
  <2> QED
    BY <2>1, <2>2, <2>3
<1>14. \A n \in Nat : n \in Same
  <2> HIDE DEF Same
  <2> QED
    BY <1>12, <1>13, Induct
<1>15. spliced[N] = f[N]
  BY <1>2, <1>14
<1> QED
  BY <1>1, <1>4, <1>9, <1>15 DEF Splices

(* One more hunk: whether all have fitted so far, and what is written and  *)
(* what is left make the same file.                                        *)
SameFile(p, s, q, r) ==
  q.output \o SubSeq(r, q.index + 1, Len(r)) = p.output \o SubSeq(s, p.index + 1, Len(s))

(* Applying a hunk forwards and splicing it in backwards are the same: what*)
(* has been written, with the rest of the file in which the hunk and the   *)
(* later ones are spliced, is what will have been written after the hunk,  *)
(* with the rest in which only the later ones are.                         *)
LEMMA Onward ==
  ASSUME NEW source \in Content, NEW h \in Hunk, Sane(source, h),
         NEW p \in Progress, ~p.failed, p.index <= Before(h),
         NEW q, q = ApplyHunk(source, p, h), ~q.failed,
         NEW r \in Content, Agree(r, source, After(h)), NEW s, s = Spliced(r, h)
  PROVE  q.index = After(h) /\ SameFile(p, s, q, r)
<1>1. /\ q \in Progress /\ q.index = After(h)
      /\ q.output = (p.output \o SubSeq(source, p.index + 1, Before(h))) \o NewTexts(h)
      /\ NewTexts(h) \in Seq(Line)
  BY PlainHunk
<1>2. p.output \in Seq(Line) /\ p.index \in Nat
  BY ProgressIs
<1>3. PICK o \in Seq(Line), x \in Nat, w \in Seq(Line) : o = p.output /\ x = p.index /\ w = NewTexts(h)
  BY <1>1, <1>2
<1>4. /\ SubSeq(r, After(h) + 1, Len(r)) \in Seq(Line)
      /\ SubSeq(source, x + 1, Before(h)) \in Seq(Line)
      /\ SubSeq(s, x + 1, Len(s)) =
           SubSeq(source, x + 1, Before(h)) \o (NewTexts(h) \o SubSeq(r, After(h) + 1, Len(r)))
  <2>1. NewTexts(h) \in Seq(Line) /\ x \in Nat /\ x <= Before(h)
    BY <1>1, <1>3
  <2>2. Parts(source, h, r, s, x)
    BY <2>1, SplicedIs
  <2> QED
    BY <2>2 DEF Parts
<1>5. PICK t \in Seq(Line), c \in Seq(Line) :
        t = SubSeq(r, After(h) + 1, Len(r)) /\ c = SubSeq(source, x + 1, Before(h))
  BY <1>4
<1>6. Assoc4(o, c, w, t)
  <2>1. o \in Seq(Line) /\ c \in Seq(Line) /\ w \in Seq(Line) /\ t \in Seq(Line)
    BY <1>3, <1>5
  <2> QED
    BY <2>1, ConcatAssoc4
<1>7. SubSeq(s, p.index + 1, Len(s)) = c \o (w \o t)
  BY <1>3, <1>4, <1>5, Zenon
<1>8. q.output = (o \o c) \o w
  BY <1>1, <1>3, <1>5, Zenon
<1>9. SubSeq(r, q.index + 1, Len(r)) = t
  BY <1>1, <1>5, Zenon
<1>10. p.output = o
  BY <1>3
<1> QED
  BY <1>1, <1>6, <1>7, <1>8, <1>9, <1>10, Zenon DEF SameFile, Assoc4

(* applyHunks computes what a unified diff says, for the hunks that it     *)
(* reads the same way: all of them replace lines, in order and inside the  *)
(* file.  It refuses them exactly if one of them does not fit.             *)
THEOREM PatchComputed ==
  ASSUME NEW source \in Content, NEW hunks \in Seq(Hunk), Plain(source, hunks)
  PROVE  LinesPatched(source, hunks) = Reference(source, hunks)
<1> DEFINE N == Len(hunks)
           Misfit(n) == \E i \in 1 .. n : ~Fits(source, hunks[i])
           End(n) == IF n = 0 THEN 0 ELSE After(hunks[n])
<1>1. PICK f : RunsHunks(f, source, hunks) /\ HunksApplied(source, hunks) = f[N]
  BY HunksAppliedBy
<1>2. PICK r : Splices(r, source, hunks) /\ AllSpliced(source, hunks) = r[N]
  BY AllSplicedBy
<1>3. /\ N \in Nat
      /\ \A i \in 1 .. N : hunks[i] \in Hunk /\ Sane(source, hunks[i])
      /\ \A i \in 1 .. N : i + 1 <= N => After(hunks[i]) <= Before(hunks[i + 1])
  BY PlainIs
<1>4. /\ f[0] = [output |-> << >>, index |-> 0, failed |-> FALSE]
      /\ \A n \in 0 .. N : f[n] \in Progress
      /\ \A n \in 1 .. N : f[n] = ApplyHunk(source, f[n - 1], hunks[n])
  BY <1>1 DEF RunsHunks
<1>5. /\ r[0] = source
      /\ \A n \in 0 .. N : r[n] \in Content /\ Agree(r[n], source, Reach(source, hunks, n))
      /\ \A n \in 1 .. N : r[n] = Spliced(r[n - 1], hunks[N + 1 - n])
  BY <1>2 DEF Splices
<1> DEFINE Rest(n) == SubSeq(r[N - n], f[n].index + 1, Len(r[N - n]))
           Far(n) == /\ f[n].failed <=> Misfit(n)
                     /\ ~f[n].failed => f[n].index = End(n) /\ f[n].output \o Rest(n) = r[N]
           Good == {n \in Nat : n <= N => Far(n)}
<1>6. 0 \in Good
  <2>1. f[0].failed = FALSE /\ f[0].index = 0 /\ f[0].output = << >>
    BY <1>4
  <2>2. ~Misfit(0) /\ End(0) = 0
    OBVIOUS
  <2>3. PICK a \in Seq(Line) : a = r[N]
    BY <1>3, <1>5 DEF Content
  <2>4. SubSeq(a, 0 + 1, Len(a)) = a /\ << >> \o a = a /\ N - 0 = N
    BY <1>3
  <2>5. Rest(0) = a
    BY <2>1, <2>3, <2>4
  <2>6. f[0].output \o Rest(0) = r[N]
    BY <2>1, <2>3, <2>4, <2>5
  <2> HIDE DEF Rest, End, Misfit, N
  <2> QED
    BY <2>1, <2>2, <2>6
<1>7. ASSUME NEW n \in Nat, n \in Good  PROVE n + 1 \in Good
  <2> SUFFICES ASSUME n + 1 <= N
               PROVE  Far(n + 1)
    <3> HIDE DEF Far, N
    <3> QED
      OBVIOUS
  <2>1. /\ n + 1 \in 1 .. N /\ (n + 1) - 1 = n /\ n \in 0 .. N /\ n <= N
        /\ N - n \in 1 .. N /\ N + 1 - (N - n) = n + 1 /\ N - n - 1 = N - (n + 1) /\ N - (n + 1) \in 0 .. N
        /\ N - (n + 1) \in Nat /\ (N - (n + 1)) + 1 <= N /\ N + 1 - ((N - (n + 1)) + 1) = n + 1
    BY <1>3
  <2>2. PICK h, p, q, rr, s, m : /\ h = hunks[n + 1] /\ p = f[n] /\ q = f[n + 1]
                                 /\ rr = r[N - (n + 1)] /\ s = r[N - n] /\ m = N - (n + 1)
    OBVIOUS
  <2>3. h \in Hunk /\ Sane(source, h) /\ p \in Progress /\ q = ApplyHunk(source, p, h)
    BY <1>3, <1>4, <2>1, <2>2
  <2>4. rr \in Content /\ s = Spliced(rr, h)
    BY <1>5, <2>1, <2>2
  <2>5. Agree(rr, source, After(h))
    <3>1. /\ m \in Nat /\ m + 1 <= Len(hunks) /\ h = hunks[Len(hunks) + 1 - (m + 1)]
          /\ Agree(rr, source, Reach(source, hunks, m))
      BY <1>5, <2>1, <2>2
    <3> QED
      BY <2>4, <3>1, ReachNext
  <2>6. /\ p.failed <=> Misfit(n)
        /\ ~p.failed => p.index = End(n) /\ p.output \o Rest(n) = r[N]
    <3>1. Far(n)
      <4> HIDE DEF Far, N
      <4> QED
        BY <1>7, <2>1
    <3> HIDE DEF Misfit, End, Rest, N
    <3> QED
      BY <2>2, <3>1
  <2>7. Misfit(n + 1) <=> Misfit(n) \/ ~Fits(source, h)
    <3>1. \A i \in 1 .. n + 1 : i \in 1 .. n \/ i = n + 1
      OBVIOUS
    <3>2. (\A i \in 1 .. n : i \in 1 .. n + 1) /\ n + 1 \in 1 .. n + 1
      OBVIOUS
    <3> QED
      BY <2>2, <3>1, <3>2
  <2>8. CASE p.failed
    <3>1. q.failed
      BY <2>3, <2>8, FailedStays
    <3> QED
      BY <2>2, <2>6, <2>7, <2>8, <3>1
  <2>9. CASE ~p.failed
    <3>1. p.index <= Before(h)
      <4>1. CASE n = 0
        BY <2>3, <2>6, <2>9, <4>1 DEF Sane
      <4>2. CASE n # 0
        <5>1. n \in 1 .. N
          BY <2>1, <4>2
        <5>2. After(hunks[n]) <= Before(hunks[n + 1])
          BY <1>3, <5>1
        <5> QED
          BY <2>2, <2>6, <2>9, <4>2, <5>2
      <4> QED
        BY <4>1, <4>2
    <3>2. q.failed <=> ~Fits(source, h)
      BY <2>3, <2>9, <3>1, PlainHunk
    <3>3. ASSUME ~q.failed
          PROVE  q.index = End(n + 1) /\ q.output \o SubSeq(rr, q.index + 1, Len(rr)) = r[N]
      <4>1. q.index = After(h) /\ SameFile(p, s, q, rr)
        BY <2>3, <2>4, <2>5, <2>9, <3>1, <3>3, Onward
      <4>2. End(n + 1) = After(h)
        BY <2>2
      <4>3. Rest(n) = SubSeq(s, p.index + 1, Len(s))
        BY <2>2
      <4> HIDE DEF Rest, End
      <4> QED
        BY <2>6, <2>9, <4>1, <4>2, <4>3 DEF SameFile
    <3>4. Rest(n + 1) = SubSeq(rr, q.index + 1, Len(rr))
      BY <2>2
    <3> HIDE DEF Rest, End, Misfit
    <3> QED
      BY <2>2, <2>6, <2>7, <2>9, <3>2, <3>3, <3>4
  <2> QED
    BY <2>8, <2>9
<1>8. N \in Good
  <2> HIDE DEF Good, N
  <2> QED
    BY <1>3, <1>6, <1>7, Induct
<1>9. PICK end : end = f[N] /\ end = HunksApplied(source, hunks)
  BY <1>1
<1>10. end \in Progress
  <2>1. N \in 0 .. N
    BY <1>3
  <2> HIDE DEF N
  <2> QED
    BY <1>4, <1>9, <2>1
<1>11. /\ end.failed <=> Misfit(N)
       /\ ~end.failed => end.index = End(N) /\ end.output \o Rest(N) = r[N]
  <2>1. Far(N)
    <3>1. N <= N
      BY <1>3
    <3> HIDE DEF Far, N
    <3> QED
      BY <1>8, <3>1
  <2> HIDE DEF Misfit, End, Rest, N
  <2> QED
    BY <1>9, <2>1
<1>12. DOMAIN hunks = 1 .. N
  OBVIOUS
<1>13. CASE end.failed
  BY <1>9, <1>11, <1>12, <1>13 DEF LinesPatched, Reference
<1>14. CASE ~end.failed
  <2>1. \A i \in DOMAIN hunks : Fits(source, hunks[i])
    BY <1>11, <1>12, <1>14
  <2>2. Reference(source, hunks) = Joined(r[N])
    BY <1>2, <2>1 DEF Reference
  <2>3. PICK l \in Nat : l = Len(source)
    BY DEF Content
  <2>4. end.index <= l
    <3>1. CASE N = 0
      BY <1>11, <1>14, <2>3, <3>1
    <3>2. CASE N # 0
      <4>1. N \in 1 .. N
        BY <1>3, <3>2
      <4>2. Sane(source, hunks[N])
        BY <1>3, <4>1
      <4> QED
        BY <1>11, <1>14, <2>3, <3>2, <4>2 DEF Sane
    <3> QED
      BY <3>1, <3>2
  <2>5. PICK c : c = CopiedTo(source, end, Len(source))
    OBVIOUS
  <2>6. Copied(source, end, l, c)
    <3>1. c = CopiedTo(source, end, l) /\ l <= Len(source)
      BY <2>3, <2>5
    <3> QED
      BY <1>10, <2>4, <3>1, CopiedIs
  <2>7. Rest(N) = SubSeq(source, end.index + 1, l)
    <3>1. N - N = 0
      BY <1>3
    <3> QED
      BY <1>5, <1>9, <2>3, <3>1
  <2>8. c.output = r[N]
    <3> HIDE DEF Rest
    <3> QED
      BY <1>11, <1>14, <2>6, <2>7 DEF Copied
  <2>9. LinesPatched(source, hunks) = Joined(c.output)
    BY <1>9, <1>14, <2>5 DEF LinesPatched
  <2> QED
    BY <2>2, <2>8, <2>9
<1> QED
  BY <1>13, <1>14

-----------------------------------------------------------------------------
(* What parsePatch returns: files with hunks.  While it is in a hunk there *)
(* is a file, and the file has one.                                        *)
PatchedFile(P) == [newPath : P, hunks : Seq(Hunk)]
InPlace(fs) == fs # << >> /\ fs[Len(fs)].hunks # << >>
Parsing(P) ==
  {a \in [files : Seq(PatchedFile(P)), header : P \cup {None}, inHunk : BOOLEAN, failed : BOOLEAN] :
     a.inHunk => a.header = None /\ InPlace(a.files)}

(* What the records of the parser hold.                                    *)
LEMMA PatchedFileIs ==
  ASSUME NEW P, NEW file \in PatchedFile(P)
  PROVE  file.newPath \in P /\ file.hunks \in Seq(Hunk)
BY DEF PatchedFile

(* What the parser holds between two lines.                                *)
LEMMA ParsingIs ==
  ASSUME NEW P, NEW acc \in Parsing(P)
  PROVE  /\ acc.files \in Seq(PatchedFile(P)) /\ acc.header \in P \cup {None}
         /\ acc.inHunk \in BOOLEAN /\ acc.failed \in BOOLEAN
         /\ acc.inHunk => acc.header = None /\ InPlace(acc.files)
BY DEF Parsing

(* The three ways to go on.                                                *)
LEMMA GoingOn ==
  ASSUME NEW P, NEW acc \in Parsing(P)
  PROVE  /\ [acc EXCEPT !.failed = TRUE] \in Parsing(P)
         /\ [acc EXCEPT !.inHunk = FALSE] \in Parsing(P)
         /\ \A hd \in P : [acc EXCEPT !.header = hd, !.inHunk = FALSE] \in Parsing(P)
         /\ \A fs \in Seq(PatchedFile(P)) :
              /\ acc.header = None /\ InPlace(fs) => [acc EXCEPT !.files = fs, !.inHunk = TRUE] \in Parsing(P)
              /\ acc.header # None => [acc EXCEPT !.header = None, !.files = fs] \in Parsing(P)
BY DEF Parsing

(* The last element of a sequence, and another one in its place.           *)
LEMMA LastIs ==
  ASSUME NEW E, NEW s \in Seq(E), s # << >>
  PROVE  Len(s) \in 1 .. Len(s) /\ Len(s) \in Nat /\ s[Len(s)] \in E
OBVIOUS

(* A sequence whose last element has been changed.                         *)
LEMMA LastChanged ==
  ASSUME NEW E, NEW s \in Seq(E), s # << >>, NEW x \in E, NEW n, n = Len(s), NEW t, t = [s EXCEPT ![n] = x]
  PROVE  t \in Seq(E) /\ t # << >> /\ t[Len(t)] = x
<1>1. n \in Nat /\ n \in 1 .. n /\ s \in [1 .. n -> E]
  OBVIOUS
<1>2. t \in [1 .. n -> E] /\ t[n] = x
  BY <1>1
<1>3. t \in Seq(E) /\ Len(t) = n
  BY <1>1, <1>2
<1> QED
  BY <1>1, <1>2, <1>3

(* A new hunk is the last of its file, and a line is added to the last     *)
(* hunk of the last file.                                                  *)
LEMMA WithHunkType ==
  ASSUME NEW P, NEW fs \in Seq(PatchedFile(P)), fs # << >>, NEW hunk \in Hunk,
         NEW r, r = WithHunk(fs, hunk)
  PROVE  r \in Seq(PatchedFile(P)) /\ InPlace(r)
<1>1. PICK n, f : n = Len(fs) /\ f = fs[n]
  OBVIOUS
<1>2. f \in PatchedFile(P) /\ n \in 1 .. Len(fs)
  BY <1>1, LastIs
<1>3. f.hunks \in Seq(Hunk) /\ f.newPath \in P
  BY <1>2, PatchedFileIs
<1>4. PICK hs : hs = Append(f.hunks, hunk)
  OBVIOUS
<1>5. hs \in Seq(Hunk) /\ hs # << >>
  BY <1>3, <1>4
<1>6. PICK g : g = [f EXCEPT !.hunks = hs]
  OBVIOUS
<1>7. g \in PatchedFile(P) /\ g.hunks = hs
  BY <1>2, <1>5, <1>6 DEF PatchedFile
<1>8. r = [fs EXCEPT ![n] = g]
  BY <1>1, <1>4, <1>6 DEF WithHunk
<1>9. r \in Seq(PatchedFile(P)) /\ r # << >> /\ r[Len(r)] = g
  BY <1>1, <1>7, <1>8, LastChanged
<1> QED
  BY <1>5, <1>7, <1>9 DEF InPlace

(* A line added to the last hunk of the last file.                         *)
LEMMA LineAdded ==
  ASSUME NEW P, NEW fs \in Seq(PatchedFile(P)), InPlace(fs), NEW type, NEW text,
         NEW line \in HunkLine, line = [type |-> type, text |-> text], NEW r, r = WithLine(fs, type, text)
  PROVE  r \in Seq(PatchedFile(P)) /\ InPlace(r)
<1>0. fs # << >> /\ fs[Len(fs)].hunks # << >>
  BY DEF InPlace
<1>1. PICK n, f : n = Len(fs) /\ f = fs[n]
  OBVIOUS
<1>2. f \in PatchedFile(P)
  BY <1>0, <1>1, LastIs
<1>3. f.hunks \in Seq(Hunk) /\ f.newPath \in P
  BY <1>2, PatchedFileIs
<1>4. PICK hs \in Seq(Hunk) : hs = f.hunks /\ hs # << >>
  BY <1>0, <1>1, <1>3
<1>5. PICK m, h : m = Len(hs) /\ h = hs[m]
  OBVIOUS
<1>6. h \in Hunk
  BY <1>4, <1>5, LastIs
<1>8. PICK ls : ls = Append(h.lines, line)
  OBVIOUS
<1>9. ls \in Seq(HunkLine)
  BY <1>6, <1>8, HunkIs, AppendIs
<1>10. PICK k : k = [h EXCEPT !.lines = ls]
  OBVIOUS
<1>11. k \in Hunk
  BY <1>6, <1>9, <1>10 DEF Hunk
<1>12. PICK ks : ks = [hs EXCEPT ![m] = k]
  OBVIOUS
<1>13. ks \in Seq(Hunk) /\ ks # << >>
  <2>1. hs \in Seq(Hunk) /\ hs # << >> /\ m = Len(hs) /\ k \in Hunk /\ ks = [hs EXCEPT ![m] = k]
    BY <1>4, <1>5, <1>11, <1>12
  <2> QED
    BY <2>1, LastChanged, Zenon
<1>14. PICK g : g = [f EXCEPT !.hunks = ks]
  OBVIOUS
<1>15. g \in PatchedFile(P) /\ g.hunks = ks
  BY <1>2, <1>13, <1>14 DEF PatchedFile
<1>16. r = [fs EXCEPT ![n] = g]
  BY <1>1, <1>4, <1>5, <1>8, <1>10, <1>12, <1>14 DEF WithLine, Last
<1>17. r \in Seq(PatchedFile(P)) /\ r # << >> /\ r[Len(r)] = g
  <2>1. fs # << >> /\ n = Len(fs) /\ g \in PatchedFile(P) /\ r = [fs EXCEPT ![n] = g]
    BY <1>0, <1>1, <1>15, <1>16
  <2> QED
    BY <2>1, LastChanged
<1> QED
  BY <1>13, <1>15, <1>17 DEF InPlace

(* The same for a line of each of the three kinds.                         *)
LEMMA WithLineType ==
  ASSUME NEW P, NEW fs \in Seq(PatchedFile(P)), InPlace(fs),
         NEW type \in {" ", "-", "+"}, NEW text \in Line, NEW r, r = WithLine(fs, type, text)
  PROVE  r \in Seq(PatchedFile(P)) /\ InPlace(r)
<1>1. PICK line \in HunkLine : line = [type |-> type, text |-> text]
  BY DEF HunkLine
<1> QED
  BY <1>1, LineAdded

(* One line of the patch.                                                  *)
LEMMA ParseLineType ==
  ASSUME NEW P, NEW acc \in Parsing(P), NEW line, IsPatchLine(line), line.path \in P
  PROVE  ParseLine(acc, line) \in Parsing(P)
<1>1. /\ acc.files \in Seq(PatchedFile(P)) /\ acc.header \in P \cup {None}
      /\ acc.inHunk \in BOOLEAN /\ acc.failed \in BOOLEAN
      /\ acc.inHunk => acc.header = None /\ InPlace(acc.files)
  BY ParsingIs
<1>2. PICK p, kind : p \in P /\ p = line.path /\ kind = line.kind
  OBVIOUS
<1>3. kind \in {"---", "+++", "@@", "@@ text", " ", "-", "+", "blank", "other"}
  BY <1>2 DEF IsPatchLine
<1>4. CASE acc.failed
  BY <1>4 DEF ParseLine
<1>5. CASE ~acc.failed /\ acc.header # None
  <2>1. PICK fs : fs = Append(acc.files, [newPath |-> p, hunks |-> << >>])
    OBVIOUS
  <2>2. fs \in Seq(PatchedFile(P))
    <3>1. [newPath |-> p, hunks |-> << >>] \in PatchedFile(P)
      BY <1>2 DEF PatchedFile
    <3> QED
      BY <1>1, <2>1, <3>1, AppendIs
  <2>3. CASE kind = "+++"
    <3>1. ParseLine(acc, line) = [acc EXCEPT !.header = None, !.files = fs]
      BY <1>2, <1>5, <2>1, <2>3 DEF ParseLine
    <3> QED
      BY <1>5, <2>2, <3>1, GoingOn
  <2>4. CASE kind # "+++"
    <3>1. ParseLine(acc, line) = [acc EXCEPT !.failed = TRUE]
      BY <1>2, <1>5, <2>4 DEF ParseLine
    <3> QED
      BY <3>1, GoingOn
  <2> QED
    BY <2>3, <2>4
<1>6. CASE ~acc.failed /\ acc.header = None
  <2>1. CASE kind = "---"
    <3>1. ParseLine(acc, line) = [acc EXCEPT !.header = p, !.inHunk = FALSE]
      BY <1>2, <1>6, <2>1 DEF ParseLine
    <3> QED
      BY <1>2, <3>1, GoingOn
  <2>2. CASE kind = "@@"
    <3>1. PICK hunk, fs : hunk = NewHunk(line) /\ fs = WithHunk(acc.files, hunk)
      OBVIOUS
    <3>2. hunk \in Hunk
      BY <1>2, <2>2, <3>1 DEF IsPatchLine, NewHunk, Hunk
    <3>3. ParseLine(acc, line) =
            IF acc.files = << >> THEN [acc EXCEPT !.failed = TRUE] ELSE [acc EXCEPT !.files = fs, !.inHunk = TRUE]
      BY <1>2, <1>6, <2>2, <3>1 DEF ParseLine
    <3>4. CASE acc.files = << >>
      BY <3>3, <3>4, GoingOn
    <3>5. CASE acc.files # << >>
      <4>1. fs \in Seq(PatchedFile(P)) /\ InPlace(fs)
        BY <1>1, <3>1, <3>2, <3>5, WithHunkType
      <4> QED
        BY <1>6, <3>3, <3>5, <4>1, GoingOn
    <3> QED
      BY <3>4, <3>5
  <2>3. CASE kind = "@@ text"
    <3>1. ParseLine(acc, line) = [acc EXCEPT !.inHunk = FALSE]
      BY <1>2, <1>6, <2>3 DEF ParseLine
    <3> QED
      BY <3>1, GoingOn
  <2>4. CASE kind \in {" ", "-", "+", "+++"}
    <3>1. PICK type \in {" ", "-", "+"} : type = IF kind = "+++" THEN "+" ELSE kind
      BY <2>4
    <3>2. PICK text \in Line : text = line.text
      BY <1>2, <2>4 DEF IsPatchLine
    <3>3. PICK fs : fs = WithLine(acc.files, type, text)
      OBVIOUS
    <3>4. ParseLine(acc, line) = IF acc.inHunk THEN [acc EXCEPT !.files = fs, !.inHunk = TRUE] ELSE acc
      BY <1>2, <1>6, <2>4, <3>1, <3>2, <3>3 DEF ParseLine
    <3>5. CASE acc.inHunk
      <4>1. fs \in Seq(PatchedFile(P)) /\ InPlace(fs)
        BY <1>1, <3>1, <3>2, <3>3, <3>5, WithLineType
      <4> QED
        BY <1>6, <3>4, <3>5, <4>1, GoingOn
    <3>6. CASE ~acc.inHunk
      BY <3>4, <3>6
    <3> QED
      BY <3>5, <3>6
  <2>5. CASE kind = "blank"
    <3>1. ParseLine(acc, line) = acc
      BY <1>2, <1>6, <2>5 DEF ParseLine
    <3> QED
      BY <3>1
  <2>6. CASE kind = "other"
    <3>1. ParseLine(acc, line) = IF acc.inHunk THEN [acc EXCEPT !.failed = TRUE] ELSE acc
      BY <1>2, <1>6, <2>6 DEF ParseLine
    <3> QED
      BY <3>1, GoingOn
  <2> QED
    BY <1>3, <2>1, <2>2, <2>3, <2>4, <2>5, <2>6
<1> QED
  BY <1>4, <1>5, <1>6

(* What parsePatch returns for a patch.                                    *)
Paths(patch) == {patch[i].path : i \in 1 .. Len(patch)}

(* The parser makes of every patch a sequence of files with hunks.         *)
LEMMA PatchIsParsed ==
  ASSUME NEW patch, IsPatch(patch)
  PROVE  ParsePatch(patch) \in Seq(PatchedFile(Paths(patch)))
<1> DEFINE N == Len(patch)
           P == Paths(patch)
           T == Parsing(P)
           start == [files |-> << >>, header |-> None, inHunk |-> FALSE, failed |-> FALSE]
           parsed[n \in 0 .. Len(patch)] ==
             IF n = 0 THEN [files |-> << >>, header |-> None, inHunk |-> FALSE, failed |-> FALSE]
             ELSE ParseLine(parsed[n - 1], patch[n])
           g == [x \in (1 .. N) \X T |-> ParseLine(x[2], patch[x[1]])]
<1>1. N \in Nat /\ \A n \in 1 .. N : IsPatchLine(patch[n]) /\ patch[n].path \in P
  <2>1. PICK E : patch \in Seq(E)
    BY DEF IsPatch
  <2>2. N \in Nat /\ DOMAIN patch = 1 .. N
    BY <2>1
  <2> QED
    BY <2>2 DEF IsPatch, Paths
<1>2. start \in T
  <2> DEFINE F == PatchedFile(P)
  <2>1. << >> \in Seq(F)
    OBVIOUS
  <2> HIDE DEF F
  <2>2. start \in [files : Seq(F), header : P \cup {None}, inHunk : BOOLEAN, failed : BOOLEAN]
    BY <2>1
  <2> QED
    BY <2>2 DEF Parsing, F
<1>3. ASSUME NEW n \in 1 .. N, NEW acc \in T  PROVE ParseLine(acc, patch[n]) \in T
  <2>1. PICK line : line = patch[n] /\ IsPatchLine(line) /\ line.path \in P
    BY <1>1, <1>3
  <2>2. ParseLine(acc, line) \in T
    <3> HIDE DEF P
    <3> QED
      BY <1>3, <2>1, ParseLineType
  <2> QED
    BY <2>1, <2>2
<1> HIDE DEF T
<1>4. g \in [(1 .. N) \X T -> T]
  BY <1>3
<1>5. PICK f \in [0 .. N -> T] : f[0] = start /\ \A n \in 1 .. N : f[n] = g[<<n, f[n - 1]>>]
  <2>1. IsRule(g, N, T)
    BY <1>4 DEF IsRule
  <2> HIDE DEF g, N, start
  <2>2. \E f : Follows(f, g, N, T, start)
    BY <1>1, <1>2, <2>1, Recursion
  <2> QED
    BY <2>2 DEF Follows
<1>6. \A n \in 1 .. N : f[n] = ParseLine(f[n - 1], patch[n])
  <2> SUFFICES ASSUME NEW n \in 1 .. N  PROVE f[n] = ParseLine(f[n - 1], patch[n])
    OBVIOUS
  <2>1. n - 1 \in 0 .. N /\ f[n - 1] \in T
    BY <1>1, <1>5
  <2> QED
    BY <1>5, <2>1
<1>7. f = [n \in 0 .. N |-> IF n = 0 THEN start ELSE ParseLine(f[n - 1], patch[n])]
  <2>1. \A n \in 0 .. N : n # 0 => n \in 1 .. N
    BY <1>1
  <2> HIDE DEF start, N, g
  <2> QED
    BY <1>5, <1>6, <2>1
<1>8. parsed = [n \in 0 .. N |-> IF n = 0 THEN start ELSE ParseLine(parsed[n - 1], patch[n])]
  BY <1>7
<1>9. ParsePatch(patch) = IF parsed[N].failed \/ parsed[N].header # None THEN << >> ELSE parsed[N].files
  BY DEF ParsePatch
<1> HIDE DEF parsed, g, start
<1> DEFINE Good == {n \in Nat : n <= N => parsed[n] \in T}
<1>10. 0 \in Good
  <2>1. 0 \in 0 .. N
    BY <1>1
  <2> QED
    BY <1>2, <1>8, <2>1
<1>11. ASSUME NEW n \in Nat, n \in Good  PROVE n + 1 \in Good
  <2> SUFFICES ASSUME n + 1 <= N  PROVE parsed[n + 1] \in T
    OBVIOUS
  <2>1. n + 1 \in 1 .. N /\ n + 1 \in 0 .. N /\ n + 1 # 0 /\ (n + 1) - 1 = n /\ parsed[n] \in T
    BY <1>1, <1>11
  <2>2. parsed[n + 1] = ParseLine(parsed[n], patch[n + 1])
    BY <1>8, <2>1
  <2> QED
    BY <1>3, <2>1, <2>2
<1>12. parsed[N] \in T
  <2>1. \A n \in Nat : n \in Good
    <3> HIDE DEF Good
    <3> QED
      BY <1>10, <1>11, Induct
  <2> QED
    BY <1>1, <2>1
<1>13. PICK e : e = parsed[N]
  OBVIOUS
<1>14. e.files \in Seq(PatchedFile(P))
  BY <1>12, <1>13, ParsingIs DEF T
<1>15. << >> \in Seq(PatchedFile(P))
  OBVIOUS
<1> QED
  BY <1>9, <1>13, <1>14, <1>15

-----------------------------------------------------------------------------
(* Types.                                                                  *)

(* What a preview says is one of three things.                             *)
LEMMA PreviewType ==
  ASSUME NEW ws, NEW in, in.tool \in Tools, Mutating(in)
  PROVE  PreviewOf(ws, in) \in {"planned", "no_change", "blocked"}
<1>1. PreviewOfWrite(ws, in) \in {"planned", "no_change", "blocked"}
  BY DEF PreviewOfWrite
<1>2. PreviewOfReplace(ws, in) \in {"planned", "no_change", "blocked"}
  BY Zenon DEF PreviewOfReplace
<1>3. PreviewOfPatch(ws, in) \in {"planned", "no_change", "blocked"}
  BY Zenon DEF PreviewOfPatch
<1>4. PreviewOfMove(ws, in) \in {"planned", "no_change", "blocked"}
  BY Zenon DEF PreviewOfMove
<1>5. PreviewOfMkdir(ws, in) \in {"planned", "no_change", "blocked"}
  BY Zenon DEF PreviewOfMkdir
<1> QED
  BY <1>1, <1>2, <1>3, <1>4, <1>5 DEF PreviewOf, Tools, Mutating

(* A step of the types: a call is answered or goes on, and its section     *)
(* stays or grows by one.                                                  *)
TypeStep(c) ==
  /\ \/ \E result \in Answer : Reply(c, result)
     \/ \E place \in Place : Goto(c, place) /\ UNCHANGED answer
     \/ UNCHANGED <<pc, answer>>
  /\ section' = section \/ section' = [section EXCEPT ![c] = @ + 1]
  /\ UNCHANGED given

(* The types, the message that was given, and that nothing is done of a    *)
(* call that is not there.                                                 *)
TypeInv ==
  /\ TypeOK
  /\ input \in Messages /\ initial \in Workspaces
  /\ \A c \in Calls : input[c] = None => pc[c] = "done"

(* The types are right at first.                                           *)
LEMMA InitTypes == Init => TypeInv
<1> SUFFICES ASSUME Init  PROVE TypeInv
  OBVIOUS
<1> USE DEF Init
<1>1. pc \in [Calls -> Place]
  BY DEF Place
<1>2. section \in [Calls -> Nat \ {0}]
  OBVIOUS
<1>3. answer \in [Calls -> Answer]
  BY DEF Answer
<1> QED
  BY <1>1, <1>2, <1>3 DEF TypeInv, TypeOK

(* Every step is one of a call that is not done.                           *)
LEMMA CallsStep ==
  ASSUME TypeInv, Next
  PROVE  \E c \in Calls : pc[c] # "done" /\ TypeStep(c)
<1>1. PICK c \in Calls :
        \/ Preview(c) \/ RefusePath(c) \/ MovePath(c) \/ Mkdir(c) \/ BeginWrite(c)
        \/ Inspect(c) \/ OpenDirectory(c) \/ ListDirectory(c) \/ Scan(c)
        \/ Look(c) \/ ReadFile(c) \/ ReplaceText(c)
        \/ OpenPatchFile(c) \/ ReadPatchFile(c) \/ EnsureParent(c) \/ WriteFile(c)
  BY Zenon DEF Next
<1>2. /\ {"changed", "unchanged", "read", "failed", "thrown", "planned", "no_change", "blocked"} \subseteq Answer
      /\ {"idle", "reading", "parent", "writing"} \subseteq Place
  BY DEF Answer, Place
<1> SUFFICES pc[c] # "done" /\ TypeStep(c)
  BY <1>1
<1> USE <1>2 DEF TypeStep, given, At
<1>3. CASE Preview(c)
  <2>1. input[c] # None /\ pc[c] = "idle" /\ Mutating(input[c])
    BY <1>3 DEF Preview, Runs, TypeInv
  <2>2. input[c].tool \in Tools
    BY <2>1, FilesAssumption DEF TypeInv, IsInput
  <2>3. PreviewOf(files, input[c]) \in Answer
    BY <2>1, <2>2, PreviewType
  <2> QED
    BY <1>3, <2>1, <2>3, Zenon DEF Preview
<1>4. CASE RefusePath(c)
  BY <1>4, Zenon DEF RefusePath
<1>5. CASE MovePath(c)
  BY <1>5, Zenon DEF MovePath
<1>6. CASE Mkdir(c)
  BY <1>6, Zenon DEF Mkdir
<1>7. CASE BeginWrite(c)
  BY <1>7, Zenon DEF BeginWrite
<1>8. CASE Inspect(c)
  BY <1>8, Zenon DEF Inspect
<1>9. CASE OpenDirectory(c)
  BY <1>9, Zenon DEF OpenDirectory
<1>10. CASE ListDirectory(c)
  BY <1>10, Zenon DEF ListDirectory
<1>11. CASE Scan(c)
  BY <1>11, Zenon DEF Scan
<1>12. CASE Look(c)
  BY <1>12, Zenon DEF Look
<1>13. CASE ReadFile(c)
  BY <1>13, Zenon DEF ReadFile
<1>14. CASE ReplaceText(c)
  BY <1>14, Zenon DEF ReplaceText
<1>15. CASE OpenPatchFile(c)
  BY <1>15, Zenon DEF OpenPatchFile, Patched
<1>16. CASE ReadPatchFile(c)
  BY <1>16, Zenon DEF ReadPatchFile, Patched
<1>17. CASE EnsureParent(c)
  BY <1>17, Zenon DEF EnsureParent
<1>18. CASE WriteFile(c)
  BY <1>18, Zenon DEF WriteFile
<1> QED
  BY <1>1, <1>3, <1>4, <1>5, <1>6, <1>7, <1>8, <1>9, <1>10, <1>11, <1>12, <1>13, <1>14, <1>15, <1>16,
     <1>17, <1>18

(* Every step keeps the types.                                             *)
LEMMA NextTypes ==
  ASSUME TypeInv, [Next]_vars
  PROVE  TypeInv'
<1>1. CASE Next
  <2>1. PICK c \in Calls : pc[c] # "done" /\ TypeStep(c)
    BY <1>1, CallsStep
  <2>2. mode' \in Modes /\ input' \in Messages /\ initial' \in Workspaces /\ input' = input
    BY <2>1 DEF TypeStep, TypeInv, TypeOK, given
  <2>3. section' \in [Calls -> Nat \ {0}]
    <3>1. section \in [Calls -> Nat \ {0}] /\ section[c] + 1 \in Nat \ {0}
      BY DEF TypeInv, TypeOK
    <3> QED
      BY <2>1, <3>1 DEF TypeStep
  <2>4. answer' \in [Calls -> Answer]
    BY <2>1 DEF TypeStep, Reply, TypeInv, TypeOK
  <2>5. pc' \in [Calls -> Place] /\ \A d \in Calls : pc[d] = "done" => pc'[d] = "done"
    <3>1. pc' = pc \/ \E place \in Place : pc' = [pc EXCEPT ![c] = place]
      BY <2>1, Zenon DEF TypeStep, Reply, Goto, Place
    <3> QED
      BY <2>1, <3>1 DEF TypeInv, TypeOK
  <2> QED
    BY <2>2, <2>3, <2>4, <2>5 DEF TypeInv, TypeOK
<1>2. CASE UNCHANGED vars
  BY <1>2 DEF vars, TypeInv, TypeOK
<1> QED
  BY <1>1, <1>2

(* The types are right in every state of a message's tool calls, whatever  *)
(* the tools find in the workspace.                                        *)
THEOREM FilesTypeCorrect == Spec => []TypeOK
<1>1. TypeInv => TypeOK
  BY DEF TypeInv
<1> QED
  BY InitTypes, NextTypes, <1>1, PTL DEF Spec

-----------------------------------------------------------------------------
(* A dry run.                                                              *)

(* The directories of the workspace.                                       *)
Directories == {p \in {<< >>} \cup DOMAIN files : IsDir(files, p)}

(* Where a call of a dry run stands: it has no answer before it is done; a *)
(* tool that has begun to read changes nothing and will find what it has   *)
(* looked for; an answer is a preview, or what the tool answers alone.     *)
Waits(c) ==
  /\ pc[c] \in {"idle", "reading", "done"}
  /\ pc[c] # "done" => answer[c] = "none"
  /\ input[c] = None => answer[c] = "none"

Reads(c) ==
  pc[c] = "reading" =>
    /\ input[c] # None /\ ~Mutating(input[c]) /\ Valid(input[c])
    /\ \/ Is(c, "read_file") /\ IsFile(files, input[c].path)
       \/ Is(c, "glob_search") /\ IsDir(files, input[c].path)
       \/ Is(c, "list_files") /\ IsDir(files, input[c].path) /\ walk[c] # << >>

Answers(c) ==
  answer[c] # "none" =>
    IF Mutating(input[c]) THEN answer[c] \in {"planned", "no_change", "blocked"}
    ELSE answer[c] = Alone(files, input[c]).answer /\ answer[c] \in {"read", "failed"}

(* The entries are one for each call that has an answer, and say what it   *)
(* is.                                                                     *)
Entry == [call : Calls, disposition : {"previewed", "blocked", "executed"},
          outcome : [ok : BOOLEAN, summary : Answer]]

Listed ==
  /\ entries \in Seq(Entry)
  /\ \A i \in DOMAIN entries :
       LET c == entries[i].call
       IN /\ answer[c] # "none"
          /\ entries[i].disposition = Disposition(answer[c])
          /\ entries[i].outcome = Outcome(answer[c])
  /\ \A i, j \in DOMAIN entries : entries[i].call = entries[j].call => i = j
  /\ \A c \in Calls : answer[c] # "none" => \E i \in DOMAIN entries : entries[i].call = c

DryInv ==
  /\ TypeInv
  /\ mode = "dry_run" =>
       /\ files = initial
       /\ walk \in [Calls -> Seq(Directories)]
       /\ \A c \in Calls : Waits(c) /\ Reads(c) /\ Answers(c)
       /\ Listed

(* Nothing is reported at first.                                           *)
LEMMA InitDry == Init => DryInv
<1> SUFFICES ASSUME Init  PROVE DryInv
  OBVIOUS
<1>1. TypeInv
  BY InitTypes
<1>2. \A c \in Calls : answer[c] = "none" /\ pc[c] \in {"idle", "done"}
  BY DEF Init
<1>3. Listed
  BY <1>2 DEF Init, Listed
<1>4. \A c \in Calls : Waits(c) /\ Reads(c) /\ Answers(c)
  BY <1>2 DEF Waits, Reads, Answers
<1> QED
  BY <1>1, <1>3, <1>4 DEF DryInv, Init

(* What a call of a dry run does in a step: it is answered, or it goes on  *)
(* reading.                                                                *)
DryReply(c) ==
  /\ \E result \in {"planned", "no_change", "blocked", "read", "failed"} :
       /\ Reply(c, result)
       /\ IF Mutating(input[c]) THEN result \in {"planned", "no_change", "blocked"}
          ELSE result = Alone(files, input[c]).answer /\ result \in {"read", "failed"}

DryRead(c) ==
  /\ UNCHANGED <<answer, entries>>
  /\ pc' = [pc EXCEPT ![c] = "reading"]
  /\ Reads(c)'

DryStep(c) ==
  /\ DryReply(c) \/ DryRead(c)
  /\ walk' \in [Calls -> Seq(Directories)] /\ \A d \in Calls : d # c => walk'[d] = walk[d]
  /\ pc[c] # "done" /\ input[c] # None
  /\ UNCHANGED <<given, files>>

(* The tools that read, one by one.                                        *)
LEMMA AloneIs ==
  ASSUME NEW ws, NEW in
  PROVE  /\ ~Valid(in) => Alone(ws, in).answer = "failed"
         /\ Valid(in) /\ in.tool = "read_file" =>
              Alone(ws, in).answer = IF IsFile(ws, in.path) THEN "read" ELSE "failed"
         /\ Valid(in) /\ in.tool = "file_info" =>
              Alone(ws, in).answer = IF Exists(ws, in.path) THEN "read" ELSE "failed"
         /\ Valid(in) /\ in.tool \in {"list_files", "glob_search"} =>
              Alone(ws, in).answer = IF IsDir(ws, in.path) THEN "read" ELSE "failed"
BY DEF Alone, Done

(* The directories that list_files has still to walk are some.             *)
LEMMA DeeperIs ==
  ASSUME IsFiniteSet(DOMAIN files), NEW in, NEW dir
  PROVE  SetToSeq(Deeper(files, in, dir)) \in Seq(Directories)
<1>1. Deeper(files, in, dir) \subseteq DOMAIN files
  BY DEF Deeper, Items
<1>2. IsFiniteSet(Deeper(files, in, dir))
  BY <1>1, FS_Subset
<1>3. SetToSeq(Deeper(files, in, dir)) \in Seq(Deeper(files, in, dir))
  BY <1>2, SetToSeqIs
<1>4. Deeper(files, in, dir) \subseteq Directories
  BY DEF Deeper, Items, Directories
<1> QED
  BY <1>3, <1>4

(* Every step of a dry run previews a call or reads.                       *)
LEMMA DryCallsStep ==
  ASSUME DryInv, mode = "dry_run", Next
  PROVE  \E c \in Calls : DryStep(c)
<1>1. PICK c \in Calls :
        \/ Preview(c) \/ RefusePath(c) \/ MovePath(c) \/ Mkdir(c) \/ BeginWrite(c)
        \/ Inspect(c) \/ OpenDirectory(c) \/ ListDirectory(c) \/ Scan(c)
        \/ Look(c) \/ ReadFile(c) \/ ReplaceText(c)
        \/ OpenPatchFile(c) \/ ReadPatchFile(c) \/ EnsureParent(c) \/ WriteFile(c)
  BY Zenon DEF Next
<1> SUFFICES DryStep(c)
  BY <1>1
<1>2. /\ files = initial /\ walk \in [Calls -> Seq(Directories)]
      /\ Waits(c) /\ Reads(c) /\ Answers(c)
      /\ pc \in [Calls -> Place] /\ (input[c] = None => pc[c] = "done")
  BY DEF DryInv, TypeInv, TypeOK
<1>3. input[c] # None => input[c].tool \in Tools
  BY FilesAssumption DEF DryInv, TypeInv, IsInput
<1>4. Runs(c) <=> ~Mutating(input[c])
  BY DEF Runs
(* What does not touch the walk of the directories.                        *)
<1> DEFINE Stays == UNCHANGED <<given, files, walk>>
<1>5. ASSUME Stays, pc[c] # "done", input[c] # None, DryReply(c) \/ DryRead(c)  PROVE DryStep(c)
  BY <1>2, <1>5 DEF DryStep
<1>6. CASE Preview(c)
  <2>1. pc[c] = "idle" /\ Mutating(input[c]) /\ Reply(c, PreviewOf(files, input[c])) /\ Stays
    BY <1>4, <1>6 DEF Preview
  <2>2. input[c] # None
    BY <1>2, <2>1
  <2>3. PreviewOf(files, input[c]) \in {"planned", "no_change", "blocked"}
    BY <1>3, <2>1, <2>2, PreviewType
  <2>4. DryReply(c)
    BY <2>1, <2>3 DEF DryReply
  <2> QED
    BY <1>5, <2>1, <2>2, <2>4
<1>7. CASE RefusePath(c)
  <2>1. pc[c] = "idle" /\ input[c] # None /\ ~Mutating(input[c]) /\ ~Valid(input[c]) /\ Reply(c, "failed") /\ Stays
    BY <1>4, <1>7 DEF RefusePath, At
  <2>2. DryReply(c)
    BY <2>1, AloneIs DEF DryReply
  <2> QED
    BY <1>5, <2>1, <2>2
<1>8. CASE Inspect(c)
  <2>1. /\ pc[c] = "idle" /\ input[c] # None /\ ~Mutating(input[c]) /\ Valid(input[c])
        /\ input[c].tool = "file_info" /\ Stays
        /\ Reply(c, IF Exists(files, input[c].path) THEN "read" ELSE "failed")
    BY <1>4, <1>8 DEF Inspect, At, Is
  <2>2. DryReply(c)
    BY <2>1, AloneIs DEF DryReply
  <2> QED
    BY <1>5, <2>1, <2>2
<1>9. CASE OpenDirectory(c)
  <2>1. /\ pc[c] = "idle" /\ input[c] # None /\ ~Mutating(input[c]) /\ Valid(input[c])
        /\ input[c].tool \in {"list_files", "glob_search"} /\ UNCHANGED <<given, files>>
    BY <1>4, <1>9 DEF OpenDirectory, At, Is
  <2>2. CASE IsDir(files, input[c].path)
    <3>1. /\ walk' = [walk EXCEPT ![c] = <<input[c].path>>] /\ pc' = [pc EXCEPT ![c] = "reading"]
          /\ UNCHANGED <<answer, entries>>
      BY <1>9, <2>2 DEF OpenDirectory, Goto
    <3>2. input[c].path \in Directories
      BY <2>2 DEF Directories, IsDir
    <3>3. /\ walk' \in [Calls -> Seq(Directories)] /\ walk'[c] # << >>
          /\ \A d \in Calls : d # c => walk'[d] = walk[d]
      BY <1>2, <3>1, <3>2
    <3>4. Reads(c)'
      BY <2>1, <2>2, <3>3 DEF Reads, Is, given
    <3> QED
      BY <2>1, <3>1, <3>3, <3>4 DEF DryStep, DryRead
  <2>3. CASE ~IsDir(files, input[c].path)
    <3>1. Reply(c, "failed") /\ Stays
      BY <1>9, <2>1, <2>3 DEF OpenDirectory
    <3>2. DryReply(c)
      BY <2>1, <2>3, <3>1, AloneIs DEF DryReply
    <3> QED
      BY <1>5, <2>1, <3>1, <3>2
  <2> QED
    BY <2>2, <2>3
<1>10. CASE Look(c)
  <2>1. /\ pc[c] = "idle" /\ input[c] # None /\ ~Mutating(input[c]) /\ Valid(input[c])
        /\ (Is(c, "read_file") \/ Is(c, "str_replace")) /\ UNCHANGED <<given, files>>
    BY <1>4, <1>10 DEF Look, At
  <2>2. input[c].tool = "read_file"
    BY <2>1 DEF Is, Mutating
  <2>3. CASE IsFile(files, input[c].path)
    <3>1. pc' = [pc EXCEPT ![c] = "reading"] /\ UNCHANGED <<answer, entries>> /\ Stays
      BY <1>10, <2>2, <2>3 DEF Look, Goto, Is
    <3>2. Reads(c)'
      BY <2>1, <2>2, <2>3, <3>1 DEF Reads, Is, given
    <3> QED
      BY <1>5, <2>1, <3>1, <3>2 DEF DryRead
  <2>4. CASE ~IsFile(files, input[c].path)
    <3>1. Reply(c, "failed") /\ Stays
      BY <1>10, <2>4 DEF Look
    <3>2. DryReply(c)
      BY <2>1, <2>2, <2>4, <3>1, AloneIs DEF DryReply
    <3> QED
      BY <1>5, <2>1, <3>1, <3>2
  <2> QED
    BY <2>3, <2>4
<1>11. CASE ReadFile(c)
  <2>1. /\ pc[c] = "reading" /\ input[c] # None /\ ~Mutating(input[c]) /\ input[c].tool = "read_file"
    BY <1>4, <1>11 DEF ReadFile, At, Is
  <2>2. Valid(input[c]) /\ IsFile(files, input[c].path)
    BY <1>2, <2>1 DEF Reads, Is
  <2>3. Reply(c, "read") /\ Stays
    BY <1>11, <2>2 DEF ReadFile
  <2>4. DryReply(c)
    BY <2>1, <2>2, <2>3, AloneIs DEF DryReply
  <2> QED
    BY <1>5, <2>1, <2>3, <2>4
<1>12. CASE Scan(c)
  <2>1. /\ pc[c] = "reading" /\ input[c] # None /\ ~Mutating(input[c]) /\ input[c].tool = "glob_search"
    BY <1>4, <1>12 DEF Scan, At, Is
  <2>2. Valid(input[c]) /\ IsDir(files, input[c].path)
    BY <1>2, <2>1 DEF Reads, Is
  <2>3. Reply(c, "read") /\ Stays
    BY <1>12, <2>2 DEF Scan
  <2>4. DryReply(c)
    BY <2>1, <2>2, <2>3, AloneIs DEF DryReply
  <2> QED
    BY <1>5, <2>1, <2>3, <2>4
<1>13. CASE ListDirectory(c)
  <2> DEFINE w == walk[c]
             dir == Head(w)
             rest == SetToSeq(Deeper(files, input[c], dir)) \o Tail(w)
  <2>1. /\ pc[c] = "reading" /\ input[c] # None /\ ~Mutating(input[c]) /\ input[c].tool = "list_files"
        /\ UNCHANGED <<given, files>>
    BY <1>4, <1>13 DEF ListDirectory, At, Is
  <2>2. Valid(input[c]) /\ IsDir(files, input[c].path) /\ w # << >> /\ w \in Seq(Directories)
    BY <1>2, <2>1 DEF Reads, Is
  <2>3. dir \in Directories /\ Tail(w) \in Seq(Directories)
    BY <2>2
  <2>4. IsDir(files, dir)
    BY <2>3 DEF Directories
  <2>5. IsFiniteSet(DOMAIN files)
    BY <1>2, FilesAssumption DEF DryInv, TypeInv, IsWorkspace
  <2>6. rest \in Seq(Directories)
    <3>1. SetToSeq(Deeper(files, input[c], dir)) \in Seq(Directories)
      BY <2>5, DeeperIs
    <3> QED
      BY <2>3, <3>1
  <2>7. /\ walk' = [walk EXCEPT ![c] = rest]
        /\ IF rest = << >> THEN Reply(c, "read") ELSE UNCHANGED <<pc, answer, entries>>
    BY <1>13, <2>4 DEF ListDirectory
  <2>8. /\ walk' \in [Calls -> Seq(Directories)] /\ walk'[c] = rest
        /\ \A d \in Calls : d # c => walk'[d] = walk[d]
    BY <1>2, <2>6, <2>7
  <2> HIDE DEF rest
  <2>9. CASE rest = << >>
    <3>1. DryReply(c)
      BY <2>1, <2>2, <2>7, <2>9, AloneIs DEF DryReply
    <3> QED
      BY <2>1, <2>8, <3>1 DEF DryStep
  <2>10. CASE rest # << >>
    <3>1. UNCHANGED <<pc, answer, entries>>
      BY <2>7, <2>10
    <3>2. pc' = [pc EXCEPT ![c] = "reading"]
      BY <1>2, <2>1, <3>1
    <3>3. Reads(c)'
      BY <2>1, <2>2, <2>8, <2>10 DEF Reads, Is, given
    <3> QED
      BY <2>1, <2>8, <3>1, <3>2, <3>3 DEF DryStep, DryRead
  <2> QED
    BY <2>9, <2>10
(* What changes something does not run.                                    *)
<1>14. ASSUME MovePath(c) \/ Mkdir(c) \/ BeginWrite(c) \/ ReplaceText(c) \/ OpenPatchFile(c) \/ ReadPatchFile(c)
       PROVE  FALSE
  <2>1. ~Mutating(input[c])
    BY <1>4, <1>14 DEF MovePath, Mkdir, BeginWrite, ReplaceText, OpenPatchFile, ReadPatchFile, At
  <2>2. input[c].tool \in {"move_path", "mkdir", "write_file", "str_replace", "apply_patch"}
    BY <1>14 DEF MovePath, Mkdir, BeginWrite, ReplaceText, OpenPatchFile, ReadPatchFile, Is
  <2> QED
    BY <2>1, <2>2 DEF Mutating
<1>15. ASSUME EnsureParent(c) \/ WriteFile(c)  PROVE FALSE
  BY <1>2, <1>15 DEF EnsureParent, WriteFile, At, Waits
<1> QED
  BY <1>1, <1>6, <1>7, <1>8, <1>9, <1>10, <1>11, <1>12, <1>13, <1>14, <1>15

(* What the entries are.                                                   *)
LEMMA EntriesAre ==
  ASSUME Listed
  PROVE  /\ entries \in Seq(Entry) /\ DOMAIN entries = 1 .. Len(entries) /\ Len(entries) \in Nat
         /\ \A i \in DOMAIN entries : /\ entries[i] \in Entry /\ entries[i].call \in Calls
                                      /\ answer[entries[i].call] # "none"
<1>1. entries \in Seq(Entry)
  BY DEF Listed
<1>2. DOMAIN entries = 1 .. Len(entries) /\ Len(entries) \in Nat /\ \A i \in DOMAIN entries : entries[i] \in Entry
  BY <1>1
<1>3. \A i \in DOMAIN entries : answer[entries[i].call] # "none"
  BY DEF Listed
<1>4. \A e \in Entry : e.call \in Calls
  BY DEF Entry
<1> QED
  BY <1>1, <1>2, <1>3, <1>4

(* An answer adds its entry to the report.                                 *)
LEMMA ReplyListed ==
  ASSUME TypeInv, Listed, NEW c \in Calls, answer[c] = "none",
         NEW result \in {"planned", "no_change", "blocked", "read", "failed"}, mode = "dry_run", Reply(c, result)
  PROVE  Listed'
<1>1. PICK e : e = [call |-> c, disposition |-> Disposition(result), outcome |-> Outcome(result)]
  OBVIOUS
<1>2. answer' = [answer EXCEPT ![c] = result] /\ entries' = Append(entries, e)
  BY <1>1 DEF Reply
<1>3. e \in Entry /\ e.call = c /\ e.disposition = Disposition(result) /\ e.outcome = Outcome(result)
  BY <1>1 DEF Entry, Disposition, Outcome, Answer
<1>4. answer'[c] = result /\ result # "none" /\ \A d \in Calls : d # c => answer'[d] = answer[d]
  BY <1>2 DEF TypeInv, TypeOK
<1>5. /\ entries \in Seq(Entry)
      /\ \A i \in DOMAIN entries : entries[i] \in Entry /\ entries[i].call \in Calls /\ entries[i].call # c
  BY EntriesAre
<1>6. /\ entries' \in Seq(Entry) /\ DOMAIN entries' = 1 .. Len(entries) + 1 /\ DOMAIN entries = 1 .. Len(entries)
      /\ Len(entries) \in Nat /\ entries'[Len(entries) + 1] = e
      /\ \A i \in DOMAIN entries : entries'[i] = entries[i]
  BY <1>2, <1>3, <1>5
<1>7. \A i \in DOMAIN entries' : i \in DOMAIN entries \/ i = Len(entries) + 1
  BY <1>6
<1>8. ASSUME NEW i \in DOMAIN entries'
      PROVE  LET d == entries'[i].call
             IN /\ answer'[d] # "none"
                /\ entries'[i].disposition = Disposition(answer'[d])
                /\ entries'[i].outcome = Outcome(answer'[d])
  <2>1. CASE i \in DOMAIN entries
    BY <1>4, <1>5, <1>6, <2>1 DEF Listed
  <2>2. CASE i = Len(entries) + 1
    BY <1>3, <1>4, <1>6, <2>2
  <2> QED
    BY <1>7, <2>1, <2>2
<1>9. ASSUME NEW i \in DOMAIN entries', NEW j \in DOMAIN entries', entries'[i].call = entries'[j].call  PROVE i = j
  BY <1>3, <1>5, <1>6, <1>7, <1>9 DEF Listed
<1>10. ASSUME NEW d \in Calls, answer'[d] # "none"  PROVE \E i \in DOMAIN entries' : entries'[i].call = d
  <2>1. CASE d = c
    BY <1>3, <1>6, <2>1
  <2>2. CASE d # c
    BY <1>4, <1>6, <1>10, <2>2 DEF Listed
  <2> QED
    BY <2>1, <2>2
<1> QED
  BY <1>6, <1>8, <1>9, <1>10 DEF Listed

(* Every step of a dry run keeps it.                                       *)
LEMMA NextDry ==
  ASSUME DryInv, [Next]_vars
  PROVE  DryInv'
<1>1. TypeInv'
  BY NextTypes DEF DryInv
<1>2. CASE UNCHANGED vars
  <2>1. /\ Listed' <=> Listed
        /\ \A c \in Calls : (Waits(c)' <=> Waits(c)) /\ (Reads(c)' <=> Reads(c)) /\ (Answers(c)' <=> Answers(c))
    BY <1>2 DEF vars, Listed, Waits, Reads, Answers, Is
  <2>2. mode' = mode /\ files' = files /\ initial' = initial /\ walk' = walk /\ Directories' = Directories
    BY <1>2 DEF vars, Directories
  <2> QED
    BY <1>1, <2>1, <2>2 DEF DryInv
<1>3. CASE Next
  <2> SUFFICES ASSUME mode' = "dry_run"
               PROVE  /\ files' = initial' /\ walk' \in [Calls -> Seq(Directories')]
                      /\ \A c \in Calls : Waits(c)' /\ Reads(c)' /\ Answers(c)'
                      /\ Listed'
    BY <1>1 DEF DryInv
  <2>1. mode' = mode
    BY <1>3, CallsStep DEF TypeStep, given, DryInv
  <2>2. PICK c \in Calls : DryStep(c)
    BY <1>3, <2>1, DryCallsStep
  <2>3. /\ files' = files /\ input' = input /\ initial' = initial
        /\ \A d \in Calls : d # c => walk'[d] = walk[d]
        /\ walk' \in [Calls -> Seq(Directories)] /\ pc[c] # "done" /\ input[c] # None
    BY <2>2 DEF DryStep, given
  <2>4. Directories' = Directories
    BY <2>3 DEF Directories
  <2>5. /\ files = initial /\ Listed /\ pc \in [Calls -> Place] /\ answer \in [Calls -> Answer] /\ TypeInv
        /\ \A d \in Calls : Waits(d) /\ Reads(d) /\ Answers(d)
    BY <2>1 DEF DryInv, TypeInv, TypeOK
  <2>6. answer[c] = "none"
    BY <2>3, <2>5 DEF Waits
  <2>7. ASSUME NEW d \in Calls, d # c, pc'[d] = pc[d], answer'[d] = answer[d]
        PROVE  Waits(d)' /\ Reads(d)' /\ Answers(d)'
    <3>1. Waits(d) /\ Reads(d) /\ Answers(d)
      BY <2>5
    <3> QED
      BY <2>3, <2>7, <3>1 DEF Waits, Reads, Answers, Is
  <2>8. CASE DryReply(c)
    <3>1. PICK result \in {"planned", "no_change", "blocked", "read", "failed"} :
            /\ Reply(c, result)
            /\ IF Mutating(input[c]) THEN result \in {"planned", "no_change", "blocked"}
               ELSE result = Alone(files, input[c]).answer /\ result \in {"read", "failed"}
      BY <2>8 DEF DryReply
    <3>2. Listed'
      BY <2>1, <2>5, <2>6, <3>1, ReplyListed
    <3>3. /\ pc'[c] = "done" /\ answer'[c] = result
          /\ \A d \in Calls : d # c => pc'[d] = pc[d] /\ answer'[d] = answer[d]
      BY <2>5, <3>1 DEF Reply, Goto
    <3>4. Waits(c)' /\ Reads(c)' /\ Answers(c)'
      BY <2>3, <3>1, <3>3 DEF Waits, Reads, Answers
    <3> QED
      BY <2>3, <2>4, <2>5, <2>7, <3>2, <3>3, <3>4
  <2>9. CASE DryRead(c)
    <3>1. /\ pc'[c] = "reading" /\ answer' = answer /\ entries' = entries /\ Reads(c)'
          /\ \A d \in Calls : d # c => pc'[d] = pc[d]
      BY <2>5, <2>9 DEF DryRead
    <3>2. Listed'
      BY <2>5, <3>1 DEF Listed
    <3>3. Waits(c)' /\ Answers(c)'
      BY <2>3, <2>6, <3>1 DEF Waits, Answers
    <3> QED
      BY <2>3, <2>4, <2>5, <2>7, <3>1, <3>2, <3>3
  <2> QED
    BY <2>2, <2>8, <2>9 DEF DryStep
<1> QED
  BY <1>2, <1>3

(* As many numbers of entries as calls, whatever is counted.               *)
LEMMA Counted ==
  ASSUME Listed, NEW S, S \subseteq {c \in Calls : answer[c] # "none"}
  PROVE  Cardinality({i \in DOMAIN entries : entries[i].call \in S}) = Cardinality(S)
<1> DEFINE D == {i \in DOMAIN entries : entries[i].call \in S}
           f == [i \in D |-> entries[i].call]
<1>1. DOMAIN entries = 1 .. Len(entries) /\ Len(entries) \in Nat
  BY DEF Listed
<1>2. IsFiniteSet(D)
  <2>1. IsFiniteSet(1 .. Len(entries))
    BY <1>1, FS_Interval
  <2> QED
    BY <1>1, <2>1, FS_Subset
<1>3. f \in Bijection(D, S)
  <2>1. f \in [D -> S]
    OBVIOUS
  <2>2. \A i, j \in D : f[i] = f[j] => i = j
    BY DEF Listed
  <2>3. \A c \in S : \E i \in D : f[i] = c
    BY DEF Listed
  <2> HIDE DEF f
  <2>4. f \in Injection(D, S)
    BY <2>1, <2>2 DEF Injection, IsInjective
  <2> QED
    BY <2>1, <2>3, <2>4 DEF Bijection, Surjection
<1>4. ExistsBijection(D, S)
  BY <1>3 DEF ExistsBijection
<1> QED
  BY <1>2, <1>4, FS_Bijection

(* From where the calls stand, and from the list of entries, the counts of *)
(* the report.                                                             *)
LEMMA Accounts ==
  ASSUME DryInv
  PROVE  DryRunAccounts
<1> SUFFICES ASSUME mode = "dry_run"  PROVE DryRunAccounts
  BY DEF DryRunAccounts
<1> DEFINE answered == {c \in Calls : answer[c] # "none"}
           Of(results) == {c \in answered : answer[c] \in results}
<1>1. /\ files = initial /\ Listed
      /\ \A c \in Calls : Answers(c)
  BY DEF DryInv
<1>2. {entries[i].call : i \in DOMAIN entries} = answered
  <2>1. \A i \in DOMAIN entries : entries[i].call \in answered
    BY <1>1, EntriesAre
  <2>2. \A c \in answered : \E i \in DOMAIN entries : entries[i].call = c
    BY <1>1 DEF Listed
  <2> QED
    BY <2>1, <2>2
<1>3. /\ \A i \in DOMAIN entries : entries[i].call \in answered
      /\ \A i \in DOMAIN entries : /\ entries[i].disposition = Disposition(answer[entries[i].call])
                                   /\ entries[i].outcome = Outcome(answer[entries[i].call])
  BY <1>1, <1>2 DEF Listed
<1>4. Len(entries) = Cardinality(answered)
  <2>1. DOMAIN entries = 1 .. Len(entries) /\ Len(entries) \in Nat
    BY <1>1, EntriesAre
  <2>2. {i \in DOMAIN entries : entries[i].call \in answered} = DOMAIN entries
    <3> HIDE DEF answered
    <3> QED
      BY <1>3
  <2>3. {i \in DOMAIN entries : entries[i].call \in answered} = 1 .. Len(entries) /\ Len(entries) \in Nat
    BY <2>1, <2>2
  <2>4. \A n \in Nat : Cardinality(1 .. n) = n
    BY FS_Interval
  <2>5. Cardinality({i \in DOMAIN entries : entries[i].call \in answered}) = Cardinality(answered)
    BY <1>1, Counted
  <2> QED
    BY <2>1, <2>3, <2>4, <2>5
(* What an entry says, by what its call was answered.                      *)
<1>5. ASSUME NEW c \in answered
      PROVE  /\ Disposition(answer[c]) = "executed" <=> ~Mutating(input[c])
             /\ Disposition(answer[c]) = "previewed" <=> answer[c] \in {"planned", "no_change"}
             /\ Disposition(answer[c]) = "blocked" <=> answer[c] = "blocked"
             /\ Outcome(answer[c]).summary = answer[c]
             /\ ~Outcome(answer[c]).ok <=> answer[c] \in {"failed", "blocked"}
             /\ ~Mutating(input[c]) => answer[c] = Alone(files, input[c]).answer
  <2>1. Answers(c)
    BY <1>1
  <2>2. \/ Mutating(input[c]) /\ answer[c] \in {"planned", "no_change", "blocked"}
        \/ ~Mutating(input[c]) /\ answer[c] = Alone(files, input[c]).answer /\ answer[c] \in {"read", "failed"}
    BY <2>1 DEF Answers
  <2>3. Outcome(answer[c]).summary = answer[c] /\ (~Outcome(answer[c]).ok <=> answer[c] \in {"failed", "blocked"})
    BY DEF Outcome
  <2> QED
    BY <2>2, <2>3 DEF Disposition
<1>6. ASSUME NEW S, S \subseteq answered, NEW T, T \subseteq DOMAIN entries,
             \A i \in DOMAIN entries : i \in T <=> entries[i].call \in S
      PROVE  Cardinality(T) = Cardinality(S)
  <2>1. T = {i \in DOMAIN entries : entries[i].call \in S}
    BY <1>6
  <2>2. Cardinality({i \in DOMAIN entries : entries[i].call \in S}) = Cardinality(S)
    BY <1>1, <1>6, Counted
  <2> QED
    BY <2>1, <2>2
<1>7. Summary.executedReads = Cardinality({c \in answered : ~Mutating(input[c])})
  <2>1. Summary.executedReads = Cardinality({i \in DOMAIN entries : entries[i].disposition = "executed"})
    BY DEF Summary, Count
  <2> QED
    BY <1>3, <1>5, <1>6, <2>1
<1>8. Summary.previews = Cardinality(Of({"planned", "no_change"}))
  <2>1. Summary.previews = Cardinality({i \in DOMAIN entries : entries[i].disposition = "previewed"})
    BY DEF Summary, Count
  <2> QED
    BY <1>3, <1>5, <1>6, <2>1
<1>9. Summary.noChanges = Cardinality(Of({"no_change"}))
  <2>1. Summary.noChanges = Cardinality({i \in DOMAIN entries : entries[i].outcome.summary = "no_change"})
    BY DEF Summary
  <2> QED
    BY <1>3, <1>5, <1>6, <2>1
<1>10. Summary.blocked = Cardinality(Of({"blocked"}))
  <2>1. Summary.blocked = Cardinality({i \in DOMAIN entries : entries[i].disposition = "blocked"})
    BY DEF Summary, Count
  <2> QED
    BY <1>3, <1>5, <1>6, <2>1
<1>11. ReportStatus("completed") = "partial" <=> \E c \in answered : answer[c] = "blocked"
  <2>1. (\E i \in DOMAIN entries : entries[i].disposition = "blocked") <=> \E c \in answered : answer[c] = "blocked"
    BY <1>2, <1>3, <1>5
  <2> QED
    BY <2>1 DEF ReportStatus
<1>12. \A i \in DOMAIN entries : ~entries[i].outcome.ok <=> answer[entries[i].call] \in {"failed", "blocked"}
  BY <1>3, <1>5
<1>13. \A c \in answered : ~Mutating(input[c]) => answer[c] = Alone(files, input[c]).answer
  BY <1>5
<1> QED
  BY <1>1, <1>2, <1>4, <1>7, <1>8, <1>9, <1>10, <1>11, <1>12, <1>13 DEF DryRunAccounts

(* A dry run writes nothing, whichever tools run side by side, and its     *)
(* report has one entry for each call that has been answered, counts them  *)
(* by what they are and shows a blocked one in its status.                 *)
THEOREM DryRunIsAccounted == Spec => []DryRunAccounts
BY InitDry, NextDry, Accounts, PTL DEF Spec

-----------------------------------------------------------------------------
(* The patches.                                                            *)

(* A workspace holds directories and files, and so it does after each      *)
(* change.                                                                 *)
Holds(ws) == \A p \in DOMAIN ws : ws[p] = Dir \/ ws[p] \in Content

(* Making directories keeps it.                                            *)
LEMMA DirsHeld ==
  ASSUME NEW ws, Holds(ws), NEW ps
  PROVE  Holds(WithDirs(ws, ps))
BY DEF Holds, WithDirs

(* Writing a file keeps it.                                                *)
LEMMA WrittenHeld ==
  ASSUME NEW ws, Holds(ws), NEW p, NEW text \in Content
  PROVE  Holds(Written(ws, p, text))
<1>1. PICK more : more = WithDirs(ws, Ancestors(p) \cup {p})
  OBVIOUS
<1>2. Holds(more)
  BY <1>1, DirsHeld
<1>3. Written(ws, p, text) = [more EXCEPT ![p] = text]
  BY <1>1 DEF Written
<1> QED
  BY <1>2, <1>3 DEF Holds

(* Renaming keeps it: what is found under a new name was there under an    *)
(* old one.                                                                *)
LEMMA RenamedHeld ==
  ASSUME NEW ws, Holds(ws), NEW from, NEW to
  PROVE  Holds(Renamed(ws, from, to))
<1> DEFINE Taken == {q \in DOMAIN ws : IsPrefix(from, q)}
           Anew(q) == to \o SubSeq(q, Len(from) + 1, Len(q))
           Under == {Anew(q) : q \in Taken}
           Was(q) == IF q \in Under THEN CHOOSE r \in Taken : Anew(r) = q ELSE q
           Onto == [q \in Under \cup (DOMAIN ws \ Taken) |-> ws[Was(q)]]
<1>1. Renamed(ws, from, to) = (IF from = to THEN ws ELSE Onto)
  BY DEF Renamed
<1>2. Taken \subseteq DOMAIN ws
  OBVIOUS
<1>3. \A q \in Under \cup (DOMAIN ws \ Taken) : Was(q) \in DOMAIN ws
  <2> HIDE DEF Anew, Taken
  <2> QED
    BY <1>2
<1>4. Holds(Onto)
  <2> HIDE DEF Was, Under, Taken, Anew
  <2> QED
    BY <1>3 DEF Holds
<1> QED
  BY <1>1, <1>4

(* What is read of a file is lines.                                        *)
LEMMA TextIs ==
  ASSUME NEW ws, Holds(ws), NEW p
  PROVE  Text(ws, p) \in Content /\ (IsFile(ws, p) => ws[p] \in Content)
BY DEF Text, Holds, IsFile, Content

(* What str_replace writes is lines.                                       *)
LEMMA ReplacedIs ==
  ASSUME NEW text \in Content, NEW in, in.new \in Line
  PROVE  Replaced(text, in) \in Content
<1> PICK S : S = Chosen(text, in)
  OBVIOUS
<1>1. Replaced(text, in) = [i \in 1 .. Len(text) |-> IF i \in S THEN in.new ELSE text[i]]
  BY DEF Replaced, Content
<1>2. \A i \in 1 .. Len(text) : text[i] \in Line
  BY DEF Content
<1> QED
  BY <1>1, <1>2 DEF Content

(* The lines of a file without their CRs are as many lines.                *)
LEMMA SourceLinesAre ==
  ASSUME NEW original \in Content
  PROVE  SourceLines(original) \in Content /\ Len(SourceLines(original)) = Len(original)
<1>1. /\ original \in Seq(Line) /\ Len(original) \in Nat
      /\ DOMAIN original = 1 .. Len(original) /\ \A i \in 1 .. Len(original) : original[i] \in Line
  BY DEF Content
<1>2. Unix \in [Line -> Line]
  BY LineAssumption
<1>3. SourceLines(original) = [i \in 1 .. Len(original) |->
         IF i < Len(original) THEN Unix[original[i]] ELSE original[i]]
  BY <1>1 DEF SourceLines
<1>4. \A i \in 1 .. Len(original) :
         (IF i < Len(original) THEN Unix[original[i]] ELSE original[i]) \in Line
  BY <1>1, <1>2
<1>5. SourceLines(original) \in [1 .. Len(original) -> Line]
  BY <1>3, <1>4
<1>6. SourceLines(original) \in Seq(Line)
  BY <1>1, <1>5
<1> QED
  BY <1>1, <1>5, <1>6 DEF Content

(* What a patch makes of a file is lines, or it does not apply.            *)
LEMMA ApplyHunksType ==
  ASSUME NEW original \in Content, NEW hunks \in Seq(Hunk)
  PROVE  ApplyHunks(original, hunks) \in Content \cup {None}
<1>0. PICK source \in Content : source = SourceLines(original)
  BY SourceLinesAre
<1>1. PICK f : RunsHunks(f, source, hunks) /\ HunksApplied(source, hunks) = f[Len(hunks)]
  BY HunksAppliedBy
<1>2. Len(hunks) \in 0 .. Len(hunks)
  OBVIOUS
<1>3. PICK end : end = HunksApplied(source, hunks)
  OBVIOUS
<1>4. end \in Progress
  BY <1>1, <1>2, <1>3 DEF RunsHunks
<1>5. Len(source) \in Int
  BY DEF Content
<1>6. CopiedTo(source, end, Len(source)) \in Progress
  BY <1>4, <1>5, CopiedType
<1>7. PICK lines : lines = CopiedTo(source, end, Len(source)).output
  OBVIOUS
<1>8. lines \in Content
  BY <1>6, <1>7, ProgressIs DEF Content
<1>9. << >> \in Content
  BY DEF Content
<1>10. Joined(lines) \in Content
  BY <1>8, <1>9, Zenon DEF Joined
<1> QED
  BY <1>0, <1>3, <1>7, <1>10 DEF ApplyHunks, LinesPatched

(* Where a patch stands: until it has read a file it has computed nothing, *)
(* and what it is about to write, or could not apply, is what its hunks    *)
(* make of the text it has read.                                           *)
Patching(c) ==
  /\ seen[c] \in Content
  /\ Sections(input[c]) # << >> => section[c] \in 1 .. Len(Sections(input[c]))
  /\ pc[c] = "reading" => MayPatch(c)
  /\ pc[c] \in {"idle", "reading"} => draft[c] # None \/ seen[c] = << >>
  /\ pc[c] = "parent" => draft[c] = ApplyHunks(seen[c], PatchFile(c).hunks)
  /\ answer[c] = "failed" /\ draft[c] = None /\ MayPatch(c) =>
       seen[c] = << >> \/ ApplyHunks(seen[c], PatchFile(c).hunks) = None

(* Where a call stands: what it is about to write is lines.                *)
Works(c) ==
  /\ draft[c] \in Content \cup {None}
  /\ pc[c] \in {"parent", "writing"} => draft[c] # None
  /\ pc[c] # "done" => answer[c] = "none"
  /\ input[c] # None /\ Is(c, "apply_patch") => Patching(c)

PatchInv ==
  /\ TypeInv
  /\ DOMAIN seen = Calls /\ DOMAIN draft = Calls
  /\ Holds(files)
  /\ \A c \in Calls : Works(c)

(* A call's step leaves the others where they stand.                       *)
Alters(c) ==
  /\ DOMAIN seen' = Calls /\ DOMAIN draft' = Calls
  /\ \A d \in Calls \ {c} :
       /\ pc'[d] = pc[d] /\ section'[d] = section[d] /\ seen'[d] = seen[d]
       /\ draft'[d] = draft[d] /\ answer'[d] = answer[d]
  /\ input' = input

(* The hunks of the file that a patch works on.                            *)
LEMMA HunksAre ==
  ASSUME TypeInv, NEW c \in Calls, input[c] # None, Is(c, "apply_patch"), Patching(c), MayPatch(c)
  PROVE  PatchFile(c).hunks \in Seq(Hunk)
<1>1. IsPatch(input[c].patch)
  BY FilesAssumption DEF TypeInv, IsInput, Is
<1>2. PICK P : Sections(input[c]) \in Seq(PatchedFile(P))
  BY <1>1, PatchIsParsed DEF Sections
<1>3. section[c] \in 1 .. Len(Sections(input[c]))
  BY DEF Patching, MayPatch
<1>4. PatchFile(c) \in PatchedFile(P)
  BY <1>2, <1>3 DEF PatchFile
<1> QED
  BY <1>4, PatchedFileIs

(* A patch whose hunks are plain is what the reference says.               *)
LEMMA PatchInvLands ==
  ASSUME PatchInv
  PROVE  PatchLands
<1> SUFFICES ASSUME NEW c \in Calls, input[c] # None, Is(c, "apply_patch"), MayPatch(c),
                    NEW hunks, hunks = PatchFile(c).hunks,
                    pc[c] = "parent" \/ (answer[c] = "failed" /\ draft[c] = None /\ hunks # << >>),
                    NEW source, source = SourceLines(seen[c]), Plain(source, hunks)
             PROVE  draft[c] = Reference(source, hunks)
  BY Zenon DEF PatchLands
<1>1. Patching(c)
  BY DEF PatchInv, Works
<1>2. hunks \in Seq(Hunk) /\ seen[c] \in Content
  BY <1>1, HunksAre DEF PatchInv, Patching
<1>3. ApplyHunks(seen[c], hunks) = Reference(source, hunks)
  <2>1. source \in Content
    BY <1>2, SourceLinesAre
  <2> QED
    BY <1>2, <2>1, PatchComputed DEF ApplyHunks
<1>4. CASE pc[c] = "parent"
  BY <1>1, <1>3, <1>4 DEF Patching
<1>5. CASE answer[c] = "failed" /\ draft[c] = None /\ hunks # << >>
  <2>1. seen[c] # << >>
    <3> SUFFICES ASSUME seen[c] = << >>  PROVE FALSE
      OBVIOUS
    <3>1. 1 \in DOMAIN hunks /\ hunks[1] \in Hunk
      BY <1>2, <1>5
    <3>2. PICK h : h = hunks[1]
      OBVIOUS
    <3>3. h.oldCount > 0 /\ Inside(source, h) /\ h.oldStart \in Nat /\ h.oldCount \in Nat
      BY <3>1, <3>2, HunkIs DEF Plain
    <3>4. Len(source) = 0
      BY <1>2, SourceLinesAre
    <3> QED
      BY <3>3, <3>4 DEF Inside, After, Before
  <2> QED
    BY <1>1, <1>3, <1>5, <2>1 DEF Patching
<1> QED
  BY <1>4, <1>5

(* Nothing is computed at first.                                           *)
LEMMA InitPatches == Init => PatchInv
<1> SUFFICES ASSUME Init  PROVE PatchInv
  OBVIOUS
<1>1. TypeInv
  BY InitTypes
<1>2. Holds(files)
  BY FilesAssumption DEF Init, Holds, IsWorkspace
<1>3. ASSUME NEW c \in Calls  PROVE Works(c)
  <2>1. draft[c] = None /\ pc[c] \in {"idle", "done"} /\ answer[c] = "none" /\ seen[c] = << >> /\ section[c] = 1
    BY DEF Init
  <2>2. ASSUME input[c] # None, Is(c, "apply_patch"), Sections(input[c]) # << >>
        PROVE  1 \in 1 .. Len(Sections(input[c]))
    <3>1. IsPatch(input[c].patch)
      BY <1>1, <2>2, FilesAssumption DEF TypeInv, IsInput, Is
    <3>2. PICK P : Sections(input[c]) \in Seq(PatchedFile(P))
      BY <3>1, PatchIsParsed DEF Sections
    <3> QED
      BY <2>2, <3>2
  <2>3. << >> \in Content
    BY DEF Content
  <2> QED
    BY <2>1, <2>2, <2>3 DEF Works, Patching
<1> QED
  BY <1>1, <1>2, <1>3 DEF PatchInv, Init

(* A step that answers a call or moves it on, and computes nothing.        *)
Rests(c) ==
  /\ UNCHANGED <<given, section, draft>>
  /\ DOMAIN seen' = Calls /\ \A d \in Calls \ {c} : seen'[d] = seen[d]
  /\ \/ \E result \in Answer : Reply(c, result)
     \/ \E place \in Place : Goto(c, place) /\ UNCHANGED answer
     \/ UNCHANGED <<pc, answer>>

(* Such a step leaves the other calls, and this one if it keeps its place. *)
LEMMA Resting ==
  ASSUME PatchInv, NEW c \in Calls, Rests(c)
  PROVE  Alters(c)
<1>1. pc \in [Calls -> Place] /\ answer \in [Calls -> Answer]
  BY DEF PatchInv, TypeInv, TypeOK
<1>2. \A d \in Calls \ {c} : pc'[d] = pc[d] /\ answer'[d] = answer[d]
  BY <1>1 DEF Rests, Reply, Goto
<1> QED
  BY <1>2 DEF Rests, Alters, given, PatchInv

(* A call of another tool that computes nothing stays where it stands.     *)
LEMMA OtherRests ==
  ASSUME PatchInv, NEW c \in Calls, Rests(c), pc[c] # "done", pc'[c] = "writing" => pc[c] = "parent",
         pc'[c] # "parent", ~Is(c, "apply_patch")
  PROVE  Works(c)'
<1>1. pc \in [Calls -> Place] /\ answer \in [Calls -> Answer] /\ answer[c] = "none" /\ Works(c)
  BY DEF PatchInv, TypeInv, TypeOK, Works
<1>2. draft'[c] = draft[c] /\ input' = input
  BY DEF Rests, given
<1>3. ~Is(c, "apply_patch")'
  BY <1>2 DEF Is
<1>4. pc'[c] # "done" => answer'[c] = "none"
  BY <1>1 DEF Rests, Reply, Goto
<1> QED
  BY <1>1, <1>2, <1>3, <1>4 DEF Works

(* The tools that read, and those that change the workspace in one step.   *)
LEMMA OthersStep ==
  ASSUME PatchInv, NEW c \in Calls,
         \/ MovePath(c) \/ Mkdir(c) \/ Inspect(c) \/ OpenDirectory(c)
         \/ ListDirectory(c) \/ Scan(c) \/ Look(c) \/ ReadFile(c)
  PROVE  Alters(c) /\ Works(c)' /\ Holds(files')
<1>1. {"changed", "read", "failed", "thrown"} \subseteq Answer /\ {"reading"} \subseteq Place
  BY DEF Answer, Place
<1>2. pc \in [Calls -> Place] /\ DOMAIN seen = Calls /\ Holds(files)
  BY DEF PatchInv, TypeInv, TypeOK
<1> USE <1>1 DEF Rests, given, At
<1>3. pc[c] \in {"idle", "reading"} /\ ~Is(c, "apply_patch")
  <2>1. pc[c] \in {"idle", "reading"} /\ input[c].tool # "apply_patch"
    BY DEF MovePath, Mkdir, Inspect, OpenDirectory, ListDirectory, Scan, Look, ReadFile, Is
  <2> QED
    BY <2>1 DEF Is
<1>4. Rests(c)
  <2>1. CASE MovePath(c)
    BY <1>2, <2>1, Zenon DEF MovePath
  <2>2. CASE Mkdir(c)
    BY <1>2, <2>2, Zenon DEF Mkdir
  <2>3. CASE Inspect(c)
    BY <1>2, <2>3, Zenon DEF Inspect
  <2>4. CASE OpenDirectory(c)
    BY <1>2, <2>4, Zenon DEF OpenDirectory
  <2>5. CASE ListDirectory(c)
    <3>1. \/ \E result \in Answer : Reply(c, result)
          \/ UNCHANGED <<pc, answer>>
      BY <2>5, Zenon DEF ListDirectory
    <3>2. PICK s : seen' = [seen EXCEPT ![c] = s] \/ seen' = seen
      BY <2>5, Zenon DEF ListDirectory
    <3>3. DOMAIN seen' = Calls /\ \A d \in Calls \ {c} : seen'[d] = seen[d]
      BY <1>2, <3>2
    <3> QED
      BY <2>5, <3>1, <3>3, Zenon DEF ListDirectory
  <2>6. CASE Scan(c)
    <3>1. \E result \in Answer : Reply(c, result)
      BY <2>6, Zenon DEF Scan
    <3>2. PICK s : seen' = [seen EXCEPT ![c] = s] \/ seen' = seen
      BY <2>6, Zenon DEF Scan
    <3>3. DOMAIN seen' = Calls /\ \A d \in Calls \ {c} : seen'[d] = seen[d]
      BY <1>2, <3>2
    <3> QED
      BY <2>6, <3>1, <3>3, Zenon DEF Scan
  <2>7. CASE Look(c)
    BY <1>2, <2>7, Zenon DEF Look
  <2>8. CASE ReadFile(c)
    <3>1. \E result \in Answer : Reply(c, result)
      BY <2>8, Zenon DEF ReadFile
    <3>2. PICK s : seen' = [seen EXCEPT ![c] = s] \/ seen' = seen
      BY <2>8, Zenon DEF ReadFile
    <3>3. DOMAIN seen' = Calls /\ \A d \in Calls \ {c} : seen'[d] = seen[d]
      BY <1>2, <3>2
    <3> QED
      BY <2>8, <3>1, <3>3, Zenon DEF ReadFile
  <2> QED
    BY <2>1, <2>2, <2>3, <2>4, <2>5, <2>6, <2>7, <2>8
<1>5. pc'[c] \in {"reading", "done"}
  <2>1. (\E result \in Answer : Reply(c, result)) \/ Goto(c, "reading") \/ (UNCHANGED pc /\ pc[c] = "reading")
    BY Zenon DEF MovePath, Mkdir, Inspect, OpenDirectory, ListDirectory, Scan, Look, ReadFile
  <2> QED
    BY <1>2, <2>1 DEF Reply, Goto
<1>6. Holds(files')
  <2>1. CASE MovePath(c)
    <3>1. files' = files \/ files' = Renamed(files, input[c].from, input[c].to)
      BY <2>1, Zenon DEF MovePath
    <3> QED
      BY <1>2, <3>1, RenamedHeld
  <2>2. CASE Mkdir(c)
    <3>1. files' = files \/ files' = MakeDirs(files, input[c].path)
      BY <2>2, Zenon DEF Mkdir
    <3> QED
      BY <1>2, <3>1, DirsHeld DEF MakeDirs
  <2>3. ~MovePath(c) /\ ~Mkdir(c) => files' = files
    BY Zenon DEF Inspect, OpenDirectory, ListDirectory, Scan, Look, ReadFile
  <2> QED
    BY <1>2, <2>1, <2>2, <2>3
<1> QED
  BY <1>3, <1>4, <1>5, <1>6, Resting, OtherRests DEF At

(* A call that is refused or previewed computes nothing, and a patch is    *)
(* not refused for its paths.                                              *)
LEMMA AnsweredStep ==
  ASSUME PatchInv, NEW c \in Calls, Preview(c) \/ RefusePath(c)
  PROVE  Alters(c) /\ Works(c)' /\ Holds(files')
<1>1. pc \in [Calls -> Place] /\ answer \in [Calls -> Answer] /\ DOMAIN seen = Calls /\ Works(c) /\ Holds(files)
  BY DEF PatchInv, TypeInv, TypeOK
<1>2. pc[c] = "idle" /\ input[c] # None /\ input[c].tool \in Tools
  <2>1. pc[c] = "idle"
    BY Zenon DEF Preview, RefusePath, At
  <2>2. input[c] # None
    BY <2>1 DEF PatchInv, TypeInv
  <2> QED
    BY <2>1, <2>2, FilesAssumption DEF PatchInv, TypeInv, IsInput
<1>3. PICK result \in Answer :
        Reply(c, result) /\ (Is(c, "apply_patch") => result # "failed")
  <2>1. CASE Preview(c)
    <3>1. PreviewOf(files, input[c]) \in {"planned", "no_change", "blocked"}
      <4>1. Mutating(input[c])
        BY <1>2, <2>1 DEF Preview, Runs
      <4> QED
        BY <1>2, <4>1, PreviewType
    <3>2. PreviewOf(files, input[c]) \in Answer /\ PreviewOf(files, input[c]) # "failed"
      BY <3>1 DEF Answer
    <3> QED
      BY <2>1, <3>2, Zenon DEF Preview
  <2>2. CASE RefusePath(c)
    <3>1. ~Is(c, "apply_patch")
      BY <2>2 DEF RefusePath, Valid, CheckedPaths, Is
    <3>2. "failed" \in Answer
      BY DEF Answer
    <3> QED
      BY <2>2, <3>1, <3>2, Zenon DEF RefusePath
  <2> QED
    BY <2>1, <2>2
<1>4. UNCHANGED <<given, section, draft, seen, files>>
  BY Zenon DEF Preview, RefusePath
<1>5. Rests(c)
  BY <1>1, <1>3, <1>4 DEF Rests
<1>6. pc'[c] = "done" /\ answer'[c] = result
  BY <1>1, <1>3 DEF Reply, Goto
<1>7. CASE Is(c, "apply_patch")
  <2>1. Patching(c)
    BY <1>1, <1>2, <1>7 DEF Works
  <2>2. Patching(c)'
    BY <2>1, <1>3, <1>4, <1>6, <1>7 DEF Patching, given
  <2> QED
    BY <1>1, <1>4, <1>5, <1>6, <2>2, Resting DEF Works
<1>8. CASE ~Is(c, "apply_patch")
  BY <1>1, <1>2, <1>4, <1>5, <1>6, <1>8, Resting, OtherRests
<1> QED
  BY <1>7, <1>8

(* A step that computes what a call will write.                            *)
LEMMA ComputedStep ==
  ASSUME PatchInv, NEW c \in Calls, BeginWrite(c) \/ ReplaceText(c)
  PROVE  Alters(c) /\ Works(c)' /\ Holds(files')
<1>1. /\ pc \in [Calls -> Place] /\ answer \in [Calls -> Answer] /\ DOMAIN seen = Calls /\ DOMAIN draft = Calls
      /\ Works(c) /\ Holds(files)
  BY DEF PatchInv, TypeInv, TypeOK
<1>2. pc[c] # "done" /\ input[c] # None /\ ~Is(c, "apply_patch") /\ UNCHANGED <<given, files, section, seen>>
  BY DEF BeginWrite, ReplaceText, At, Is
<1>3. answer[c] = "none"
  BY <1>1, <1>2 DEF Works
<1>4. ~Is(c, "apply_patch")'
  BY <1>2 DEF Is, given
<1>5. CASE \E text \in Content, place \in {"parent", "writing"} :
             draft' = [draft EXCEPT ![c] = text] /\ Goto(c, place) /\ UNCHANGED answer
  <2>1. PICK text \in Content, place \in {"parent", "writing"} :
          draft' = [draft EXCEPT ![c] = text] /\ pc' = [pc EXCEPT ![c] = place] /\ answer' = answer
    BY <1>5 DEF Goto
  <2>2. /\ DOMAIN draft' = Calls /\ draft'[c] = text
        /\ \A d \in Calls \ {c} : draft'[d] = draft[d] /\ pc'[d] = pc[d]
        /\ pc'[c] # "done"
    BY <1>1, <2>1
  <2>3. text # None
    BY FilesAssumption
  <2>4. Alters(c)
    BY <1>1, <1>2, <2>1, <2>2 DEF Alters, given
  <2>5. Works(c)'
    BY <1>3, <1>4, <2>1, <2>2, <2>3 DEF Works
  <2> QED
    BY <1>1, <1>2, <2>4, <2>5
<1>6. CASE UNCHANGED draft /\ \E result \in Answer : Reply(c, result)
  <2>1. Rests(c)
    BY <1>1, <1>2, <1>6 DEF Rests
  <2>2. pc'[c] = "done"
    BY <1>1, <1>6 DEF Reply, Goto
  <2> QED
    BY <1>1, <1>2, <2>1, <2>2, Resting, OtherRests
<1>7. CASE BeginWrite(c)
  <2>1. input[c].content \in Content
    BY <1>2, <1>7, FilesAssumption DEF BeginWrite, Is, PatchInv, TypeInv, IsInput
  <2>2. draft' = [draft EXCEPT ![c] = input[c].content] /\ Goto(c, "parent") /\ UNCHANGED answer
    BY <1>7, Zenon DEF BeginWrite
  <2> QED
    BY <1>5, <2>1, <2>2
<1>8. CASE ReplaceText(c)
  <2>1. input[c].new \in Line
    BY <1>2, <1>8, FilesAssumption DEF ReplaceText, Is, PatchInv, TypeInv, IsInput
  <2>2. Text(files, input[c].path) \in Content
    BY <1>1, TextIs
  <2>3. Replaced(Text(files, input[c].path), input[c]) \in Content
    BY <2>1, <2>2, ReplacedIs
  <2>4. {"thrown", "failed", "unchanged"} \subseteq Answer
    BY DEF Answer
  <2>5. \/ UNCHANGED draft /\ \E result \in Answer : Reply(c, result)
        \/ /\ draft' = [draft EXCEPT ![c] = Replaced(Text(files, input[c].path), input[c])]
           /\ Goto(c, "writing") /\ UNCHANGED answer
    BY <1>8, <2>4, Zenon DEF ReplaceText
  <2> QED
    BY <1>5, <1>6, <2>3, <2>5
<1> QED
  BY <1>7, <1>8

(* The hunks of a file applied to a text that has been read.               *)
LEMMA PatchedStep ==
  ASSUME PatchInv, NEW c \in Calls, pc[c] \in {"idle", "reading"}, input[c] # None, Is(c, "apply_patch"),
         MayPatch(c), NEW text \in Content, Patched(c, text), UNCHANGED <<given, section>>
  PROVE  Alters(c) /\ Works(c)'
<1>1. /\ pc \in [Calls -> Place] /\ answer \in [Calls -> Answer] /\ DOMAIN seen = Calls /\ DOMAIN draft = Calls
      /\ Works(c) /\ Patching(c)
  BY DEF PatchInv, TypeInv, TypeOK, Works
<1>2. PICK hunks : hunks = PatchFile(c).hunks
  OBVIOUS
<1>3. hunks \in Seq(Hunk)
  BY <1>1, <1>2, HunksAre DEF PatchInv
<1>4. PICK result : result = ApplyHunks(text, hunks)
  OBVIOUS
<1>5. result \in Content \cup {None}
  BY <1>3, <1>4, ApplyHunksType
<1>6. seen' = [seen EXCEPT ![c] = text] /\ draft' = [draft EXCEPT ![c] = result]
  BY <1>2, <1>4 DEF Patched
<1>7. /\ DOMAIN seen' = Calls /\ seen'[c] = text /\ \A d \in Calls \ {c} : seen'[d] = seen[d]
      /\ DOMAIN draft' = Calls /\ draft'[c] = result /\ \A d \in Calls \ {c} : draft'[d] = draft[d]
  BY <1>1, <1>6
<1>8. IF result = None THEN Reply(c, "failed") ELSE Goto(c, "parent") /\ UNCHANGED answer
  BY <1>7, Zenon DEF Patched
<1>9. /\ \A d \in Calls \ {c} : pc'[d] = pc[d] /\ answer'[d] = answer[d]
      /\ pc'[c] = IF result = None THEN "done" ELSE "parent"
      /\ result # None => answer'[c] = "none"
  BY <1>1, <1>8 DEF Reply, Goto, Works
<1>10. Alters(c)
  BY <1>7, <1>9 DEF Alters, given
<1>11. MayPatch(c)' /\ PatchFile(c)' = PatchFile(c) /\ Is(c, "apply_patch")' /\ input' = input /\ section' = section
  BY DEF MayPatch, PatchFile, Is, given
<1>12. ApplyHunks(seen[c], PatchFile(c).hunks)' = result
  BY <1>2, <1>4, <1>7, <1>11
<1>13. Patching(c)'
  BY <1>1, <1>7, <1>9, <1>11, <1>12 DEF Patching
<1>14. Works(c)'
  BY <1>5, <1>7, <1>9, <1>13 DEF Works
<1> QED
  BY <1>10, <1>14

(* Looking for a file of a patch, and reading it.                          *)
LEMMA OpenedStep ==
  ASSUME PatchInv, NEW c \in Calls, OpenPatchFile(c) \/ ReadPatchFile(c)
  PROVE  Alters(c) /\ Works(c)' /\ Holds(files')
<1>1. /\ pc \in [Calls -> Place] /\ answer \in [Calls -> Answer] /\ DOMAIN seen = Calls
      /\ Works(c) /\ Holds(files)
  BY DEF PatchInv, TypeInv, TypeOK
<1>2. /\ pc[c] \in {"idle", "reading"} /\ input[c] # None /\ Is(c, "apply_patch")
      /\ UNCHANGED <<given, files, section>>
  BY Zenon DEF OpenPatchFile, ReadPatchFile, At
<1>3. Patching(c) /\ answer[c] = "none"
  BY <1>1, <1>2 DEF Works
<1>4. MayPatch(c)' = MayPatch(c) /\ PatchFile(c)' = PatchFile(c) /\ Is(c, "apply_patch")' /\ input' = input
  BY <1>2 DEF MayPatch, PatchFile, Is, given
<1>5. ASSUME UNCHANGED <<seen, draft>>,
             \/ Goto(c, "reading") /\ UNCHANGED answer /\ MayPatch(c)
             \/ Reply(c, "failed") /\ (MayPatch(c) => pc[c] = "reading")
      PROVE  Alters(c) /\ Works(c)'
  <2>1. "reading" \in Place /\ "failed" \in Answer
    BY DEF Place, Answer
  <2>2. Rests(c)
    BY <1>1, <1>2, <1>5, <2>1 DEF Rests
  <2>3. \/ pc'[c] = "reading" /\ answer'[c] = "none" /\ MayPatch(c)
        \/ pc'[c] = "done" /\ answer'[c] = "failed" /\ (MayPatch(c) => pc[c] = "reading")
    BY <1>1, <1>3, <1>5 DEF Reply, Goto
  <2>4. draft[c] # None \/ seen[c] = << >>
    BY <1>2, <1>3 DEF Patching
  <2>5. Patching(c)'
    BY <1>2, <1>3, <1>4, <1>5, <2>3, <2>4 DEF Patching
  <2>6. Works(c)'
    BY <1>1, <1>4, <1>5, <2>3, <2>5 DEF Works
  <2> QED
    BY <2>2, <2>6, Resting
<1>6. CASE OpenPatchFile(c)
  <2>1. \/ Reply(c, "failed") /\ ~MayPatch(c) /\ UNCHANGED <<seen, draft>>
        \/ Goto(c, "reading") /\ MayPatch(c) /\ UNCHANGED <<seen, draft, answer>>
        \/ MayPatch(c) /\ Patched(c, << >>)
    BY <1>6, Zenon DEF OpenPatchFile
  <2>2. << >> \in Content
    BY DEF Content
  <2>3. CASE MayPatch(c) /\ Patched(c, << >>)
    BY <1>1, <1>2, <2>2, <2>3, PatchedStep
  <2> QED
    BY <1>1, <1>2, <1>5, <2>1, <2>3
<1>7. CASE ReadPatchFile(c)
  <2>1. MayPatch(c) /\ pc[c] = "reading"
    BY <1>3, <1>7 DEF ReadPatchFile, At, Patching
  <2>2. \/ IsFile(files, PatchFile(c).newPath) /\ Patched(c, files[PatchFile(c).newPath])
        \/ Reply(c, "failed") /\ UNCHANGED <<seen, draft>>
    BY <1>7, Zenon DEF ReadPatchFile
  <2>3. CASE IsFile(files, PatchFile(c).newPath) /\ Patched(c, files[PatchFile(c).newPath])
    <3>1. files[PatchFile(c).newPath] \in Content
      BY <1>1, <2>3, TextIs
    <3> QED
      BY <1>1, <1>2, <2>1, <2>3, <3>1, PatchedStep
  <2> QED
    BY <1>1, <1>2, <1>5, <2>1, <2>2, <2>3
<1> QED
  BY <1>6, <1>7

(* Making the parent of a file, and writing it.                            *)
LEMMA WritingStep ==
  ASSUME PatchInv, NEW c \in Calls, EnsureParent(c) \/ WriteFile(c)
  PROVE  Alters(c) /\ Works(c)' /\ Holds(files')
<1>1. /\ pc \in [Calls -> Place] /\ answer \in [Calls -> Answer] /\ section \in [Calls -> Nat \ {0}]
      /\ DOMAIN seen = Calls /\ DOMAIN draft = Calls /\ Works(c) /\ Holds(files)
  BY DEF PatchInv, TypeInv, TypeOK
<1>2. /\ pc[c] \in {"parent", "writing"} /\ input[c] # None
      /\ UNCHANGED <<given, seen, draft>>
  BY Zenon DEF EnsureParent, WriteFile, At
<1>3. draft[c] \in Content /\ draft[c] # None /\ answer[c] = "none"
  BY <1>1, <1>2 DEF Works
<1>4. input' = input /\ seen' = seen /\ draft' = draft /\ Is(c, "apply_patch")' = Is(c, "apply_patch")
  BY <1>2 DEF given, Is
<1>5. \/ Goto(c, "writing") /\ UNCHANGED <<answer, section>>
      \/ Reply(c, "changed") /\ UNCHANGED section
      \/ Reply(c, "failed") /\ UNCHANGED section
      \/ /\ Goto(c, "idle") /\ UNCHANGED answer /\ section' = [section EXCEPT ![c] = @ + 1]
         /\ Is(c, "apply_patch") /\ section[c] < Len(Sections(input[c]))
  BY Zenon DEF EnsureParent, WriteFile
<1>6. /\ \A d \in Calls \ {c} : pc'[d] = pc[d] /\ answer'[d] = answer[d] /\ section'[d] = section[d]
      /\ pc'[c] \in {"writing", "done", "idle"} /\ (pc'[c] # "done" => answer'[c] = "none")
      /\ \/ section'[c] = section[c]
         \/ section'[c] = section[c] + 1 /\ section[c] < Len(Sections(input[c]))
  BY <1>1, <1>3, <1>5 DEF Reply, Goto
<1>7. Alters(c)
  BY <1>1, <1>4, <1>6 DEF Alters
<1>8. ASSUME Is(c, "apply_patch")  PROVE Patching(c)'
  <2>1. Patching(c)
    BY <1>1, <1>2, <1>8 DEF Works
  <2>2. Sections(input[c]) # << >> => section'[c] \in 1 .. Len(Sections(input[c]))
    <3> PICK n : n = Len(Sections(input[c]))
      OBVIOUS
    <3>1. IsPatch(input[c].patch)
      BY <1>2, <1>8, FilesAssumption DEF PatchInv, TypeInv, IsInput, Is
    <3>2. n \in Nat
      <4>1. PICK P : Sections(input[c]) \in Seq(PatchedFile(P))
        BY <3>1, PatchIsParsed DEF Sections
      <4> QED
        BY <4>1
    <3>3. section[c] \in Nat \ {0} /\ (Sections(input[c]) # << >> => section[c] \in 1 .. n)
      BY <1>1, <2>1 DEF Patching
    <3> QED
      BY <1>6, <3>2, <3>3
  <2> QED
    BY <1>3, <1>4, <1>6, <2>1, <2>2 DEF Patching
<1>9. Works(c)'
  BY <1>3, <1>4, <1>6, <1>8 DEF Works
<1>10. Holds(files')
  <2>1. \/ files' = files
        \/ files' = MakeDirs(files, Front(PathOf(c)))
        \/ files' = Written(files, PathOf(c), draft[c])
    BY Zenon DEF EnsureParent, WriteFile
  <2>2. Holds(MakeDirs(files, Front(PathOf(c))))
    BY <1>1, DirsHeld DEF MakeDirs
  <2>3. Holds(Written(files, PathOf(c), draft[c]))
    BY <1>1, <1>3, WrittenHeld
  <2> QED
    BY <1>1, <2>1, <2>2, <2>3
<1> QED
  BY <1>7, <1>9, <1>10

(* Every step keeps it.                                                    *)
LEMMA NextPatches ==
  ASSUME PatchInv, [Next]_vars
  PROVE  PatchInv'
<1>1. TypeInv'
  BY NextTypes DEF PatchInv
<1>2. CASE Next
  <2>1. PICK c \in Calls :
          \/ Preview(c) \/ RefusePath(c) \/ MovePath(c) \/ Mkdir(c) \/ BeginWrite(c)
          \/ Inspect(c) \/ OpenDirectory(c) \/ ListDirectory(c) \/ Scan(c)
          \/ Look(c) \/ ReadFile(c) \/ ReplaceText(c)
          \/ OpenPatchFile(c) \/ ReadPatchFile(c) \/ EnsureParent(c) \/ WriteFile(c)
    BY <1>2, Zenon DEF Next
  <2>2. Alters(c) /\ Works(c)' /\ Holds(files')
    BY <2>1, AnsweredStep, OthersStep, ComputedStep, OpenedStep, WritingStep
  <2>3. ASSUME NEW d \in Calls \ {c}  PROVE Works(d)'
    <3>1. Works(d)
      BY DEF PatchInv
    <3>2. /\ pc'[d] = pc[d] /\ section'[d] = section[d] /\ seen'[d] = seen[d]
          /\ draft'[d] = draft[d] /\ answer'[d] = answer[d] /\ input' = input
      BY <2>2 DEF Alters
    <3> QED
      BY <3>1, <3>2 DEF Works, Patching, MayPatch, PatchFile, Is
  <2> QED
    BY <1>1, <2>2, <2>3 DEF PatchInv, Alters
<1>3. CASE UNCHANGED vars
  <2>1. PatchInv /\ UNCHANGED <<files, input, section, seen, draft, pc, answer>>
    BY <1>3 DEF vars
  <2> QED
    BY <1>1, <2>1 DEF PatchInv, Works, Patching, MayPatch, PatchFile, Is
<1> QED
  BY <1>2, <1>3

(* apply_patch computes what the unified diff says of hunks that replace   *)
(* lines, in order and inside the file, or refuses it where the file does  *)
(* not have the lines they replace, whatever else the message's calls do   *)
(* to the workspace.                                                       *)
THEOREM PatchesLand == Spec => []PatchLands
BY InitPatches, NextPatches, PatchInvLands, PTL DEF Spec
===============================================================================
