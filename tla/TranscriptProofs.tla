--------------------------- MODULE TranscriptProofs ---------------------------
(***************************************************************************)
(* Proofs about the transcripts of SessionTurns: that every message is     *)
(* there once and in order and every tool use of an ended turn is answered *)
(* once, whatever was retried, lost, late or repaired; and that the store  *)
(* has what the agent has seen.                                            *)
(***************************************************************************)
EXTENDS SessionTurnsProofs

-----------------------------------------------------------------------------
(* Transcripts: their order, and their sets of messages.                   *)

(* The order of the messages of a step: the calls, their results, a text.  *)
Rank(m) == CASE m.kind \in {"user", "calls"} -> 0 [] m.kind \in {"result", "repair"} -> 1 [] OTHER -> 2
Follow(m, n) ==
  /\ m # n
  /\ \/ m.turn < n.turn
     \/ m.turn = n.turn /\ m.step < n.step
     \/ m.turn = n.turn /\ m.step = n.step /\ Rank(m) <= Rank(n)
Sorted(t) == \A i, j \in DOMAIN t : i < j => Follow(t[i], t[j])

(* Of a set of messages: a step calls its tools once, every result belongs *)
(* to such a call, and no tool use has two.                                *)
Same(m, n) == m.turn = n.turn /\ m.step = n.step
Sole(S) == \A c, d \in S : c.kind = "calls" /\ d.kind = "calls" /\ Same(c, d) => c = d
Timed(S) == \A m \in S : (m.kind = "calls" => m.step # 0) /\ (m.kind = "user" => m.step = 0)
Owned(S) ==
  \A m \in S : IsResult(m) =>
    m.uses # {} /\ \E c \in S : c.kind = "calls" /\ Same(c, m) /\ m.uses \subseteq c.uses
Apart(S) == \A m, n \in S : IsResult(m) /\ IsResult(n) /\ Same(m, n) /\ m # n => m.uses \cap n.uses = {}
Sound(S) == Sole(S) /\ Timed(S) /\ Owned(S) /\ Apart(S)
Good(t) == Sorted(t) /\ Sound(Range(t))

(* The tool uses of a call that no result answers, and their repair.       *)
Lacks(S, c) == {u \in c.uses : \A m \in S : IsResult(m) /\ Same(m, c) => u \notin m.uses}
Fix(S, c) == [c EXCEPT !.kind = "repair", !.uses = Lacks(S, c)]
Lacking(S, ids) == {c \in S : c.kind = "calls" /\ c.turn \in ids /\ Lacks(S, c) # {}}
Fixes(S, ids) == {Fix(S, c) : c \in Lacking(S, ids)}

(* The fields of a message, and its rank.                                  *)
LEMMA MessageIs ==
  ASSUME NEW m \in Message
  PROVE  /\ m.turn \in Nat /\ m.step \in Nat /\ Rank(m) \in {0, 1, 2}
         /\ m.kind \in {"user", "calls", "result", "repair", "text"}
         /\ Rank(m) = 0 <=> m.kind \in {"user", "calls"}
         /\ Rank(m) = 1 <=> IsResult(m)
         /\ Rank(m) = 2 <=> m.kind = "text"
         /\ m.turn \in TurnId /\ m.step \in 0 .. MaxSteps /\ m.uses \subseteq Calls \cup {HandoffUse}
<1>1. /\ m.turn \in TurnId /\ m.step \in 0 .. MaxSteps /\ m.kind \in {"user", "calls", "result", "repair", "text"}
      /\ m.uses \subseteq Calls \cup {HandoffUse}
  BY DEF Message
<1>2. m.turn \in Nat /\ m.step \in Nat
  BY <1>1, SessionAssumption DEF TurnId
<1> QED
  BY <1>1, <1>2 DEF Rank, IsResult

(* The messages of a transcript.                                           *)
LEMMA RangeIs ==
  ASSUME NEW t \in Seq(Message)
  PROVE  /\ Range(t) \subseteq Message /\ DOMAIN t = 1 .. Len(t) /\ Len(t) \in Nat
         /\ Range(t) = ToSet(t)
         /\ \A i \in DOMAIN t : t[i] \in Range(t) /\ t[i] \in Message
         /\ \A x \in Range(t) : \E i \in DOMAIN t : t[i] = x
BY DEF Range, ToSet

(* Two sequences, one after the other.                                     *)
LEMMA ConcatIs ==
  ASSUME NEW E, NEW s \in Seq(E), NEW t \in Seq(E)
  PROVE  LET u == s \o t IN
         /\ u \in Seq(E)
         /\ Range(u) = Range(s) \cup Range(t)
         /\ \A i \in DOMAIN s : i \in DOMAIN u /\ u[i] = s[i]
         /\ \A i \in DOMAIN u : i \notin DOMAIN s => i - Len(s) \in DOMAIN t /\ u[i] = t[i - Len(s)]
         /\ DOMAIN s = 1 .. Len(s) /\ DOMAIN u = 1 .. Len(u) /\ Len(s) \in Nat /\ Len(u) = Len(s) + Len(t)
<1> DEFINE u == s \o t
<1>1. /\ u \in Seq(E) /\ Len(u) = Len(s) + Len(t) /\ Len(s) \in Nat /\ Len(t) \in Nat
      /\ DOMAIN u = 1 .. Len(u) /\ DOMAIN s = 1 .. Len(s) /\ DOMAIN t = 1 .. Len(t)
      /\ \A i \in 1 .. Len(s) : u[i] = s[i]
      /\ \A i \in 1 .. Len(t) : u[Len(s) + i] = t[i]
  OBVIOUS
<1> HIDE DEF u
<1>2. \A i \in DOMAIN u : i \notin DOMAIN s => i - Len(s) \in DOMAIN t /\ u[i] = t[i - Len(s)]
  <2> SUFFICES ASSUME NEW i \in DOMAIN u, i \notin DOMAIN s
               PROVE  i - Len(s) \in DOMAIN t /\ u[i] = t[i - Len(s)]
    OBVIOUS
  <2>1. i - Len(s) \in 1 .. Len(t) /\ Len(s) + (i - Len(s)) = i
    BY <1>1
  <2> QED
    BY <1>1, <2>1
<1>3. /\ \A i \in DOMAIN s : s[i] \in Range(s)
      /\ \A i \in DOMAIN t : t[i] \in Range(t)
  BY DEF Range
<1>4. \A i \in DOMAIN s : i \in DOMAIN u /\ u[i] = s[i]
  BY <1>1
<1>5. Range(u) = Range(s) \cup Range(t)
  <2>1. \A i \in DOMAIN u : u[i] \in Range(s) \cup Range(t)
    BY <1>2, <1>3, <1>4
  <2>2. \A i \in DOMAIN t : Len(s) + i \in DOMAIN u /\ u[Len(s) + i] = t[i]
    BY <1>1
  <2>3. ASSUME NEW x \in Range(u)  PROVE x \in Range(s) \cup Range(t)
    BY <2>1 DEF Range
  <2>4. ASSUME NEW x \in Range(s)  PROVE x \in Range(u)
    BY <1>4 DEF Range
  <2>5. ASSUME NEW x \in Range(t)  PROVE x \in Range(u)
    BY <2>2 DEF Range
  <2> QED
    BY <2>3, <2>4, <2>5
<1> QED
  BY <1>1, <1>2, <1>4, <1>5 DEF u

(* Two transcripts of which one follows the other.                         *)
LEMMA SortedConcat ==
  ASSUME NEW s \in Seq(Message), NEW t \in Seq(Message), Sorted(s), Sorted(t),
         \A x \in Range(s), y \in Range(t) : Follow(x, y)
  PROVE  Sorted(s \o t) /\ Range(s \o t) = Range(s) \cup Range(t) /\ s \o t \in Seq(Message)
<1> DEFINE u == s \o t
<1>1. /\ u \in Seq(Message)
      /\ Range(u) = Range(s) \cup Range(t)
      /\ \A i \in DOMAIN s : i \in DOMAIN u /\ u[i] = s[i]
      /\ \A i \in DOMAIN u : i \notin DOMAIN s => i - Len(s) \in DOMAIN t /\ u[i] = t[i - Len(s)]
      /\ DOMAIN s = 1 .. Len(s) /\ DOMAIN u = 1 .. Len(u) /\ Len(s) \in Nat
  BY ConcatIs
<1> HIDE DEF u
<1>3. /\ \A i \in DOMAIN s : s[i] \in Range(s)
      /\ \A i \in DOMAIN t : t[i] \in Range(t)
  BY DEF Range
<1>4. Sorted(u)
  <2> SUFFICES ASSUME NEW i \in DOMAIN u, NEW j \in DOMAIN u, i < j  PROVE Follow(u[i], u[j])
    BY DEF Sorted
  <2>1. CASE i \in DOMAIN s /\ j \in DOMAIN s
    BY <1>1, <2>1 DEF Sorted
  <2>2. CASE i \in DOMAIN s /\ j \notin DOMAIN s
    BY <1>1, <1>3, <2>2
  <2>3. CASE i \notin DOMAIN s
    <3>1. j \notin DOMAIN s /\ i - Len(s) < j - Len(s)
      BY <1>1, <2>3
    <3> QED
      BY <1>1, <2>3, <3>1 DEF Sorted
  <2> QED
    BY <2>1, <2>2, <2>3
<1> QED
  BY <1>1, <1>4 DEF u

(* One message more.                                                       *)
LEMMA SortedAppend ==
  ASSUME NEW s \in Seq(Message), Sorted(s), NEW x \in Message, \A y \in Range(s) : Follow(y, x)
  PROVE  Sorted(Append(s, x)) /\ Range(Append(s, x)) = Range(s) \cup {x} /\ Append(s, x) \in Seq(Message)
<1>1. /\ <<x>> \in Seq(Message) /\ DOMAIN <<x>> = {1} /\ <<x>>[1] = x
      /\ s \o <<x>> = Append(s, x)
  OBVIOUS
<1>2. Sorted(<<x>>) /\ Range(<<x>>) = {x}
  BY <1>1 DEF Sorted, Range
<1>3. \A y \in Range(s), z \in Range(<<x>>) : Follow(y, z)
  BY <1>2
<1> HIDE DEF Follow
<1> QED
  BY <1>1, <1>2, <1>3, SortedConcat

(* What is kept of a transcript is in order.                               *)
LEMMA KeptSorted ==
  ASSUME NEW t \in Seq(Message), NEW S, Sorted(t)
  PROVE  Sorted(Kept(t, S)) /\ Kept(t, S) \in Seq(Message) /\ Range(Kept(t, S)) = Range(t) \cap S
<1> DEFINE R == {mn \in Message \X Message : Follow(mn[1], mn[2])}
<1>1. \A i \in DOMAIN t : t[i] \in Message
  OBVIOUS
<1>2. Linked(t, R)
  BY <1>1 DEF Linked, Sorted
<1>3. Linked(Kept(t, S), R)
  BY <1>2, KeptLinked
<1>4. Kept(t, S) \in Seq(Message) /\ ToSet(Kept(t, S)) = ToSet(t) \cap S
  BY KeptIs
<1>5. Sorted(Kept(t, S))
  BY <1>3, <1>4 DEF Linked, Sorted
<1>6. Range(Kept(t, S)) = ToSet(Kept(t, S)) /\ Range(t) = ToSet(t)
  BY <1>4, RangeIs
<1> QED
  BY <1>4, <1>5, <1>6

(* All of a sequence is kept, or nothing.                                  *)
LEMMA KeptAll ==
  ASSUME NEW E, NEW q \in Seq(E), NEW S
  PROVE  /\ (\A y \in ToSet(q) : y \in S) => Kept(q, S) = q
         /\ (\A y \in ToSet(q) : y \notin S) => Kept(q, S) = << >>
<1>a. << >> \in Seq(E)
  OBVIOUS
<1>1. PICK e \in Seq(E) : e = << >>
  BY <1>a
<1>2. Len(e) = 0 /\ e \o q = q /\ << >> \o q = q
  BY <1>1
<1>3. \A s \in Seq(E) : /\ (\A y \in ToSet(q) : y \in S) => Kept(s \o q, S) = Kept(s, S) \o q
                        /\ (\A y \in ToSet(q) : y \notin S) => Kept(s \o q, S) = Kept(s, S)
  <2> TAKE s \in Seq(E)
  <2>1. \A y \in ToSet(s) : y \in S <=> y \in S
    OBVIOUS
  <2> QED
    BY <2>1, KeptMore
<1>4. /\ (\A y \in ToSet(q) : y \in S) => Kept(e \o q, S) = Kept(e, S) \o q
      /\ (\A y \in ToSet(q) : y \notin S) => Kept(e \o q, S) = Kept(e, S)
  BY <1>3
<1>5. Kept(e, S) = << >>
  <2>1. Kept(e, S) \in Seq(E) /\ Len(Kept(e, S)) <= Len(e)
    BY KeptIs
  <2> QED
    BY <1>2, <2>1
<1> QED
  BY <1>2, <1>4, <1>5

(* What is appended once.                                                  *)
LEMMA AppendUniqueIs ==
  ASSUME NEW t \in Seq(Message), NEW q \in Seq(Message)
  PROVE  /\ AppendUnique(t, q) \in Seq(Message)
         /\ Range(AppendUnique(t, q)) = Range(t) \cup Range(q)
         /\ Range(q) \subseteq Range(t) => AppendUnique(t, q) = t
         /\ Range(q) \cap Range(t) = {} => AppendUnique(t, q) = t \o q
<1> DEFINE S == Range(q) \ Range(t)
<1>1. PICK k : k = Kept(q, S)
  OBVIOUS
<1>2. k \in Seq(Message) /\ Range(k) = S
  <2>1. k \in Seq(Message) /\ ToSet(k) = ToSet(q) \cap S
    BY <1>1, KeptIs
  <2> QED
    BY <2>1, RangeIs
<1>3. AppendUnique(t, q) = t \o k
  BY <1>1 DEF AppendUnique
<1>4. t \o k \in Seq(Message) /\ Range(t \o k) = Range(t) \cup Range(k)
  BY <1>2, ConcatIs
<1>5. S = {} => k = << >>
  <2> SUFFICES ASSUME S = {}  PROVE k = << >>
    OBVIOUS
  <2>1. \A y \in ToSet(q) : y \notin S
    OBVIOUS
  <2> QED
    BY <1>1, <2>1, KeptAll
<1>6. Range(q) \cap Range(t) = {} => k = q
  <2> SUFFICES ASSUME Range(q) \cap Range(t) = {}  PROVE k = q
    OBVIOUS
  <2>1. \A y \in ToSet(q) : y \in S
    BY RangeIs
  <2> QED
    BY <1>1, <2>1, KeptAll
<1>7. t \o << >> = t
  OBVIOUS
<1> QED
  BY <1>2, <1>3, <1>4, <1>5, <1>6, <1>7

-----------------------------------------------------------------------------
(* What Repair makes of a good transcript.                                 *)

(* A set of numbers above i that has with each the ones below.             *)
LEMMA InitialPart ==
  ASSUME NEW i \in Nat, NEW n \in Nat, i <= n, NEW A, A \subseteq i + 1 .. n,
         \A j \in A : \A k \in i + 1 .. j : k \in A
  PROVE  \E q \in i .. n : A = i + 1 .. q /\ Cardinality(A) = q - i
<1> DEFINE T == {d \in Nat : i + d <= n => \E q \in i .. i + d : A \cap (i + 1 .. i + d) = i + 1 .. q}
<1>1. 0 \in T
  <2>1. i \in i .. i + 0 /\ A \cap (i + 1 .. i + 0) = i + 1 .. i
    OBVIOUS
  <2> QED
    BY <2>1
<1>2. ASSUME NEW d \in Nat, d \in T  PROVE d + 1 \in T
  <2> SUFFICES ASSUME i + (d + 1) <= n
               PROVE  \E q \in i .. i + (d + 1) : A \cap (i + 1 .. i + (d + 1)) = i + 1 .. q
    OBVIOUS
  <2>1. PICK q \in i .. i + d : A \cap (i + 1 .. i + d) = i + 1 .. q
    BY <1>2
  <2>2. CASE i + (d + 1) \in A
    <3>1. A \cap (i + 1 .. i + (d + 1)) = i + 1 .. i + (d + 1)
      BY <2>2
    <3> QED
      BY <3>1
  <2>3. CASE i + (d + 1) \notin A
    <3>1. A \cap (i + 1 .. i + (d + 1)) = A \cap (i + 1 .. i + d)
      BY <2>3
    <3>2. q \in i .. i + (d + 1)
      OBVIOUS
    <3> QED
      BY <2>1, <3>1, <3>2
  <2> QED
    BY <2>2, <2>3
<1> HIDE DEF T
<1>3. \A d \in Nat : d \in T
  BY <1>1, <1>2, Induct
<1>4. PICK d \in Nat : i + d = n
  <2>1. n - i \in Nat /\ i + (n - i) = n
    OBVIOUS
  <2> QED
    BY <2>1
<1>5. PICK q \in i .. n : A \cap (i + 1 .. n) = i + 1 .. q
  <2>1. d \in T
    BY <1>3
  <2>2. i + d <= n
    BY <1>4
  <2>3. \E q \in i .. i + d : A \cap (i + 1 .. i + d) = i + 1 .. q
    BY <2>1, <2>2 DEF T
  <2> QED
    BY <1>4, <2>3
<1>6. A = i + 1 .. q
  BY <1>5
<1>7. Cardinality(i + 1 .. q) = q - i
  <2>1. Cardinality(i + 1 .. q) = IF i + 1 > q THEN 0 ELSE q - (i + 1) + 1
    BY FS_Interval
  <2> QED
    BY <2>1
<1> QED
  BY <1>5, <1>6, <1>7

(* The answers to a call are the results of its step: they follow it, and  *)
(* each other.                                                             *)
LEMMA AnswersAre ==
  ASSUME NEW m \in Seq(Message), Good(m), NEW i \in DOMAIN m, m[i].kind = "calls"
  PROVE  /\ AnswersTo(m, i) = {j \in DOMAIN m : IsResult(m[j]) /\ Same(m[j], m[i])}
         /\ \E q \in i .. Len(m) : AnswersTo(m, i) = i + 1 .. q /\ Cardinality(AnswersTo(m, i)) = q - i
         /\ Missing(m, i) = Lacks(Range(m), m[i])
<1> DEFINE A == {j \in DOMAIN m : IsResult(m[j]) /\ Same(m[j], m[i])}
<1>1. Len(m) \in Nat /\ DOMAIN m = 1 .. Len(m) /\ \A j \in DOMAIN m : m[j] \in Message /\ m[j] \in Range(m)
  BY RangeIs
<1>2. \A j \in DOMAIN m :
        /\ m[j].turn \in Nat /\ m[j].step \in Nat /\ Rank(m[j]) \in {0, 1, 2}
        /\ Rank(m[j]) = 0 <=> m[j].kind \in {"user", "calls"}
        /\ Rank(m[j]) = 1 <=> IsResult(m[j])
  BY <1>1, MessageIs
<1>3. \A j, k \in DOMAIN m : j < k => Follow(m[j], m[k])
  BY DEF Good, Sorted
<1>4. /\ \A j, k \in DOMAIN m : m[j].kind = "calls" /\ m[k].kind = "calls" /\ Same(m[j], m[k]) => m[j] = m[k]
      /\ \A j \in DOMAIN m : (m[j].kind = "calls" => m[j].step # 0) /\ (m[j].kind = "user" => m[j].step = 0)
      /\ \A j \in DOMAIN m : IsResult(m[j]) =>
           m[j].uses # {} /\ \E l \in DOMAIN m : m[l].kind = "calls" /\ Same(m[l], m[j]) /\ m[j].uses \subseteq m[l].uses
  <2>1. \A c \in Range(m) : \E l \in DOMAIN m : m[l] = c
    BY RangeIs
  <2> QED
    BY <1>1, <2>1 DEF Good, Sound, Sole, Timed, Owned
<1>5. ASSUME NEW j \in DOMAIN m, IsResult(m[j]), Same(m[j], m[i])
      PROVE  i < j /\ m[j].uses \cap m[i].uses # {}
  <2>1. i < j
    <3>1. Rank(m[i]) = 0 /\ Rank(m[j]) = 1
      BY <1>2, <1>5
    <3>2. i # j
      BY <3>1
    <3>3. ~(j < i)
      BY <1>2, <1>3, <1>5, <3>1 DEF Follow, Same
    <3> QED
      BY <1>1, <3>2, <3>3
  <2>2. PICK l \in DOMAIN m : m[l].kind = "calls" /\ Same(m[l], m[j]) /\ m[j].uses \subseteq m[l].uses /\ m[j].uses # {}
    BY <1>4, <1>5
  <2>3. m[l] = m[i]
    BY <1>4, <1>5, <2>2 DEF Same
  <2> QED
    BY <2>1, <2>2, <2>3
<1>6. ASSUME NEW j \in DOMAIN m, IsResult(m[j]), Same(m[j], m[i]), NEW k \in i + 1 .. j
      PROVE  IsResult(m[k]) /\ Same(m[k], m[i])
  <2>1. k \in DOMAIN m /\ i < k /\ i < j
    BY <1>1, <1>5, <1>6
  <2>2. Follow(m[i], m[k])
    BY <1>3, <2>1
  <2>3. CASE k = j
    BY <1>6, <2>3
  <2>4. CASE k < j
    <3>1. Follow(m[k], m[j])
      BY <1>3, <2>1, <2>4
    <3>2. Same(m[k], m[i]) /\ Rank(m[k]) <= Rank(m[j]) /\ m[k] # m[i]
      BY <1>2, <1>6, <2>1, <2>2, <3>1 DEF Follow, Same
    <3>3. Rank(m[j]) = 1
      BY <1>2, <1>6
    <3>4. Rank(m[k]) # 0
      <4>1. m[k].kind # "user"
        BY <1>4, <2>1, <3>2 DEF Same
      <4>2. m[k].kind # "calls"
        BY <1>4, <2>1, <3>2
      <4> QED
        BY <1>2, <2>1, <4>1, <4>2
    <3>5. Rank(m[k]) = 1
      BY <1>2, <2>1, <3>2, <3>3, <3>4
    <3> QED
      BY <1>2, <2>1, <3>2, <3>5
  <2> QED
    BY <1>1, <2>1, <2>3, <2>4
<1>7. ASSUME NEW j \in AnswersTo(m, i)  PROVE j \in A
  <2>1. /\ j \in DOMAIN m /\ i < j /\ j \in i + 1 .. j
        /\ \A k \in i + 1 .. j : IsResult(m[k]) /\ m[k].uses \cap m[i].uses # {}
    BY <1>1, <1>7 DEF AnswersTo
  <2>2. IsResult(m[j])
    BY <2>1
  <2>3. PICK l \in DOMAIN m : m[l].kind = "calls" /\ Same(m[l], m[j])
    BY <1>4, <2>1, <2>2
  <2>4. Rank(m[l]) = 0 /\ Rank(m[j]) = 1
    BY <1>2, <2>1, <2>2, <2>3
  <2>5. l < j
    <3>1. l # j
      BY <2>4
    <3>2. ~(j < l)
      BY <1>2, <1>3, <2>1, <2>3, <2>4 DEF Follow, Same
    <3> QED
      BY <1>1, <2>1, <3>1, <3>2
  <2>6. ~(i < l)
    <3>1. i < l => l \in i + 1 .. j
      BY <1>1, <2>1, <2>5
    <3>2. ~IsResult(m[l])
      BY <2>3 DEF IsResult
    <3> QED
      BY <2>1, <3>1, <3>2
  <2>7. ~(l < i)
    <3> SUFFICES ASSUME l < i  PROVE FALSE
      OBVIOUS
    <3>1. Follow(m[l], m[i]) /\ Follow(m[i], m[j])
      BY <1>3, <2>1
    <3>2. ~Same(m[l], m[i])
      BY <1>4, <2>3, <3>1 DEF Follow
    <3> QED
      BY <1>2, <2>1, <2>3, <3>1, <3>2 DEF Follow, Same
  <2>8. l = i
    BY <1>1, <2>6, <2>7
  <2> QED
    BY <2>1, <2>2, <2>3, <2>8 DEF Same
<1>8. ASSUME NEW j \in A  PROVE j \in AnswersTo(m, i)
  <2>1. j \in i + 1 .. Len(m)
    BY <1>1, <1>5
  <2>2. ASSUME NEW k \in i + 1 .. j  PROVE IsResult(m[k]) /\ m[k].uses \cap m[i].uses # {}
    <3>1. IsResult(m[k]) /\ Same(m[k], m[i]) /\ k \in DOMAIN m
      BY <1>1, <1>6, <2>1
    <3> QED
      BY <1>5, <3>1
  <2> QED
    BY <2>1, <2>2 DEF AnswersTo
<1>9. AnswersTo(m, i) = A
  BY <1>7, <1>8
<1>10. \E q \in i .. Len(m) : A = i + 1 .. q /\ Cardinality(A) = q - i
  <2>1. A \subseteq i + 1 .. Len(m)
    BY <1>1, <1>5
  <2>2. \A j \in A : \A k \in i + 1 .. j : k \in A
    <3> SUFFICES ASSUME NEW j \in A, NEW k \in i + 1 .. j  PROVE k \in A
      OBVIOUS
    <3>1. k \in DOMAIN m
      BY <1>1, <2>1
    <3> QED
      BY <1>6, <3>1
  <2>3. i \in Nat /\ i <= Len(m)
    BY <1>1
  <2> HIDE DEF A
  <2> QED
    BY <1>1, <2>1, <2>2, <2>3, InitialPart
<1>11. Missing(m, i) = Lacks(Range(m), m[i])
  <2>1. \A x \in Range(m) : \E j \in DOMAIN m : m[j] = x
    BY RangeIs
  <2>2. Missing(m, i) = m[i].uses \ UNION {m[j].uses : j \in A}
    BY <1>9 DEF Missing
  <2> QED
    BY <1>1, <2>1, <2>2 DEF Lacks
<1> QED
  BY <1>9, <1>10, <1>11

(* Where a repair goes: behind the answers to its call.                    *)
LEMMA RepairAtIs ==
  ASSUME NEW m \in Seq(Message), Good(m), NEW ids, NEW p \in DOMAIN m
  PROVE  /\ \A i \in RepairAt(m, ids, p) :
              /\ i \in DOMAIN m /\ i <= p /\ m[i].kind = "calls" /\ m[i].turn \in ids
              /\ Missing(m, i) = Lacks(Range(m), m[i]) /\ Missing(m, i) # {}
              /\ {j \in DOMAIN m : IsResult(m[j]) /\ Same(m[j], m[i])} = i + 1 .. p
         /\ \A i, j \in RepairAt(m, ids, p) : i = j
<1>1. Len(m) \in Nat /\ DOMAIN m = 1 .. Len(m)
  OBVIOUS
<1>2. ASSUME NEW i \in RepairAt(m, ids, p)
      PROVE  /\ i \in DOMAIN m /\ i <= p /\ m[i].kind = "calls" /\ m[i].turn \in ids
             /\ Missing(m, i) = Lacks(Range(m), m[i]) /\ Missing(m, i) # {}
             /\ {j \in DOMAIN m : IsResult(m[j]) /\ Same(m[j], m[i])} = i + 1 .. p
  <2>1. i \in DOMAIN m /\ i <= p /\ m[i].turn \in ids /\ Missing(m, i) # {} /\ p = i + Cardinality(AnswersTo(m, i))
    BY <1>1 DEF RepairAt
  <2>2. m[i].kind = "calls"
    BY <2>1 DEF Missing
  <2>3. PICK q \in i .. Len(m) : AnswersTo(m, i) = i + 1 .. q /\ Cardinality(AnswersTo(m, i)) = q - i
    BY <2>1, <2>2, AnswersAre
  <2>4. q = p
    BY <1>1, <2>1, <2>3
  <2> QED
    BY <2>1, <2>2, <2>3, <2>4, AnswersAre
<1>3. ASSUME NEW i \in RepairAt(m, ids, p), NEW j \in RepairAt(m, ids, p), i < j  PROVE FALSE
  <2>1. j \in i + 1 .. p
    BY <1>1, <1>2, <1>3
  <2>2. IsResult(m[j])
    BY <1>2, <2>1
  <2> QED
    BY <1>2, <2>2 DEF IsResult
<1>4. \A i, j \in RepairAt(m, ids, p) : i \in Nat /\ j \in Nat
  BY <1>1, <1>2
<1> QED
  BY <1>2, <1>3, <1>4

(* The message Repair puts behind the answers to the call at i.            *)
FixAt(m, i) == [m[i] EXCEPT !.kind = "repair", !.uses = Missing(m, i)]

(* It fits there.                                                          *)
LEMMA FixFits ==
  ASSUME NEW m \in Seq(Message), Good(m), NEW ids, NEW p \in DOMAIN m, NEW i \in RepairAt(m, ids, p)
  PROVE  /\ FixAt(m, i) \in Message /\ FixAt(m, i) = Fix(Range(m), m[i])
         /\ \A k \in DOMAIN m : k <= p => Follow(m[k], FixAt(m, i))
         /\ \A k \in DOMAIN m : p < k => Follow(FixAt(m, i), m[k])
<1>1. /\ i \in DOMAIN m /\ i <= p /\ m[i].kind = "calls"
      /\ Missing(m, i) = Lacks(Range(m), m[i]) /\ Missing(m, i) # {}
      /\ {j \in DOMAIN m : IsResult(m[j]) /\ Same(m[j], m[i])} = i + 1 .. p
  BY RepairAtIs
<1>2. Len(m) \in Nat /\ DOMAIN m = 1 .. Len(m) /\ \A j \in DOMAIN m : m[j] \in Message /\ m[j] \in Range(m)
  BY RangeIs
<1>3. \A j \in DOMAIN m :
        /\ m[j].turn \in Nat /\ m[j].step \in Nat /\ Rank(m[j]) \in {0, 1, 2}
        /\ Rank(m[j]) = 0 <=> m[j].kind \in {"user", "calls"}
        /\ Rank(m[j]) = 1 <=> IsResult(m[j])
  BY <1>2, MessageIs
<1>4. PICK r : r = FixAt(m, i)
  OBVIOUS
<1>5. /\ r \in Message /\ r.turn = m[i].turn /\ r.step = m[i].step /\ r.kind = "repair" /\ r.uses = Missing(m, i)
      /\ Rank(r) = 1
  <2>1. r \in Message
    BY <1>1, <1>4, MissingType DEF FixAt
  <2>2. r.turn = m[i].turn /\ r.step = m[i].step /\ r.kind = "repair" /\ r.uses = Missing(m, i)
    BY <1>1, <1>2, <1>4 DEF FixAt, Message
  <2> QED
    BY <2>1, <2>2 DEF Rank
<1>6. \A j, k \in DOMAIN m : j < k => Follow(m[j], m[k])
  BY DEF Good, Sorted
<1>7. ASSUME NEW k \in DOMAIN m, k <= p  PROVE Follow(m[k], r)
  <2>1. CASE k <= i
    <3>1. Rank(m[i]) = 0
      BY <1>1, <1>3
    <3>2. m[k] # r
      <4>1. k = i => Rank(m[k]) = 0
        BY <3>1
      <4>2. k < i => Follow(m[k], m[i])
        BY <1>1, <1>6
      <4>3. k < i /\ Same(m[k], m[i]) => Rank(m[k]) = 0
        BY <1>1, <1>3, <3>1, <4>2 DEF Follow, Same
      <4> QED
        BY <1>1, <1>2, <1>5, <2>1, <4>1, <4>3 DEF Same
    <3>3. k = i \/ Follow(m[k], m[i])
      BY <1>1, <1>2, <1>6, <2>1
    <3> QED
      BY <1>1, <1>3, <1>5, <3>1, <3>2, <3>3 DEF Follow
  <2>2. CASE i < k
    <3>1. k \in i + 1 .. p
      BY <1>1, <1>2, <1>7, <2>2
    <3>2. IsResult(m[k]) /\ Same(m[k], m[i])
      BY <1>1, <3>1
    <3>3. m[k].uses \cap Lacks(Range(m), m[i]) = {}
      BY <1>2, <3>2 DEF Lacks
    <3>4. m[k] # r
      BY <1>1, <1>5, <3>3
    <3>5. Rank(m[k]) = 1
      BY <1>3, <3>2
    <3> QED
      BY <1>5, <3>2, <3>4, <3>5 DEF Follow, Same
  <2> QED
    BY <1>1, <1>2, <2>1, <2>2
<1>8. ASSUME NEW k \in DOMAIN m, p < k  PROVE Follow(r, m[k])
  <2>1. i < k /\ k \notin i + 1 .. p
    BY <1>1, <1>2, <1>8
  <2>2. Follow(m[i], m[k])
    BY <1>1, <1>6, <2>1
  <2>3. ~(IsResult(m[k]) /\ Same(m[k], m[i]))
    BY <1>1, <2>1
  <2>4. CASE Same(m[k], m[i])
    <3>1. Rank(m[k]) # 1
      BY <1>3, <2>3, <2>4
    <3>2. m[k].kind # "user" /\ m[k].kind # "calls"
      <4>1. m[i].step # 0 /\ (m[k].kind = "user" => m[k].step = 0)
        BY <1>1, <1>2 DEF Good, Sound, Timed
      <4>2. m[k].kind = "calls" => m[k] = m[i]
        BY <1>1, <1>2, <2>4 DEF Good, Sound, Sole
      <4> QED
        BY <2>2, <2>4, <4>1, <4>2 DEF Follow, Same
    <3>3. Rank(m[k]) = 2
      BY <1>3, <3>1, <3>2
    <3> QED
      BY <1>5, <2>4, <3>3 DEF Follow, Same
  <2>5. CASE ~Same(m[k], m[i])
    BY <1>1, <1>5, <2>2, <2>5 DEF Follow, Same
  <2> QED
    BY <2>4, <2>5
<1>9. r = Fix(Range(m), m[i])
  BY <1>1, <1>4 DEF FixAt, Fix
<1> QED
  BY <1>4, <1>5, <1>7, <1>8, <1>9

(* And behind the repairs before it.                                       *)
LEMMA FixesFollow ==
  ASSUME NEW m \in Seq(Message), Good(m), NEW ids, NEW p \in DOMAIN m, NEW q \in DOMAIN m, p < q,
         NEW i \in RepairAt(m, ids, p), NEW j \in RepairAt(m, ids, q)
  PROVE  Follow(FixAt(m, i), FixAt(m, j))
<1>1. /\ i \in DOMAIN m /\ i <= p /\ m[i].kind = "calls"
      /\ {k \in DOMAIN m : IsResult(m[k]) /\ Same(m[k], m[i])} = i + 1 .. p
      /\ j \in DOMAIN m /\ j <= q /\ m[j].kind = "calls"
      /\ {k \in DOMAIN m : IsResult(m[k]) /\ Same(m[k], m[j])} = j + 1 .. q
  BY RepairAtIs
<1>2. Len(m) \in Nat /\ DOMAIN m = 1 .. Len(m) /\ \A k \in DOMAIN m : m[k] \in Message /\ m[k] \in Range(m)
  BY RangeIs
<1>3. p < j
  <2> SUFFICES ASSUME j <= p  PROVE FALSE
    BY <1>1, <1>2
  <2>1. p + 1 \in j + 1 .. q /\ p + 1 \in DOMAIN m
    BY <1>1, <1>2
  <2>2. IsResult(m[p + 1]) /\ Same(m[p + 1], m[j])
    BY <1>1, <2>1
  <2>3. ~Same(m[p + 1], m[i])
    <3>1. p + 1 \notin i + 1 .. p
      BY <1>1, <1>2
    <3> QED
      BY <1>1, <2>1, <2>2, <3>1
  <2>4. i # j
    BY <2>2, <2>3
  <2>5. ~(i < j)
    <3>1. i < j => j \in i + 1 .. p
      BY <1>1, <1>2
    <3>2. ~IsResult(m[j])
      BY <1>1 DEF IsResult
    <3> QED
      BY <1>1, <3>1, <3>2
  <2>6. ~(j < i)
    <3>1. j < i => i \in j + 1 .. q
      BY <1>1, <1>2
    <3>2. ~IsResult(m[i])
      BY <1>1 DEF IsResult
    <3> QED
      BY <1>1, <3>1, <3>2
  <2> QED
    BY <1>1, <1>2, <2>4, <2>5, <2>6
<1>4. Follow(FixAt(m, i), m[j])
  BY <1>1, <1>3, FixFits
<1>5. Follow(m[j], FixAt(m, j)) /\ FixAt(m, i) \in Message /\ FixAt(m, j) \in Message
  BY <1>1, FixFits
<1>6. /\ FixAt(m, i).turn = m[i].turn /\ FixAt(m, i).step = m[i].step
      /\ FixAt(m, j).turn = m[j].turn /\ FixAt(m, j).step = m[j].step
      /\ FixAt(m, i).kind = "repair" /\ FixAt(m, j).kind = "repair"
  BY <1>1, <1>2 DEF FixAt, Message
<1>7. ~Same(m[i], m[j])
  <2>1. i < j
    BY <1>1, <1>2, <1>3
  <2> QED
    BY <1>1, <1>2, <2>1 DEF Good, Sound, Sole, Sorted, Follow
<1>8. m[j].turn \in Nat /\ m[j].step \in Nat /\ m[i].turn \in Nat /\ m[i].step \in Nat
  BY <1>1, <1>2, MessageIs
<1> QED
  BY <1>4, <1>6, <1>7, <1>8 DEF Follow, Same

(* The piece of the repaired transcript that a message stands at the head of. *)
LEMMA PieceIs ==
  ASSUME NEW m \in Seq(Message), Good(m), NEW ids, NEW p \in DOMAIN m
  PROVE  LET piece == <<m[p]>> \o SetToSeq(Inserted(m, ids, p)) IN
         /\ piece \in Seq(Message) /\ Sorted(piece)
         /\ Range(piece) = {m[p]} \cup Inserted(m, ids, p)
         /\ Inserted(m, ids, p) = {FixAt(m, i) : i \in RepairAt(m, ids, p)}
<1>1. PICK S : S = Inserted(m, ids, p)
  OBVIOUS
<1>2. S = {FixAt(m, i) : i \in RepairAt(m, ids, p)}
  BY <1>1 DEF Inserted, FixAt
<1>3. S = {} \/ \E x : S = {x}
  <2>1. \A i, j \in RepairAt(m, ids, p) : i = j
    BY RepairAtIs
  <2>2. \A x, y \in S : x = y
    BY <1>2, <2>1
  <2>3. CASE S # {}
    <3>1. PICK x : x \in S
      BY <2>3
    <3>2. S = {x}
      BY <2>2, <3>1
    <3> QED
      BY <3>2
  <2> QED
    BY <2>3
<1>4. IsFiniteSet(S) /\ (S = {} => Cardinality(S) = 0) /\ (\A x : S = {x} => Cardinality(S) = 1)
  BY <1>3, FS_EmptySet, FS_Singleton
<1>5. S \subseteq Message /\ \A x \in S : Follow(m[p], x)
  BY <1>2, FixFits, RepairAtIs
<1>6. SetToSeq(S) \in Seq(S) /\ ToSet(SetToSeq(S)) = S /\ Len(SetToSeq(S)) = Cardinality(S)
  BY <1>4, SetToSeqIs
<1>7. PICK q : q = SetToSeq(S)
  OBVIOUS
<1>8. q \in Seq(Message) /\ Range(q) = S /\ Len(q) <= 1
  <2>1. q \in Seq(Message)
    BY <1>5, <1>6, <1>7
  <2>2. Range(q) = S
    BY <1>6, <1>7, <2>1, RangeIs
  <2>3. Cardinality(S) = 0 \/ Cardinality(S) = 1
    BY <1>3, <1>4
  <2>4. Len(q) = Cardinality(S)
    BY <1>6, <1>7
  <2> QED
    BY <2>1, <2>2, <2>3, <2>4
<1>9. Sorted(q)
  <2>1. DOMAIN q = 1 .. Len(q) /\ Len(q) \in Nat
    BY <1>8
  <2> QED
    BY <1>8, <2>1 DEF Sorted
<1>10. <<m[p]>> \in Seq(Message) /\ DOMAIN <<m[p]>> = {1} /\ <<m[p]>>[1] = m[p]
  OBVIOUS
<1>11. Sorted(<<m[p]>>) /\ Range(<<m[p]>>) = {m[p]}
  BY <1>10 DEF Sorted, Range
<1>12. \A x \in Range(<<m[p]>>), y \in Range(q) : Follow(x, y)
  BY <1>5, <1>8, <1>11
<1>13. Sorted(<<m[p]>> \o q) /\ Range(<<m[p]>> \o q) = {m[p]} \cup S /\ <<m[p]>> \o q \in Seq(Message)
  <2> HIDE DEF Follow
  <2>1. PICK u : u = <<m[p]>>
    OBVIOUS
  <2> QED
    BY <1>8, <1>9, <1>10, <1>11, <1>12, <2>1, SortedConcat
<1> QED
  BY <1>1, <1>2, <1>7, <1>13

(* A repaired transcript is in order, and has one message more for each    *)
(* call that lacks an answer.                                              *)
LEMMA RepairIs ==
  ASSUME NEW m \in Seq(Message), Good(m), NEW ids
  PROVE  /\ Repair(m, ids) \in Seq(Message) /\ Sorted(Repair(m, ids))
         /\ Range(Repair(m, ids)) = Range(m) \cup Fixes(Range(m), ids)
<1> DEFINE N == Len(m)
           ss == [p \in 1 .. N |-> <<m[p]>> \o SetToSeq(Inserted(m, ids, p))]
           Upto(n) == {m[k] : k \in 1 .. n} \cup UNION {Inserted(m, ids, p) : p \in 1 .. n}
<1>1. N \in Nat /\ DOMAIN m = 1 .. N
  OBVIOUS
<1>2. \A p \in 1 .. N : /\ ss[p] \in Seq(Message) /\ Sorted(ss[p])
                        /\ Range(ss[p]) = {m[p]} \cup Inserted(m, ids, p)
                        /\ Inserted(m, ids, p) = {FixAt(m, i) : i \in RepairAt(m, ids, p)}
  BY <1>1, PieceIs
<1>3. ss \in Seq(Seq(Message)) /\ Len(ss) = N
  <2>1. ss = [p \in 1 .. N |-> ss[p]]
    OBVIOUS
  <2> HIDE DEF ss
  <2>2. ss \in [1 .. N -> Seq(Message)]
    BY <1>2, <2>1
  <2> QED
    BY <1>1, <2>2
<1>4. Repair(m, ids) = FlattenSeq(ss)
  BY DEF Repair, Inserted
<1> HIDE DEF ss
<1>5. PICK f : /\ f \in [0 .. N -> Seq(Message)] /\ f[0] = << >>
               /\ \A n \in 1 .. N : f[n] = f[n - 1] \o ss[n]
               /\ FlattenSeq(ss) = f[N]
  <2>1. \E f : /\ f \in [0 .. Len(ss) -> Seq(Message)] /\ f[0] = << >>
               /\ \A n \in 1 .. Len(ss) : f[n] = f[n - 1] \o ss[n]
               /\ FlattenSeq(ss) = f[Len(ss)]
    BY <1>3, FlattenBy
  <2> QED
    BY <1>3, <2>1
<1> DEFINE T == {n \in Nat : n <= N => Sorted(f[n]) /\ Range(f[n]) = Upto(n)}
<1>6. 0 \in T
  <2>1. Sorted(f[0]) /\ Range(f[0]) = {}
    BY <1>5 DEF Sorted, Range
  <2>2. Upto(0) = {}
    OBVIOUS
  <2> QED
    BY <2>1, <2>2
<1>7. ASSUME NEW n \in Nat, n \in T  PROVE n + 1 \in T
  <2> SUFFICES ASSUME n + 1 <= N  PROVE Sorted(f[n + 1]) /\ Range(f[n + 1]) = Upto(n + 1)
    OBVIOUS
  <2>1. PICK p \in 1 .. N : p = n + 1
    BY <1>1
  <2>2. f[p] = f[n] \o ss[p] /\ f[n] \in Seq(Message)
    <3>1. p - 1 = n /\ n \in 0 .. N
      BY <1>1, <2>1
    <3> QED
      BY <1>5, <3>1
  <2>3. Sorted(f[n]) /\ Range(f[n]) = Upto(n)
    BY <1>1, <1>7, <2>1
  <2>4. Upto(p) = Upto(n) \cup ({m[p]} \cup Inserted(m, ids, p))
    BY <2>1
  <2>5. ASSUME NEW x \in Upto(n), NEW y \in {m[p]} \cup Inserted(m, ids, p)  PROVE Follow(x, y)
    <3>1. y = m[p] \/ \E j \in RepairAt(m, ids, p) : y = FixAt(m, j)
      BY <1>2
    <3>2. CASE \E k \in 1 .. n : x = m[k]
      <4>1. PICK k \in DOMAIN m : x = m[k] /\ k < p
        BY <1>1, <2>1, <3>2
      <4>2. p \in DOMAIN m /\ Follow(m[k], m[p])
        BY <1>1, <4>1 DEF Good, Sorted
      <4>3. \A j \in RepairAt(m, ids, p) : Follow(m[k], FixAt(m, j))
        BY <1>1, <4>1, <4>2, FixFits
      <4> QED
        BY <3>1, <4>1, <4>2, <4>3
    <3>3. CASE \E q \in 1 .. n : x \in Inserted(m, ids, q)
      <4>1. PICK q \in DOMAIN m : x \in Inserted(m, ids, q) /\ q < p
        BY <1>1, <2>1, <3>3
      <4>2. PICK i \in RepairAt(m, ids, q) : x = FixAt(m, i)
        BY <1>1, <1>2, <4>1
      <4>3. p \in DOMAIN m /\ Follow(x, m[p])
        BY <1>1, <4>1, <4>2, FixFits
      <4>4. \A j \in RepairAt(m, ids, p) : Follow(x, FixAt(m, j))
        BY <4>1, <4>2, <4>3, FixesFollow
      <4> QED
        BY <3>1, <4>3, <4>4
    <3> QED
      BY <3>2, <3>3
  <2> HIDE DEF Upto
  <2>6. ss[p] \in Seq(Message) /\ Sorted(ss[p]) /\ Range(ss[p]) = {m[p]} \cup Inserted(m, ids, p)
    BY <1>2
  <2>7. \A x \in Range(f[n]), y \in Range(ss[p]) : Follow(x, y)
    BY <2>3, <2>5, <2>6
  <2>8. Sorted(f[n] \o ss[p]) /\ Range(f[n] \o ss[p]) = Range(f[n]) \cup Range(ss[p])
    BY <2>2, <2>3, <2>6, <2>7, SortedConcat
  <2> QED
    BY <2>1, <2>2, <2>3, <2>4, <2>6, <2>8
<1> HIDE DEF T
<1>8. \A n \in Nat : n \in T
  BY <1>6, <1>7, Induct
<1>9. Sorted(f[N]) /\ Range(f[N]) = Upto(N) /\ f[N] \in Seq(Message)
  <2>1. N \in T /\ N <= N /\ N \in 0 .. N
    BY <1>1, <1>8
  <2>2. Sorted(f[N]) /\ Range(f[N]) = Upto(N)
    <3> HIDE DEF Upto, N
    <3> QED
      BY <2>1 DEF T
  <2>3. f[N] \in Seq(Message)
    BY <1>5, <2>1
  <2> QED
    BY <2>2, <2>3
<1>10. {m[k] : k \in 1 .. N} = Range(m)
  BY <1>1 DEF Range
<1>11. UNION {Inserted(m, ids, p) : p \in 1 .. N} = Fixes(Range(m), ids)
  <2>1. ASSUME NEW p \in DOMAIN m, NEW i \in RepairAt(m, ids, p)
        PROVE  FixAt(m, i) \in Fixes(Range(m), ids)
    <3>1. /\ i \in DOMAIN m /\ m[i].kind = "calls" /\ m[i].turn \in ids
          /\ Missing(m, i) = Lacks(Range(m), m[i]) /\ Missing(m, i) # {}
      BY RepairAtIs
    <3>2. FixAt(m, i) = Fix(Range(m), m[i]) /\ m[i] \in Range(m)
      BY <3>1, FixFits, RangeIs
    <3> QED
      BY <3>1, <3>2 DEF Fixes, Lacking
  <2>2. ASSUME NEW c \in Lacking(Range(m), ids)
        PROVE  \E p \in DOMAIN m : \E i \in RepairAt(m, ids, p) : Fix(Range(m), c) = FixAt(m, i)
    <3>1. PICK i \in DOMAIN m : m[i] = c
      BY RangeIs DEF Lacking
    <3>2. c.kind = "calls" /\ c.turn \in ids /\ Lacks(Range(m), c) # {}
      BY DEF Lacking
    <3>3. /\ Missing(m, i) = Lacks(Range(m), c)
          /\ \E q \in i .. Len(m) : Cardinality(AnswersTo(m, i)) = q - i
      BY <3>1, <3>2, AnswersAre
    <3>4. PICK q \in i .. Len(m) : Cardinality(AnswersTo(m, i)) = q - i
      BY <3>3
    <3>5. q = i + Cardinality(AnswersTo(m, i)) /\ q \in DOMAIN m /\ i \in 1 .. q
      BY <1>1, <3>4
    <3>6. i \in RepairAt(m, ids, q)
      BY <3>1, <3>2, <3>3, <3>5 DEF RepairAt
    <3>7. Fix(Range(m), c) = FixAt(m, i)
      BY <3>1, <3>3 DEF Fix, FixAt
    <3> QED
      BY <3>5, <3>6, <3>7
  <2>3. \A p \in DOMAIN m : Inserted(m, ids, p) = {FixAt(m, i) : i \in RepairAt(m, ids, p)}
    BY <1>1, <1>2
  <2> QED
    BY <1>1, <2>1, <2>2, <2>3 DEF Fixes
<1> QED
  BY <1>4, <1>5, <1>9, <1>10, <1>11

(* What a repair is.                                                       *)
LEMMA FixIs ==
  ASSUME NEW S, S \subseteq Message, NEW c \in S
  PROVE  /\ Fix(S, c) \in Message
         /\ Fix(S, c).turn = c.turn /\ Fix(S, c).step = c.step
         /\ Fix(S, c).kind = "repair" /\ Fix(S, c).uses = Lacks(S, c)
         /\ Lacks(S, c) \subseteq c.uses
<1>1. c \in Message /\ Lacks(S, c) \subseteq c.uses
  BY DEF Lacks
<1>2. Lacks(S, c) \in SUBSET (Calls \cup {HandoffUse})
  BY <1>1, MessageIs
<1>3. \A m \in Message, U \in SUBSET (Calls \cup {HandoffUse}) :
        LET r == [m EXCEPT !.kind = "repair", !.uses = U] IN
        r \in Message /\ r.turn = m.turn /\ r.step = m.step /\ r.kind = "repair" /\ r.uses = U
  BY DEF Message
<1> QED
  BY <1>1, <1>2, <1>3 DEF Fix

(* With its repairs a set of messages is sound, and no call of the turns   *)
(* that were repaired lacks an answer.                                     *)
LEMMA FixesSound ==
  ASSUME NEW S, S \subseteq Message, Sound(S), NEW ids
  PROVE  LET T == S \cup Fixes(S, ids) IN
         /\ T \subseteq Message /\ Sound(T)
         /\ \A x \in T : \E y \in S : Same(x, y)
         /\ \A c \in T : c.kind = "calls" =>
              /\ c \in S /\ Lacks(T, c) \subseteq Lacks(S, c)
              /\ c.turn \in ids => Lacks(T, c) = {}
<1> DEFINE T == S \cup Fixes(S, ids)
<1>1. \A c \in Lacking(S, ids) : c \in S /\ c.kind = "calls" /\ c.turn \in ids /\ Lacks(S, c) # {}
  BY DEF Lacking
<1>2. \A c \in Lacking(S, ids) :
        /\ Fix(S, c) \in Message
        /\ Fix(S, c).turn = c.turn /\ Fix(S, c).step = c.step
        /\ Fix(S, c).kind = "repair" /\ Fix(S, c).uses = Lacks(S, c)
        /\ Lacks(S, c) \subseteq c.uses
  BY <1>1, FixIs
<1>3. \A x \in Fixes(S, ids) :
        /\ x \in Message /\ x.kind = "repair"
        /\ \E c \in Lacking(S, ids) : x = Fix(S, c) /\ Same(x, c) /\ x.uses = Lacks(S, c)
  BY <1>2 DEF Fixes, Same
<1>4. T \subseteq Message
  BY <1>3
<1>5. Sole(T)
  BY <1>3 DEF Sound, Sole
<1>6. Timed(T)
  BY <1>3 DEF Sound, Timed
<1>7. Owned(T)
  <2> SUFFICES ASSUME NEW x \in T, IsResult(x)
               PROVE  x.uses # {} /\ \E c \in T : c.kind = "calls" /\ Same(c, x) /\ x.uses \subseteq c.uses
    BY DEF Owned
  <2>1. CASE x \in S
    BY <2>1 DEF Sound, Owned
  <2>2. CASE x \in Fixes(S, ids)
    <3>1. PICK c \in Lacking(S, ids) : x = Fix(S, c) /\ Same(x, c) /\ x.uses = Lacks(S, c)
      BY <1>3, <2>2
    <3> QED
      BY <1>1, <1>2, <3>1 DEF Same
  <2> QED
    BY <2>1, <2>2
<1>8. ASSUME NEW c \in Lacking(S, ids), NEW n \in S, IsResult(n), Same(n, c)
      PROVE  n.uses \cap Lacks(S, c) = {}
  BY <1>8 DEF Lacks
<1>9. Apart(T)
  <2> SUFFICES ASSUME NEW x \in T, NEW y \in T, IsResult(x), IsResult(y), Same(x, y), x # y
               PROVE  x.uses \cap y.uses = {}
    BY DEF Apart
  <2>1. CASE x \in S /\ y \in S
    BY <2>1 DEF Sound, Apart
  <2>2. CASE x \in S /\ y \in Fixes(S, ids)
    <3>1. PICK c \in Lacking(S, ids) : Same(y, c) /\ y.uses = Lacks(S, c)
      BY <1>3, <2>2
    <3>2. Same(x, c)
      BY <3>1 DEF Same
    <3> QED
      BY <1>8, <2>2, <3>1, <3>2
  <2>3. CASE x \in Fixes(S, ids) /\ y \in S
    <3>1. PICK c \in Lacking(S, ids) : Same(x, c) /\ x.uses = Lacks(S, c)
      BY <1>3, <2>3
    <3>2. Same(y, c)
      BY <3>1 DEF Same
    <3> QED
      BY <1>8, <2>3, <3>1, <3>2
  <2>4. CASE x \in Fixes(S, ids) /\ y \in Fixes(S, ids)
    <3>1. PICK c \in Lacking(S, ids) : x = Fix(S, c) /\ Same(x, c)
      BY <1>3, <2>4
    <3>2. PICK d \in Lacking(S, ids) : y = Fix(S, d) /\ Same(y, d)
      BY <1>3, <2>4
    <3>3. c = d
      BY <1>1, <3>1, <3>2 DEF Same, Sound, Sole
    <3> QED
      BY <3>1, <3>2, <3>3
  <2> QED
    BY <2>1, <2>2, <2>3, <2>4
<1>10. ASSUME NEW x \in T  PROVE \E y \in S : Same(x, y)
  BY <1>1, <1>3 DEF Same
<1>11. ASSUME NEW c \in T, c.kind = "calls"
       PROVE  c \in S /\ Lacks(T, c) \subseteq Lacks(S, c) /\ (c.turn \in ids => Lacks(T, c) = {})
  <2>1. c \in S
    BY <1>3, <1>11
  <2>2. Lacks(T, c) \subseteq Lacks(S, c)
    BY DEF Lacks
  <2>3. ASSUME c.turn \in ids, Lacks(T, c) # {}  PROVE FALSE
    <3>1. Lacks(S, c) # {}
      BY <2>2, <2>3
    <3>2. c \in Lacking(S, ids)
      BY <1>11, <2>1, <2>3, <3>1 DEF Lacking
    <3>3. Fix(S, c) \in T
      BY <3>2 DEF Fixes
    <3>4. IsResult(Fix(S, c)) /\ Same(Fix(S, c), c) /\ Fix(S, c).uses = Lacks(S, c)
      BY <1>2, <3>2 DEF IsResult, Same
    <3>5. \A u \in Lacks(T, c) : u \notin Lacks(S, c)
      BY <3>3, <3>4 DEF Lacks
    <3> QED
      BY <2>2, <2>3, <3>5
  <2> QED
    BY <2>1, <2>2, <2>3
<1> HIDE DEF T
<1>12. Sound(T)
  BY <1>5, <1>6, <1>7, <1>9 DEF Sound
<1> QED
  BY <1>4, <1>10, <1>11, <1>12 DEF T

(* A repaired transcript is good, and answers every call of those turns.   *)
LEMMA RepairGood ==
  ASSUME NEW m \in Seq(Message), Good(m), NEW ids
  PROVE  LET r == Repair(m, ids) IN
         /\ r \in Seq(Message) /\ Good(r) /\ Range(m) \subseteq Range(r)
         /\ \A x \in Range(r) : \E y \in Range(m) : Same(x, y)
         /\ \A c \in Range(r) : c.kind = "calls" =>
              /\ c \in Range(m) /\ Lacks(Range(r), c) \subseteq Lacks(Range(m), c)
              /\ c.turn \in ids => Lacks(Range(r), c) = {}
<1>1. PICK r : r = Repair(m, ids)
  OBVIOUS
<1>2. r \in Seq(Message) /\ Sorted(r) /\ Range(r) = Range(m) \cup Fixes(Range(m), ids)
  BY <1>1, RepairIs
<1>3. PICK S : S = Range(m)
  OBVIOUS
<1>4. S \subseteq Message /\ Sound(S)
  BY <1>3, RangeIs DEF Good
<1>5. PICK T : T = S \cup Fixes(S, ids)
  OBVIOUS
<1>6. /\ Sound(T)
      /\ \A x \in T : \E y \in S : Same(x, y)
      /\ \A c \in T : c.kind = "calls" =>
           /\ c \in S /\ Lacks(T, c) \subseteq Lacks(S, c)
           /\ c.turn \in ids => Lacks(T, c) = {}
  BY <1>4, <1>5, FixesSound
<1>7. Range(r) = T
  BY <1>2, <1>3, <1>5
<1> QED
  BY <1>1, <1>2, <1>3, <1>5, <1>6, <1>7 DEF Good

-----------------------------------------------------------------------------
(* What the reducers make of a record: a good transcript, and no call of a *)
(* turn that is over without its answers.                                  *)
Whole(r) ==
  /\ Good(r.messages)
  /\ \A m \in Range(r.messages) :
       m.kind = "calls" /\ ~IsRunning(r, m.turn) => Lacks(Range(r.messages), m) = {}

(* No messages are good.                                                   *)
LEMMA NoMessages == << >> \in Seq(Message) /\ Range(<< >>) = {} /\ Good(<< >>)
<1>1. Range(<< >>) = {} /\ DOMAIN << >> = {}
  BY DEF Range
<1> QED
  BY <1>1 DEF Good, Sorted, Sound, Sole, Timed, Owned, Apart

(* A record with the messages of another, of which no more turns run.      *)
LEMMA WholeKept ==
  ASSUME NEW r, NEW q, Whole(r), q.messages = r.messages, \A id : IsRunning(r, id) => IsRunning(q, id)
  PROVE  Whole(q)
BY DEF Whole

(* A record without messages.                                              *)
LEMMA WholeEmpty ==
  ASSUME NEW q, q.messages = << >>
  PROVE  Whole(q)
BY NoMessages DEF Whole

(* A call and what it lacks, with results of other steps.                  *)
LEMMA LacksApart ==
  ASSUME NEW S, NEW P, NEW c, \A p \in P : ~Same(p, c)
  PROVE  Lacks(S \cup P, c) = Lacks(S, c)
BY DEF Lacks

(* The record of a turn that starts.                                       *)
LEMMA WholeStarted ==
  ASSUME NEW r \in Record, Whole(r), NEW id \in TurnId, \A m \in Range(r.messages) : m.turn < id
  PROVE  /\ Whole(Started(r, id))
         /\ Started(r, id).messages = Append(r.messages, UserMessage(id))
         /\ Range(Started(r, id).messages) = Range(r.messages) \cup {UserMessage(id)}
<1>1. r.messages \in Seq(Message) /\ r.turns \in Seq(PersistedTurn)
  BY RecordIs
<1> DEFINE u == UserMessage(id)
<1>2. u \in Message /\ u.turn = id /\ u.kind = "user" /\ u.step = 0
  BY SessionAssumption DEF UserMessage, Message
<1> HIDE DEF u
<1>3. /\ <<u>> \in Seq(Message) /\ Range(<<u>>) = {u} /\ r.messages \o <<u>> = Append(r.messages, u)
      /\ id \in Nat /\ \A m \in Range(r.messages) : m.turn \in Nat /\ m.step \in Nat
  <2>1. <<u>> \in Seq(Message) /\ DOMAIN <<u>> = {1} /\ <<u>>[1] = u /\ r.messages \o <<u>> = Append(r.messages, u)
    BY <1>1, <1>2
  <2>2. Range(<<u>>) = {u}
    BY <2>1 DEF Range
  <2>3. id \in Nat
    BY SessionAssumption DEF TurnId
  <2> QED
    BY <1>1, <2>1, <2>2, <2>3, RangeIs, MessageIs
<1>4. u \notin Range(r.messages) /\ \A m \in Range(r.messages) : Follow(m, u) /\ ~Same(m, u)
  BY <1>2, <1>3 DEF Follow, Same
<1>5. Started(r, id).messages = Append(r.messages, u)
  <2>1. AppendUnique(r.messages, <<u>>) = r.messages \o <<u>>
    <3>1. PICK t, q : t = r.messages /\ q = <<u>>
      OBVIOUS
    <3>2. t \in Seq(Message) /\ q \in Seq(Message) /\ Range(q) \cap Range(t) = {}
      BY <1>1, <1>3, <1>4, <3>1
    <3> QED
      BY <3>1, <3>2, AppendUniqueIs
  <2> QED
    BY <1>3, <2>1, StartedIs DEF u
<1> DEFINE S == Range(r.messages)
           T == S \cup {u}
<1>6. Sorted(Append(r.messages, u)) /\ Range(Append(r.messages, u)) = T
  BY <1>1, <1>2, <1>4, SortedAppend DEF Whole, Good
<1>7. Sound(S)
  BY DEF Whole, Good
<1>8. Sound(T)
  BY <1>2, <1>7 DEF Sound, Sole, Timed, Owned, Apart, IsResult
<1>9. ASSUME NEW m \in T, m.kind = "calls", ~IsRunning(Started(r, id), m.turn)
      PROVE  Lacks(T, m) = {}
  <2>1. m \in S
    BY <1>2, <1>9
  <2>2. ~IsRunning(r, m.turn)
    <3>1. Started(r, id).turns = Append(r.turns, NewEntry(r, id)) /\ NewEntry(r, id) \in PersistedTurn
      <4>1. r.agent \in Agent
        BY RecordIs
      <4> QED
        BY <4>1, StartedIs DEF NewEntry, PersistedTurn, Status
    <3>2. \A i \in DOMAIN r.turns : i \in DOMAIN Started(r, id).turns /\ Started(r, id).turns[i] = r.turns[i]
      BY <1>1, <3>1
    <3> QED
      BY <1>9, <3>2 DEF IsRunning
  <2>3. Lacks(S, m) = {}
    BY <1>9, <2>1, <2>2 DEF Whole
  <2>4. \A p \in {u} : ~Same(p, m)
    BY <1>4, <2>1 DEF Same
  <2> QED
    BY <2>3, <2>4, LacksApart
<1> QED
  BY <1>5, <1>6, <1>8, <1>9 DEF Whole, Good, u

(* The record of a resumption: what was running is repaired.               *)
LEMMA WholeRepaired ==
  ASSUME NEW r \in Record, Whole(r)
  PROVE  /\ Whole(Repaired(r))
         /\ \A x \in Range(Repaired(r).messages) : \E y \in Range(r.messages) : Same(x, y)
<1> DEFINE m == r.messages
           ids == RunningTurns(r)
<1>1. PICK n : n = Repair(m, ids)
  OBVIOUS
<1>2. Repaired(r).messages = n
  BY <1>1, RepairedIs
<1>3. m \in Seq(Message) /\ Good(m)
  BY RecordIs DEF Whole
<1>4. /\ Good(n)
      /\ \A x \in Range(n) : \E y \in Range(m) : Same(x, y)
      /\ \A c \in Range(n) : c.kind = "calls" =>
           /\ c \in Range(m) /\ Lacks(Range(n), c) \subseteq Lacks(Range(m), c)
           /\ c.turn \in ids => Lacks(Range(n), c) = {}
  <2> HIDE DEF m, ids
  <2> QED
    BY <1>1, <1>3, RepairGood
<1>5. ASSUME NEW c \in Range(n), c.kind = "calls"  PROVE Lacks(Range(n), c) = {}
  <2>1. CASE c.turn \in ids
    BY <1>4, <1>5, <2>1
  <2>2. CASE c.turn \notin ids
    <3>1. ~IsRunning(r, c.turn)
      BY <2>2 DEF IsRunning, RunningTurns, Range
    <3> QED
      BY <1>4, <1>5, <3>1 DEF Whole
  <2> QED
    BY <2>1, <2>2
<1> QED
  BY <1>2, <1>4, <1>5 DEF Whole

(* The record of a checkpoint or a handoff of turn id, which runs.         *)
LEMMA WholeSaved ==
  ASSUME NEW r \in Record, Whole(r), NEW p \in Seq(Message), NEW id, IsRunning(r, id),
         NEW q, q.messages = AppendUnique(r.messages, p), q.turns = r.turns,
         Good(AppendUnique(r.messages, p)), \A x \in Range(p) : x.turn = id
  PROVE  Whole(q) /\ Range(q.messages) = Range(r.messages) \cup Range(p)
<1>1. r.messages \in Seq(Message)
  BY RecordIs
<1>2. Range(q.messages) = Range(r.messages) \cup Range(p)
  <2>1. PICK t \in Seq(Message) : t = r.messages
    BY <1>1
  <2>2. Range(AppendUnique(t, p)) = Range(t) \cup Range(p)
    BY AppendUniqueIs
  <2> QED
    BY <2>1, <2>2, Zenon
<1>3. ASSUME NEW c \in Range(q.messages), c.kind = "calls", ~IsRunning(q, c.turn)
      PROVE  Lacks(Range(q.messages), c) = {}
  <2>1. ~IsRunning(r, c.turn)
    BY <1>3 DEF IsRunning
  <2>2. c \in Range(r.messages) /\ \A x \in Range(p) : ~Same(x, c)
    BY <1>2, <1>3, <2>1 DEF Same
  <2>3. Lacks(Range(r.messages), c) = {}
    BY <1>3, <2>1, <2>2 DEF Whole
  <2>4. PICK S, P : S = Range(r.messages) /\ P = Range(p)
    OBVIOUS
  <2>5. \A x \in P : ~Same(x, c)
    BY <2>2, <2>4
  <2>6. Lacks(S \cup P, c) = Lacks(S, c)
    BY <2>5, LacksApart
  <2> QED
    BY <1>2, <2>3, <2>4, <2>6
<1> QED
  BY <1>2, <1>3 DEF Whole

(* The record of turn id when it ends: it is repaired.                     *)
LEMMA WholeFinished ==
  ASSUME NEW r \in Record, Whole(r), NEW p \in Seq(Message), NEW id,
         NEW q, q.messages = Repair(AppendUnique(r.messages, p), {id}),
         \A x : x # id /\ IsRunning(r, x) => IsRunning(q, x),
         Good(AppendUnique(r.messages, p)), \A x \in Range(p) : x.turn = id
  PROVE  /\ Whole(q)
         /\ \A x \in Range(q.messages) : \E y \in Range(r.messages) \cup Range(p) : Same(x, y)
         /\ Range(p) \subseteq Range(q.messages)
<1>1. PICK m : m = AppendUnique(r.messages, p)
  OBVIOUS
<1>2. r.messages \in Seq(Message)
  BY RecordIs
<1>3. m \in Seq(Message) /\ Good(m) /\ Range(m) = Range(r.messages) \cup Range(p)
  BY <1>1, <1>2, AppendUniqueIs
<1>4. PICK n : n = Repair(m, {id})
  OBVIOUS
<1>5. q.messages = n
  BY <1>1, <1>4
<1>6. /\ Good(n) /\ Range(m) \subseteq Range(n)
      /\ \A x \in Range(n) : \E y \in Range(m) : Same(x, y)
      /\ \A c \in Range(n) : c.kind = "calls" =>
           /\ c \in Range(m) /\ Lacks(Range(n), c) \subseteq Lacks(Range(m), c)
           /\ c.turn \in {id} => Lacks(Range(n), c) = {}
  BY <1>3, <1>4, RepairGood
<1>7. ASSUME NEW c \in Range(n), c.kind = "calls", ~IsRunning(q, c.turn)
      PROVE  Lacks(Range(n), c) = {}
  <2>1. CASE c.turn = id
    BY <1>6, <1>7, <2>1
  <2>2. CASE c.turn # id
    <3>1. ~IsRunning(r, c.turn)
      BY <1>7, <2>2
    <3>2. c \in Range(r.messages) /\ \A x \in Range(p) : ~Same(x, c)
      BY <1>3, <1>6, <1>7, <2>2 DEF Same
    <3>3. Lacks(Range(r.messages), c) = {}
      BY <1>7, <3>1, <3>2 DEF Whole
    <3>4. Lacks(Range(m), c) = {}
      <4>1. PICK S, P : S = Range(r.messages) /\ P = Range(p)
        OBVIOUS
      <4>2. \A x \in P : ~Same(x, c)
        BY <3>2, <4>1
      <4>3. Lacks(S \cup P, c) = Lacks(S, c)
        BY <4>2, LacksApart
      <4> QED
        BY <1>3, <3>3, <4>1, <4>3
    <3> QED
      BY <1>6, <1>7, <3>4
  <2> QED
    BY <2>1, <2>2
<1> QED
  BY <1>3, <1>5, <1>6, <1>7 DEF Whole

-----------------------------------------------------------------------------
(* What a loop adds to a good transcript.                                  *)

(* One message.                                                            *)
LEMMA OneMessage ==
  ASSUME NEW x \in Message
  PROVE  /\ <<x>> \in Seq(Message) /\ Range(<<x>>) = {x} /\ Sorted(<<x>>) /\ Last(<<x>>) = x
         /\ \A t \in Seq(Message) : t \o <<x>> = Append(t, x)
<1>1. <<x>> \in Seq(Message) /\ DOMAIN <<x>> = {1} /\ <<x>>[1] = x /\ Len(<<x>>) = 1
  OBVIOUS
<1>2. Range(<<x>>) = {x} /\ Sorted(<<x>>) /\ Last(<<x>>) = x
  BY <1>1 DEF Range, Sorted, Last
<1>3. \A t \in Seq(Message) : t \o <<x>> = Append(t, x)
  OBVIOUS
<1> QED
  BY <1>1, <1>2, <1>3

(* Two transcripts, whatever their order.                                  *)
LEMMA BothIs ==
  ASSUME NEW s \in Seq(Message), NEW t \in Seq(Message)
  PROVE  s \o t \in Seq(Message) /\ Range(s \o t) = Range(s) \cup Range(t)
BY ConcatIs

(* A transcript with one message more.                                     *)
LEMMA AppendIs ==
  ASSUME NEW s \in Seq(Message), NEW x \in Message
  PROVE  /\ Append(s, x) \in Seq(Message) /\ Range(Append(s, x)) = Range(s) \cup {x}
         /\ Append(s, x) # << >> /\ Last(Append(s, x)) = x /\ Append(s, x) = s \o <<x>>
<1>1. Append(s, x) \in Seq(Message) /\ Len(Append(s, x)) = Len(s) + 1 /\ Len(s) \in Nat
      /\ Append(s, x)[Len(s) + 1] = x
  OBVIOUS
<1>2. Append(s, x) # << >> /\ Last(Append(s, x)) = x
  BY <1>1 DEF Last
<1>3. <<x>> \in Seq(Message) /\ Range(<<x>>) = {x} /\ Append(s, x) = s \o <<x>>
  BY OneMessage
<1>4. Range(s \o <<x>>) = Range(s) \cup Range(<<x>>)
  BY <1>3, BothIs
<1> QED
  BY <1>1, <1>2, <1>3, <1>4

(* One message more after two transcripts is one more after the second.   *)
LEMMA AppendOfBoth ==
  ASSUME NEW s \in Seq(Message), NEW t \in Seq(Message), NEW x \in Message
  PROVE  Append(s \o t, x) = s \o Append(t, x)
OBVIOUS

(* The messages of t are not after the step of turn id.                    *)
UpToStep(t, id, step) == \A y \in Range(t) : y.turn <= id /\ (y.turn = id => y.step <= step)

(* The calls of a new step.                                                *)
LEMMA GoodCalls ==
  ASSUME NEW t \in Seq(Message), Good(t), NEW c \in Message, c.kind = "calls", c.step # 0,
         UpToStep(t, c.turn, c.step - 1)
  PROVE  /\ AppendUnique(t, <<c>>) = t \o <<c>> /\ Good(t \o <<c>>) /\ c \notin Range(t)
         /\ \A y \in Range(t) : ~Same(y, c)
<1>1. c.step \in Nat /\ c.turn \in Nat /\ \A y \in Range(t) : y.turn \in Nat /\ y.step \in Nat
  BY RangeIs, MessageIs
<1>2. \A y \in Range(t) : Follow(y, c) /\ ~Same(y, c)
  BY <1>1 DEF UpToStep, Follow, Same
<1>3. c \notin Range(t)
  BY <1>2 DEF Same
<1>4. <<c>> \in Seq(Message) /\ Range(<<c>>) = {c} /\ t \o <<c>> = Append(t, c)
  BY OneMessage
<1>5. Sorted(t \o <<c>>) /\ Range(t \o <<c>>) = Range(t) \cup {c}
  <2>1. Sorted(t) /\ \A y \in Range(t) : Follow(y, c)
    BY <1>2 DEF Good
  <2>2. Sorted(Append(t, c)) /\ Range(Append(t, c)) = Range(t) \cup {c}
    BY <2>1, SortedAppend
  <2> QED
    BY <1>4, <2>2
<1>6. Sound(Range(t) \cup {c})
  <2>1. Sound(Range(t)) /\ ~IsResult(c)
    BY DEF Good, IsResult
  <2> QED
    BY <1>2, <2>1 DEF Sound, Sole, Timed, Owned, Apart, Same
<1>7. AppendUnique(t, <<c>>) = t \o <<c>>
  <2>1. PICK q : q = <<c>>
    OBVIOUS
  <2>2. q \in Seq(Message) /\ Range(q) \cap Range(t) = {}
    BY <1>3, <1>4, <2>1
  <2> QED
    BY <2>1, <2>2, AppendUniqueIs
<1> QED
  BY <1>2, <1>3, <1>5, <1>6, <1>7 DEF Good

(* Results of the last calls, of which none is there.                      *)
LEMMA GoodResults ==
  ASSUME NEW t \in Seq(Message), Good(t), NEW c \in Range(t), c.kind = "calls",
         UpToStep(t, c.turn, c.step), \A y \in Range(t) : Same(y, c) => y.kind = "calls",
         NEW q \in Seq(Message), Sorted(q),
         \A x \in Range(q) : IsResult(x) /\ Same(x, c) /\ x.uses # {} /\ x.uses \subseteq c.uses,
         \A x, y \in Range(q) : x # y => x.uses \cap y.uses = {}
  PROVE  AppendUnique(t, q) = t \o q /\ Good(t \o q) /\ Range(q) \cap Range(t) = {}
<1>1. /\ c \in Message
      /\ \A y \in Range(t) \cup Range(q) : /\ y.turn \in Nat /\ y.step \in Nat /\ Rank(y) \in {0, 1, 2}
                                           /\ Rank(y) = 0 <=> y.kind \in {"user", "calls"}
                                           /\ Rank(y) = 1 <=> IsResult(y)
  BY RangeIs, MessageIs
<1>2. \A y \in Range(t), x \in Range(q) : y # x
  BY DEF IsResult
<1>3. \A y \in Range(t), x \in Range(q) : Follow(y, x)
  <2> TAKE y \in Range(t), x \in Range(q)
  <2>1. x.turn = c.turn /\ x.step = c.step /\ Rank(x) = 1 /\ c.turn \in Nat /\ c.step \in Nat
    BY <1>1 DEF Same
  <2>2. y.turn < c.turn \/ (y.turn = c.turn /\ y.step < c.step) \/ Same(y, c)
    BY <1>1, <2>1 DEF UpToStep, Same
  <2>3. Same(y, c) => Rank(y) = 0
    BY <1>1
  <2> QED
    BY <1>2, <2>1, <2>2, <2>3 DEF Follow, Same
<1>4. Sorted(t \o q) /\ Range(t \o q) = Range(t) \cup Range(q)
  BY <1>3, SortedConcat DEF Good
<1>5. Range(q) \cap Range(t) = {}
  BY <1>2
<1>6. Sound(Range(t) \cup Range(q))
  <2> DEFINE S == Range(t)
             P == Range(q)
  <2>1. Sole(S) /\ Timed(S) /\ Owned(S) /\ Apart(S)
    BY DEF Good, Sound
  <2>2. \A x \in P : x.kind # "calls" /\ x.kind # "user" /\ IsResult(x)
    BY DEF IsResult
  <2>3. Sole(S \cup P) /\ Timed(S \cup P)
    BY <2>1, <2>2 DEF Sole, Timed
  <2>4. Owned(S \cup P)
    BY <2>1, <2>2 DEF Owned, Same
  <2>5. \A y \in S, x \in P : IsResult(y) => ~Same(y, x)
    BY DEF Same, IsResult
  <2>6. Apart(S \cup P)
    <3> SUFFICES ASSUME NEW m \in S \cup P, NEW n \in S \cup P, IsResult(m), IsResult(n), Same(m, n), m # n
                 PROVE  m.uses \cap n.uses = {}
      BY DEF Apart
    <3>1. CASE m \in S /\ n \in S
      BY <2>1, <3>1 DEF Apart
    <3>2. CASE m \in P /\ n \in P
      BY <3>2
    <3>3. CASE m \in S /\ n \in P
      BY <2>5, <3>3
    <3>4. CASE m \in P /\ n \in S
      BY <2>5, <3>4 DEF Same
    <3> QED
      BY <3>1, <3>2, <3>3, <3>4
  <2> QED
    BY <2>3, <2>4, <2>6 DEF Sound
<1>7. AppendUnique(t, q) = t \o q
  BY <1>5, AppendUniqueIs
<1> QED
  BY <1>4, <1>5, <1>6, <1>7 DEF Good

(* A text of the last step.                                                *)
LEMMA GoodText ==
  ASSUME NEW t \in Seq(Message), Good(t), NEW x \in Message, x.kind = "text", UpToStep(t, x.turn, x.step)
  PROVE  Good(AppendUnique(t, <<x>>))
<1>1. <<x>> \in Seq(Message) /\ Range(<<x>>) = {x} /\ t \o <<x>> = Append(t, x)
  BY OneMessage
<1>2. CASE x \in Range(t)
  <2>1. PICK q : q = <<x>>
    OBVIOUS
  <2>2. q \in Seq(Message) /\ Range(q) \subseteq Range(t)
    BY <1>1, <1>2, <2>1
  <2> QED
    BY <2>1, <2>2, AppendUniqueIs
<1>3. CASE x \notin Range(t)
  <2>0. \A y \in Range(t) : y \in Message
    BY RangeIs
  <2>1. x.step \in Nat /\ x.turn \in Nat /\ Rank(x) = 2
        /\ \A y \in Range(t) : y.turn \in Nat /\ y.step \in Nat /\ Rank(y) \in {0, 1, 2}
    BY <2>0, MessageIs
  <2>2. \A y \in Range(t) : Follow(y, x)
    BY <1>3, <2>1 DEF UpToStep, Follow
  <2>3. Sorted(t \o <<x>>) /\ Range(t \o <<x>>) = Range(t) \cup {x}
    <3>1. Sorted(Append(t, x)) /\ Range(Append(t, x)) = Range(t) \cup {x}
      BY <2>2, SortedAppend DEF Good
    <3> QED
      BY <1>1, <3>1, Zenon
  <2>4. Sound(Range(t) \cup {x})
    <3>1. Sound(Range(t)) /\ ~IsResult(x)
      BY DEF Good, IsResult
    <3> QED
      BY <3>1 DEF Sound, Sole, Timed, Owned, Apart, Same
  <2>5. AppendUnique(t, <<x>>) = t \o <<x>>
    <3>1. PICK q : q = <<x>>
      OBVIOUS
    <3>2. q \in Seq(Message) /\ Range(q) \cap Range(t) = {}
      BY <1>1, <1>3, <3>1
    <3> QED
      BY <3>1, <3>2, AppendUniqueIs
  <2> QED
    BY <2>3, <2>4, <2>5 DEF Good
<1> QED
  BY <1>2, <1>3

-----------------------------------------------------------------------------
(* What is invariant of the transcripts.                                   *)

(* The transcript of the turn's session, and the messages of its step.     *)
M == db[turn.session].messages
Key(m) == m.turn = turn.id /\ m.step = turn.step

(* The store: every record whole, and no message from the future.          *)
Texts ==
  \A s \in Session :
    /\ Whole(db[s])
    /\ \A m \in Range(db[s].messages) :
         /\ m.turn <= drawn.turns
         /\ m.turn = turn.id => turn.pc # "start" /\ s = turn.session /\ m.step <= turn.step

(* What the coordinator has still to write: it fits the store whenever it  *)
(* comes, and only the head of the tail has not been written.              *)
Unsent ==
  Written =>
    /\ Good(AppendUnique(M, pending))
    /\ \A m \in Range(pending) : m.turn = turn.id /\ m.step <= turn.step
    /\ \A i \in DOMAIN chain : chain[i].kind # "finish" => i = 1 /\ pending = chain[1].messages
    /\ turn.outcome = "completed" /\ turn.pc = "run" =>
         chain = << >> /\ pending = << >> /\ Last(view) = Say("text", {})

(* A record after a step: whole, each message in place of one it had, or   *)
(* the turn's.                                                             *)
Heir(s) ==
  /\ Whole(db'[s])
  /\ \A x \in Range(db'[s].messages) :
       \/ \E y \in Range(db[s].messages) : Same(x, y)
       \/ InTurn /\ s = turn.session /\ x.turn = turn.id /\ x.step <= turn.step /\ turn'.pc # "start"
Heirs == \A s \in Session : Heir(s)

(* A record that keeps its messages, and lets its turns run.               *)
LEMMA HeirKept ==
  ASSUME NEW s, Whole(db[s]), db'[s].messages = db[s].messages,
         \A id : IsRunning(db[s], id) => IsRunning(db'[s], id)
  PROVE  Heir(s)
<1>1. PICK r, q : r = db[s] /\ q = db'[s]
  OBVIOUS
<1>2. Whole(q)
  BY <1>1, WholeKept
<1> QED
  BY <1>1, <1>2 DEF Heir, Same

(* A record that loses its messages.                                       *)
LEMMA HeirEmpty ==
  ASSUME NEW s, db'[s].messages = << >>
  PROVE  Heir(s)
<1>1. PICK q : q = db'[s]
  OBVIOUS
<1>2. Whole(q) /\ Range(q.messages) = {}
  BY <1>1, WholeEmpty, NoMessages
<1> QED
  BY <1>1, <1>2 DEF Heir

(* A record that is repaired.                                              *)
LEMMA HeirRepaired ==
  ASSUME NEW s, db[s] \in Record, Whole(db[s]), db'[s] = Repaired(db[s])
  PROVE  Heir(s)
<1>1. PICK r, q : r = db[s] /\ q = db'[s]
  OBVIOUS
<1>2. Whole(q) /\ \A x \in Range(q.messages) : \E y \in Range(r.messages) : Same(x, y)
  BY <1>1, WholeRepaired
<1> QED
  BY <1>1, <1>2 DEF Heir

(* A step that leaves the store leaves every record its heir.              *)
LEMMA HeirsSame ==
  ASSUME Texts, db' = db
  PROVE  Heirs
BY HeirKept DEF Texts, Heirs

(* One record changes, or none.                                            *)
LEMMA HeirsOne ==
  ASSUME Texts, NEW s \in Session, Heir(s), \A t \in Session \ {s} : db'[t] = db[t]
  PROVE  Heirs
BY HeirKept DEF Texts, Heirs

(* Materialize writes what was there already.                              *)
LEMMA MaterializeHeirs ==
  ASSUME IInv, Texts, Materialize
  PROVE  db' = db /\ Heirs
<1>1. TStore /\ TCurrent
  BY TypeParts DEF IInv
<1>2. current.id \in Session
  BY <1>1 DEF TCurrent
<1>3. \/ db' = db
      \/ current.id \notin stored /\ db' = [db EXCEPT ![current.id] = EmptyRecord]
  BY Zenon DEF Materialize, Committed, Refused, Lost, Late, Write, storeVars, CanCreate
<1>4. current.id \notin stored => db[current.id] = EmptyRecord
  BY <1>2 DEF IInv, TurnsInv
<1>5. db' = db
  BY <1>1, <1>2, <1>3, <1>4 DEF TStore
<1> QED
  BY <1>5, HeirsSame

(* Mutate clears or keeps, and a turn that runs meets no clear.            *)
LEMMA MutateHeirs ==
  ASSUME IInv, Texts, Mutate
  PROVE  Heirs /\ (turn.pc # "idle" => db' = db)
<1>1. Control /\ TStore /\ TCurrent
  BY TypeParts DEF IInv
<1>2. current.id \in Session /\ db[current.id] \in Record
  BY <1>1 DEF TCurrent, TStore
<1>3. cmd.pc = "mutate" /\ (db' = db \/ db' = [db EXCEPT ![current.id] = CommandReducer])
  BY Zenon DEF Mutate, Committed, Refused, Lost, Late, Write, storeVars
<1>4. CASE db' = db
  BY <1>4, HeirsSame
<1>5. CASE cmd.op # "clear" /\ db' = [db EXCEPT ![current.id] = CommandReducer]
  <2>1. db' = db
    BY <1>1, <1>2, <1>5 DEF CommandReducer, TStore
  <2> QED
    BY <2>1, HeirsSame
<1>6. CASE cmd.op = "clear" /\ db' = [db EXCEPT ![current.id] = CommandReducer]
  <2>1. turn.pc = "idle"
    BY <1>1, <1>6 DEF Control
  <2>2. db'[current.id] = Cleared(db[current.id]) /\ \A t \in Session \ {current.id} : db'[t] = db[t]
    BY <1>1, <1>2, <1>6 DEF CommandReducer, TStore
  <2>3. db'[current.id].messages = << >>
    BY <1>2, <2>2, ClearedIs
  <2>4. Heir(current.id)
    BY <2>3, HeirEmpty
  <2> QED
    BY <1>2, <2>1, <2>2, <2>4, HeirsOne
<1> QED
  BY <1>3, <1>4, <1>5, <1>6

(* DeleteCurrent empties a record.                                         *)
LEMMA DeleteCurrentHeirs ==
  ASSUME IInv, Texts, DeleteCurrent
  PROVE  Heirs /\ turn.pc = "idle"
<1>1. TStore /\ TCurrent
  BY TypeParts DEF IInv
<1>2. current.id \in Session /\ turn.pc = "idle"
  BY <1>1 DEF TCurrent, DeleteCurrent, Resting
<1>3. db' = db \/ db' = [db EXCEPT ![current.id] = EmptyRecord]
  BY DEF DeleteCurrent, Lost, storeVars
<1>4. CASE db' = db
  BY <1>2, <1>4, HeirsSame
<1>5. CASE db' = [db EXCEPT ![current.id] = EmptyRecord]
  <2>1. db'[current.id] = EmptyRecord /\ \A t \in Session \ {current.id} : db'[t] = db[t]
    BY <1>1, <1>2, <1>5 DEF TStore
  <2>2. Heir(current.id)
    BY <2>1, HeirEmpty DEF EmptyRecord
  <2> QED
    BY <1>2, <2>1, <2>2, HeirsOne
<1> QED
  BY <1>3, <1>4, <1>5

(* Resume repairs one.                                                     *)
LEMMA ResumeHeirs ==
  ASSUME IInv, Texts, NEW s \in Session, Resume(s)
  PROVE  Heirs /\ turn.pc = "idle"
<1>1. TStore
  BY TypeParts DEF IInv
<1>2. turn.pc = "idle" /\ (db' = db \/ db' = [db EXCEPT ![s] = Repaired(db[s])])
  BY DEF Resume, Resting, Committed, Lost, Late, Write, storeVars
<1>3. CASE db' = db
  BY <1>2, <1>3, HeirsSame
<1>4. CASE db' = [db EXCEPT ![s] = Repaired(db[s])]
  <2>1. db[s] \in Record /\ db'[s] = Repaired(db[s]) /\ \A t \in Session \ {s} : db'[t] = db[t]
    BY <1>1, <1>4 DEF TStore
  <2>2. Heir(s)
    BY <2>1, HeirRepaired DEF Texts
  <2> QED
    BY <1>2, <2>1, <2>2, HeirsOne
<1> QED
  BY <1>2, <1>3, <1>4

(* A command leaves the turn and its loop; while a turn is in progress it  *)
(* leaves the store's messages too.                                        *)
LEMMA CommandsKeep ==
  ASSUME IInv, Texts, Commands
  PROVE  Heirs /\ turn' = turn /\ loopVars' = loopVars /\ (turn.pc # "idle" => db' = db)
<1>1. turn' = turn /\ loopVars' = loopVars
  BY DEF Commands, BeginCommand, OpenForCommand, Materialize, Mutate, AttachForCommand, NewDraft, DeleteCurrent, Resume
<1>2. ASSUME db' = db  PROVE Heirs
  BY <1>2, HeirsSame
<1>3. ASSUME NEW op \in Op, BeginCommand(op)  PROVE db' = db
  BY <1>3 DEF BeginCommand, storeVars
<1>4. ASSUME OpenForCommand \/ AttachForCommand \/ NewDraft  PROVE db' = db
  BY <1>4 DEF OpenForCommand, AttachForCommand, NewDraft, storeVars
<1> QED
  BY <1>1, <1>2, <1>3, <1>4, MaterializeHeirs, MutateHeirs, DeleteCurrentHeirs, ResumeHeirs DEF Commands

(* A turn is written after the messages of the turns before it.            *)
LEMMA StartTurnHeirs ==
  ASSUME IInv, Texts, StartTurn
  PROVE  /\ Heirs
         /\ \/ db' = db
            \/ /\ db' = [db EXCEPT ![turn.session] = Started(db[turn.session], turn.id)]
               /\ Started(db[turn.session], turn.id).messages = Append(M, UserMessage(turn.id))
<1>1. TStore /\ TTurn
  BY TypeParts DEF IInv
<1>2. turn.pc = "start" /\ InTurn /\ turn.session \in Session /\ turn.id \in TurnId /\ db[turn.session] \in Record
  BY TurnIs DEF StartTurn, InTurn
<1> DEFINE r == db[turn.session]
           q == Started(r, turn.id)
<1>3. \/ db' = db
      \/ db' = [db EXCEPT ![turn.session] = q] /\ turn'.pc # "start"
  <2>1. \/ db' = db
        \/ /\ db' = [db EXCEPT ![turn.session] = q]
           /\ \/ turn' = NoTurn
              \/ turn' = [turn EXCEPT !.pc = IF MustAttach THEN "attach" ELSE "create", !.agent = q.agent]
    BY Zenon DEF StartTurn, Committed, Refused, Lost, Late, Write, storeVars, Abandon
  <2>2. turn' = NoTurn => turn'.pc # "start"
    BY DEF NoTurn
  <2>3. turn' = [turn EXCEPT !.pc = IF MustAttach THEN "attach" ELSE "create", !.agent = q.agent] => turn'.pc # "start"
    BY <1>1 DEF TTurn, TurnType
  <2> QED
    BY <2>1, <2>2, <2>3
<1>4. Whole(r) /\ \A m \in Range(r.messages) : m.turn < turn.id
  <2>1. Whole(r) /\ \A m \in Range(r.messages) : m.turn <= drawn.turns /\ m.turn # turn.id
    BY <1>2 DEF Texts
  <2>2. turn.id = drawn.turns /\ turn.id \in Nat
    BY <1>2, TurnTypes DEF IInv, Control
  <2>3. \A m \in Range(r.messages) : m.turn \in Nat
    BY <1>2, RecordIs, RangeIs, MessageIs
  <2> QED
    BY <2>1, <2>2, <2>3
<1>5. /\ Whole(q) /\ q.messages = Append(r.messages, UserMessage(turn.id))
      /\ Range(q.messages) = Range(r.messages) \cup {UserMessage(turn.id)}
  <2> HIDE DEF r
  <2> QED
    BY <1>2, <1>4, WholeStarted DEF r
<1> HIDE DEF q
<1>6. CASE db' = db
  BY <1>6, HeirsSame
<1>7. CASE db' = [db EXCEPT ![turn.session] = q] /\ turn'.pc # "start"
  <2>1. db'[turn.session] = q /\ \A t \in Session \ {turn.session} : db'[t] = db[t]
    BY <1>1, <1>2, <1>7 DEF TStore
  <2>2. UserMessage(turn.id).turn = turn.id /\ UserMessage(turn.id).step <= turn.step
    BY <1>1, SessionAssumption DEF UserMessage, TTurn, TurnType
  <2>3. Heir(turn.session)
    BY <1>2, <1>5, <1>7, <2>1, <2>2 DEF Heir, Same
  <2>4. Heirs
    BY <1>2, <2>1, <2>3, HeirsOne
  <2> QED
    BY <1>5, <1>7, <2>4 DEF q, M
<1> QED
  BY <1>3, <1>6, <1>7

(* The coordinator's operation at the head, and what is pending.           *)
LEMMA HeadSays ==
  ASSUME IInv, Unsent, NEW kind, HeadIs(kind)
  PROVE  /\ InTurn /\ Written /\ turn.session \in Session /\ db[turn.session] \in Record
         /\ M \in Seq(Message) /\ pending \in Seq(Message)
         /\ Good(AppendUnique(M, pending))
         /\ \A m \in Range(pending) : m.turn = turn.id /\ m.step <= turn.step
         /\ kind # "finish" => pending = chain[1].messages
         /\ turn.id \in TurnId
<1>1. turn.pc = "run" \/ Ending
  BY HeadType DEF IInv, Control
<1>2. InTurn /\ Written
  BY <1>1 DEF Ending, InTurn, Written
<1>3. turn.session \in Session /\ db[turn.session] \in Record /\ turn.id \in TurnId
  BY <1>2, TurnIs
<1>4. M \in Seq(Message)
  BY <1>3, RecordIs DEF M
<1>5. pending \in Seq(Message) /\ 1 \in DOMAIN chain /\ chain[1].kind = kind
  BY TypeParts, HeadType DEF IInv, TChain
<1> QED
  BY <1>2, <1>3, <1>4, <1>5 DEF Unsent

(* A checkpoint or a handoff appends what is pending.                      *)
LEMMA SavedHeirs ==
  ASSUME IInv, Texts, Unsent, HeadIs("save") \/ HeadIs("handoff"), turn'.pc # "start",
         NEW q, q.messages = AppendUnique(M, pending), q.turns = db[turn.session].turns,
         IsRunning(db[turn.session], turn.id),
         db' = [db EXCEPT ![turn.session] = q]
  PROVE  Heirs
<1> DEFINE s == turn.session
<1>1. TStore
  BY TypeParts DEF IInv
<1>2. /\ InTurn /\ Written /\ s \in Session /\ db[s] \in Record
      /\ M \in Seq(Message) /\ pending \in Seq(Message)
      /\ Good(AppendUnique(M, pending))
      /\ \A m \in Range(pending) : m.turn = turn.id /\ m.step <= turn.step
  BY HeadSays
<1>3. db'[s] = q /\ \A t \in Session \ {s} : db'[t] = db[t]
  BY <1>1, <1>2 DEF TStore
<1>4. Whole(q) /\ Range(q.messages) = Range(M) \cup Range(pending)
  <2>1. PICK r, p, id : r = db[s] /\ p = pending /\ id = turn.id
    OBVIOUS
  <2>2. /\ r \in Record /\ Whole(r) /\ p \in Seq(Message) /\ IsRunning(r, id)
        /\ q.messages = AppendUnique(r.messages, p) /\ q.turns = r.turns
        /\ Good(AppendUnique(r.messages, p)) /\ \A x \in Range(p) : x.turn = id
    BY <1>2, <2>1 DEF Texts, M
  <2>3. Whole(q) /\ Range(q.messages) = Range(r.messages) \cup Range(p)
    BY <2>2, WholeSaved
  <2> QED
    BY <2>1, <2>3 DEF M
<1>5. Heir(s)
  BY <1>2, <1>3, <1>4 DEF Heir, M, Same
<1> QED
  BY <1>2, <1>3, <1>5, HeirsOne

(* CommitSave does, or leaves the store.                                   *)
LEMMA CommitSaveHeirs ==
  ASSUME IInv, Texts, Unsent, CommitSave
  PROVE  /\ Heirs /\ turn'.pc = turn.pc
         /\ \/ db' = db
            \/ /\ IsRunning(db[turn.session], turn.id)
               /\ db'[turn.session].messages = AppendUnique(M, pending)
<1>1. TStore /\ TTurn
  BY TypeParts DEF IInv
<1>2. HeadIs("save") /\ turn'.pc = turn.pc
  BY <1>1 DEF CommitSave, LoopFails, TTurn, TurnType
<1>3. /\ turn.session \in Session /\ db[turn.session] \in Record /\ InTurn /\ Written
      /\ pending = chain[1].messages /\ pending \in Seq(Message)
  BY <1>2, HeadSays
<1> DEFINE q == [db[turn.session] EXCEPT !.messages = AppendUnique(@, chain[1].messages)]
<1>4. db' = db \/ (IsRunning(db[turn.session], turn.id) /\ db' = [db EXCEPT ![turn.session] = q])
  <2>1. (IsRunning(db[turn.session], turn.id) /\ Write(turn.session, q)) \/ UNCHANGED storeVars
    BY Zenon DEF CommitSave, Committed, Refused, Lost, Late
  <2> QED
    BY <2>1, Zenon DEF Write, storeVars
<1>5. q.messages = AppendUnique(M, pending) /\ q.turns = db[turn.session].turns
  <2>1. PICK r \in Record, m \in Seq(Message) : r = db[turn.session] /\ m = chain[1].messages
    BY <1>3
  <2>2. PICK v : v = AppendUnique(r.messages, m)
    OBVIOUS
  <2>3. [r EXCEPT !.messages = v].messages = v /\ [r EXCEPT !.messages = v].turns = r.turns
    BY <2>1 DEF Record
  <2>4. q = [r EXCEPT !.messages = v]
    BY <2>1, <2>2, Zenon
  <2> QED
    BY <1>3, <2>1, <2>2, <2>3, <2>4, Zenon DEF M
<1> HIDE DEF q
<1>6. CASE db' = db
  BY <1>2, <1>6, HeirsSame
<1>7. CASE IsRunning(db[turn.session], turn.id) /\ db' = [db EXCEPT ![turn.session] = q]
  <2>1. Heirs
    BY <1>2, <1>3, <1>5, <1>7, SavedHeirs DEF Written
  <2>2. db'[turn.session] = q
    BY <1>1, <1>3, <1>7 DEF TStore
  <2> QED
    BY <1>2, <1>5, <1>7, <2>1, <2>2
<1> QED
  BY <1>4, <1>6, <1>7

(* So does CommitHandoff.                                                  *)
LEMMA CommitHandoffHeirs ==
  ASSUME IInv, Texts, Unsent, CommitHandoff
  PROVE  /\ Heirs /\ turn'.pc = turn.pc
         /\ \/ db' = db
            \/ /\ IsRunning(db[turn.session], turn.id)
               /\ db'[turn.session].messages = AppendUnique(M, pending)
<1>1. TStore /\ TTurn
  BY TypeParts DEF IInv
<1>2. HeadIs("handoff") /\ turn'.pc = turn.pc
  BY <1>1 DEF CommitHandoff, LoopFails, TTurn, TurnType
<1>3. /\ turn.session \in Session /\ db[turn.session] \in Record /\ InTurn /\ Written
      /\ pending = chain[1].messages /\ pending \in Seq(Message)
  BY <1>2, HeadSays
<1> DEFINE q == [db[turn.session] EXCEPT !.messages = AppendUnique(@, chain[1].messages), !.agent = "target"]
<1>4. db' = db \/ (IsRunning(db[turn.session], turn.id) /\ db' = [db EXCEPT ![turn.session] = q])
  <2>1. (IsRunning(db[turn.session], turn.id) /\ Write(turn.session, q)) \/ UNCHANGED storeVars
    BY Zenon DEF CommitHandoff, Committed, Refused, Lost, Late
  <2> QED
    BY <2>1, Zenon DEF Write, storeVars
<1>5. q.messages = AppendUnique(M, pending) /\ q.turns = db[turn.session].turns
  <2>1. PICK r \in Record, m \in Seq(Message) : r = db[turn.session] /\ m = chain[1].messages
    BY <1>3
  <2>2. PICK v : v = AppendUnique(r.messages, m)
    OBVIOUS
  <2>3. [r EXCEPT !.messages = v, !.agent = "target"].messages = v /\ [r EXCEPT !.messages = v, !.agent = "target"].turns = r.turns
    BY <2>1 DEF Record
  <2>4. q = [r EXCEPT !.messages = v, !.agent = "target"]
    BY <2>1, <2>2, Zenon
  <2> QED
    BY <1>3, <2>1, <2>2, <2>3, <2>4, Zenon DEF M
<1> HIDE DEF q
<1>6. CASE db' = db
  BY <1>2, <1>6, HeirsSame
<1>7. CASE IsRunning(db[turn.session], turn.id) /\ db' = [db EXCEPT ![turn.session] = q]
  <2>1. Heirs
    BY <1>2, <1>3, <1>5, <1>7, SavedHeirs DEF Written
  <2>2. db'[turn.session] = q
    BY <1>1, <1>3, <1>7 DEF TStore
  <2> QED
    BY <1>2, <1>5, <1>7, <2>1, <2>2
<1> QED
  BY <1>4, <1>6, <1>7

(* The messages of the record of a turn that ends.                         *)
LEMMA FinishedMessages ==
  ASSUME NEW r \in Record, NEW id \in TurnId, NEW status \in Status, NEW final \in Agent,
         NEW handed \in BOOLEAN, NEW transition \in BOOLEAN, pending \in Seq(Message)
  PROVE  Finished(r, id, status, final, handed, transition).messages = Repair(AppendUnique(r.messages, pending), {id})
<1> DEFINE m == Repair(AppendUnique(r.messages, pending), {id})
           t == EndedTurns(r.turns, id, status, final)
           a == IF handed THEN final ELSE r.agent
           f == Finished(r, id, status, final, handed, transition)
<1>1. m \in Seq(Message) /\ t \in Seq(PersistedTurn) /\ a \in Agent
  BY RecordIs, AppendUniqueType, RepairType, EndedTurnsIs
<1>2. r.phases \in Seq(Phase) /\ EndedPhases(r.phases, id) \in Seq(Phase)
  BY RecordIs, EndedPhasesIs
<1>3. f = With(r, m, t, EndedPhases(r.phases, id), a) \/ f = With(r, m, t, r.phases, a)
  BY DEF Finished, EndedTurns, EndedTurn, EndedPhases, EndedPhase, With
<1> HIDE DEF m, t, a, f
<1>4. f.messages = m
  BY <1>1, <1>2, <1>3, RecordWith
<1> QED
  BY <1>4 DEF f, m

(* The record of a turn that ends.                                         *)
LEMMA FinishedHeir ==
  ASSUME IInv, Texts, Unsent, HeadIs("finish"), turn'.pc # "start",
         NEW status \in Status, NEW final \in Agent, NEW handed \in BOOLEAN, NEW transition \in BOOLEAN,
         db' = [db EXCEPT ![turn.session] =
                  Finished(db[turn.session], turn.id, status, final, handed, transition)]
  PROVE  Heirs /\ Range(pending) \subseteq Range(db'[turn.session].messages)
<1>1. TStore
  BY TypeParts DEF IInv
<1>2. /\ InTurn /\ Written /\ turn.session \in Session /\ db[turn.session] \in Record
      /\ M \in Seq(Message) /\ pending \in Seq(Message) /\ turn.id \in TurnId
      /\ Good(AppendUnique(M, pending))
      /\ \A m \in Range(pending) : m.turn = turn.id /\ m.step <= turn.step
  BY HeadSays
<1>3. PICK r, p, id, q : /\ r = db[turn.session] /\ p = pending /\ id = turn.id
                         /\ q = Finished(db[turn.session], turn.id, status, final, handed, transition)
  OBVIOUS
<1>4. q.messages = Repair(AppendUnique(r.messages, p), {id}) /\ q.turns = EndedTurns(r.turns, id, status, final)
  <2>0. r \in Record /\ id \in TurnId /\ pending \in Seq(Message)
    BY <1>2, <1>3
  <2>1. Finished(r, id, status, final, handed, transition).messages = Repair(AppendUnique(r.messages, pending), {id})
    BY <2>0, FinishedMessages, ZenonT(20)
  <2>2. Finished(r, id, status, final, handed, transition).turns = EndedTurns(r.turns, id, status, final)
    BY <2>0, FinishedTurns
  <2> QED
    BY <1>3, <2>1, <2>2
<1>5. ASSUME NEW x, x # id, IsRunning(r, x)  PROVE IsRunning(q, x)
  <2>1. r.turns \in Seq(PersistedTurn)
    BY <1>2, <1>3, RecordIs
  <2>2. PICK i \in DOMAIN r.turns : r.turns[i].id = x /\ r.turns[i].status = "running"
    BY <1>5 DEF IsRunning
  <2>3. i \in DOMAIN q.turns /\ q.turns[i].id = x /\ q.turns[i].status = "running"
    <3>1. /\ DOMAIN EndedTurns(r.turns, id, status, final) = DOMAIN r.turns
          /\ EndedTurns(r.turns, id, status, final)[i].id = r.turns[i].id
          /\ EndedTurns(r.turns, id, status, final)[i].status = IF r.turns[i].id = id THEN status ELSE r.turns[i].status
      BY <2>1, EndedTurnsIs
    <3> QED
      BY <1>4, <1>5, <2>2, <3>1
  <2> QED
    BY <2>3 DEF IsRunning
<1>6. /\ Whole(q)
      /\ \A x \in Range(q.messages) : \E y \in Range(r.messages) \cup Range(p) : Same(x, y)
      /\ Range(p) \subseteq Range(q.messages)
  <2>1. /\ r \in Record /\ Whole(r) /\ p \in Seq(Message)
        /\ Good(AppendUnique(r.messages, p)) /\ \A x \in Range(p) : x.turn = id
    BY <1>2, <1>3 DEF Texts, M
  <2> QED
    BY <1>4, <1>5, <2>1, WholeFinished
<1>7. db'[turn.session] = q /\ \A t \in Session \ {turn.session} : db'[t] = db[t]
  BY <1>1, <1>2, <1>3 DEF TStore
<1>8. Heir(turn.session)
  <2>1. ASSUME NEW x \in Range(q.messages)
        PROVE  \/ \E y \in Range(r.messages) : Same(x, y)
               \/ x.turn = turn.id /\ x.step <= turn.step
    <3>1. PICK y \in Range(r.messages) \cup Range(p) : Same(x, y)
      BY <1>6
    <3>2. CASE y \in Range(r.messages)
      BY <3>1, <3>2
    <3>3. CASE y \in Range(p)
      BY <1>2, <1>3, <3>1, <3>3 DEF Same
    <3> QED
      BY <3>2, <3>3
  <2> QED
    BY <1>2, <1>3, <1>6, <1>7, <2>1 DEF Heir
<1> QED
  BY <1>2, <1>3, <1>6, <1>7, <1>8, HeirsOne

(* CommitFinish ends the turn, or leaves the store.                        *)
LEMMA CommitFinishHeirs ==
  ASSUME IInv, Texts, Unsent, NEW transition \in BOOLEAN, CommitFinish(transition)
  PROVE  /\ Heirs
         /\ db' = db \/ Range(pending) \subseteq Range(db'[turn.session].messages)
         /\ turn' = NoTurn \/ turn' = [turn EXCEPT !.pc = "refinish"]
<1>1. TTurn
  BY TypeParts DEF IInv
<1>2. HeadIs("finish") /\ (turn' = NoTurn \/ turn' = [turn EXCEPT !.pc = "refinish"])
  BY Zenon DEF CommitFinish, EndTurn
<1>3. turn'.pc # "start"
  BY <1>1, <1>2 DEF NoTurn, TTurn, TurnType
<1>4. InTurn /\ Written /\ db[turn.session] \in Record /\ turn.id \in TurnId
  BY <1>2, HeadSays
<1>5. \/ db' = db
      \/ /\ turn.pc = "finish"
         /\ db' = [db EXCEPT ![turn.session] = Finished(db[turn.session], turn.id, turn.outcome, turn.agent, turn.handed, transition)]
      \/ db' = [db EXCEPT ![turn.session] = Finished(db[turn.session], turn.id, "failed", Initial(db[turn.session], turn.id), FALSE, FALSE)]
  BY Zenon DEF CommitFinish, Committed, Lost, Late, Write, storeVars
<1>6. CASE db' = db
  BY <1>2, <1>6, HeirsSame
<1>7. CASE /\ turn.pc = "finish"
           /\ db' = [db EXCEPT ![turn.session] = Finished(db[turn.session], turn.id, turn.outcome, turn.agent, turn.handed, transition)]
  <2>1. turn.outcome \in Status /\ turn.agent \in Agent /\ turn.handed \in BOOLEAN
    <3>1. turn.outcome \in {"none", "completed", "failed", "cancelled"} /\ turn.agent \in Agent /\ turn.handed \in BOOLEAN
      BY <1>1 DEF TTurn, TurnType
    <3>2. turn.outcome # "none"
      BY <1>7 DEF IInv, Control
    <3> QED
      BY <3>1, <3>2 DEF Status
  <2> QED
    BY <1>2, <1>3, <1>7, <2>1, FinishedHeir
<1>8. CASE db' = [db EXCEPT ![turn.session] = Finished(db[turn.session], turn.id, "failed", Initial(db[turn.session], turn.id), FALSE, FALSE)]
  <2>1. Initial(db[turn.session], turn.id) \in Agent
    <3>1. PICK i \in DOMAIN db[turn.session].turns : db[turn.session].turns[i].id = turn.id
      BY <1>4 DEF IInv, TurnsInv
    <3>2. OfTurn(db[turn.session], turn.id) \in DOMAIN db[turn.session].turns
      BY <3>1 DEF OfTurn
    <3>3. \A k \in DOMAIN db[turn.session].turns : db[turn.session].turns[k] \in PersistedTurn
      BY <1>4, RecordIs
    <3> QED
      BY <3>2, <3>3 DEF Initial, PersistedTurn
  <2>2. "failed" \in Status /\ FALSE \in BOOLEAN
    BY DEF Status
  <2> QED
    BY <1>2, <1>3, <1>8, <2>1, <2>2, FinishedHeir
<1> QED
  BY <1>5, <1>6, <1>7, <1>8

(* Every step leaves heirs.                                                *)
LEMMA NextHeirs ==
  ASSUME IInv, Texts, Unsent, [Next]_vars
  PROVE  Heirs
<1>1. ASSUME db' = db  PROVE Heirs
  BY <1>1, HeirsSame
<1>2. ASSUME Turns  PROVE Heirs
  <2>1. ASSUME BeginTurn \/ OpenForTurn \/ AttachForTurn \/ CreateAgent \/ Answer \/ RejectHandoff \/ SaveHandoff
        PROVE  db' = db
    BY <2>1 DEF BeginTurn, OpenForTurn, AttachForTurn, CreateAgent, Answer, RejectHandoff, SaveHandoff, storeVars
  <2>2. ASSUME NEW uses \in {Calls, {HandoffUse}}, CallTools(uses)  PROVE db' = db
    BY <2>2 DEF CallTools, storeVars
  <2>3. ASSUME NEW outcome \in {"failed", "cancelled"}, End(outcome)  PROVE db' = db
    BY <2>3 DEF End, storeVars
  <2>4. ASSUME NEW u \in Calls, Result(u)  PROVE db' = db
    BY <2>4 DEF Result, storeVars
  <2> QED
    BY <1>1, <1>2, <2>1, <2>2, <2>3, <2>4, StartTurnHeirs DEF Turns
<1>3. ASSUME Settle \/ Crash \/ UNCHANGED vars  PROVE db' = db
  BY <1>3 DEF Settle, Crash, vars, storeVars
<1>4. ASSUME Commits  PROVE Heirs
  BY <1>4, CommitSaveHeirs, CommitHandoffHeirs, CommitFinishHeirs DEF Commits
<1> QED
  BY <1>1, <1>2, <1>3, <1>4, CommandsKeep DEF Next

(* The step of a turn never goes back.                                     *)
LEMMA StepGrows ==
  ASSUME IInv, Texts, [Next]_vars, turn'.id = turn.id, turn.id # 0
  PROVE  turn.step <= turn'.step
<1>1. TTurn
  BY TypeParts DEF IInv
<1>2. turn \in TurnType /\ turn.step \in Nat
  BY <1>1, SessionAssumption DEF TTurn, TurnType
<1>3. ASSUME turn'.step = turn.step \/ turn' = turn  PROVE turn.step <= turn'.step
  BY <1>2, <1>3
<1>4. ASSUME turn' = NoTurn \/ ~InTurn  PROVE FALSE
  BY <1>4 DEF NoTurn, IInv, Control
<1>5. ASSUME Commands \/ UNCHANGED vars  PROVE turn' = turn
  BY <1>5, CommandsKeep DEF vars
<1>6. ASSUME Turns  PROVE turn.step <= turn'.step
  <2>1. ASSUME BeginTurn \/ OpenForTurn  PROVE ~InTurn
    BY <2>1 DEF BeginTurn, OpenForTurn, InTurn
  <2>2. ASSUME StartTurn \/ AttachForTurn  PROVE turn' = NoTurn \/ turn'.step = turn.step
    <3>1. \/ turn' = NoTurn
          \/ turn' = [turn EXCEPT !.pc = "create"]
          \/ turn' = [turn EXCEPT !.pc = IF MustAttach THEN "attach" ELSE "create",
                                  !.agent = Started(db[turn.session], turn.id).agent]
      BY <2>2, Zenon DEF StartTurn, AttachForTurn, Attaches, Abandon
    <3> QED
      BY <1>2, <3>1 DEF TurnType
  <2>3. ASSUME CreateAgent \/ Answer \/ RejectHandoff \/ SaveHandoff  PROVE turn'.step = turn.step
    BY <1>2, <2>3 DEF CreateAgent, Answer, RejectHandoff, SaveHandoff, TurnType
  <2>4. ASSUME NEW uses \in {Calls, {HandoffUse}}, CallTools(uses)  PROVE turn'.step = turn.step + 1
    BY <1>2, <2>4 DEF CallTools, TurnType
  <2>5. ASSUME NEW outcome \in {"failed", "cancelled"}, End(outcome)  PROVE turn'.step = turn.step
    BY <1>2, <2>5 DEF End, TurnType
  <2>6. ASSUME NEW u \in Calls, Result(u)  PROVE turn' = turn
    BY <2>6 DEF Result
  <2> QED
    BY <1>2, <1>3, <1>4, <1>6, <2>1, <2>2, <2>3, <2>4, <2>5, <2>6 DEF Turns
<1>7. ASSUME Settle  PROVE turn'.step = turn.step
  BY <1>2, <1>7 DEF Settle, TurnType
<1>8. ASSUME Crash  PROVE turn' = NoTurn
  BY <1>8 DEF Crash, EndTurn
<1>9. ASSUME Commits  PROVE turn' = NoTurn \/ turn'.step = turn.step
  <2>1. ASSUME CommitSave  PROVE turn'.step = turn.step
    BY <1>2, <2>1 DEF CommitSave, LoopFails, TurnType
  <2>2. ASSUME CommitHandoff  PROVE turn'.step = turn.step
    BY <1>2, <2>2 DEF CommitHandoff, LoopFails, TurnType
  <2>3. ASSUME NEW transition \in BOOLEAN, CommitFinish(transition)  PROVE turn' = NoTurn \/ turn'.step = turn.step
    <3>1. turn' = NoTurn \/ turn' = [turn EXCEPT !.pc = "refinish"]
      BY <2>3, Zenon DEF CommitFinish, EndTurn
    <3> QED
      BY <1>2, <3>1 DEF TurnType
  <2> QED
    BY <1>9, <2>1, <2>2, <2>3 DEF Commits
<1> QED
  BY <1>3, <1>4, <1>5, <1>6, <1>7, <1>8, <1>9 DEF Next

(* How the turn moves: it goes on, another begins, or there is none.       *)
LEMMA TurnMoves ==
  ASSUME IInv, Texts, [Next]_vars
  PROVE  /\ drawn.turns \in Nat /\ turn.id \in Nat /\ turn.id <= drawn.turns
         /\ \/ /\ turn'.id = turn.id /\ turn.id # 0 /\ turn'.session = turn.session /\ drawn'.turns = drawn.turns
               /\ turn'.pc = "start" => turn.pc = "start"
               /\ turn.step <= turn'.step /\ turn.step \in Nat /\ turn'.step \in Nat
            \/ turn'.id = drawn.turns + 1 /\ drawn'.turns = drawn.turns + 1
            \/ turn'.id = 0 /\ drawn'.turns = drawn.turns
<1>1. drawn.turns \in Nat /\ turn.id \in Nat
  BY TurnTypes
<1>2. turn.id <= drawn.turns
  BY <1>1 DEF IInv, Control
<1>3. TTurn /\ TTurn'
  BY StepIs, TypeParts, TypeStep DEF IInv, TypeOK, TTurn, TurnType
<1>4. turn.step \in Nat /\ turn'.step \in Nat
  BY <1>3, SessionAssumption DEF TTurn, TurnType
<1>5. Kinds
  BY NextKind
<1>6. CASE Stays
  BY <1>1, <1>2, <1>4, <1>6, StepGrows DEF Stays
<1>7. CASE Begins
  BY <1>1, <1>2, <1>7 DEF Begins
<1>8. CASE Leaves
  BY <1>1, <1>2, <1>8 DEF Leaves
<1>9. ASSUME NEW s \in Session, Halts(s)  PROVE turn' = turn /\ drawn'.turns = drawn.turns
  BY <1>9 DEF Halts
<1>10. CASE Deletes
  BY <1>1, <1>2, <1>4, <1>10 DEF Deletes
<1>11. CASE Starts
  BY <1>1, <1>2, <1>4, <1>11, StepGrows DEF Starts
<1>12. ASSUME NEW status \in Status \ {"running"}, NEW final \in Agent, Ends(status, final)
       PROVE  /\ drawn'.turns = drawn.turns
              /\ \/ turn'.id = turn.id /\ turn'.session = turn.session /\ turn'.pc # "start"
                 \/ turn'.id = 0
  BY <1>12 DEF Ends
<1> QED
  BY <1>1, <1>2, <1>4, <1>5, <1>6, <1>7, <1>8, <1>9, <1>10, <1>11, <1>12, StepGrows DEF Kinds, Steps

(* Together: the store's messages after any step.                          *)
LEMMA TextsStep ==
  ASSUME IInv, Texts, Unsent, [Next]_vars
  PROVE  Texts'
<1> SUFFICES ASSUME NEW s \in Session, NEW x \in Range(db'[s].messages)
             PROVE  /\ x.turn <= drawn'.turns
                    /\ x.turn = turn'.id => turn'.pc # "start" /\ s = turn'.session /\ x.step <= turn'.step
  <2>1. \A s \in Session : Whole(db'[s])
    BY NextHeirs DEF Heirs, Heir
  <2> QED
    BY <2>1 DEF Texts
<1>1. x.turn \in Nat /\ x.turn # 0 /\ x.step \in Nat /\ \A y \in Range(db[s].messages) : y.turn \in Nat /\ y.step \in Nat
  <2>1. db \in [Session -> Record] /\ db' \in [Session -> Record]
    BY StepIs DEF IInv, TypeOK
  <2>2. db[s].messages \in Seq(Message) /\ db'[s].messages \in Seq(Message)
    BY <2>1, RecordIs
  <2>3. x.turn \in TurnId
    BY <2>2, RangeIs, MessageIs
  <2> QED
    BY <2>2, <2>3, RangeIs, MessageIs DEF TurnId
<1>2. \/ \E y \in Range(db[s].messages) : Same(x, y)
      \/ InTurn /\ s = turn.session /\ x.turn = turn.id /\ x.step <= turn.step /\ turn'.pc # "start"
  BY NextHeirs DEF Heirs, Heir
<1>3. /\ drawn.turns \in Nat /\ turn.id \in Nat /\ turn.id <= drawn.turns
      /\ \/ /\ turn'.id = turn.id /\ turn.id # 0 /\ turn'.session = turn.session /\ drawn'.turns = drawn.turns
            /\ turn'.pc = "start" => turn.pc = "start"
            /\ turn.step <= turn'.step /\ turn.step \in Nat /\ turn'.step \in Nat
         \/ turn'.id = drawn.turns + 1 /\ drawn'.turns = drawn.turns + 1
         \/ turn'.id = 0 /\ drawn'.turns = drawn.turns
  BY TurnMoves
<1>4. CASE \E y \in Range(db[s].messages) : Same(x, y)
  <2>1. PICK y \in Range(db[s].messages) : Same(x, y)
    BY <1>4
  <2>2. /\ x.turn <= drawn.turns
        /\ x.turn = turn.id => turn.pc # "start" /\ s = turn.session /\ x.step <= turn.step
    BY <2>1 DEF Same, Texts
  <2> QED
    BY <1>1, <1>3, <2>2
<1>5. CASE InTurn /\ s = turn.session /\ x.turn = turn.id /\ x.step <= turn.step /\ turn'.pc # "start"
  BY <1>1, <1>3, <1>5
<1> QED
  BY <1>2, <1>4, <1>5

-----------------------------------------------------------------------------
(* What the controller shows, against what the store has.                  *)

(* A step that leaves what the controller shows.                           *)
Rests ==
  /\ current' = current /\ drawn'.sessions = drawn.sessions
  /\ stored' \subseteq stored \cup {current.id}
  /\ db' = db \/ faults'.late

(* A step after which it shows a new draft.                                *)
Renews ==
  /\ current' = Draft(drawn.sessions + 1) /\ drawn'.sessions = drawn.sessions + 1
  /\ drawn.sessions < NumSessions /\ stored' \subseteq stored

(* A step after which it shows what it has written.                        *)
Shows ==
  /\ drawn'.sessions = drawn.sessions /\ stored' \subseteq stored \cup {current.id}
  /\ \E s \in stored \cup {current.id} : current' = Loaded(s, db'[s])

(* A store operation that ends in one of its ways.                         *)
LEMMA OutcomeIs ==
  ASSUME TypeOK, NEW s \in Session, NEW r
  PROVE  /\ Committed(s, r) => db'[s] = r /\ stored' = stored \cup {s}
         /\ Late(s, r) => stored' = stored \cup {s} /\ faults'.late
         /\ Lost \/ Refused => db' = db /\ stored' = stored
<1>1. TStore /\ TFaults
  BY TypeParts
<1>2. ASSUME Committed(s, r)  PROVE db'[s] = r /\ stored' = stored \cup {s}
  BY <1>1, <1>2 DEF Committed, Write, TStore
<1>3. ASSUME Late(s, r)  PROVE stored' = stored \cup {s} /\ faults'.late
  BY <1>1, <1>3 DEF Late, Fails, Write, TFaults
<1> QED
  BY <1>2, <1>3 DEF Lost, Refused, storeVars

(* Commands rest, renew or show.                                           *)
LEMMA CommandsShow ==
  ASSUME IInv, Texts, Commands
  PROVE  Rests \/ Renews \/ Shows
<1>1. TypeOK /\ TCurrent /\ TDrawn /\ current.id \in Session
  BY TypeParts DEF IInv, TCurrent
<1>2. ASSUME NEW op \in Op, BeginCommand(op)  PROVE Rests
  BY <1>2 DEF BeginCommand, storeVars, Rests
<1>3. ASSUME OpenForCommand \/ AttachForCommand  PROVE Rests
  BY <1>3 DEF OpenForCommand, AttachForCommand, storeVars, Rests
<1>4. ASSUME Materialize  PROVE Rests
  <2>1. current' = current /\ drawn' = drawn
    BY <1>4 DEF Materialize
  <2>2. Committed(current.id, EmptyRecord) \/ Refused \/ Lost \/ Late(current.id, EmptyRecord)
    BY <1>4 DEF Materialize
  <2> QED
    BY <1>1, <1>4, <2>1, <2>2, MaterializeHeirs, OutcomeIs DEF Rests
<1>5. ASSUME Mutate  PROVE Rests \/ Shows
  <2>1. drawn' = drawn
    BY <1>5 DEF Mutate
  <2>2. \/ Committed(current.id, CommandReducer) /\ current' = Loaded(current.id, CommandReducer)
        \/ (Refused \/ Lost \/ Late(current.id, CommandReducer)) /\ current' = current
    BY <1>5, Zenon DEF Mutate
  <2> QED
    BY <1>1, <2>1, <2>2, OutcomeIs DEF Rests, Shows
<1>6. ASSUME NewDraft  PROVE Rests \/ Renews
  BY <1>1, <1>6 DEF NewDraft, NextDraft, storeVars, Rests, Renews, TDrawn
<1>7. ASSUME DeleteCurrent  PROVE Rests \/ Renews
  BY <1>1, <1>7 DEF DeleteCurrent, Lost, NextDraft, storeVars, Rests, Renews, TDrawn
<1>8. ASSUME NEW s \in Session, Resume(s)  PROVE Rests \/ Shows
  <2>1. drawn' = drawn /\ s \in stored
    BY <1>8 DEF Resume
  <2>2. \/ Committed(s, Repaired(db[s])) /\ current' = Loaded(s, Repaired(db[s]))
        \/ (Lost \/ Late(s, Repaired(db[s]))) /\ current' = current
    BY <1>8, Zenon DEF Resume
  <2> QED
    BY <1>1, <2>1, <2>2, OutcomeIs DEF Rests, Shows
<1> QED
  BY <1>2, <1>3, <1>4, <1>5, <1>6, <1>7, <1>8 DEF Commands

(* Turns rest or show.                                                     *)
LEMMA TurnsShow ==
  ASSUME IInv, Turns \/ Settle
  PROVE  Rests \/ Shows
<1>1. TypeOK /\ TCurrent /\ TDrawn /\ current.id \in Session
  BY TypeParts DEF IInv, TCurrent
<1>2. ASSUME BeginTurn  PROVE Rests
  BY <1>1, <1>2 DEF BeginTurn, storeVars, Rests, TDrawn
<1>3. ASSUME OpenForTurn  PROVE Rests
  BY <1>1, <1>3 DEF OpenForTurn, Opens, storeVars, Rests, TDrawn
<1>4. ASSUME AttachForTurn \/ CreateAgent \/ Answer \/ RejectHandoff \/ SaveHandoff \/ Settle  PROVE Rests
  BY <1>4 DEF AttachForTurn, CreateAgent, Answer, RejectHandoff, SaveHandoff, Settle, storeVars, Rests
<1>5. ASSUME NEW uses \in {Calls, {HandoffUse}}, CallTools(uses)  PROVE Rests
  BY <1>5 DEF CallTools, storeVars, Rests
<1>6. ASSUME NEW outcome \in {"failed", "cancelled"}, End(outcome)  PROVE Rests
  BY <1>6 DEF End, storeVars, Rests
<1>7. ASSUME NEW u \in Calls, Result(u)  PROVE Rests
  BY <1>7 DEF Result, storeVars, Rests
<1>8. ASSUME StartTurn  PROVE Rests \/ Shows
  <2> DEFINE s == turn.session
             r == Started(db[s], turn.id)
  <2>1. s = current.id
    BY <1>8, TurnIs DEF StartTurn, InTurn
  <2>2. drawn' = drawn
    BY <1>8 DEF StartTurn
  <2>3. \/ Committed(s, r) /\ current' = Loaded(s, r)
        \/ (Refused \/ Lost \/ Late(s, r)) /\ current' = current
    BY <1>8, Zenon DEF StartTurn
  <2> QED
    BY <1>1, <2>1, <2>2, <2>3, OutcomeIs DEF Rests, Shows
<1> QED
  BY <1>2, <1>3, <1>4, <1>5, <1>6, <1>7, <1>8 DEF Turns

(* So do commits.                                                          *)
LEMMA CommitsShow ==
  ASSUME IInv, Unsent, Commits
  PROVE  Rests \/ Shows
<1>1. TypeOK /\ current.id \in Session
  BY TypeParts DEF IInv, TCurrent
<1> DEFINE s == turn.session
<1>2. s = current.id /\ s \in Session
  <2>1. \E kind : HeadIs(kind)
    BY DEF Commits, CommitSave, CommitHandoff, CommitFinish
  <2> QED
    BY <2>1, HeadSays, TurnIs
<1>3. drawn' = drawn
  BY DEF Commits, CommitSave, CommitHandoff, CommitFinish
<1>4. \E r : \/ Committed(s, r) /\ current' = Loaded(s, r)
             \/ (Refused \/ Lost \/ Late(s, r)) /\ current' = current
  <2>1. ASSUME CommitSave  PROVE <1>4!:
    BY <2>1, Zenon DEF CommitSave, LoopFails
  <2>2. ASSUME CommitHandoff  PROVE <1>4!:
    BY <2>2, Zenon DEF CommitHandoff, LoopFails
  <2>3. ASSUME NEW transition \in BOOLEAN, CommitFinish(transition)  PROVE <1>4!:
    BY <2>3, Zenon DEF CommitFinish
  <2> QED
    BY <2>1, <2>2, <2>3 DEF Commits
<1> QED
  BY <1>1, <1>2, <1>3, <1>4, OutcomeIs DEF Rests, Shows

(* Every step rests, renews or shows.                                      *)
LEMMA NextShows ==
  ASSUME IInv, Texts, Unsent, [Next]_vars
  PROVE  Rests \/ Renews \/ Shows
<1>1. TDrawn
  BY TypeParts DEF IInv
<1>2. ASSUME Crash  PROVE Renews
  BY <1>1, <1>2 DEF Crash, NextDraft, storeVars, Renews, TDrawn
<1>3. ASSUME UNCHANGED vars  PROVE Rests
  BY <1>3 DEF vars, storeVars, Rests
<1> QED
  BY <1>2, <1>3, CommandsShow, TurnsShow, CommitsShow DEF Next

(* An error that came late is not forgotten.                               *)
LEMMA LateStays ==
  ASSUME IInv, [Next]_vars, faults.late
  PROVE  faults'.late
<1>1. TFaults
  BY TypeParts DEF IInv
<1>2. ASSUME \/ UNCHANGED faults \/ Works \/ Fails(FALSE) \/ Fails(TRUE)
             \/ faults' = [faults EXCEPT !.crashes = @ + 1]
      PROVE  faults'.late
  BY <1>1, <1>2 DEF Works, Fails, TFaults
<1>3. ASSUME Commands  PROVE UNCHANGED faults \/ Works \/ Fails(FALSE) \/ Fails(TRUE)
  <2>1. ASSUME NEW op \in Op, BeginCommand(op)  PROVE UNCHANGED faults
    BY <2>1 DEF BeginCommand
  <2>2. ASSUME OpenForCommand \/ AttachForCommand \/ NewDraft  PROVE UNCHANGED faults \/ Works \/ Fails(FALSE)
    BY <2>2, Zenon DEF OpenForCommand, AttachForCommand, NewDraft, Opens, Attaches
  <2>3. ASSUME Materialize \/ Mutate \/ DeleteCurrent  PROVE Works \/ Fails(FALSE) \/ Fails(TRUE)
    BY <2>3, Zenon DEF Materialize, Mutate, DeleteCurrent, Committed, Refused, Lost, Late
  <2>4. ASSUME NEW s \in Session, Resume(s)  PROVE Works \/ Fails(FALSE) \/ Fails(TRUE)
    BY <2>4, Zenon DEF Resume, Committed, Lost, Late
  <2> QED
    BY <1>3, <2>1, <2>2, <2>3, <2>4 DEF Commands
<1>4. ASSUME Turns \/ Settle  PROVE UNCHANGED faults \/ Works \/ Fails(FALSE) \/ Fails(TRUE)
  <2>1. ASSUME BeginTurn \/ CreateAgent \/ Answer \/ RejectHandoff \/ SaveHandoff \/ Settle  PROVE UNCHANGED faults
    BY <2>1 DEF BeginTurn, CreateAgent, Answer, RejectHandoff, SaveHandoff, Settle
  <2>2. ASSUME NEW uses \in {Calls, {HandoffUse}}, CallTools(uses)  PROVE UNCHANGED faults
    BY <2>2 DEF CallTools
  <2>3. ASSUME NEW outcome \in {"failed", "cancelled"}, End(outcome)  PROVE UNCHANGED faults
    BY <2>3 DEF End
  <2>4. ASSUME NEW u \in Calls, Result(u)  PROVE UNCHANGED faults
    BY <2>4 DEF Result
  <2>5. ASSUME OpenForTurn \/ AttachForTurn  PROVE Works \/ Fails(FALSE)
    BY <2>5, Zenon DEF OpenForTurn, AttachForTurn, Opens, Attaches
  <2>6. ASSUME StartTurn  PROVE Works \/ Fails(FALSE) \/ Fails(TRUE)
    BY <2>6, Zenon DEF StartTurn, Committed, Refused, Lost, Late
  <2> QED
    BY <1>4, <2>1, <2>2, <2>3, <2>4, <2>5, <2>6 DEF Turns
<1>5. ASSUME Commits  PROVE Works \/ Fails(FALSE) \/ Fails(TRUE)
  BY <1>5, Zenon DEF Commits, CommitSave, CommitHandoff, CommitFinish, Committed, Refused, Lost, Late
<1>6. ASSUME Crash  PROVE faults' = [faults EXCEPT !.crashes = @ + 1]
  BY <1>6 DEF Crash
<1>7. ASSUME UNCHANGED vars  PROVE UNCHANGED faults
  BY <1>7 DEF vars
<1> QED
  BY <1>2, <1>3, <1>4, <1>5, <1>6, <1>7 DEF Next

(* What the controller shows is no younger than the last turn drawn, and,  *)
(* while no error came late, what the store has.                           *)
Shown ==
  /\ stored \subseteq 1 .. drawn.sessions /\ current.id \in 1 .. drawn.sessions
  /\ \A m \in Range(current.record.messages) : m.turn <= drawn.turns
  /\ ~faults.late => current.record.messages = db[current.id].messages

(* It stays so.                                                            *)
LEMMA ShownStep ==
  ASSUME IInv, Texts, Unsent, Shown, [Next]_vars
  PROVE  Shown'
<1>1. /\ drawn.sessions \in Nat /\ drawn'.sessions \in Nat /\ drawn.turns \in Nat /\ drawn'.turns \in Nat
      /\ current.id \in Session /\ stored \subseteq Session /\ stored' \subseteq Session
      /\ current.record \in Record
  <2>1. TDrawn /\ TDrawn' /\ TCurrent /\ TStore /\ TStore'
    BY StepIs, TypeParts DEF IInv, TypeOK, TDrawn, TStore
  <2> QED
    BY <2>1, SessionAssumption DEF TDrawn, TCurrent, TStore, Session
<1>2. drawn.turns <= drawn'.turns
  BY <1>1, TurnMoves
<1>3. faults.late => faults'.late
  BY LateStays
<1>4. \A m \in Range(current.record.messages) : m.turn \in Nat
  BY <1>1, RecordIs, RangeIs, MessageIs
<1>5. Texts'
  BY TextsStep
<1>6. ASSUME Rests  PROVE Shown'
  BY <1>1, <1>2, <1>3, <1>4, <1>6 DEF Rests, Shown
<1>7. ASSUME Renews  PROVE Shown'
  <2>1. current'.id = drawn.sessions + 1 /\ current'.record = EmptyRecord /\ drawn'.sessions = drawn.sessions + 1
    BY <1>7 DEF Renews, Draft
  <2>2. stored' \subseteq 1 .. drawn.sessions
    BY <1>7 DEF Renews, Shown
  <2>3. drawn.sessions + 1 \in Session /\ drawn.sessions + 1 \notin stored'
    BY <1>1, <1>7, <2>2, SessionAssumption DEF Renews, Session
  <2>4. db'[drawn.sessions + 1] = EmptyRecord
    BY <2>3, EmptyStep
  <2>5. EmptyRecord.messages = << >> /\ Range(<< >>) = {}
    BY NoMessages DEF EmptyRecord
  <2> QED
    BY <1>1, <2>1, <2>2, <2>4, <2>5 DEF Shown
<1>8. ASSUME Shows  PROVE Shown'
  <2>1. PICK s \in stored \cup {current.id} : current' = Loaded(s, db'[s])
    BY <1>8 DEF Shows
  <2>2. s \in Session /\ s \in 1 .. drawn.sessions /\ current'.id = s /\ current'.record = db'[s]
    BY <1>1, <2>1 DEF Loaded, Shown
  <2>3. \A m \in Range(db'[s].messages) : m.turn <= drawn'.turns
    BY <1>5, <2>2 DEF Texts
  <2> QED
    BY <1>8, <2>2, <2>3 DEF Shown, Shows
<1> QED
  BY <1>6, <1>7, <1>8, NextShows

-----------------------------------------------------------------------------
(* The loop that is live, and what the agent has seen.                     *)

(* No message of the agent's is from the future.                           *)
Viewed ==
  InTurn => \A m \in Range(view) :
    m.turn <= turn.id /\ (m.turn = turn.id => turn.pc # "start" /\ m.step <= turn.step)

(* Where a live loop stands: what the store has of its step, what it has   *)
(* seen of it, and what is pending.                                        *)
Going ==
  Live =>
    /\ loop \in {"think", "act", "handoff"} => pending = << >>
    /\ loop = "saveCalls" =>
         /\ \A m \in Range(M) : ~Key(m)
         /\ \A m \in Range(view) : Key(m) => m.kind = "calls"
         /\ view # << >> /\ pending = <<Last(view)>> /\ Last(view).kind = "calls" /\ Key(Last(view))
    /\ loop \in {"act", "handoff", "saveStep", "transfer"} => \A m \in Range(M) : Key(m) => m.kind = "calls"
    /\ loop = "act" =>
         /\ Say("calls", Calls) \in Range(M)
         /\ Range(ResultsOfStep) = {Say("result", {u}) : u \in Calls \ todo}
         /\ Sorted(ResultsOfStep)
    /\ loop = "handoff" => Say("calls", {HandoffUse}) \in Range(M)
    /\ loop \in {"saveStep", "transfer"} => \A m \in Range(pending) : Key(m) /\ IsResult(m)

(* What the agent has seen and the store not yet.                          *)
Unsaved ==
  CASE loop \in {"saveCalls", "saveStep"} -> pending
    [] loop = "act" -> ResultsOfStep
    [] OTHER -> << >>
Seen ==
  ~faults.late => /\ turn.pc \in {"start", "attach", "create"} => view = M
                  /\ Live => view = M \o Unsaved

Flow == Viewed /\ Unsent /\ Going /\ Seen
TInv == IInv /\ Texts /\ Shown /\ Flow

(* Nothing is said of a turn that is over, or has not begun.               *)
LEMMA FlowGone ==
  ASSUME turn'.pc \in {"idle", "open"}
  PROVE  Flow'
BY DEF Flow, Viewed, Unsent, Going, Seen, InTurn, Written, Live

(* What a step leaves of the turn and its loop.                            *)
LEMMA FlowSame ==
  ASSUME Flow, turn' = turn, loopVars' = loopVars, turn.pc # "idle" => db' = db, faults.late => faults'.late
  PROVE  Flow'
<1>1. /\ turn' = turn /\ loop' = loop /\ todo' = todo /\ view' = view /\ chain' = chain /\ pending' = pending
  BY DEF loopVars
<1>2. CASE turn.pc = "idle"
  BY <1>1, <1>2, FlowGone
<1>3. CASE turn.pc # "idle"
  <2>1. M' = M /\ (\A m : Key(m)' = Key(m))
    BY <1>1, <1>3 DEF M, Key
  <2>2. ResultsOfStep' = ResultsOfStep /\ (Live' <=> Live) /\ \A kind, uses : Say(kind, uses)' = Say(kind, uses)
    BY <1>1 DEF ResultsOfStep, Live, Say
  <2>3. Viewed'
    BY <1>1 DEF Flow, Viewed, InTurn
  <2>4. Unsent'
    BY <1>1, <2>1, <2>2 DEF Flow, Unsent, Written
  <2>5. Going'
    BY <1>1, <1>3 DEF Flow, Going, M, Key, ResultsOfStep, Live, Say
  <2>6. Seen'
    BY <1>1, <1>3 DEF Flow, Seen, M, Unsaved, ResultsOfStep, Live
  <2> QED
    BY <2>3, <2>4, <2>5, <2>6 DEF Flow
<1> QED
  BY <1>2, <1>3

(* What is known of a turn in progress.                                    *)
LEMMA TurnSays ==
  ASSUME IInv, Texts, InTurn
  PROVE  /\ turn \in TurnType /\ turn.id \in Nat /\ turn.id # 0 /\ turn.id = drawn.turns
         /\ turn.step \in Nat /\ turn.session \in Session
         /\ M \in Seq(Message) /\ view \in Seq(Message) /\ pending \in Seq(Message)
         /\ Good(M) /\ UpToStep(M, turn.id, turn.step)
         /\ \A m \in Range(M) : m.turn = turn.id => turn.pc # "start"
<1>1. turn \in TurnType /\ turn.session \in Session /\ db[turn.session] \in Record /\ turn.id \in TurnId
  BY TurnIs
<1>2. turn.id \in Nat /\ turn.id # 0 /\ turn.step \in Nat
  BY <1>1, SessionAssumption DEF TurnType, TurnId
<1>3. turn.id = drawn.turns
  BY DEF IInv, Control
<1>4. M \in Seq(Message)
  BY <1>1, RecordIs DEF M
<1>5. view \in Seq(Message) /\ pending \in Seq(Message)
  BY TypeParts DEF IInv, TView, TChain
<1>6. Good(M)
  BY <1>1 DEF Texts, Whole, M
<1>7. UpToStep(M, turn.id, turn.step) /\ \A m \in Range(M) : m.turn = turn.id => turn.pc # "start"
  BY <1>1, <1>3 DEF Texts, UpToStep, M
<1> QED
  BY <1>1, <1>2, <1>3, <1>4, <1>5, <1>6, <1>7

(* A turn that begins has the messages that are shown.                     *)
LEMMA FlowBegins ==
  ASSUME IInv, Shown, db' = db, faults.late => faults'.late,
         turn'.pc = "start", turn'.id = drawn.turns + 1, turn'.session = current.id,
         view' = current.record.messages
  PROVE  Flow'
<1>1. drawn.turns \in Nat /\ \A m \in Range(view') : m.turn \in Nat /\ m.turn <= drawn.turns
  <2>1. current.record \in Record
    BY TypeParts DEF IInv, TCurrent
  <2> QED
    BY <2>1, TurnTypes, RecordIs, RangeIs, MessageIs DEF Shown
<1>2. Viewed'
  BY <1>1 DEF Viewed
<1>3. Unsent' /\ Going'
  BY DEF Unsent, Going, Written, Live
<1>4. Seen'
  BY DEF Seen, Shown, M, Live
<1> QED
  BY <1>2, <1>3, <1>4 DEF Flow

(* What is kept by any step already.                                       *)
LEMMA Carried ==
  ASSUME TInv, [Next]_vars
  PROVE  IInv' /\ Texts' /\ Shown' /\ (faults.late => faults'.late)
BY StepIs, TextsStep, ShownStep, LateStays DEF TInv, Flow

(* BeginTurn.                                                              *)
LEMMA BeginTurnFlow ==
  ASSUME TInv, BeginTurn
  PROVE  Flow'
<1>1. CASE MustOpen
  BY <1>1, FlowGone DEF BeginTurn, NoTurn
<1>2. CASE ~MustOpen
  <2>1. /\ turn'.pc = "start" /\ turn'.id = drawn.turns + 1 /\ turn'.session = current.id
        /\ view' = current.record.messages /\ db' = db /\ faults' = faults
    BY <1>2 DEF BeginTurn, NoTurn, storeVars
  <2> QED
    BY <2>1, FlowBegins DEF TInv
<1> QED
  BY <1>1, <1>2

(* OpenForTurn.                                                            *)
LEMMA OpenForTurnFlow ==
  ASSUME TInv, OpenForTurn
  PROVE  Flow'
<1>1. db' = db /\ (faults.late => faults'.late)
  <2>1. [Next]_vars
    BY DEF Next, Turns
  <2> QED
    BY <2>1, LateStays DEF TInv, OpenForTurn, storeVars
<1>2. \/ turn' = NoTurn
      \/ /\ turn' = [NoTurn EXCEPT !.pc = "start", !.id = drawn.turns + 1,
                                   !.session = current.id, !.draft = current.draft]
         /\ view' = current.record.messages
  BY DEF OpenForTurn, Opens
<1>3. CASE turn' = NoTurn
  BY <1>3, FlowGone DEF NoTurn
<1>4. CASE /\ turn' = [NoTurn EXCEPT !.pc = "start", !.id = drawn.turns + 1,
                                     !.session = current.id, !.draft = current.draft]
           /\ view' = current.record.messages
  <2>1. turn'.pc = "start" /\ turn'.id = drawn.turns + 1 /\ turn'.session = current.id
    BY <1>4 DEF NoTurn
  <2> QED
    BY <1>1, <1>4, <2>1, FlowBegins DEF TInv
<1> QED
  BY <1>2, <1>3, <1>4

(* A turn that has written itself, and not yet an agent.                   *)
LEMMA FlowWritten ==
  ASSUME TInv, IInv', Texts', InTurn, turn'.pc \in {"attach", "create"}, turn'.outcome = "none",
         turn'.id = turn.id, turn'.session = turn.session, turn'.step = turn.step,
         pending' = << >>, chain' = << >>, ~faults'.late => view' = M',
         \A m \in Range(view') : m.turn <= turn.id /\ (m.turn = turn.id => m.step <= turn.step)
  PROVE  Flow'
<1>1. Viewed'
  BY DEF Viewed
<1>2. turn.session \in Session /\ M' \in Seq(Message)
  <2>1. turn.session \in Session /\ db' \in [Session -> Record]
    BY TurnIs DEF TInv, IInv, TypeOK
  <2> QED
    BY <2>1, RecordIs DEF M
<1>3. Good(AppendUnique(M', << >>))
  <2>1. PICK t : t = M'
    OBVIOUS
  <2>2. t \in Seq(Message) /\ Good(t)
    BY <1>2, <2>1 DEF Texts, Whole, M
  <2>3. << >> \in Seq(Message) /\ Range(<< >>) \subseteq Range(t)
    BY NoMessages
  <2> QED
    BY <2>1, <2>2, <2>3, AppendUniqueIs
<1>4. Unsent'
  BY <1>3, NoMessages DEF Unsent
<1>5. Going'
  BY DEF Going, Live
<1>6. Seen'
  BY DEF Seen, Live
<1> QED
  BY <1>1, <1>4, <1>5, <1>6 DEF Flow

(* StartTurn.                                                              *)
LEMMA StartTurnFlow ==
  ASSUME TInv, StartTurn
  PROVE  Flow'
<1>1. IInv' /\ Texts' /\ (faults.late => faults'.late)
  BY Carried DEF Next, Turns
<1>2. turn.pc = "start" /\ InTurn
  BY DEF StartTurn, InTurn
<1>3. /\ turn \in TurnType /\ turn.id \in Nat /\ turn.step \in Nat /\ turn.session \in Session
      /\ M \in Seq(Message) /\ view \in Seq(Message)
  BY <1>2, TurnSays DEF TInv
<1>4. \/ turn' = NoTurn
      \/ /\ Committed(turn.session, Started(db[turn.session], turn.id))
         /\ turn' = [turn EXCEPT !.pc = IF MustAttach THEN "attach" ELSE "create",
                                 !.agent = Started(db[turn.session], turn.id).agent]
         /\ view' = Append(view, UserMessage(turn.id))
         /\ chain' = chain /\ pending' = pending
  BY Zenon DEF StartTurn, Abandon
<1>5. CASE turn' = NoTurn
  BY <1>5, FlowGone DEF NoTurn
<1>6. CASE /\ Committed(turn.session, Started(db[turn.session], turn.id))
           /\ turn' = [turn EXCEPT !.pc = IF MustAttach THEN "attach" ELSE "create",
                                   !.agent = Started(db[turn.session], turn.id).agent]
           /\ view' = Append(view, UserMessage(turn.id))
           /\ chain' = chain /\ pending' = pending
  <2>1. /\ turn'.pc \in {"attach", "create"} /\ turn'.id = turn.id /\ turn'.session = turn.session
        /\ turn'.step = turn.step /\ turn'.outcome = turn.outcome
    BY <1>3, <1>6 DEF TurnType
  <2>2. pending = << >> /\ chain = << >> /\ turn.outcome = "none"
    BY <1>2 DEF TInv, IInv, Control, Ending
  <2>3. UserMessage(turn.id) \in Message /\ UserMessage(turn.id).turn = turn.id /\ UserMessage(turn.id).step = 0
    BY <1>2, TurnIs DEF TInv, UserMessage
  <2>4. Range(view') = Range(view) \cup {UserMessage(turn.id)}
    BY <1>3, <1>6, <2>3, AppendIs
  <2>5. \A m \in Range(view') : m.turn <= turn.id /\ (m.turn = turn.id => m.step <= turn.step)
    BY <1>2, <1>3, <2>3, <2>4 DEF TInv, Flow, Viewed
  <2>6. ASSUME ~faults'.late  PROVE view' = M'
    <3>1. view = M
      BY <1>1, <1>2, <2>6 DEF TInv, Flow, Seen
    <3>2. db'[turn.session] = Started(db[turn.session], turn.id)
      BY <1>3, <1>6, OutcomeIs DEF TInv, IInv
    <3>3. Started(db[turn.session], turn.id).messages = Append(M, UserMessage(turn.id))
      <4>1. Whole(db[turn.session]) /\ db[turn.session] \in Record /\ turn.id \in TurnId
        BY <1>2, <1>3, TurnIs DEF TInv, Texts
      <4>2. \A m \in Range(db[turn.session].messages) : m.turn < turn.id
        <5>1. \A m \in Range(M) : m.turn # turn.id /\ m.turn <= turn.id /\ m.turn \in Nat
          BY <1>2, <1>3, TurnSays, RangeIs, MessageIs DEF TInv, UpToStep
        <5> QED
          BY <1>3, <5>1 DEF M
      <4>3. PICK r : r = db[turn.session]
        OBVIOUS
      <4>4. Started(r, turn.id).messages = Append(r.messages, UserMessage(turn.id))
        BY <4>1, <4>2, <4>3, WholeStarted
      <4> QED
        BY <4>3, <4>4 DEF M
    <3> QED
      BY <1>6, <2>1, <3>1, <3>2, <3>3 DEF M
  <2> QED
    BY <1>1, <1>2, <1>6, <2>1, <2>2, <2>5, <2>6, FlowWritten
<1> QED
  BY <1>4, <1>5, <1>6

(* AttachForTurn.                                                          *)
LEMMA AttachForTurnFlow ==
  ASSUME TInv, AttachForTurn
  PROVE  Flow'
<1>1. IInv' /\ Texts' /\ (faults.late => faults'.late)
  BY Carried DEF Next, Turns
<1>2. turn.pc = "attach" /\ InTurn /\ db' = db /\ chain' = chain /\ pending' = pending
  BY DEF AttachForTurn, InTurn, storeVars
<1>3. turn \in TurnType
  BY <1>2, TurnSays DEF TInv
<1>4. turn' = NoTurn \/ (turn' = [turn EXCEPT !.pc = "create"] /\ view' = view)
  BY Zenon DEF AttachForTurn, Attaches, Abandon
<1>5. CASE turn' = NoTurn
  BY <1>5, FlowGone DEF NoTurn
<1>6. CASE turn' = [turn EXCEPT !.pc = "create"] /\ view' = view
  <2>1. /\ turn'.pc = "create" /\ turn'.id = turn.id /\ turn'.session = turn.session
        /\ turn'.step = turn.step /\ turn'.outcome = turn.outcome
    BY <1>3, <1>6 DEF TurnType
  <2>2. pending = << >> /\ chain = << >> /\ turn.outcome = "none"
    BY <1>2 DEF TInv, IInv, Control, Ending
  <2>3. \A m \in Range(view') : m.turn <= turn.id /\ (m.turn = turn.id => m.step <= turn.step)
    BY <1>2, <1>6 DEF TInv, Flow, Viewed
  <2>4. ~faults'.late => view' = M'
    BY <1>1, <1>2, <1>6, <2>1 DEF TInv, Flow, Seen, M
  <2> QED
    BY <1>1, <1>2, <2>1, <2>2, <2>3, <2>4, FlowWritten
<1> QED
  BY <1>4, <1>5, <1>6

(* A request of a coordinator that has nothing to do.                      *)
LEMMA Requested ==
  ASSUME chain = << >>, pending = << >>, NEW kind, NEW m \in Seq(Message), Request(kind, m)
  PROVE  /\ pending' = m /\ chain' # << >> /\ DOMAIN chain' = {1}
         /\ chain'[1].kind = kind /\ chain'[1].messages = m
<1>1. chain' = << [kind |-> kind, messages |-> m] >> /\ pending' = m
  BY DEF Request
<1> QED
  BY <1>1

(* A turn that is live.                                                    *)
LEMMA LiveSays ==
  ASSUME TInv, Live
  PROVE  /\ InTurn /\ Written /\ turn.pc = "run" /\ turn.outcome = "none"
         /\ loop \in {"think", "act", "handoff"} => chain = << >> /\ pending = << >>
         /\ Good(AppendUnique(M, pending))
         /\ \A m \in Range(view) : m.turn <= turn.id /\ (m.turn = turn.id => m.step <= turn.step)
         /\ \A m \in Range(pending) : m.turn = turn.id /\ m.step <= turn.step
<1>1. InTurn /\ Written /\ turn.pc = "run" /\ turn.outcome = "none"
  BY DEF Live, InTurn, Written
<1>2. loop \in {"think", "act", "handoff"} => chain = << >>
  BY DEF TInv, IInv, Control, Waiting
<1> QED
  BY <1>1, <1>2 DEF TInv, Flow, Going, Unsent, Viewed

(* Results of the turn's step fit the store that has its calls.            *)
LEMMA StepResults ==
  ASSUME TInv, InTurn, NEW uses, Say("calls", uses) \in Range(M), \A m \in Range(M) : Key(m) => m.kind = "calls",
         NEW q \in Seq(Message), Sorted(q),
         \A x \in Range(q) : Key(x) /\ IsResult(x) /\ x.uses # {} /\ x.uses \subseteq uses,
         \A x, y \in Range(q) : x # y => x.uses \cap y.uses = {}
  PROVE  Good(AppendUnique(M, q)) /\ AppendUnique(M, q) = M \o q
<1>1. M \in Seq(Message) /\ Good(M) /\ UpToStep(M, turn.id, turn.step)
  BY TurnSays DEF TInv
<1>2. PICK t, c : t = M /\ c = Say("calls", uses)
  OBVIOUS
<1>3. c \in Range(t) /\ c.kind = "calls" /\ c.turn = turn.id /\ c.step = turn.step /\ c.uses = uses
  BY <1>2 DEF Say
<1>4. t \in Seq(Message) /\ Good(t) /\ UpToStep(t, c.turn, c.step)
  BY <1>1, <1>2, <1>3
<1>5. \A y \in Range(t) : Same(y, c) => y.kind = "calls"
  BY <1>2, <1>3 DEF Same, Key
<1>6. \A x \in Range(q) : IsResult(x) /\ Same(x, c) /\ x.uses # {} /\ x.uses \subseteq c.uses
  BY <1>3 DEF Same, Key
<1>7. AppendUnique(t, q) = t \o q /\ Good(t \o q)
  BY <1>3, <1>4, <1>5, <1>6, GoodResults
<1> QED
  BY <1>2, <1>7

(* CreateAgent.                                                            *)
LEMMA CreateAgentFlow ==
  ASSUME TInv, CreateAgent
  PROVE  Flow'
<1>1. turn.pc = "create" /\ InTurn /\ Written /\ db' = db /\ view' = view /\ faults' = faults
  BY DEF CreateAgent, InTurn, Written, storeVars
<1>2. turn \in TurnType /\ M \in Seq(Message)
  BY <1>1, TurnSays DEF TInv
<1>3. pending = << >> /\ chain = << >>
  BY <1>1 DEF TInv, IInv, Control, Ending
<1>4. Good(AppendUnique(M, << >>))
  BY <1>1, <1>3 DEF TInv, Flow, Unsent
<1>5. /\ turn'.id = turn.id /\ turn'.session = turn.session /\ turn'.step = turn.step
      /\ \/ turn'.pc = "run" /\ turn'.outcome = turn.outcome /\ loop' = "think" /\ chain' = chain /\ pending' = pending
         \/ turn'.pc = "giveUp" /\ turn'.outcome = "failed" /\ Request("finish", << >>)
  BY <1>2 DEF CreateAgent, TurnType
<1>6. turn.outcome = "none"
  BY <1>1 DEF TInv, IInv, Control, Ending
<1>7. M' = M
  BY <1>1, <1>5 DEF M
<1>8. Viewed'
  BY <1>1, <1>5 DEF TInv, Flow, Viewed
<1>9. << >> \in Seq(Message) /\ Range(<< >>) = {} /\ M \o << >> = M
  BY <1>2, NoMessages
<1>10. CASE turn'.pc = "run" /\ turn'.outcome = turn.outcome /\ loop' = "think" /\ chain' = chain /\ pending' = pending
  <2>1. Unsent'
    BY <1>3, <1>4, <1>6, <1>7, <1>9, <1>10 DEF Unsent
  <2>2. Going'
    BY <1>3, <1>10 DEF Going
  <2>3. Seen'
    BY <1>1, <1>7, <1>9, <1>10 DEF TInv, Flow, Seen, Unsaved
  <2> QED
    BY <1>8, <2>1, <2>2, <2>3 DEF Flow
<1>11. CASE turn'.pc = "giveUp" /\ turn'.outcome = "failed" /\ Request("finish", << >>)
  <2>1. pending' = << >> /\ DOMAIN chain' = {1} /\ chain'[1].kind = "finish"
    BY <1>3, <1>9, <1>11, Requested
  <2>2. Unsent'
    BY <1>4, <1>7, <1>9, <1>11, <2>1 DEF Unsent
  <2>3. Going' /\ Seen'
    BY <1>11 DEF Going, Seen, Live
  <2> QED
    BY <1>8, <2>2, <2>3 DEF Flow
<1> QED
  BY <1>5, <1>10, <1>11

(* Answer.                                                                 *)
LEMMA AnswerFlow ==
  ASSUME TInv, Answer
  PROVE  Flow'
<1>1. /\ Live /\ loop = "think" /\ db' = db /\ chain' = chain /\ pending' = pending
      /\ turn' = [turn EXCEPT !.outcome = "completed"] /\ view' = Append(view, Say("text", {}))
  BY DEF Answer, storeVars
<1>2. /\ InTurn /\ Written /\ turn.pc = "run" /\ chain = << >> /\ pending = << >>
      /\ Good(AppendUnique(M, pending))
      /\ \A m \in Range(view) : m.turn <= turn.id /\ (m.turn = turn.id => m.step <= turn.step)
  BY <1>1, LiveSays
<1>3. turn \in TurnType /\ turn.id \in Nat /\ turn.step \in Nat /\ view \in Seq(Message) /\ Say("text", {}) \in Message
  BY <1>2, TurnSays, TurnIs DEF TInv
<1>4. /\ turn'.pc = "run" /\ turn'.id = turn.id /\ turn'.session = turn.session /\ turn'.step = turn.step
      /\ turn'.outcome = "completed"
  BY <1>1, <1>2, <1>3 DEF TurnType
<1>5. M' = M /\ Say("text", {})' = Say("text", {})
  BY <1>1, <1>4 DEF M, Say
<1>6. Range(view') = Range(view) \cup {Say("text", {})} /\ Last(view') = Say("text", {})
  BY <1>1, <1>3, AppendIs
<1>7. Say("text", {}).turn = turn.id /\ Say("text", {}).step = turn.step
  BY DEF Say
<1>8. Viewed'
  BY <1>2, <1>3, <1>4, <1>6, <1>7 DEF Viewed
<1>9. Unsent'
  BY <1>1, <1>2, <1>4, <1>5, <1>6, NoMessages DEF Unsent
<1>10. Going' /\ Seen'
  BY <1>4 DEF Going, Seen, Live
<1> QED
  BY <1>8, <1>9, <1>10 DEF Flow

(* CallTools.                                                              *)
LEMMA CallToolsFlow ==
  ASSUME TInv, NEW uses \in {Calls, {HandoffUse}}, CallTools(uses)
  PROVE  Flow'
<1> DEFINE calls == [Say("calls", uses) EXCEPT !.step = @ + 1]
<1>1. /\ Live /\ loop = "think" /\ db' = db /\ faults' = faults /\ loop' = "saveCalls"
      /\ turn' = [turn EXCEPT !.step = @ + 1] /\ view' = Append(view, calls) /\ Request("save", <<calls>>)
  BY DEF CallTools, storeVars
<1>2. /\ InTurn /\ Written /\ turn.pc = "run" /\ turn.outcome = "none" /\ chain = << >> /\ pending = << >>
      /\ \A m \in Range(view) : m.turn <= turn.id /\ (m.turn = turn.id => m.step <= turn.step)
  BY <1>1, LiveSays
<1>3. /\ turn \in TurnType /\ turn.id \in Nat /\ turn.step \in Nat /\ M \in Seq(Message) /\ view \in Seq(Message)
      /\ Good(M) /\ UpToStep(M, turn.id, turn.step) /\ turn.id \in TurnId
  BY <1>2, TurnSays, TurnIs DEF TInv
<1>4. calls.turn = turn.id /\ calls.step = turn.step + 1 /\ calls.kind = "calls" /\ calls \in Message
  <2>1. turn.step + 1 \in 0 .. MaxSteps
    BY <1>3, SessionAssumption DEF CallTools, TurnType
  <2>2. uses \subseteq Calls \cup {HandoffUse}
    OBVIOUS
  <2> QED
    BY <1>3, <2>1, <2>2 DEF Say, Message
<1> HIDE DEF calls
<1>5. /\ turn'.pc = "run" /\ turn'.id = turn.id /\ turn'.session = turn.session /\ turn'.step = turn.step + 1
      /\ turn'.outcome = "none"
  BY <1>1, <1>2, <1>3 DEF TurnType
<1>6. M' = M
  BY <1>1, <1>5 DEF M
<1>7. /\ Range(view') = Range(view) \cup {calls} /\ Last(view') = calls /\ view' # << >>
      /\ <<calls>> \in Seq(Message) /\ Range(<<calls>>) = {calls}
  BY <1>1, <1>3, <1>4, AppendIs, OneMessage
<1>8. /\ pending' = <<calls>> /\ chain' # << >> /\ DOMAIN chain' = {1}
      /\ chain'[1].kind = "save" /\ chain'[1].messages = <<calls>>
  BY <1>1, <1>2, <1>7, Requested
<1>9. /\ \A m \in Range(M) : m.turn \in Nat /\ m.step \in Nat
      /\ \A m \in Range(view) : m.turn \in Nat /\ m.step \in Nat
  BY <1>3, RangeIs, MessageIs
<1>10. Viewed'
  BY <1>2, <1>3, <1>4, <1>5, <1>7, <1>9 DEF Viewed
<1>11. Good(AppendUnique(M, <<calls>>))
  <2>1. calls.step # 0 /\ UpToStep(M, calls.turn, calls.step - 1)
    BY <1>3, <1>4 DEF UpToStep
  <2> QED
    BY <1>3, <1>4, <2>1, GoodCalls
<1>12. Unsent'
  BY <1>3, <1>4, <1>5, <1>6, <1>7, <1>8, <1>11 DEF Unsent
<1>13. Going'
  <2>1. \A m \in Range(M) : ~(m.turn = turn'.id /\ m.step = turn'.step)
    BY <1>3, <1>5, <1>9 DEF UpToStep
  <2>2. \A m \in Range(view') : m.turn = turn'.id /\ m.step = turn'.step => m.kind = "calls"
    BY <1>2, <1>3, <1>4, <1>5, <1>7, <1>9
  <2> QED
    BY <1>1, <1>4, <1>5, <1>6, <1>7, <1>8, <2>1, <2>2 DEF Going, Key
<1>14. Seen'
  <2>1. ASSUME ~faults.late  PROVE view' = M \o <<calls>>
    <3>1. view = M \o << >>
      BY <1>1, <2>1 DEF TInv, Flow, Seen, Unsaved
    <3>2. view = M
      BY <1>3, <3>1
    <3> QED
      BY <1>1, <1>3, <1>4, <3>2, AppendIs
  <2> QED
    BY <1>1, <1>5, <1>6, <1>8, <2>1 DEF Seen, Unsaved
<1> QED
  BY <1>10, <1>12, <1>13, <1>14 DEF Flow

(* RejectHandoff.                                                          *)
LEMMA RejectHandoffFlow ==
  ASSUME TInv, RejectHandoff
  PROVE  Flow'
<1> DEFINE x == Say("result", {HandoffUse})
<1>1. /\ Live /\ loop = "handoff" /\ db' = db /\ faults' = faults /\ loop' = "saveStep"
      /\ turn' = turn /\ view' = Append(view, x) /\ Request("save", <<x>>)
  BY DEF RejectHandoff, storeVars
<1>2. /\ InTurn /\ Written /\ turn.pc = "run" /\ turn.outcome = "none" /\ chain = << >> /\ pending = << >>
      /\ \A m \in Range(view) : m.turn <= turn.id /\ (m.turn = turn.id => m.step <= turn.step)
  BY <1>1, LiveSays
<1>3. /\ turn \in TurnType /\ turn.id \in Nat /\ turn.step \in Nat /\ M \in Seq(Message) /\ view \in Seq(Message)
      /\ Good(M) /\ UpToStep(M, turn.id, turn.step)
  BY <1>2, TurnSays DEF TInv
<1>4. /\ x \in Message /\ x.turn = turn.id /\ x.step = turn.step /\ x.uses = {HandoffUse} /\ IsResult(x)
      /\ <<x>> \in Seq(Message) /\ Range(<<x>>) = {x} /\ Sorted(<<x>>)
  <2>1. x \in Message
    BY <1>2, TurnIs DEF TInv
  <2>2. x.turn = turn.id /\ x.step = turn.step /\ x.uses = {HandoffUse} /\ IsResult(x)
    BY DEF Say, IsResult
  <2> QED
    BY <2>1, <2>2, OneMessage
<1> HIDE DEF x
<1>5. M' = M
  BY <1>1 DEF M
<1>6. Range(view') = Range(view) \cup {x}
  BY <1>1, <1>3, <1>4, AppendIs
<1>7. /\ pending' = <<x>> /\ chain' # << >> /\ DOMAIN chain' = {1}
      /\ chain'[1].kind = "save" /\ chain'[1].messages = <<x>>
  BY <1>1, <1>2, <1>4, Requested
<1>8. Viewed'
  BY <1>1, <1>2, <1>3, <1>4, <1>6 DEF Viewed
<1>9. Good(AppendUnique(M, <<x>>))
  <2>1. Say("calls", {HandoffUse}) \in Range(M) /\ \A m \in Range(M) : Key(m) => m.kind = "calls"
    BY <1>1 DEF TInv, Flow, Going
  <2>2. PICK q : q = <<x>>
    OBVIOUS
  <2>3. q \in Seq(Message) /\ Sorted(q) /\ Range(q) = {x}
    BY <1>4, <2>2
  <2>4. /\ \A y \in Range(q) : Key(y) /\ IsResult(y) /\ y.uses # {} /\ y.uses \subseteq {HandoffUse}
        /\ \A y, z \in Range(q) : y # z => y.uses \cap z.uses = {}
    BY <1>4, <2>3 DEF Key
  <2> QED
    BY <1>2, <2>1, <2>2, <2>3, <2>4, StepResults
<1>10. Unsent'
  BY <1>1, <1>2, <1>3, <1>4, <1>5, <1>7, <1>9 DEF Unsent
<1>11. Going'
  BY <1>1, <1>4, <1>5, <1>7 DEF TInv, Flow, Going, Key, Live
<1>12. Seen'
  <2>1. ASSUME ~faults.late  PROVE view' = M \o <<x>>
    <3>1. view = M \o << >>
      BY <1>1, <2>1 DEF TInv, Flow, Seen, Unsaved
    <3>2. view = M
      BY <1>3, <3>1
    <3> QED
      BY <1>1, <1>3, <1>4, <3>2, AppendIs
  <2> QED
    BY <1>1, <1>2, <1>5, <1>7, <2>1 DEF Seen, Unsaved
<1> QED
  BY <1>8, <1>10, <1>11, <1>12 DEF Flow

(* SaveHandoff.                                                            *)
LEMMA SaveHandoffFlow ==
  ASSUME TInv, SaveHandoff
  PROVE  Flow'
<1> DEFINE x == Say("result", {HandoffUse})
<1>1. /\ Live /\ loop = "handoff" /\ db' = db /\ faults' = faults /\ loop' = "transfer"
      /\ turn' = turn /\ view' = view /\ Request("handoff", <<x>>)
  BY DEF SaveHandoff, storeVars
<1>2. /\ InTurn /\ Written /\ turn.pc = "run" /\ turn.outcome = "none" /\ chain = << >> /\ pending = << >>
  BY <1>1, LiveSays
<1>3. /\ turn \in TurnType /\ turn.id \in Nat /\ turn.step \in Nat /\ M \in Seq(Message) /\ view \in Seq(Message)
      /\ Good(M) /\ UpToStep(M, turn.id, turn.step)
  BY <1>2, TurnSays DEF TInv
<1>4. /\ x \in Message /\ x.turn = turn.id /\ x.step = turn.step /\ x.uses = {HandoffUse} /\ IsResult(x)
      /\ <<x>> \in Seq(Message) /\ Range(<<x>>) = {x} /\ Sorted(<<x>>)
  <2>1. x \in Message
    BY <1>2, TurnIs DEF TInv
  <2>2. x.turn = turn.id /\ x.step = turn.step /\ x.uses = {HandoffUse} /\ IsResult(x)
    BY DEF Say, IsResult
  <2> QED
    BY <2>1, <2>2, OneMessage
<1> HIDE DEF x
<1>5. M' = M
  BY <1>1 DEF M
<1>7. /\ pending' = <<x>> /\ chain' # << >> /\ DOMAIN chain' = {1}
      /\ chain'[1].kind = "handoff" /\ chain'[1].messages = <<x>>
  BY <1>1, <1>2, <1>4, Requested
<1>8. Viewed'
  BY <1>1 DEF TInv, Flow, Viewed, InTurn
<1>9. Good(AppendUnique(M, <<x>>))
  <2>1. Say("calls", {HandoffUse}) \in Range(M) /\ \A m \in Range(M) : Key(m) => m.kind = "calls"
    BY <1>1 DEF TInv, Flow, Going
  <2>2. PICK q : q = <<x>>
    OBVIOUS
  <2>3. q \in Seq(Message) /\ Sorted(q) /\ Range(q) = {x}
    BY <1>4, <2>2
  <2>4. /\ \A y \in Range(q) : Key(y) /\ IsResult(y) /\ y.uses # {} /\ y.uses \subseteq {HandoffUse}
        /\ \A y, z \in Range(q) : y # z => y.uses \cap z.uses = {}
    BY <1>4, <2>3 DEF Key
  <2> QED
    BY <1>2, <2>1, <2>2, <2>3, <2>4, StepResults
<1>10. Unsent'
  BY <1>1, <1>2, <1>3, <1>4, <1>5, <1>7, <1>9 DEF Unsent
<1>11. Going'
  BY <1>1, <1>4, <1>5, <1>7 DEF TInv, Flow, Going, Key, Live
<1>12. Seen'
  <2>1. ASSUME ~faults.late  PROVE view' = M \o << >>
    BY <1>1, <2>1 DEF TInv, Flow, Seen, Unsaved
  <2> QED
    BY <1>1, <1>2, <1>5, <2>1 DEF Seen, Unsaved
<1> QED
  BY <1>8, <1>10, <1>11, <1>12 DEF Flow

(* The results of a step that acts: one for each use that has ended.       *)
LEMMA ResultsAre ==
  ASSUME TInv, Live, loop = "act"
  PROVE  /\ ResultsOfStep \in Seq(Message) /\ Sorted(ResultsOfStep)
         /\ Range(ResultsOfStep) = {Say("result", {v}) : v \in Calls \ todo}
         /\ \A m \in Range(M) : Key(m) => m.kind = "calls"
         /\ Good(AppendUnique(M, ResultsOfStep)) /\ AppendUnique(M, ResultsOfStep) = M \o ResultsOfStep
         /\ \A m \in Range(ResultsOfStep) : Key(m) /\ IsResult(m)
<1>1. InTurn /\ Say("calls", Calls) \in Range(M) /\ \A m \in Range(M) : Key(m) => m.kind = "calls"
  BY LiveSays DEF TInv, Flow, Going
<1>2. view \in Seq(Message) /\ M \in Seq(Message)
  BY <1>1, TurnSays DEF TInv
<1>3. ResultsOfStep \in Seq(Message)
  BY <1>2, KeptIs DEF ResultsOfStep
<1>4. PICK q : q = ResultsOfStep
  OBVIOUS
<1>5. Sorted(q) /\ Range(q) = {Say("result", {v}) : v \in Calls \ todo}
  BY <1>4 DEF TInv, Flow, Going
<1>6. \A m \in Range(q) : /\ Key(m) /\ IsResult(m) /\ m.uses # {} /\ m.uses \subseteq Calls
                          /\ \E v \in Calls : m = Say("result", {v}) /\ m.uses = {v}
  BY <1>5 DEF Say, Key, IsResult
<1>7. \A m, n \in Range(q) : m # n => m.uses \cap n.uses = {}
  BY <1>6
<1>8. Good(AppendUnique(M, q)) /\ AppendUnique(M, q) = M \o q
  BY <1>1, <1>3, <1>4, <1>5, <1>6, <1>7, StepResults
<1> QED
  BY <1>1, <1>3, <1>4, <1>5, <1>6, <1>8

(* One use more that has ended.                                            *)
LEMMA ResultAdds ==
  ASSUME TInv, NEW u \in Calls, Result(u)
  PROVE  LET x == Say("result", {u})
             q == Append(ResultsOfStep, x)
         IN
         /\ x \in Message /\ Key(x) /\ IsResult(x)
         /\ q \in Seq(Message) /\ Sorted(q) /\ ResultsOfStep' = q
         /\ Range(q) = {Say("result", {v}) : v \in Calls \ todo'}
         /\ Good(AppendUnique(M, q)) /\ \A m \in Range(q) : Key(m) /\ IsResult(m)
<1>1. Live /\ loop = "act" /\ u \in todo /\ todo' = todo \ {u} /\ turn' = turn /\ view' = Append(view, Say("result", {u}))
  BY DEF Result
<1>2. PICK x, k : x = Say("result", {u}) /\ k = ResultsOfStep
  OBVIOUS
<1>3. /\ k \in Seq(Message) /\ Sorted(k) /\ Range(k) = {Say("result", {v}) : v \in Calls \ todo}
      /\ \A m \in Range(M) : Key(m) => m.kind = "calls"
      /\ \A m \in Range(k) : Key(m) /\ IsResult(m)
  BY <1>1, <1>2, ResultsAre
<1>4. InTurn /\ Say("calls", Calls) \in Range(M)
  BY <1>1, LiveSays DEF TInv, Flow, Going
<1>5. view \in Seq(Message) /\ turn.id \in Nat /\ turn.step \in Nat
  BY <1>4, TurnSays DEF TInv
<1>6. x \in Message /\ Key(x) /\ IsResult(x) /\ x.kind = "result" /\ x.uses = {u}
  <2>1. x \in Message
    BY <1>2, <1>4, TurnIs DEF TInv
  <2> QED
    BY <1>2, <2>1 DEF Say, Key, IsResult
<1>7. x \notin Range(k)
  BY <1>1, <1>2, <1>3, <1>6 DEF Say
<1> DEFINE q == Append(k, x)
<1>8. q \in Seq(Message) /\ Range(q) = Range(k) \cup {x}
  BY <1>3, <1>6, AppendIs
<1>9. Sorted(q)
  <2>1. \A y \in Range(k) : y \in Message /\ y # x
    BY <1>3, <1>7, RangeIs
  <2>2. Rank(x) = 1 /\ \A y \in Range(k) : Rank(y) = 1
    BY <1>3, <1>6, <2>1, MessageIs
  <2>3. \A y \in Range(k) : y.turn = x.turn /\ y.step = x.step
    BY <1>3, <1>6 DEF Key
  <2>4. \A y \in Range(k) : Follow(y, x)
    BY <2>1, <2>2, <2>3 DEF Follow
  <2> QED
    BY <1>3, <1>6, <2>4, SortedAppend
<1>10. Range(q) = {Say("result", {v}) : v \in Calls \ todo'}
  <2>1. Calls \ todo' = (Calls \ todo) \cup {u}
    BY <1>1
  <2> HIDE DEF q
  <2> QED
    BY <1>2, <1>3, <1>8, <2>1
<1>11. ResultsOfStep' = q
  <2> DEFINE S == {m \in Range(view) : m.turn = turn.id /\ m.kind = "result" /\ m.step = turn.step}
             R == {m \in Range(view') : m.turn = turn.id /\ m.kind = "result" /\ m.step = turn.step}
  <2>1. Range(view') = Range(view) \cup {x} /\ Range(view) = ToSet(view)
    BY <1>1, <1>2, <1>5, <1>6, AppendIs, RangeIs
  <2>2. x \in R /\ \A y \in ToSet(view) : y \in S <=> y \in R
    BY <1>6, <2>1 DEF Key
  <2>3. k = Kept(view, S)
    BY <1>2 DEF ResultsOfStep
  <2>4. ResultsOfStep' = Kept(Append(view, x), R)
    BY <1>1, <1>2 DEF ResultsOfStep
  <2> HIDE DEF S, R
  <2>5. Kept(Append(view, x), R) = Append(Kept(view, S), x)
    BY <1>5, <1>6, <2>2, KeptAppend
  <2> QED
    BY <2>3, <2>4, <2>5
<1> HIDE DEF q
<1>12. \A m \in Range(q) : Key(m) /\ IsResult(m)
  BY <1>3, <1>6, <1>8
<1>13. Good(AppendUnique(M, q))
  <2>1. \A m \in Range(q) : \E v \in Calls : m = Say("result", {v}) /\ m.uses = {v}
    BY <1>10 DEF Say
  <2>2. \A m \in Range(q) : Key(m) /\ IsResult(m) /\ m.uses # {} /\ m.uses \subseteq Calls
    <3> SUFFICES ASSUME NEW m \in Range(q)
                 PROVE  Key(m) /\ IsResult(m) /\ m.uses # {} /\ m.uses \subseteq Calls
      OBVIOUS
    <3>1. PICK v \in Calls : m.uses = {v}
      BY <2>1
    <3> QED
      BY <1>12, <3>1
  <2>3. ASSUME NEW m \in Range(q), NEW n \in Range(q), m # n  PROVE m.uses \cap n.uses = {}
    <3>1. PICK v \in Calls : m = Say("result", {v}) /\ m.uses = {v}
      BY <2>1
    <3>2. PICK w \in Calls : n = Say("result", {w}) /\ n.uses = {w}
      BY <2>1
    <3>3. v # w
      BY <2>3, <3>1, <3>2
    <3> QED
      BY <3>1, <3>2, <3>3
  <2> QED
    BY <1>3, <1>4, <1>8, <1>9, <2>2, <2>3, StepResults
<1> QED
  BY <1>2, <1>6, <1>8, <1>9, <1>10, <1>11, <1>12, <1>13 DEF q

(* Result.                                                                 *)
LEMMA ResultFlow ==
  ASSUME TInv, NEW u \in Calls, Result(u)
  PROVE  Flow'
<1>1. PICK x, q : x = Say("result", {u}) /\ q = Append(ResultsOfStep, x)
  OBVIOUS
<1>2. /\ Live /\ loop = "act" /\ turn' = turn /\ view' = Append(view, x) /\ db' = db /\ faults' = faults
      /\ \/ Request("save", q) /\ loop' = "saveStep"
         \/ chain' = chain /\ pending' = pending /\ loop' = loop
  BY <1>1 DEF Result, storeVars
<1>3. /\ InTurn /\ Written /\ turn.pc = "run" /\ turn.outcome = "none" /\ chain = << >> /\ pending = << >>
      /\ Good(AppendUnique(M, pending))
      /\ \A m \in Range(view) : m.turn <= turn.id /\ (m.turn = turn.id => m.step <= turn.step)
  BY <1>2, LiveSays
<1>4. turn.id \in Nat /\ turn.step \in Nat /\ M \in Seq(Message) /\ view \in Seq(Message)
  BY <1>3, TurnSays DEF TInv
<1>5. /\ x \in Message /\ Key(x) /\ IsResult(x)
      /\ q \in Seq(Message) /\ Sorted(q) /\ ResultsOfStep' = q
      /\ Range(q) = {Say("result", {v}) : v \in Calls \ todo'}
      /\ Good(AppendUnique(M, q)) /\ \A m \in Range(q) : Key(m) /\ IsResult(m)
  BY <1>1, ResultAdds
<1>6. Range(view') = Range(view) \cup {x}
  BY <1>2, <1>4, <1>5, AppendIs
<1>7. /\ Say("calls", Calls) \in Range(M) /\ \A m \in Range(M) : Key(m) => m.kind = "calls"
      /\ ResultsOfStep \in Seq(Message)
  BY <1>2, ResultsAre DEF TInv, Flow, Going
<1>8. M' = M /\ (Live' <=> Live)
  BY <1>2 DEF M, Live
<1>9. Viewed'
  BY <1>2, <1>3, <1>4, <1>5, <1>6 DEF Viewed, Key
<1>10. ASSUME ~faults.late  PROVE view' = M \o q
  <2>1. view = M \o ResultsOfStep
    BY <1>2, <1>10 DEF TInv, Flow, Seen, Unsaved
  <2>2. PICK t, k : t = M /\ k = ResultsOfStep
    OBVIOUS
  <2>3. t \in Seq(Message) /\ k \in Seq(Message) /\ x \in Message
    BY <1>4, <1>5, <1>7, <2>2
  <2>4. Append(t \o k, x) = t \o Append(k, x)
    BY <2>3, AppendOfBoth
  <2> QED
    BY <1>1, <1>2, <2>1, <2>2, <2>4
<1>11. CASE Request("save", q) /\ loop' = "saveStep"
  <2>1. /\ pending' = q /\ chain' # << >> /\ DOMAIN chain' = {1}
        /\ chain'[1].kind = "save" /\ chain'[1].messages = q
    BY <1>3, <1>5, <1>11, Requested
  <2>5. Good(AppendUnique(M', pending'))
    BY <1>5, <1>8, <2>1
  <2>6. \A m \in Range(pending') : m.turn = turn'.id /\ m.step <= turn'.step
    <3>1. \A m \in Range(q) : m.turn = turn.id /\ m.step = turn.step
      BY <1>5 DEF Key
    <3>2. pending' = q /\ turn' = turn /\ turn.step <= turn.step
      BY <1>2, <1>4, <2>1
    <3> QED
      BY <3>1, <3>2
  <2>7. turn'.outcome = "none" /\ \A i \in DOMAIN chain' : i = 1 /\ pending' = chain'[1].messages
    BY <1>2, <1>3, <2>1
  <2>2. Unsent'
    BY <2>5, <2>6, <2>7 DEF Unsent
  <2>3. Going'
    BY <1>2, <1>5, <1>7, <1>8, <1>11, <2>1 DEF Going, Key
  <2>4. Seen'
    BY <1>2, <1>3, <1>8, <1>10, <1>11, <2>1 DEF Seen, Unsaved
  <2> QED
    BY <1>9, <2>2, <2>3, <2>4 DEF Flow
<1>12. CASE chain' = chain /\ pending' = pending /\ loop' = loop
  <2>1. Unsent'
    BY <1>2, <1>3, <1>8, <1>12, NoMessages DEF Unsent
  <2>2. \A kind, uses : Say(kind, uses)' = Say(kind, uses)
    BY <1>2 DEF Say
  <2>3. Going'
    BY <1>2, <1>3, <1>5, <1>7, <1>8, <1>12 DEF Going, Key, Say
  <2>4. Seen'
    BY <1>2, <1>3, <1>5, <1>8, <1>10, <1>12 DEF Seen, Unsaved
  <2> QED
    BY <1>9, <2>1, <2>3, <2>4 DEF Flow
<1> QED
  BY <1>2, <1>11, <1>12

(* End.                                                                    *)
LEMMA EndFlow ==
  ASSUME TInv, NEW outcome \in {"failed", "cancelled"}, End(outcome)
  PROVE  Flow'
<1>1. /\ Live /\ db' = db /\ view' = view /\ turn' = [turn EXCEPT !.outcome = outcome]
      /\ \/ chain' = chain /\ pending' = pending
         \/ loop = "act" /\ Request("save", ResultsOfStep)
  BY DEF End, storeVars
<1>2. /\ InTurn /\ Written /\ turn.pc = "run" /\ turn.outcome = "none"
      /\ loop = "act" => chain = << >> /\ pending = << >>
  BY <1>1, LiveSays
<1>3. turn \in TurnType /\ turn.id \in Nat /\ turn.step \in Nat
  BY <1>2, TurnSays DEF TInv
<1>4. /\ turn'.pc = "run" /\ turn'.id = turn.id /\ turn'.session = turn.session /\ turn'.step = turn.step
      /\ turn'.outcome \in {"failed", "cancelled"}
  BY <1>1, <1>2, <1>3 DEF TurnType
<1>5. M' = M
  BY <1>1, <1>4 DEF M
<1>6. Viewed'
  BY <1>1, <1>2, <1>4 DEF TInv, Flow, Viewed
<1>7. Going' /\ Seen'
  BY <1>4 DEF Going, Seen, Live
<1>8. CASE chain' = chain /\ pending' = pending
  <2>1. Unsent'
    BY <1>2, <1>4, <1>5, <1>8 DEF TInv, Flow, Unsent
  <2> QED
    BY <1>6, <1>7, <2>1 DEF Flow
<1>9. CASE loop = "act" /\ Request("save", ResultsOfStep)
  <2>1. PICK q : q = ResultsOfStep
    OBVIOUS
  <2>2. q \in Seq(Message) /\ Good(AppendUnique(M, q)) /\ \A m \in Range(q) : Key(m)
    BY <1>1, <1>9, <2>1, ResultsAre
  <2>3. /\ pending' = q /\ chain' # << >> /\ DOMAIN chain' = {1}
        /\ chain'[1].kind = "save" /\ chain'[1].messages = q
    BY <1>2, <1>9, <2>1, <2>2, Requested
  <2>4. Good(AppendUnique(M', pending'))
    BY <1>5, <2>2, <2>3
  <2>5. \A m \in Range(pending') : m.turn = turn'.id /\ m.step <= turn'.step
    <3>1. \A m \in Range(q) : m.turn = turn.id /\ m.step = turn.step
      BY <2>2 DEF Key
    <3>2. pending' = q /\ turn'.id = turn.id /\ turn'.step = turn.step /\ turn.step <= turn.step
      BY <1>3, <1>4, <2>3
    <3> QED
      BY <3>1, <3>2
  <2>6. turn'.outcome # "completed" /\ \A i \in DOMAIN chain' : i = 1 /\ pending' = chain'[1].messages
    BY <1>4, <2>3
  <2>7. Unsent'
    BY <2>4, <2>5, <2>6 DEF Unsent
  <2> QED
    BY <1>6, <1>7, <2>7 DEF Flow
<1> QED
  BY <1>1, <1>8, <1>9

(* Settle.                                                                 *)
LEMMA SettleFlow ==
  ASSUME TInv, Settle
  PROVE  Flow'
<1>1. /\ turn.pc = "run" /\ turn.outcome # "none" /\ db' = db /\ view' = view /\ faults' = faults
      /\ turn' = [turn EXCEPT !.pc = "finish"]
      /\ Request("finish", IF turn.outcome = "completed" THEN <<Last(view)>> ELSE << >>)
  BY DEF Settle, storeVars
<1>2. InTurn /\ Written
  BY <1>1 DEF InTurn, Written
<1>3. /\ turn \in TurnType /\ turn.id \in Nat /\ turn.step \in Nat /\ M \in Seq(Message) /\ Good(M)
      /\ UpToStep(M, turn.id, turn.step) /\ pending \in Seq(Message)
  BY <1>2, TurnSays DEF TInv
<1>4. /\ turn'.pc = "finish" /\ turn'.id = turn.id /\ turn'.session = turn.session /\ turn'.step = turn.step
      /\ turn'.outcome = turn.outcome
  BY <1>1, <1>3 DEF TurnType
<1>5. M' = M
  BY <1>1, <1>4 DEF M
<1>6. Viewed'
  BY <1>1, <1>2, <1>4 DEF TInv, Flow, Viewed
<1>7. Going' /\ Seen'
  BY <1>4 DEF Going, Seen, Live
<1>8. /\ Good(AppendUnique(M, pending))
      /\ \A m \in Range(pending) : m.turn = turn.id /\ m.step <= turn.step
      /\ \A i \in DOMAIN chain : chain[i].kind # "finish" => i = 1 /\ pending = chain[1].messages
      /\ turn.outcome = "completed" => chain = << >> /\ pending = << >> /\ Last(view) = Say("text", {})
  BY <1>1, <1>2 DEF TInv, Flow, Unsent
<1>9. CASE turn.outcome = "completed"
  <2>1. PICK x, q : x = Say("text", {}) /\ q = <<x>>
    OBVIOUS
  <2>2. x \in Message /\ x.turn = turn.id /\ x.step = turn.step /\ x.kind = "text"
    <3>1. x \in Message
      BY <1>2, <2>1, TurnIs DEF TInv
    <3> QED
      BY <2>1, <3>1 DEF Say
  <2>3. q \in Seq(Message) /\ Range(q) = {x}
    BY <2>1, <2>2, OneMessage
  <2>4. Good(AppendUnique(M, q))
    <3>1. UpToStep(M, x.turn, x.step)
      BY <1>3, <2>2
    <3> QED
      BY <1>3, <2>1, <2>2, <3>1, GoodText
  <2>5. pending' = q /\ DOMAIN chain' = {1} /\ chain'[1].kind = "finish"
    BY <1>1, <1>8, <1>9, <2>1, <2>3, Requested
  <2>6. Good(AppendUnique(M', pending'))
    BY <1>5, <2>4, <2>5
  <2>7. \A m \in Range(pending') : m.turn = turn'.id /\ m.step <= turn'.step
    BY <1>3, <1>4, <2>2, <2>3, <2>5
  <2>8. Unsent'
    BY <1>4, <2>5, <2>6, <2>7 DEF Unsent
  <2> QED
    BY <1>6, <1>7, <2>8 DEF Flow
<1>10. CASE turn.outcome # "completed"
  <2>1. pending' = pending
    BY <1>1, <1>3, <1>10 DEF Request
  <2>2. chain' = Append(chain, [kind |-> "finish", messages |-> << >>])
    BY <1>1, <1>10 DEF Request
  <2>3. \A i \in DOMAIN chain' : chain'[i].kind # "finish" => i = 1 /\ pending' = chain'[1].messages
    <3>1. PICK n \in Nat : n = Len(chain) /\ DOMAIN chain = 1 .. n /\ DOMAIN chain' = 1 .. n + 1
                           /\ (\A i \in 1 .. n : chain'[i] = chain[i]) /\ chain'[n + 1].kind = "finish"
      <4>1. chain \in Seq([kind : {"save", "handoff", "finish"}, messages : Seq(Message)])
        BY TypeParts DEF TInv, IInv, TChain
      <4> QED
        BY <2>2, <4>1
    <3> QED
      BY <1>8, <2>1, <3>1
  <2>4. Unsent'
    BY <1>4, <1>5, <1>8, <2>1, <2>3 DEF Unsent
  <2> QED
    BY <1>6, <1>7, <2>4 DEF Flow
<1> QED
  BY <1>9, <1>10

(* The messages of the record that a checkpoint or a handoff commits.      *)
LEMMA SavedMessages ==
  ASSUME db[turn.session] \in Record, pending \in Seq(Message), pending = chain[1].messages
  PROVE  /\ [db[turn.session] EXCEPT !.messages = AppendUnique(@, chain[1].messages)].messages = AppendUnique(M, pending)
         /\ [db[turn.session] EXCEPT !.messages = AppendUnique(@, chain[1].messages),
                                     !.agent = "target"].messages = AppendUnique(M, pending)
<1>1. PICK r, m : r = db[turn.session] /\ m = chain[1].messages
  OBVIOUS
<1>2. r \in Record /\ m \in Seq(Message) /\ M = r.messages /\ m = pending
  BY <1>1 DEF M
<1>3. /\ [r EXCEPT !.messages = AppendUnique(@, m)].messages = AppendUnique(r.messages, m)
      /\ [r EXCEPT !.messages = AppendUnique(@, m), !.agent = "target"].messages = AppendUnique(r.messages, m)
  BY <1>2, SavedIs
<1> QED
  BY <1>1, <1>2, <1>3

(* What a live loop waits to have saved is not in the store.               *)
LEMMA SavedFits ==
  ASSUME TInv, Live, loop \in {"saveCalls", "saveStep", "transfer"}
  PROVE  /\ AppendUnique(M, pending) = M \o pending
         /\ Range(AppendUnique(M, pending)) = Range(M) \cup Range(pending)
<1>1. InTurn
  BY LiveSays
<1>2. M \in Seq(Message) /\ pending \in Seq(Message) /\ view \in Seq(Message)
  BY <1>1, TurnSays DEF TInv
<1>3. Range(pending) \cap Range(M) = {}
  <2>1. CASE loop = "saveCalls"
    <3>1. \A m \in Range(M) : ~Key(m)
      BY <2>1 DEF TInv, Flow, Going
    <3>2. PICK x : x = Last(view) /\ pending = <<x>> /\ Key(x)
      BY <2>1 DEF TInv, Flow, Going
    <3>3. Range(pending) = {x}
      BY <3>2 DEF Range
    <3> QED
      BY <3>1, <3>2, <3>3
  <2>2. CASE loop \in {"saveStep", "transfer"}
    <3>1. /\ \A m \in Range(M) : Key(m) => m.kind = "calls"
          /\ \A m \in Range(pending) : Key(m) /\ IsResult(m)
      BY <2>2 DEF TInv, Flow, Going
    <3> QED
      BY <3>1 DEF IsResult
  <2> QED
    BY <2>1, <2>2
<1> QED
  BY <1>2, <1>3, AppendUniqueIs

(* What is still to write after a checkpoint or a handoff.                 *)
LEMMA SaveUnsent ==
  ASSUME TInv, IInv', Texts', NEW kind \in {"save", "handoff"}, HeadIs(kind), chain' = Tail(chain),
         turn'.pc = turn.pc, turn'.id = turn.id, turn'.session = turn.session, turn'.step = turn.step,
         turn'.outcome = "completed" => turn.outcome = "completed",
         db' = db \/ db'[turn.session].messages = AppendUnique(M, pending),
         pending' = pending \/ pending' = << >>
  PROVE  Unsent'
<1>1. /\ InTurn /\ Written /\ turn.session \in Session
      /\ M \in Seq(Message) /\ pending \in Seq(Message)
      /\ Good(AppendUnique(M, pending))
      /\ \A m \in Range(pending) : m.turn = turn.id /\ m.step <= turn.step
  BY HeadSays DEF TInv, Flow
<1>2. PICK t, p, n : t = M /\ p = pending /\ n = db'[turn.session].messages
  OBVIOUS
<1>3. t \in Seq(Message) /\ p \in Seq(Message) /\ Good(AppendUnique(t, p)) /\ n \in Seq(Message) /\ Good(n)
  <2>1. db' \in [Session -> Record]
    BY DEF IInv, TypeOK
  <2>2. n \in Seq(Message)
    BY <1>1, <1>2, <2>1, RecordIs
  <2>3. Good(n)
    BY <1>1, <1>2 DEF Texts, Whole
  <2> QED
    BY <1>1, <1>2, <2>2, <2>3
<1>4. M' = n /\ (n = t \/ n = AppendUnique(t, p))
  BY <1>2 DEF M
<1>5. Good(AppendUnique(n, p))
  <2>1. CASE n = t
    BY <1>3, <2>1
  <2>2. CASE n = AppendUnique(t, p)
    <3>1. Range(p) \subseteq Range(n)
      BY <1>3, <2>2, AppendUniqueIs
    <3> QED
      BY <1>3, <3>1, AppendUniqueIs
  <2> QED
    BY <1>4, <2>1, <2>2
<1>6. Good(AppendUnique(n, << >>))
  BY <1>3, NoMessages, AppendUniqueIs
<1>7. Good(AppendUnique(M', pending'))
  <2>1. CASE pending' = p
    BY <1>4, <1>5, <2>1
  <2>2. CASE pending' = << >>
    BY <1>4, <1>6, <2>2
  <2> QED
    BY <1>2, <2>1, <2>2
<1>8. \A m \in Range(pending') : m.turn = turn'.id /\ m.step <= turn'.step
  BY <1>1, NoMessages
<1>9. \A i \in DOMAIN chain' : chain'[i].kind = "finish"
  <2>1. /\ chain \in Seq([kind : {"save", "handoff", "finish"}, messages : Seq(Message)])
        /\ chain # << >>
    BY TypeParts DEF TInv, IInv, TChain, HeadIs
  <2>2. \A i \in DOMAIN chain' : i + 1 \in DOMAIN chain /\ i + 1 # 1 /\ chain'[i] = chain[i + 1]
    BY <2>1
  <2>3. \A i \in DOMAIN chain : i # 1 => chain[i].kind = "finish"
    BY <1>1 DEF TInv, Flow, Unsent
  <2> QED
    BY <2>2, <2>3
<1>10. ~(turn'.outcome = "completed" /\ turn'.pc = "run")
  BY <1>1 DEF TInv, Flow, Unsent, HeadIs
<1> QED
  BY <1>7, <1>8, <1>9, <1>10 DEF Unsent

(* A checkpoint or a handoff that fails leaves no loop.                    *)
LEMMA FailsFlow ==
  ASSUME TInv, IInv', Texts', NEW kind \in {"save", "handoff"}, HeadIs(kind), chain' = Tail(chain),
         LoopFails, db' = db \/ db'[turn.session].messages = AppendUnique(M, pending)
  PROVE  Flow'
<1>1. InTurn /\ Written /\ (turn.pc = "run" \/ Ending)
  <2>1. InTurn /\ Written
    BY HeadSays DEF TInv, Flow
  <2> QED
    BY <2>1, HeadType DEF TInv, IInv, Control
<1>2. turn \in TurnType
  BY <1>1, TurnIs DEF TInv
<1>3. /\ turn'.pc = turn.pc /\ turn'.id = turn.id /\ turn'.session = turn.session /\ turn'.step = turn.step
      /\ turn'.outcome = IF Live THEN "failed" ELSE turn.outcome
      /\ view' = view /\ pending' = pending
  BY <1>2 DEF LoopFails, TurnType
<1>4. ~Live'
  BY <1>3 DEF Live
<1>5. Viewed'
  BY <1>1, <1>3 DEF TInv, Flow, Viewed
<1>6. turn'.outcome = "completed" => turn.outcome = "completed"
  BY <1>3
<1>7. Unsent'
  BY <1>3, <1>6, SaveUnsent
<1>8. Going' /\ Seen'
  BY <1>1, <1>3, <1>4 DEF Going, Seen, Ending
<1> QED
  BY <1>5, <1>7, <1>8 DEF Flow

(* A loop that goes on after its calls were saved.                         *)
LEMMA CallsSaved ==
  ASSUME TInv, Live, loop = "saveCalls"
  PROVE  /\ \A m \in Range(M) \cup Range(pending) : Key(m) => m.kind = "calls"
         /\ Last(view).uses \in {Calls, {HandoffUse}}
         /\ Say("calls", Last(view).uses) \in Range(pending)
         /\ ResultsOfStep = << >>
<1>1. /\ InTurn /\ Last(view).uses \in {Calls, {HandoffUse}}
      /\ \A m \in Range(M) : ~Key(m)
      /\ \A m \in Range(view) : Key(m) => m.kind = "calls"
      /\ view # << >> /\ pending = <<Last(view)>> /\ Last(view).kind = "calls" /\ Key(Last(view))
  BY LiveSays DEF TInv, IInv, Control, Flow, Going
<1>2. view \in Seq(Message)
  BY <1>1, TurnSays DEF TInv
<1>3. PICK x : x = Last(view)
  OBVIOUS
<1>4. x \in Message
  BY <1>1, <1>2, <1>3 DEF Last
<1>5. x = Say("calls", x.uses)
  BY <1>1, <1>3, <1>4 DEF Say, Key, Message
<1>6. Range(pending) = {x}
  BY <1>1, <1>3 DEF Range
<1>7. ResultsOfStep = << >>
  <2> DEFINE S == {m \in Range(view) : m.turn = turn.id /\ m.kind = "result" /\ m.step = turn.step}
  <2>1. \A y \in ToSet(view) : y \notin S
    <3>1. Range(view) = ToSet(view)
      BY <1>2, RangeIs
    <3> QED
      BY <1>1, <3>1 DEF Key
  <2>2. ResultsOfStep = Kept(view, S)
    BY DEF ResultsOfStep
  <2> HIDE DEF S
  <2> QED
    BY <1>2, <2>1, <2>2, KeptAll
<1> QED
  BY <1>1, <1>3, <1>5, <1>6, <1>7

(* CommitSave.                                                             *)
LEMMA CommitSaveFlow ==
  ASSUME TInv, CommitSave
  PROVE  Flow'
<1>1. IInv' /\ Texts' /\ (faults.late => faults'.late)
  BY Carried DEF Next, Commits
<1>2. HeadIs("save") /\ chain' = Tail(chain)
  BY DEF CommitSave
<1>3. /\ InTurn /\ Written /\ turn.session \in Session /\ db[turn.session] \in Record
      /\ M \in Seq(Message) /\ pending \in Seq(Message) /\ pending = chain[1].messages
  BY <1>2, HeadSays DEF TInv, Flow
<1>4. db' = db \/ db'[turn.session].messages = AppendUnique(M, pending)
  BY CommitSaveHeirs DEF TInv, Flow
<1> DEFINE record == [db[turn.session] EXCEPT !.messages = AppendUnique(@, chain[1].messages)]
<1>5. \/ LoopFails
      \/ /\ Committed(turn.session, record)
         /\ pending' = Forget(chain[1].messages) /\ AfterSave /\ turn' = turn /\ view' = view
  BY Zenon DEF CommitSave
<1>6. CASE LoopFails
  BY <1>1, <1>2, <1>4, <1>6, FailsFlow
<1>7. CASE /\ Committed(turn.session, record)
           /\ pending' = Forget(chain[1].messages) /\ AfterSave /\ turn' = turn /\ view' = view
  <2>1. M' = AppendUnique(M, pending)
    <3>1. db'[turn.session] = record
      <4>1. TypeOK
        BY DEF TInv, IInv
      <4>2. PICK r, s : r = record /\ s = turn.session
        OBVIOUS
      <4>3. s \in Session /\ Committed(s, r)
        BY <1>3, <1>7, <4>2
      <4>4. db'[s] = r
        BY <4>1, <4>3, OutcomeIs
      <4> QED
        BY <4>2, <4>4
    <3>2. record.messages = AppendUnique(M, pending)
      BY <1>3, SavedMessages
    <3> HIDE DEF record
    <3> QED
      BY <1>7, <3>1, <3>2 DEF M
  <2>2. pending' = << >>
    <3>1. Forget(chain[1].messages) = Kept(pending, {})
      BY <1>3 DEF Forget
    <3>2. Kept(pending, {}) = << >>
      BY <1>3, KeptAll
    <3> QED
      BY <1>7, <3>1, <3>2
  <2>3. Unsent'
    BY <1>1, <1>2, <1>4, <1>7, <2>2, SaveUnsent
  <2>4. Viewed'
    BY <1>7 DEF TInv, Flow, Viewed, InTurn
  <2>5. CASE ~Live
    <3>1. ~Live' /\ turn'.pc \notin {"start", "attach", "create"}
      <4>1. turn.pc = "run" \/ Ending
        BY <1>2, HeadType DEF TInv, IInv, Control
      <4> QED
        BY <1>7, <2>5, <4>1 DEF Live, Ending
    <3>2. Going' /\ Seen'
      BY <3>1 DEF Going, Seen
    <3> QED
      BY <2>3, <2>4, <3>2 DEF Flow
  <2>6. CASE Live
    <3>1. loop \in {"saveCalls", "saveStep"} /\ turn.pc = "run"
      BY <1>2, <2>6, HeadType DEF TInv, IInv, Control, Waiting, Live, HeadIs
    <3>2. M' = M \o pending /\ Range(M') = Range(M) \cup Range(pending)
      BY <2>1, <2>6, <3>1, SavedFits
    <3>3. ~faults'.late => view' = M'
      BY <1>1, <1>7, <2>6, <3>1, <3>2 DEF TInv, Flow, Seen, Unsaved
    <3>4. M' \in Seq(Message) /\ M' \o << >> = M'
      BY <1>3, <3>2
    <3>5. CASE loop = "saveStep"
      <4>1. loop' = "think"
        BY <1>7, <2>6, <3>5 DEF AfterSave
      <4>2. Going'
        BY <2>2, <4>1 DEF Going
      <4>3. Seen'
        BY <1>7, <3>1, <3>3, <3>4, <4>1 DEF Seen, Unsaved
      <4> QED
        BY <2>3, <2>4, <4>2, <4>3 DEF Flow
    <3>6. CASE loop = "saveCalls"
      <4>1. /\ \A m \in Range(M') : Key(m) => m.kind = "calls"
            /\ Last(view).uses \in {Calls, {HandoffUse}}
            /\ Say("calls", Last(view).uses) \in Range(M')
            /\ ResultsOfStep = << >>
        BY <2>6, <3>2, <3>6, CallsSaved
      <4>2. ResultsOfStep' = << >> /\ \A kind, uses : Say(kind, uses)' = Say(kind, uses)
        BY <1>7, <4>1 DEF ResultsOfStep, Say
      <4>3. \/ loop' = "handoff" /\ Last(view).uses = {HandoffUse}
            \/ loop' = "act" /\ Last(view).uses = Calls /\ todo' = Calls
        BY <1>7, <2>6, <3>6, <4>1 DEF AfterSave
      <4>4. {Say("result", {u}) : u \in Calls \ todo'} = {} \/ loop' # "act"
        BY <4>3
      <4>5. Going'
        BY <1>7, <2>2, <4>1, <4>2, <4>3, <4>4, NoMessages DEF Going, Key, Say, Good
      <4>6. Seen'
        BY <1>7, <3>1, <3>3, <3>4, <4>2, <4>3 DEF Seen, Unsaved
      <4> QED
        BY <2>3, <2>4, <4>5, <4>6 DEF Flow
    <3> QED
      BY <3>1, <3>5, <3>6
  <2> QED
    BY <2>5, <2>6
<1> QED
  BY <1>5, <1>6, <1>7

(* CommitHandoff.                                                          *)
LEMMA CommitHandoffFlow ==
  ASSUME TInv, CommitHandoff
  PROVE  Flow'
<1>1. IInv' /\ Texts' /\ (faults.late => faults'.late)
  BY Carried DEF Next, Commits
<1>2. HeadIs("handoff") /\ chain' = Tail(chain)
  BY DEF CommitHandoff
<1>3. /\ InTurn /\ Written /\ turn.session \in Session /\ db[turn.session] \in Record
      /\ M \in Seq(Message) /\ pending \in Seq(Message) /\ pending = chain[1].messages
      /\ \A m \in Range(pending) : m.turn = turn.id /\ m.step <= turn.step
  BY <1>2, HeadSays DEF TInv, Flow
<1>4. db' = db \/ db'[turn.session].messages = AppendUnique(M, pending)
  BY CommitHandoffHeirs DEF TInv, Flow
<1>5. turn \in TurnType /\ view \in Seq(Message) /\ (turn.pc = "run" \/ Ending)
  BY <1>2, <1>3, TurnSays, HeadType DEF TInv, IInv, Control
<1> DEFINE record == [db[turn.session] EXCEPT !.messages = AppendUnique(@, chain[1].messages), !.agent = "target"]
<1>6. \/ LoopFails
      \/ /\ Committed(turn.session, record)
         /\ pending' = Forget(chain[1].messages)
         /\ \/ /\ Live /\ turn' = [turn EXCEPT !.agent = "target", !.handed = TRUE]
               /\ view' = view \o chain[1].messages /\ loop' = "think"
            \/ ~Live /\ turn' = turn /\ view' = view
  BY Zenon DEF CommitHandoff
<1>7. CASE LoopFails
  BY <1>1, <1>2, <1>4, <1>7, FailsFlow
<1>8. CASE /\ Committed(turn.session, record)
           /\ pending' = Forget(chain[1].messages)
           /\ \/ /\ Live /\ turn' = [turn EXCEPT !.agent = "target", !.handed = TRUE]
                 /\ view' = view \o chain[1].messages /\ loop' = "think"
              \/ ~Live /\ turn' = turn /\ view' = view
  <2>1. /\ turn'.pc = turn.pc /\ turn'.id = turn.id /\ turn'.session = turn.session /\ turn'.step = turn.step
        /\ turn'.outcome = turn.outcome
    BY <1>5, <1>8 DEF TurnType
  <2>2. pending' = << >>
    <3>1. Forget(chain[1].messages) = Kept(pending, {})
      BY <1>3 DEF Forget
    <3>2. Kept(pending, {}) = << >>
      BY <1>3, KeptAll
    <3> QED
      BY <1>8, <3>1, <3>2
  <2>3. Unsent'
    BY <1>1, <1>2, <1>4, <2>1, <2>2, SaveUnsent
  <2>4. Viewed'
    <3>1. Range(view') \subseteq Range(view) \cup Range(pending)
      BY <1>3, <1>5, <1>8, BothIs
    <3>2. \A m \in Range(view) : m.turn <= turn.id /\ (m.turn = turn.id => m.step <= turn.step)
      BY <1>3 DEF TInv, Flow, Viewed
    <3>3. turn'.pc # "start" /\ turn.id \in Nat
      BY <1>3, <1>5, <2>1, TurnSays DEF Ending, TInv
    <3>4. \A m \in Range(pending) : m.turn <= turn.id /\ m.step <= turn.step
      BY <1>3, <3>3
    <3>5. \A m \in Range(view') : m.turn <= turn.id /\ (m.turn = turn.id => m.step <= turn.step)
      BY <3>1, <3>2, <3>4
    <3> QED
      BY <2>1, <3>3, <3>5 DEF Viewed
  <2>5. CASE ~Live
    <3>1. ~Live' /\ turn'.pc \notin {"start", "attach", "create"}
      BY <1>5, <2>1, <2>5 DEF Live, Ending
    <3> QED
      BY <2>3, <2>4, <3>1 DEF Flow, Going, Seen
  <2>6. CASE Live
    <3>1. loop = "transfer" /\ turn'.pc = "run" /\ loop' = "think"
      <4>1. loop = "transfer"
        BY <1>2, <2>6, HeadType DEF TInv, IInv, Control, Waiting, Live, HeadIs
      <4> QED
        BY <1>8, <2>1, <2>6, <4>1 DEF Live
    <3>2. M' = M \o pending
      <4>1. TypeOK
        BY DEF TInv, IInv
      <4>2. PICK r, s : r = record /\ s = turn.session
        OBVIOUS
      <4>3. s \in Session /\ Committed(s, r)
        BY <1>3, <1>8, <4>2
      <4>4. db'[s] = r
        BY <4>1, <4>3, OutcomeIs
      <4>5. record.messages = AppendUnique(M, pending)
        BY <1>3, SavedMessages
      <4>6. AppendUnique(M, pending) = M \o pending
        BY <2>6, <3>1, SavedFits
      <4> HIDE DEF record
      <4>7. db'[turn.session].messages = M \o pending
        BY <4>2, <4>4, <4>5, <4>6
      <4> QED
        BY <2>1, <4>7 DEF M
    <3>3. ASSUME ~faults'.late  PROVE view' = M' \o << >>
      <4>1. view = M \o << >>
        BY <1>1, <2>6, <3>1, <3>3 DEF TInv, Flow, Seen, Unsaved
      <4>2. view = M
        BY <1>3, <4>1
      <4>3. view' = M'
        BY <1>3, <1>8, <2>6, <3>2, <4>2
      <4>4. M' \in Seq(Message)
        BY <1>3, <3>2
      <4> QED
        BY <4>3, <4>4
    <3>4. Going'
      BY <2>2, <3>1 DEF Going
    <3>5. Seen'
      BY <3>1, <3>3 DEF Seen, Unsaved
    <3> QED
      BY <2>3, <2>4, <3>4, <3>5 DEF Flow
  <2> QED
    BY <2>5, <2>6
<1> QED
  BY <1>6, <1>7, <1>8

(* An operation of the coordinator.                                        *)
Operation == [kind : {"save", "handoff", "finish"}, messages : Seq(Message)]

(* Its tail with one more.                                                 *)
LEMMA OneMore ==
  ASSUME NEW s \in Seq(Operation), NEW x \in Operation
  PROVE  /\ DOMAIN Append(s, x) = 1 .. Len(s) + 1 /\ Append(s, x)[Len(s) + 1] = x
         /\ \A i \in 1 .. Len(s) : Append(s, x)[i] = s[i]
OBVIOUS

(* If the head becomes the last, they are the same.                        *)
LEMMA Rotated ==
  ASSUME NEW g \in Seq(Operation), g # << >>
  PROVE  \A i \in DOMAIN Append(Tail(g), g[1]) : \E j \in DOMAIN g : Append(Tail(g), g[1])[i] = g[j]
<1>1. PICK c, e : c = Tail(g) /\ e = g[1]
  OBVIOUS
<1>2. Len(g) \in Nat \ {0} /\ DOMAIN g = 1 .. Len(g) /\ e \in Operation
  BY <1>1
<1>3. c \in Seq(Operation) /\ Len(c) = Len(g) - 1 /\ \A i \in 1 .. Len(c) : c[i] = g[i + 1]
  BY <1>1
<1>4. /\ DOMAIN Append(c, e) = 1 .. Len(c) + 1 /\ Append(c, e)[Len(c) + 1] = e
      /\ \A i \in 1 .. Len(c) : Append(c, e)[i] = c[i]
  <2>1. c \in Seq(Operation) /\ e \in Operation
    BY <1>2, <1>3
  <2> QED
    BY <2>1, OneMore
<1>5. \A i \in 1 .. Len(c) + 1 : i \in 1 .. Len(c) \/ i = Len(c) + 1
  <2>1. \A n \in Nat : \A i \in 1 .. n + 1 : i \in 1 .. n \/ i = n + 1
    OBVIOUS
  <2>2. Len(c) \in Nat
    BY <1>2, <1>3
  <2> QED
    BY <2>1, <2>2
<1>6. 1 \in DOMAIN g /\ \A i \in 1 .. Len(c) : i + 1 \in DOMAIN g
  BY <1>2, <1>3
<1>7. \A i \in DOMAIN Append(c, e) : \E j \in DOMAIN g : Append(c, e)[i] = g[j]
  <2> TAKE i \in DOMAIN Append(c, e)
  <2>1. CASE i \in 1 .. Len(c)
    BY <1>3, <1>4, <1>6, <2>1
  <2>2. CASE i = Len(c) + 1
    BY <1>1, <1>4, <1>6, <2>2
  <2> QED
    BY <1>4, <1>5, <2>1, <2>2
<1> QED
  BY <1>1, <1>7

(* CommitFinish.                                                           *)
LEMMA CommitFinishFlow ==
  ASSUME TInv, NEW transition \in BOOLEAN, CommitFinish(transition)
  PROVE  Flow'
<1>1. IInv' /\ Texts'
  BY Carried DEF Next, Commits
<1>2. HeadIs("finish")
  BY DEF CommitFinish
<1>3. /\ InTurn /\ Written /\ turn.session \in Session
      /\ M \in Seq(Message) /\ pending \in Seq(Message)
      /\ Good(AppendUnique(M, pending))
      /\ \A m \in Range(pending) : m.turn = turn.id /\ m.step <= turn.step
  BY <1>2, HeadSays DEF TInv, Flow
<1>4. \/ turn' = NoTurn
      \/ /\ turn' = [turn EXCEPT !.pc = "refinish"]
         /\ chain' = Append(Tail(chain), chain[1]) /\ view' = view /\ pending' = pending
  BY Zenon DEF CommitFinish, EndTurn
<1>5. CASE turn' = NoTurn
  BY <1>5, FlowGone DEF NoTurn
<1>6. CASE /\ turn' = [turn EXCEPT !.pc = "refinish"]
           /\ chain' = Append(Tail(chain), chain[1]) /\ view' = view /\ pending' = pending
  <2>1. /\ turn'.pc = "refinish" /\ turn'.id = turn.id /\ turn'.session = turn.session /\ turn'.step = turn.step
    BY <1>3, <1>6, TurnIs DEF TInv, TurnType
  <2>2. Viewed'
    BY <1>3, <1>6, <2>1 DEF TInv, Flow, Viewed
  <2>3. PICK t, p, n : t = M /\ p = pending /\ n = db'[turn.session].messages
    OBVIOUS
  <2>4. t \in Seq(Message) /\ p \in Seq(Message) /\ Good(AppendUnique(t, p)) /\ n \in Seq(Message) /\ Good(n)
    <3>1. db' \in [Session -> Record]
      BY <1>1 DEF IInv, TypeOK
    <3>2. n \in Seq(Message)
      BY <1>3, <2>3, <3>1, RecordIs
    <3>3. Good(n)
      BY <1>1, <1>3, <2>3 DEF Texts, Whole
    <3> QED
      BY <1>3, <2>3, <3>2, <3>3
  <2>5. n = t \/ Range(p) \subseteq Range(n)
    <3>1. db' = db \/ Range(pending) \subseteq Range(db'[turn.session].messages)
      BY CommitFinishHeirs DEF TInv, Flow
    <3> QED
      BY <2>3, <3>1 DEF M
  <2>6. Good(AppendUnique(n, p))
    <3>1. CASE n = t
      BY <2>4, <3>1
    <3>2. CASE Range(p) \subseteq Range(n)
      BY <2>4, <3>2, AppendUniqueIs
    <3> QED
      BY <2>5, <3>1, <3>2
  <2>7. Good(AppendUnique(M', pending'))
    <3>1. M' = n
      BY <2>1, <2>3 DEF M
    <3> QED
      BY <1>6, <2>3, <2>6, <3>1
  <2>8. \A i \in DOMAIN chain' : chain'[i].kind = "finish"
    <3>1. /\ chain \in Seq([kind : {"save", "handoff", "finish"}, messages : Seq(Message)])
          /\ chain # << >> /\ chain[1].kind = "finish"
      BY <1>2, TypeParts DEF TInv, IInv, TChain, HeadIs
    <3>2. \A i \in DOMAIN chain : chain[i].kind = "finish"
      BY <1>3, <3>1 DEF TInv, Flow, Unsent
    <3>3. PICK g : g = chain
      OBVIOUS
    <3>4. g \in Seq(Operation) /\ g # << >> /\ (\A i \in DOMAIN g : g[i].kind = "finish")
      BY <3>1, <3>2, <3>3 DEF Operation
    <3>5. \A i \in DOMAIN Append(Tail(g), g[1]) : \E j \in DOMAIN g : Append(Tail(g), g[1])[i] = g[j]
      BY <3>4, Rotated
    <3>6. chain' = Append(Tail(g), g[1])
      BY <1>6, <3>3
    <3> QED
      BY <3>4, <3>5, <3>6
  <2>9. \A m \in Range(pending') : m.turn = turn'.id /\ m.step <= turn'.step
    BY <1>3, <1>6, <2>1
  <2>10. Unsent'
    BY <2>1, <2>7, <2>8, <2>9 DEF Unsent
  <2>11. Going' /\ Seen'
    BY <2>1 DEF Going, Seen, Live
  <2> QED
    BY <2>2, <2>10, <2>11 DEF Flow
<1> QED
  BY <1>4, <1>5, <1>6

-----------------------------------------------------------------------------
(* TInv is inductive.                                                      *)

(* Of the loop and its turn it is kept by every step.                      *)
LEMMA FlowStep ==
  ASSUME TInv, [Next]_vars
  PROVE  Flow'
<1>1. faults.late => faults'.late
  BY Carried
<1>2. CASE UNCHANGED vars
  <2>1. turn' = turn /\ loopVars' = loopVars /\ db' = db
    BY <1>2 DEF vars, storeVars
  <2> QED
    BY <1>1, <2>1, FlowSame DEF TInv
<1>3. CASE Commands
  <2>1. turn' = turn /\ loopVars' = loopVars /\ (turn.pc # "idle" => db' = db)
    BY <1>3, CommandsKeep DEF TInv, Flow
  <2> QED
    BY <1>1, <2>1, FlowSame DEF TInv
<1>4. CASE Turns
  BY <1>4, BeginTurnFlow, OpenForTurnFlow, StartTurnFlow, AttachForTurnFlow, CreateAgentFlow, AnswerFlow,
     CallToolsFlow, EndFlow, ResultFlow, RejectHandoffFlow, SaveHandoffFlow DEF Turns
<1>5. CASE Settle
  BY <1>5, SettleFlow
<1>6. CASE Commits
  BY <1>6, CommitSaveFlow, CommitHandoffFlow, CommitFinishFlow DEF Commits
<1>7. CASE Crash
  BY <1>7, FlowGone DEF Crash, EndTurn, NoTurn
<1> QED
  BY <1>2, <1>3, <1>4, <1>5, <1>6, <1>7 DEF Next

(* It holds at first.                                                      *)
LEMMA TInvInit ==
  ASSUME Init
  PROVE  TInv
<1>1. IInv
  BY InitIs
<1>2. /\ db = [s \in Session |-> EmptyRecord] /\ stored = {} /\ current = Draft(1) /\ turn = NoTurn
      /\ drawn = [sessions |-> 1, turns |-> 0]
  BY DEF Init
<1>3. EmptyRecord.messages = << >> /\ Range(<< >>) = {}
  BY NoMessages DEF EmptyRecord
<1>4. Texts
  <2>1. \A s \in Session : db[s] = EmptyRecord
    BY <1>2
  <2> QED
    BY <1>3, <2>1, WholeEmpty DEF Texts
<1>5. Shown
  <2>1. current.record = EmptyRecord /\ current.id = 1 /\ 1 \in Session
    BY <1>2, SessionAssumption DEF Draft, Session
  <2> QED
    BY <1>2, <1>3, <2>1 DEF Shown
<1>6. Flow
  BY <1>2 DEF Flow, Viewed, Unsent, Going, Seen, InTurn, Written, Live, NoTurn
<1> QED
  BY <1>1, <1>4, <1>5, <1>6 DEF TInv

(* The invariant of the transcripts.                                       *)
LEMMA TranscriptInvariant == Spec => []TInv
<1>1. TInv /\ [Next]_vars => TInv'
  BY Carried, FlowStep DEF TInv
<1> QED
  BY TInvInit, <1>1, PTL DEF Spec

-----------------------------------------------------------------------------
(* The theorems.                                                           *)

(* An order in which every message follows those before it.                *)
LEMMA SortedInOrder ==
  ASSUME NEW t \in Seq(Message), Sorted(t)
  PROVE  InOrder(t)
<1> SUFFICES ASSUME NEW i \in DOMAIN t, NEW j \in DOMAIN t, i < j
             PROVE  t[i] # t[j] /\ Before(t[i], t[j])
  BY DEF InOrder
<1>1. Follow(t[i], t[j])
  BY DEF Sorted
<1>2. PICK m, n : m = t[i] /\ n = t[j]
  OBVIOUS
<1>3. m \in Message /\ n \in Message
  BY <1>2
<1>4. Rank(m) <= Rank(n) => Stage(m) <= Stage(n)
  <2>1. /\ Rank(m) \in {0, 1, 2} /\ Rank(n) \in {0, 1, 2}
        /\ Rank(m) = 0 <=> m.kind \in {"user", "calls"}
        /\ Rank(n) = 0 <=> n.kind \in {"user", "calls"}
    BY <1>3, MessageIs
  <2> QED
    BY <2>1 DEF Stage
<1>5. Follow(m, n)
  BY <1>1, <1>2
<1>6. m # n /\ Before(m, n)
  BY <1>4, <1>5 DEF Follow, Before
<1> QED
  BY <1>2, <1>6

(* Calls that lack nothing in a good transcript are answered once.         *)
LEMMA CallsAnsweredOnce ==
  ASSUME NEW t \in Seq(Message), Good(t), NEW i \in DOMAIN t, t[i].kind = "calls", Lacks(Range(t), t[i]) = {}
  PROVE  AnsweredOnce(t, i)
<1>1. Missing(t, i) = {}
  BY AnswersAre
<1>2. ASSUME NEW u \in t[i].uses
      PROVE  Cardinality({j \in DOMAIN t : /\ IsResult(t[j]) /\ u \in t[j].uses
                                           /\ t[j].turn = t[i].turn /\ t[j].step = t[i].step}) = 1
  <2> DEFINE S == {j \in DOMAIN t : /\ IsResult(t[j]) /\ u \in t[j].uses
                                    /\ t[j].turn = t[i].turn /\ t[j].step = t[i].step}
  <2>1. PICK m \in Range(t) : IsResult(m) /\ Same(m, t[i]) /\ u \in m.uses
    BY DEF Lacks
  <2>2. PICK j \in DOMAIN t : t[j] = m
    BY DEF Range
  <2>3. j \in S
    BY <2>1, <2>2 DEF Same
  <2>4. ASSUME NEW k \in S  PROVE k = j
    <3>1. k \in DOMAIN t /\ IsResult(t[k]) /\ u \in t[k].uses /\ Same(t[k], t[j])
      BY <2>1, <2>2 DEF Same
    <3>2. t[k] \in Range(t) /\ t[j] \in Range(t)
      BY <3>1 DEF Range
    <3>3. t[k] = t[j]
      BY <2>1, <2>2, <3>1, <3>2 DEF Good, Sound, Apart
    <3>4. \A a, b \in DOMAIN t : a < b => t[a] # t[b]
      BY DEF Good, Sorted, Follow
    <3>5. k \in Nat /\ j \in Nat
      BY <3>1
    <3> QED
      BY <3>1, <3>3, <3>4, <3>5
  <2>5. S = {j}
    BY <2>3, <2>4
  <2> HIDE DEF S
  <2>6. Cardinality(S) = 1
    BY <2>5, FS_Singleton
  <2> QED
    BY <2>6 DEF S
<1> QED
  BY <1>1, <1>2 DEF AnsweredOnce

(* Whatever is retried, lost, late, cancelled, cleared or repaired, a      *)
(* transcript of the store has every message once and in order, and every  *)
(* tool use of a turn that has ended is answered once, by the tool         *)
(* messages that follow it.                                                *)
THEOREM TranscriptIsWhole == Spec => []TranscriptWhole
<1>1. ASSUME TInv  PROVE TranscriptWhole
  <2> SUFFICES ASSUME NEW s \in stored
               PROVE  LET messages == db[s].messages IN
                      /\ InOrder(messages)
                      /\ \A i \in DOMAIN messages :
                           messages[i].kind = "calls" /\ messages[i].turn \notin RunningTurns(db[s])
                             => AnsweredOnce(messages, i)
    BY DEF TranscriptWhole
  <2>1. s \in Session /\ db[s] \in Record
    BY <1>1, TypeParts DEF TInv, IInv, TStore
  <2>2. PICK r, t : r = db[s] /\ t = db[s].messages
    OBVIOUS
  <2>3. r \in Record /\ t \in Seq(Message) /\ t = r.messages /\ Whole(r)
    BY <1>1, <2>1, <2>2, RecordIs DEF TInv, Texts
  <2>4. Good(t) /\ InOrder(t)
    BY <2>3, SortedInOrder DEF Whole, Good
  <2>5. ASSUME NEW i \in DOMAIN t, t[i].kind = "calls", t[i].turn \notin RunningTurns(r)
        PROVE  AnsweredOnce(t, i)
    <3>1. ~IsRunning(r, t[i].turn)
      BY <2>5 DEF IsRunning, RunningTurns, Range
    <3>2. t[i] \in Range(t)
      BY DEF Range
    <3>3. Lacks(Range(t), t[i]) = {}
      BY <2>3, <2>5, <3>1, <3>2 DEF Whole
    <3> QED
      BY <2>3, <2>4, <2>5, <3>3, CallsAnsweredOnce
  <2> QED
    BY <2>2, <2>4, <2>5
<1> QED
  BY <1>1, TranscriptInvariant, PTL

(* While no error came late, what the store has of a turn that is live is  *)
(* what its agent has seen, up to its last step: never ahead of the agent, *)
(* except for the confirmation of a handoff.                               *)
THEOREM DurableIsPrefix == Spec => []DurablePrefix
<1>1. ASSUME TInv, Live, ~faults.late  PROVE IsPrefix(M, view)
  <2>1. InTurn
    BY <1>1, LiveSays
  <2>2. M \in Seq(Message) /\ view \in Seq(Message) /\ pending \in Seq(Message)
    BY <1>1, <2>1, TurnSays DEF TInv
  <2>3. PICK t, v, q : t = M /\ v = view /\ q = Unsaved
    OBVIOUS
  <2>4. q \in Seq(Message)
    <3>1. ResultsOfStep \in Seq(Message)
      BY <2>2, KeptIs DEF ResultsOfStep
    <3> QED
      BY <2>2, <2>3, <3>1 DEF Unsaved
  <2>5. v = t \o q /\ t \in Seq(Message) /\ v \in Seq(Message)
    BY <1>1, <2>2, <2>3 DEF TInv, Flow, Seen
  <2>6. IsPrefix(t, v)
    <3>1. Len(t) <= Len(v) /\ \A i \in 1 .. Len(t) : t[i] = v[i]
      BY <2>4, <2>5
    <3>2. t = SubSeq(v, 1, Len(t))
      BY <2>4, <2>5
    <3> QED
      BY <2>5, <3>1, <3>2 DEF IsPrefix
  <2> QED
    BY <2>3, <2>6
<1>2. TInv => DurablePrefix
  BY <1>1 DEF DurablePrefix, M
<1> QED
  BY <1>2, TranscriptInvariant, PTL
===============================================================================
