--------------------------- MODULE SequenceProofs -----------------------------
(***************************************************************************)
(* Lemmas about sequences that are computed element by element: induction, *)
(* definition by recursion, and what Kept selects.  The proofs about the   *)
(* agent's loop and about the session's turns rest on them.                *)
(***************************************************************************)
EXTENDS Selection, Integers, SequencesExt, FiniteSetTheorems, WellFoundedInduction, TLAPS

-----------------------------------------------------------------------------
(* Induction over the natural numbers, for a set.                          *)
LEMMA Induct ==
  ASSUME NEW T, 0 \in T, \A n \in Nat : n \in T => n + 1 \in T
  PROVE  \A n \in Nat : n \in T
<1> DEFINE R == {ss \in Nat \X Nat : ss[1] < ss[2]}
           U == Nat \ T
<1> SUFFICES ASSUME U # {}  PROVE FALSE
  OBVIOUS
<1>1. OpToRel(<, Nat) = R
  BY DEF OpToRel
<1>2. IsWellFoundedOn(R, Nat)
  BY <1>1, NatLessThanWellFounded
<1>3. PICK x \in U : \A y \in U : ~(<<y, x>> \in R)
  <2> HIDE DEF R
  <2> QED
    BY <1>2, WFMin
<1>4. x \in Nat /\ x # 0
  BY <1>3
<1>5. x - 1 \in Nat /\ x - 1 < x
  BY <1>4
<1>6. x - 1 \in T
  BY <1>3, <1>5
<1> QED
  BY <1>3, <1>4, <1>5, <1>6

(* A rule for the values of a function, and a function that follows it.    *)
IsRule(g, N, T) == g \in [(1 .. N) \X T -> T]
Follows(f, g, N, T, a) ==
  f \in [0 .. N -> T] /\ f[0] = a /\ \A n \in 1 .. N : f[n] = g[<<n, f[n - 1]>>]

(* A function may be defined by recursion over an initial segment of the   *)
(* natural numbers.                                                        *)
LEMMA Recursion ==
  ASSUME NEW T, NEW a \in T, NEW N \in Nat, NEW g, IsRule(g, N, T)
  PROVE  \E f : Follows(f, g, N, T, a)
<1> USE DEF IsRule, Follows
<1> DEFINE Good == {m \in Nat : m <= N =>
             \E f \in [0 .. m -> T] : f[0] = a /\ \A n \in 1 .. m : f[n] = g[<<n, f[n - 1]>>]}
<1>1. 0 \in Good
  <2>1. [x \in 0 .. 0 |-> a] \in [0 .. 0 -> T] /\ [x \in 0 .. 0 |-> a][0] = a
    OBVIOUS
  <2>2. \A n \in 1 .. 0 : FALSE
    OBVIOUS
  <2>3. \E f \in [0 .. 0 -> T] : f[0] = a /\ \A n \in 1 .. 0 : f[n] = g[<<n, f[n - 1]>>]
    BY <2>1, <2>2
  <2> QED
    BY <2>3
<1>2. ASSUME NEW m \in Nat, m \in Good  PROVE m + 1 \in Good
  <2> SUFFICES ASSUME m + 1 <= N
               PROVE  \E f \in [0 .. m + 1 -> T] : f[0] = a /\ \A n \in 1 .. m + 1 : f[n] = g[<<n, f[n - 1]>>]
    OBVIOUS
  <2>1. PICK f \in [0 .. m -> T] : f[0] = a /\ \A n \in 1 .. m : f[n] = g[<<n, f[n - 1]>>]
    BY <1>2
  <2> DEFINE h == [n \in 0 .. m + 1 |-> IF n <= m THEN f[n] ELSE g[<<m + 1, f[m]>>]]
  <2>2. g[<<m + 1, f[m]>>] \in T
    BY <2>1
  <2>3. h \in [0 .. m + 1 -> T]
    BY <2>1, <2>2
  <2>4. h[0] = a
    BY <2>1
  <2>5. ASSUME NEW n \in 1 .. m + 1  PROVE h[n] = g[<<n, h[n - 1]>>]
    <3>1. CASE n <= m
      BY <2>1, <3>1
    <3>2. CASE n = m + 1
      <4>1. ~(n <= m) /\ n - 1 = m /\ m <= m /\ m \in 0 .. m + 1 /\ n \in 0 .. m + 1
        BY <3>2
      <4>2. h[n - 1] = f[m] /\ h[n] = g[<<m + 1, f[m]>>]
        BY <4>1
      <4> QED
        BY <3>2, <4>2
    <3> QED
      BY <3>1, <3>2
  <2> QED
    BY <2>3, <2>4, <2>5
<1>3. \A m \in Nat : m \in Good
  <2> HIDE DEF Good
  <2> QED
    BY <1>1, <1>2, Induct
<1>4. N \in Good
  <2> HIDE DEF Good
  <2> QED
    BY <1>3
<1> QED
  BY <1>4

Keeps(f, E, s, S) ==
  /\ f \in [0 .. Len(s) -> Seq(E)]
  /\ f[0] = << >>
  /\ \A n \in 1 .. Len(s) : f[n] = IF s[n] \in S THEN Append(f[n - 1], s[n]) ELSE f[n - 1]

(* Kept, as the last value of its recursion.                               *)
LEMMA KeptBy ==
  ASSUME NEW E, NEW s \in Seq(E), NEW S
  PROVE  \E f : Keeps(f, E, s, S) /\ Kept(s, S) = f[Len(s)]
<1> DEFINE kept[n \in 0 .. Len(s)] ==
             IF n = 0 THEN << >> ELSE IF s[n] \in S THEN Append(kept[n - 1], s[n]) ELSE kept[n - 1]
<1>1. Kept(s, S) = kept[Len(s)]
  BY DEF Kept
<1> DEFINE N == Len(s)
           g == [x \in (1 .. N) \X Seq(E) |-> IF s[x[1]] \in S THEN Append(x[2], s[x[1]]) ELSE x[2]]
<1>2. N \in Nat /\ \A n \in 1 .. N : s[n] \in E
  OBVIOUS
<1>3. g \in [(1 .. N) \X Seq(E) -> Seq(E)]
  BY <1>2
<1>4. PICK f \in [0 .. N -> Seq(E)] : f[0] = << >> /\ \A n \in 1 .. N : f[n] = g[<<n, f[n - 1]>>]
  <2> DEFINE D == Seq(E)
             a == << >>
  <2>1. a \in D /\ N \in Nat /\ IsRule(g, N, D)
    BY <1>2, <1>3 DEF IsRule
  <2> HIDE DEF g, N, D, a
  <2>2. \E f : Follows(f, g, N, D, a)
    BY <2>1, Recursion
  <2> QED
    BY <2>2 DEF D, a, Follows
<1>5. \A n \in 1 .. N : f[n] = IF s[n] \in S THEN Append(f[n - 1], s[n]) ELSE f[n - 1]
  <2> SUFFICES ASSUME NEW n \in 1 .. N  PROVE f[n] = IF s[n] \in S THEN Append(f[n - 1], s[n]) ELSE f[n - 1]
    OBVIOUS
  <2>0. n - 1 \in 0 .. N
    BY <1>2
  <2>1. f[n - 1] \in Seq(E)
    BY <1>4, <2>0, Zenon
  <2>2. g[<<n, f[n - 1]>>] = IF s[n] \in S THEN Append(f[n - 1], s[n]) ELSE f[n - 1]
    BY <2>1
  <2>3. f[n] = g[<<n, f[n - 1]>>]
    BY <1>4
  <2> QED
    BY <2>2, <2>3, Zenon
<1>6. f = [n \in 0 .. N |-> IF n = 0 THEN << >> ELSE IF s[n] \in S THEN Append(f[n - 1], s[n]) ELSE f[n - 1]]
  <2>1. \A n \in 0 .. N : n # 0 => n \in 1 .. N
    BY <1>2
  <2> QED
    BY <1>4, <1>5, <2>1
<1>7. kept = [n \in 0 .. N |-> IF n = 0 THEN << >> ELSE IF s[n] \in S THEN Append(kept[n - 1], s[n]) ELSE kept[n - 1]]
  BY <1>6
<1> HIDE DEF kept
<1>8. \A n \in 1 .. N : kept[n] = IF s[n] \in S THEN Append(kept[n - 1], s[n]) ELSE kept[n - 1]
  <2>1. \A n \in 1 .. N : n \in 0 .. N /\ n # 0
    BY <1>2
  <2> QED
    BY <1>7, <2>1
<1>9. kept[0] = << >>
  <2>1. 0 \in 0 .. N
    BY <1>2
  <2> QED
    BY <1>7, <2>1
<1>10. \A n \in Nat : n <= N => kept[n] = f[n]
  <2> HIDE DEF N
  <2> DEFINE Same == {n \in Nat : n <= N => kept[n] = f[n]}
  <2>1. 0 \in Same
    BY <1>4, <1>9
  <2>2. ASSUME NEW n \in Nat, n \in Same  PROVE n + 1 \in Same
    <3> SUFFICES ASSUME n + 1 <= N  PROVE kept[n + 1] = f[n + 1]
      OBVIOUS
    <3>1. n + 1 \in 1 .. N /\ n <= N /\ (n + 1) - 1 = n
      BY <1>2
    <3> QED
      BY <1>5, <1>8, <2>2, <3>1
  <2>3. \A n \in Nat : n \in Same
    <3> HIDE DEF Same
    <3> QED
      BY <2>1, <2>2, Induct
  <2> QED
    BY <2>3
<1>11. Kept(s, S) = f[Len(s)]
  <2>1. N <= N
    BY <1>2
  <2> QED
    BY <1>1, <1>2, <1>10, <2>1
<1> QED
  BY <1>4, <1>5, <1>11 DEF Keeps

Distinct(q) == \A i, j \in DOMAIN q : q[i] = q[j] => i = j

(* What Kept keeps.                                                        *)
LEMMA KeptIs ==
  ASSUME NEW E, NEW s \in Seq(E), NEW S
  PROVE  /\ Kept(s, S) \in Seq(E)
         /\ Len(Kept(s, S)) <= Len(s)
         /\ ToSet(Kept(s, S)) = ToSet(s) \cap S
         /\ Distinct(s) => Distinct(Kept(s, S))
<1>a. PICK f : Keeps(f, E, s, S) /\ Kept(s, S) = f[Len(s)]
  BY KeptBy
<1>1. /\ f \in [0 .. Len(s) -> Seq(E)] /\ f[0] = << >>
      /\ \A n \in 1 .. Len(s) : f[n] = IF s[n] \in S THEN Append(f[n - 1], s[n]) ELSE f[n - 1]
      /\ Kept(s, S) = f[Len(s)]
  BY <1>a DEF Keeps
<1>2. Len(s) \in Nat /\ DOMAIN s = 1 .. Len(s) /\ \A n \in 1 .. Len(s) : s[n] \in E
  OBVIOUS
<1> DEFINE Good == {n \in Nat : n <= Len(s) =>
             /\ Len(f[n]) <= n
             /\ \A i \in DOMAIN f[n] : \E j \in 1 .. n : f[n][i] = s[j] /\ s[j] \in S
             /\ \A j \in 1 .. n : s[j] \in S => \E i \in DOMAIN f[n] : f[n][i] = s[j]
             /\ Distinct(s) => Distinct(f[n])}
<1>3. 0 \in Good
  BY <1>1 DEF Distinct
<1>4. ASSUME NEW n \in Nat, n \in Good  PROVE n + 1 \in Good
  <2> SUFFICES ASSUME n + 1 <= Len(s)
               PROVE  /\ Len(f[n + 1]) <= n + 1
                      /\ \A i \in DOMAIN f[n + 1] : \E j \in 1 .. n + 1 : f[n + 1][i] = s[j] /\ s[j] \in S
                      /\ \A j \in 1 .. n + 1 : s[j] \in S => \E i \in DOMAIN f[n + 1] : f[n + 1][i] = s[j]
                      /\ Distinct(s) => Distinct(f[n + 1])
    OBVIOUS
  <2>1. /\ Len(f[n]) <= n
        /\ \A i \in DOMAIN f[n] : \E j \in 1 .. n : f[n][i] = s[j] /\ s[j] \in S
        /\ \A j \in 1 .. n : s[j] \in S => \E i \in DOMAIN f[n] : f[n][i] = s[j]
        /\ Distinct(s) => Distinct(f[n])
    BY <1>2, <1>4
  <2>2. n + 1 \in 1 .. Len(s) /\ (n + 1) - 1 = n /\ n \in 0 .. Len(s) /\ s[n + 1] \in E
    BY <1>2
  <2>3. f[n] \in Seq(E)
    BY <1>1, <2>2
  <2>4. Len(f[n]) \in Nat /\ DOMAIN f[n] = 1 .. Len(f[n])
    BY <2>3
  <2>5. CASE s[n + 1] \notin S
    <3>1. f[n + 1] = f[n]
      BY <1>1, <2>2, <2>5
    <3>2. \A j \in 1 .. n + 1 : j \in 1 .. n \/ j = n + 1
      OBVIOUS
    <3>3. \A j \in 1 .. n : j \in 1 .. n + 1
      OBVIOUS
    <3> QED
      <4>1. \A i \in DOMAIN f[n] : \E j \in 1 .. n + 1 : f[n][i] = s[j] /\ s[j] \in S
        BY <2>1, <3>3
      <4>2. \A j \in 1 .. n + 1 : s[j] \in S => \E i \in DOMAIN f[n] : f[n][i] = s[j]
        BY <2>1, <2>5, <3>2
      <4>3. Len(f[n]) <= n + 1
        BY <2>1, <2>4
      <4> QED
        BY <2>1, <3>1, <4>1, <4>2, <4>3
  <2>6. CASE s[n + 1] \in S
    <3> DEFINE q == f[n]
               r == Append(q, s[n + 1])
    <3>1. f[n + 1] = r
      BY <1>1, <2>2, <2>6
    <3>2. /\ Len(r) = Len(q) + 1 /\ DOMAIN r = 1 .. Len(q) + 1
          /\ \A i \in 1 .. Len(q) : r[i] = q[i]
          /\ r[Len(q) + 1] = s[n + 1]
      BY <2>2, <2>3
    <3>3. \A i \in 1 .. Len(q) + 1 : i \in 1 .. Len(q) \/ i = Len(q) + 1
      BY <2>4
    <3>4. Len(q) + 1 \in 1 .. Len(q) + 1 /\ \A i \in 1 .. Len(q) : i \in 1 .. Len(q) + 1 /\ i # Len(q) + 1
      BY <2>4
    <3>5. n + 1 \in 1 .. n + 1 /\ \A j \in 1 .. n : j \in 1 .. n + 1 /\ j # n + 1 /\ j \in 1 .. Len(s)
      BY <1>2, <2>2
    <3>6. \A j \in 1 .. n + 1 : j \in 1 .. n \/ j = n + 1
      OBVIOUS
    <3>7. Len(r) <= n + 1
      BY <2>1, <2>4, <3>2
    <3> HIDE DEF r, q
    <3>8. \A i \in DOMAIN r : \E j \in 1 .. n + 1 : r[i] = s[j] /\ s[j] \in S
      BY <2>1, <2>4, <2>6, <3>2, <3>3, <3>5, SMTT(30) DEF q
    <3>9. \A j \in 1 .. n + 1 : s[j] \in S => \E i \in DOMAIN r : r[i] = s[j]
      BY <2>1, <2>4, <2>6, <3>2, <3>4, <3>6 DEF q
    <3>10. ASSUME Distinct(s)  PROVE Distinct(r)
      <4>1. Distinct(q)
        BY <2>1, <3>10 DEF q
      <4>2. \A i \in 1 .. Len(q) : q[i] # s[n + 1]
        <5> SUFFICES ASSUME NEW i \in 1 .. Len(q), q[i] = s[n + 1]  PROVE FALSE
          OBVIOUS
        <5>1. PICK j \in 1 .. n : q[i] = s[j]
          BY <2>1, <2>4 DEF q
        <5>2. j = n + 1
          BY <1>2, <2>2, <3>5, <3>10, <5>1 DEF Distinct
        <5> QED
          BY <3>5, <5>2
      <4>3. DOMAIN q = 1 .. Len(q)
        BY <2>4 DEF q
      <4> QED
        BY <3>2, <3>3, <4>1, <4>2, <4>3 DEF Distinct
    <3> QED
      BY <3>1, <3>7, <3>8, <3>9, <3>10
  <2> QED
    BY <2>5, <2>6
<1>5. Len(s) \in Good
  <2> HIDE DEF Good
  <2> QED
    BY <1>2, <1>3, <1>4, Induct
<1> DEFINE k == Kept(s, S)
<1>6. /\ Len(k) <= Len(s)
      /\ \A i \in DOMAIN k : \E j \in 1 .. Len(s) : k[i] = s[j] /\ s[j] \in S
      /\ \A j \in 1 .. Len(s) : s[j] \in S => \E i \in DOMAIN k : k[i] = s[j]
      /\ Distinct(s) => Distinct(k)
  BY <1>1, <1>2, <1>5
<1>7. k \in Seq(E)
  BY <1>1, <1>2
<1> HIDE DEF k
<1>8. ToSet(k) = ToSet(s) \cap S
  <2>1. ASSUME NEW y, y \in ToSet(k)  PROVE y \in ToSet(s) \cap S
    BY <1>2, <1>6, <2>1 DEF ToSet
  <2>2. ASSUME NEW y, y \in ToSet(s), y \in S  PROVE y \in ToSet(k)
    <3>1. PICK j \in 1 .. Len(s) : y = s[j]
      BY <1>2, <2>2 DEF ToSet
    <3> QED
      BY <1>6, <2>2, <3>1 DEF ToSet
  <2> QED
    BY <2>1, <2>2
<1> QED
  BY <1>6, <1>7, <1>8 DEF k

(* Two sequences that agree as far as the shorter goes, and two sets that  *)
(* agree on it.                                                            *)
LEMMA KeptAgrees ==
  ASSUME NEW E, NEW s \in Seq(E), NEW t \in Seq(E), Len(s) <= Len(t), NEW S, NEW R,
         \A i \in 1 .. Len(s) : t[i] = s[i] /\ (s[i] \in S <=> s[i] \in R),
         NEW f, Keeps(f, E, t, R)
  PROVE  f[Len(s)] = Kept(s, S)
<1>a. PICK g : Keeps(g, E, s, S) /\ Kept(s, S) = g[Len(s)]
  BY KeptBy
<1>1. /\ g \in [0 .. Len(s) -> Seq(E)] /\ g[0] = << >>
      /\ \A n \in 1 .. Len(s) : g[n] = IF s[n] \in S THEN Append(g[n - 1], s[n]) ELSE g[n - 1]
      /\ Kept(s, S) = g[Len(s)]
  BY <1>a DEF Keeps
<1>b. f[0] = << >> /\ \A n \in 1 .. Len(t) : f[n] = IF t[n] \in R THEN Append(f[n - 1], t[n]) ELSE f[n - 1]
  BY DEF Keeps
<1>2. Len(s) \in Nat /\ Len(t) \in Nat
  OBVIOUS
<1> DEFINE Good == {n \in Nat : n <= Len(s) => f[n] = g[n]}
<1>3. 0 \in Good
  BY <1>1, <1>b
<1>4. ASSUME NEW n \in Nat, n \in Good  PROVE n + 1 \in Good
  <2> SUFFICES ASSUME n + 1 <= Len(s)  PROVE f[n + 1] = g[n + 1]
    OBVIOUS
  <2>1. n + 1 \in 1 .. Len(s) /\ n + 1 \in 1 .. Len(t) /\ (n + 1) - 1 = n /\ n <= Len(s)
    BY <1>2
  <2>2. f[n] = g[n]
    BY <1>4, <2>1
  <2> QED
    BY <1>1, <1>b, <2>1, <2>2
<1>5. Len(s) \in Good
  <2> HIDE DEF Good
  <2> QED
    BY <1>2, <1>3, <1>4, Induct
<1> QED
  BY <1>1, <1>2, <1>5

(* One element more, and a set that looks the same to the others.          *)
LEMMA KeptAppend ==
  ASSUME NEW E, NEW s \in Seq(E), NEW x \in E, NEW S, NEW R, \A y \in ToSet(s) : y \in S <=> y \in R
  PROVE  Kept(Append(s, x), R) = IF x \in R THEN Append(Kept(s, S), x) ELSE Kept(s, S)
<1> DEFINE t == Append(s, x)
<1>1. /\ t \in Seq(E) /\ Len(t) = Len(s) + 1 /\ Len(s) \in Nat /\ DOMAIN s = 1 .. Len(s)
      /\ \A i \in 1 .. Len(s) : t[i] = s[i]
      /\ t[Len(s) + 1] = x
  OBVIOUS
<1> HIDE DEF t
<1>a. PICK f : Keeps(f, E, t, R) /\ Kept(t, R) = f[Len(t)]
  BY <1>1, KeptBy
<1>2. /\ \A n \in 1 .. Len(t) : f[n] = IF t[n] \in R THEN Append(f[n - 1], t[n]) ELSE f[n - 1]
      /\ Kept(t, R) = f[Len(t)]
  BY <1>a DEF Keeps
<1>3. \A i \in 1 .. Len(s) : t[i] = s[i] /\ (s[i] \in S <=> s[i] \in R)
  BY <1>1 DEF ToSet
<1>4. f[Len(s)] = Kept(s, S)
  BY <1>1, <1>a, <1>3, KeptAgrees
<1>5. Len(t) \in 1 .. Len(t) /\ Len(t) - 1 = Len(s)
  BY <1>1
<1>6. f[Len(t)] = IF x \in R THEN Append(Kept(s, S), x) ELSE Kept(s, S)
  BY <1>1, <1>2, <1>4, <1>5
<1> QED
  BY <1>2, <1>6 DEF t

(* Many elements more, when all of them are kept or none is.               *)
LEMMA KeptMore ==
  ASSUME NEW E, NEW s \in Seq(E), NEW u \in Seq(E), NEW S, NEW R, \A y \in ToSet(s) : y \in S <=> y \in R
  PROVE  /\ (\A y \in ToSet(u) : y \in R) => Kept(s \o u, R) = Kept(s, S) \o u
         /\ (\A y \in ToSet(u) : y \notin R) => Kept(s \o u, R) = Kept(s, S)
<1> DEFINE t == s \o u
           k == Kept(s, S)
<1>1. /\ t \in Seq(E) /\ Len(t) = Len(s) + Len(u) /\ Len(s) \in Nat /\ Len(u) \in Nat
      /\ DOMAIN s = 1 .. Len(s) /\ DOMAIN u = 1 .. Len(u)
      /\ \A i \in 1 .. Len(s) : t[i] = s[i]
      /\ \A i \in 1 .. Len(u) : t[Len(s) + i] = u[i]
  OBVIOUS
<1>2. k \in Seq(E)
  BY KeptIs
<1> HIDE DEF t, k
<1>a. PICK f : Keeps(f, E, t, R) /\ Kept(t, R) = f[Len(t)]
  BY <1>1, KeptBy
<1>3. /\ \A n \in 1 .. Len(t) : f[n] = IF t[n] \in R THEN Append(f[n - 1], t[n]) ELSE f[n - 1]
      /\ Kept(t, R) = f[Len(t)]
  BY <1>a DEF Keeps
<1>4. \A i \in 1 .. Len(s) : t[i] = s[i] /\ (s[i] \in S <=> s[i] \in R)
  BY <1>1 DEF ToSet
<1>5. Len(s) <= Len(t)
  BY <1>1
<1>6. f[Len(s)] = k
  BY <1>1, <1>a, <1>4, <1>5, KeptAgrees, SMTT(30) DEF k
<1>7. \A n \in Nat : n + 1 <= Len(u) =>
        f[Len(s) + (n + 1)] = IF u[n + 1] \in R THEN Append(f[Len(s) + n], u[n + 1]) ELSE f[Len(s) + n]
  <2> SUFFICES ASSUME NEW n \in Nat, n + 1 <= Len(u)
               PROVE  f[Len(s) + (n + 1)] = IF u[n + 1] \in R THEN Append(f[Len(s) + n], u[n + 1]) ELSE f[Len(s) + n]
    OBVIOUS
  <2>1. n + 1 \in 1 .. Len(u) /\ Len(s) + (n + 1) \in 1 .. Len(t) /\ (Len(s) + (n + 1)) - 1 = Len(s) + n
    BY <1>1
  <2> QED
    BY <1>1, <1>3, <2>1
<1>8. ASSUME \A y \in ToSet(u) : y \notin R  PROVE Kept(t, R) = k
  <2> DEFINE Good == {n \in Nat : n <= Len(u) => f[Len(s) + n] = k}
  <2>1. 0 \in Good
    BY <1>1, <1>6
  <2>2. ASSUME NEW n \in Nat, n \in Good  PROVE n + 1 \in Good
    <3>1. n + 1 <= Len(u) => n + 1 \in DOMAIN u /\ n <= Len(u)
      BY <1>1
    <3> QED
      BY <1>7, <1>8, <2>2, <3>1 DEF ToSet
  <2>3. Len(u) \in Good
    <3> HIDE DEF Good
    <3> QED
      BY <1>1, <2>1, <2>2, Induct
  <2> QED
    BY <1>1, <1>3, <2>3
<1>9. ASSUME \A y \in ToSet(u) : y \in R  PROVE Kept(t, R) = k \o u
  <2> DEFINE Good == {n \in Nat : n <= Len(u) => f[Len(s) + n] = k \o SubSeq(u, 1, n)}
  <2>1. 0 \in Good
    <3>1. SubSeq(u, 1, 0) = << >> /\ k \o << >> = k /\ Len(s) + 0 = Len(s)
      BY <1>1, <1>2
    <3> QED
      BY <1>1, <1>6, <3>1
  <2>2. ASSUME NEW n \in Nat, n \in Good  PROVE n + 1 \in Good
    <3> SUFFICES ASSUME n + 1 <= Len(u)  PROVE f[Len(s) + (n + 1)] = k \o SubSeq(u, 1, n + 1)
      OBVIOUS
    <3>1. n + 1 \in DOMAIN u /\ n <= Len(u)
      BY <1>1
    <3>2. f[Len(s) + (n + 1)] = Append(k \o SubSeq(u, 1, n), u[n + 1])
      BY <1>7, <1>9, <2>2, <3>1 DEF ToSet
    <3>3. SubSeq(u, 1, n + 1) = Append(SubSeq(u, 1, n), u[n + 1])
      BY <1>1, <3>1
    <3>4. SubSeq(u, 1, n) \in Seq(E) /\ u[n + 1] \in E
      BY <1>1, <3>1
    <3>5. \A v \in Seq(E), x \in E : k \o Append(v, x) = Append(k \o v, x)
      BY <1>2
    <3> QED
      BY <3>2, <3>3, <3>4, <3>5
  <2>3. Len(u) \in Good
    <3> HIDE DEF Good
    <3> QED
      BY <1>1, <2>1, <2>2, Induct
  <2>4. SubSeq(u, 1, Len(u)) = u
    OBVIOUS
  <2>5. f[Len(s) + Len(u)] = k \o SubSeq(u, 1, Len(u))
    BY <1>1, <2>3
  <2> QED
    BY <1>1, <1>3, <2>4, <2>5
<1> QED
  BY <1>8, <1>9 DEF t, k

-----------------------------------------------------------------------------
(* FlattenSeq, as the last value of its recursion.                         *)
LEMMA FlattenBy ==
  ASSUME NEW E, NEW ss \in Seq(Seq(E))
  PROVE  \E f : /\ f \in [0 .. Len(ss) -> Seq(E)]
                /\ f[0] = << >>
                /\ \A n \in 1 .. Len(ss) : f[n] = f[n - 1] \o ss[n]
                /\ FlattenSeq(ss) = f[Len(ss)]
<1> DEFINE N == Len(ss)
           flatten[i \in 1 .. N] == IF i = 1 THEN ss[i] ELSE flatten[i - 1] \o ss[i]
           g == [x \in (1 .. N) \X Seq(E) |-> x[2] \o ss[x[1]]]
<1>1. N \in Nat /\ \A n \in 1 .. N : ss[n] \in Seq(E)
  OBVIOUS
<1>2. g \in [(1 .. N) \X Seq(E) -> Seq(E)]
  BY <1>1
<1>3. PICK f \in [0 .. N -> Seq(E)] : f[0] = << >> /\ \A n \in 1 .. N : f[n] = g[<<n, f[n - 1]>>]
  <2> DEFINE D == Seq(E)
             a == << >>
  <2>1. a \in D /\ N \in Nat /\ IsRule(g, N, D)
    BY <1>1, <1>2 DEF IsRule
  <2> HIDE DEF g, N, D, a
  <2>2. \E f : Follows(f, g, N, D, a)
    BY <2>1, Recursion
  <2> QED
    BY <2>2 DEF D, a, Follows
<1>4. \A n \in 1 .. N : f[n] = f[n - 1] \o ss[n]
  <2> SUFFICES ASSUME NEW n \in 1 .. N  PROVE f[n] = f[n - 1] \o ss[n]
    OBVIOUS
  <2>0. n - 1 \in 0 .. N
    BY <1>1
  <2>1. n - 1 \in 0 .. N /\ f[n - 1] \in Seq(E)
    <3> HIDE DEF g, flatten, N
    <3> QED
      BY <2>0
  <2>2. \A v \in Seq(E) : g[<<n, v>>] = v \o ss[n]
    OBVIOUS
  <2> HIDE DEF g
  <2>3. f[n] = g[<<n, f[n - 1]>>]
    BY <1>3
  <2> QED
    BY <2>1, <2>2, <2>3
<1>5. N # 0 => f[1] = ss[1]
  <2>1. \A u \in Seq(E) : << >> \o u = u
    OBVIOUS
  <2>2. N # 0 => 1 \in 1 .. N /\ 1 - 1 = 0
    BY <1>1
  <2>3. N # 0 => f[1] = f[0] \o ss[1]
    BY <1>4, <2>2
  <2> QED
    BY <1>1, <1>3, <2>1, <2>2, <2>3
<1>6. CASE N = 0
  <2>1. ss = << >>
    BY <1>6
  <2>2. FlattenSeq(ss) = ss
    BY <1>6 DEF FlattenSeq
  <2>3. FlattenSeq(ss) = f[Len(ss)]
    BY <1>3, <1>6, <2>1, <2>2
  <2> QED
    BY <1>3, <1>4, <2>3
<1>7. CASE N # 0
  <2>1. FlattenSeq(ss) = flatten[N]
    BY <1>7 DEF FlattenSeq
  <2> DEFINE h == [i \in 1 .. N |-> f[i]]
  <2>2. h = [i \in 1 .. N |-> IF i = 1 THEN ss[i] ELSE h[i - 1] \o ss[i]]
    <3>1. \A i \in 1 .. N : i # 1 => i - 1 \in 1 .. N
      BY <1>1
    <3> QED
      BY <1>4, <1>5, <1>7, <3>1
  <2>3. flatten = [i \in 1 .. N |-> IF i = 1 THEN ss[i] ELSE flatten[i - 1] \o ss[i]]
    <3> HIDE DEF h
    <3> QED
      BY <2>2
  <2> HIDE DEF flatten, h
  <2> DEFINE Same == {n \in Nat : n + 1 <= N => flatten[n + 1] = f[n + 1]}
  <2>4. 0 \in Same
    <3>1. 1 \in 1 .. N /\ 0 + 1 = 1
      BY <1>1, <1>7
    <3>2. flatten[1] = ss[1]
      BY <2>3, <3>1
    <3> QED
      BY <1>5, <1>7, <3>1, <3>2
  <2>5. ASSUME NEW n \in Nat, n \in Same  PROVE n + 1 \in Same
    <3> SUFFICES ASSUME (n + 1) + 1 <= N  PROVE flatten[(n + 1) + 1] = f[(n + 1) + 1]
      OBVIOUS
    <3>1. (n + 1) + 1 \in 1 .. N /\ n + 1 <= N /\ ((n + 1) + 1) - 1 = n + 1 /\ (n + 1) + 1 # 1
      BY <1>1
    <3>2. flatten[(n + 1) + 1] = flatten[n + 1] \o ss[(n + 1) + 1]
      BY <2>3, <3>1
    <3> QED
      BY <1>4, <2>5, <3>1, <3>2
  <2>6. \A n \in Nat : n \in Same
    <3> HIDE DEF Same
    <3> QED
      BY <2>4, <2>5, Induct
  <2>7. N - 1 \in Nat /\ (N - 1) + 1 = N /\ (N - 1) + 1 <= N
    BY <1>1, <1>7
  <2>8. flatten[N] = f[N]
    BY <2>6, <2>7
  <2> QED
    BY <1>3, <1>4, <2>1, <2>8
<1> QED
  BY <1>6, <1>7

(* SetToSeq lists a finite set.                                            *)
LEMMA SetToSeqIs ==
  ASSUME NEW S, IsFiniteSet(S)
  PROVE  SetToSeq(S) \in Seq(S) /\ ToSet(SetToSeq(S)) = S /\ Len(SetToSeq(S)) = Cardinality(S)
<1> DEFINE N == Cardinality(S)
<1>1. N \in Nat /\ ExistsBijection(1 .. N, S)
  BY FS_CardinalityType
<1>2. PICK b \in Bijection(1 .. N, S) : TRUE
  BY <1>1 DEF ExistsBijection
<1>3. b \in [1 .. N -> S] /\ IsInjective(b)
  BY <1>2 DEF Bijection, Injection, IsInjective
<1>4. SetToSeq(S) \in [1 .. N -> S] /\ IsInjective(SetToSeq(S))
  BY <1>3 DEF SetToSeq
<1> DEFINE q == SetToSeq(S)
<1> HIDE DEF q
<1>5. q \in Seq(S) /\ Len(q) = N
  BY <1>1, <1>4 DEF q
<1>6. q \in Injection(1 .. N, S)
  BY <1>4 DEF IsInjective, Injection, q
<1>7. IsFiniteSet(1 .. N) /\ Cardinality(1 .. N) = N
  BY <1>1, FS_Interval
<1>8. q \in Surjection(1 .. N, S)
  BY <1>1, <1>6, <1>7, FS_Injection
<1>9. ToSet(q) = S
  BY <1>4, <1>8 DEF ToSet, Surjection, q
<1> QED
  BY <1>5, <1>9 DEF q

(* What holds between an element of a sequence and any later one.          *)
Linked(s, R) == \A i, j \in DOMAIN s : i < j => <<s[i], s[j]>> \in R

(* It holds of one more element that it links with all before it.          *)
LEMMA LinkedAppend ==
  ASSUME NEW E, NEW s \in Seq(E), NEW x \in E, NEW R, Linked(s, R), \A y \in ToSet(s) : <<y, x>> \in R
  PROVE  Linked(Append(s, x), R)
<1> DEFINE t == Append(s, x)
<1>1. /\ Len(t) = Len(s) + 1 /\ Len(s) \in Nat /\ DOMAIN s = 1 .. Len(s) /\ DOMAIN t = 1 .. Len(s) + 1
      /\ \A i \in 1 .. Len(s) : t[i] = s[i]
      /\ t[Len(s) + 1] = x
  OBVIOUS
<1> HIDE DEF t
<1>2. SUFFICES ASSUME NEW i \in 1 .. Len(s) + 1, NEW j \in 1 .. Len(s) + 1, i < j  PROVE <<t[i], t[j]>> \in R
  BY <1>1 DEF Linked, t
<1>3. i \in 1 .. Len(s)
  BY <1>1, <1>2
<1>4. CASE j = Len(s) + 1
  BY <1>1, <1>3, <1>4 DEF ToSet
<1>5. CASE j \in 1 .. Len(s)
  BY <1>1, <1>2, <1>3, <1>5 DEF Linked
<1> QED
  BY <1>1, <1>4, <1>5

(* It holds of what is kept of a sequence.                                 *)
LEMMA KeptLinked ==
  ASSUME NEW E, NEW s \in Seq(E), NEW S, NEW R, Linked(s, R)
  PROVE  Linked(Kept(s, S), R)
<1>a. PICK f : Keeps(f, E, s, S) /\ Kept(s, S) = f[Len(s)]
  BY KeptBy
<1>1. /\ f \in [0 .. Len(s) -> Seq(E)] /\ f[0] = << >> /\ Kept(s, S) = f[Len(s)]
      /\ \A n \in 1 .. Len(s) : f[n] = IF s[n] \in S THEN Append(f[n - 1], s[n]) ELSE f[n - 1]
  BY <1>a DEF Keeps
<1>2. Len(s) \in Nat /\ DOMAIN s = 1 .. Len(s) /\ \A n \in 1 .. Len(s) : s[n] \in E
  OBVIOUS
<1> DEFINE Good == {n \in Nat : n <= Len(s) =>
             Linked(f[n], R) /\ \A y \in ToSet(f[n]) : \E i \in 1 .. n : y = s[i]}
<1>3. 0 \in Good
  BY <1>1 DEF Linked, ToSet
<1>4. ASSUME NEW n \in Nat, n \in Good  PROVE n + 1 \in Good
  <2> SUFFICES ASSUME n + 1 <= Len(s)
               PROVE  Linked(f[n + 1], R) /\ \A y \in ToSet(f[n + 1]) : \E i \in 1 .. n + 1 : y = s[i]
    OBVIOUS
  <2>1. n + 1 \in 1 .. Len(s) /\ n \in 0 .. Len(s) /\ n <= Len(s) /\ (n + 1) - 1 = n
    BY <1>2
  <2> DEFINE k == f[n]
             x == s[n + 1]
  <2>2. k \in Seq(E) /\ x \in E /\ f[n + 1] = IF x \in S THEN Append(k, x) ELSE k
    BY <1>1, <1>2, <2>1
  <2>3. Linked(k, R) /\ \A y \in ToSet(k) : \E i \in 1 .. n : y = s[i]
    BY <1>4, <2>1
  <2>4. \A y \in ToSet(k) : <<y, x>> \in R
    <3> SUFFICES ASSUME NEW y \in ToSet(k)  PROVE <<y, x>> \in R
      OBVIOUS
    <3>1. PICK i \in 1 .. n : y = s[i]
      BY <2>3
    <3>2. i \in 1 .. Len(s) /\ i < n + 1
      BY <2>1
    <3> QED
      BY <1>2, <2>1, <3>1, <3>2 DEF Linked
  <2>5. \A i \in 1 .. n : i \in 1 .. n + 1
    OBVIOUS
  <2>6. n + 1 \in 1 .. n + 1
    OBVIOUS
  <2>7. f[n + 1] = Append(k, x) => ToSet(f[n + 1]) = ToSet(k) \cup {x}
    <3>1. /\ Len(Append(k, x)) = Len(k) + 1 /\ Len(k) \in Nat /\ DOMAIN k = 1 .. Len(k)
          /\ DOMAIN Append(k, x) = 1 .. Len(k) + 1
          /\ \A i \in 1 .. Len(k) : Append(k, x)[i] = k[i]
          /\ Append(k, x)[Len(k) + 1] = x
      BY <2>2
    <3>2. \A i \in 1 .. Len(k) + 1 : i \in 1 .. Len(k) \/ i = Len(k) + 1
      BY <3>1
    <3>3. Len(k) + 1 \in 1 .. Len(k) + 1 /\ \A i \in 1 .. Len(k) : i \in 1 .. Len(k) + 1
      BY <3>1
    <3> HIDE DEF k, x
    <3> QED
      BY <3>1, <3>2, <3>3 DEF ToSet
  <2> HIDE DEF k
  <2>8. CASE x \in S
    <3>1. Linked(f[n + 1], R)
      BY <2>2, <2>3, <2>4, <2>8, LinkedAppend
    <3>2. ASSUME NEW y \in ToSet(f[n + 1])  PROVE \E i \in 1 .. n + 1 : y = s[i]
      BY <2>2, <2>3, <2>5, <2>6, <2>7, <2>8, <3>2
    <3> QED
      BY <3>1, <3>2
  <2>9. CASE x \notin S
    BY <2>2, <2>3, <2>5, <2>9
  <2> QED
    BY <2>8, <2>9
<1>5. Len(s) \in Good
  <2> HIDE DEF Good
  <2> QED
    BY <1>2, <1>3, <1>4, Induct
<1> QED
  BY <1>1, <1>2, <1>5
=============================================================================
