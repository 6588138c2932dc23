----------------------------- MODULE Inductions -----------------------------
(***************************************************************************)
(* Inductions that need no predicate as a parameter: the least-number      *)
(* principle and the induction over an interval as statements about sets,  *)
(* recursion over an interval as the existence of a function, and with     *)
(* them what the filter of Selections returns.                             *)
(***************************************************************************)
EXTENDS Selections, Integers, FiniteSetTheorems, SequenceTheorems, TLAPS

\* Every non-empty set of naturals has a least member.  (The interval 1 .. i of the
\* least i is minimal in the well-founded order of the finite sets.)
LEMMA LeastNaturalExists ==
  ASSUME NEW I, I \subseteq Nat, I # {}
  PROVE  \E i \in I : \A j \in I : i <= j
<1> DEFINE T == { 1 .. i : i \in I }
<1>1. T \subseteq FiniteSubsetsOf(Nat)
  BY FS_Interval DEF FiniteSubsetsOf
<1>2. T # {}
  OBVIOUS
<1>3. PICK t \in T : \A u \in T : ~ (<<u, t>> \in StrictSubsetOrdering(Nat))
  <2> HIDE DEF T
  <2>1. IsWellFoundedOn(StrictSubsetOrdering(Nat), FiniteSubsetsOf(Nat))
    BY FS_StrictSubsetOrderingWellFounded
  <2>2. QED
    BY <1>1, <1>2, <2>1, WFMin
<1>4. PICK i \in I : t = 1 .. i
  OBVIOUS
<1>5. ASSUME NEW j \in I, j < i PROVE FALSE
  <2>1. i \in 1 .. i /\ i \notin 1 .. j
    BY <1>5
  <2>2. 1 .. j \subseteq 1 .. i /\ 1 .. j # 1 .. i
    BY <1>5, <2>1
  <2>3. <<1 .. j, 1 .. i>> \in StrictSubsetOrdering(Nat)
    BY <2>2 DEF StrictSubsetOrdering
  <2>4. QED
    BY <1>3, <1>4, <2>3
<1>6. QED
  BY <1>5

\* A set that holds the start of an interval and is closed under the successor holds it all.
LEMMA IntervalInduction ==
  ASSUME NEW m \in Int, NEW n \in Int, NEW A, m \in A,
         \A i \in m..(n - 1) : i \in A => i + 1 \in A
  PROVE  \A i \in m..n : i \in A
<1>1. SUFFICES ASSUME NEW b \in m..n, b \notin A PROVE FALSE
  OBVIOUS
<1> DEFINE Missed == {k \in Nat : m + k <= n /\ m + k \notin A}
<1>2. b - m \in Missed
  BY <1>1
<1>3. PICK k \in Missed : \A j \in Missed : k <= j
  <2> HIDE DEF Missed
  <2>1. Missed \subseteq Nat
    BY DEF Missed
  <2>2. QED
    BY <1>2, <2>1, LeastNaturalExists
<1>4. k # 0
  BY <1>3
<1>5. k - 1 \in Nat /\ k - 1 \notin Missed
  BY <1>3, <1>4
<1>6. m + (k - 1) \in A
  BY <1>3, <1>5
<1>7. (m + (k - 1)) + 1 \in A
  BY <1>3, <1>4, <1>6
<1>8. QED
  BY <1>3, <1>7

\* g is the function over 0 .. n that a start and a step define.
Recurs(g, n, V, start, step) ==
  /\ g \in [0..n -> V]
  /\ \A i \in 0..n : g[i] = IF i = 0 THEN start ELSE step[<<i, g[i - 1]>>]

\* There is such a function.
LEMMA RecursionExists ==
  ASSUME NEW n \in Nat, NEW V, NEW start \in V, NEW step \in [(1..n) \X V -> V]
  PROVE  \E g : Recurs(g, n, V, start, step)
<1> DEFINE Steps(g, m) ==
      \A i \in 0..m : g[i] = IF i = 0 THEN start ELSE step[<<i, g[i - 1]>>]
    Reached == {m \in 0..n : \E g \in [0..m -> V] : Steps(g, m)}
<1>1. 0 \in Reached
  <2> DEFINE g == [i \in 0..0 |-> start]
  <2>1. g \in [0..0 -> V] /\ \A i \in 0..0 : g[i] = start
    OBVIOUS
  <2> HIDE DEF g
  <2>2. Steps(g, 0)
    BY <2>1
  <2> HIDE DEF Steps
  <2>3. 0 \in 0..n
    OBVIOUS
  <2>4. QED
    BY <2>1, <2>2, <2>3
<1>2. ASSUME NEW m \in 0..(n - 1), m \in Reached PROVE m + 1 \in Reached
  <2>1. PICK g \in [0..m -> V] : Steps(g, m)
    BY <1>2
  <2> DEFINE h == [i \in 0..(m + 1) |-> IF i = m + 1 THEN step[<<m + 1, g[m]>>] ELSE g[i]]
  <2>2. step[<<m + 1, g[m]>>] \in V
    OBVIOUS
  <2>3. h \in [0..(m + 1) -> V]
    BY <2>2
  <2>4. \A i \in 0..m : h[i] = g[i]
    OBVIOUS
  <2>5. h[m + 1] = step[<<m + 1, g[m]>>]
    OBVIOUS
  <2> HIDE DEF h
  <2>6. ASSUME NEW i \in 0..(m + 1)
        PROVE  h[i] = IF i = 0 THEN start ELSE step[<<i, h[i - 1]>>]
    <3>1. CASE i = m + 1
      BY <2>4, <2>5, <3>1
    <3>2. CASE i # m + 1
      <4>1. i \in 0..m /\ (i # 0 => i - 1 \in 0..m)
        BY <3>2
      <4>2. QED
        BY <2>1, <2>4, <4>1
    <3>3. QED
      BY <3>1, <3>2
  <2>7. QED
    BY <2>3, <2>6
<1>3. n \in Reached
  <2> HIDE DEF Reached
  <2>1. \A m \in 0..(n - 1) : m \in Reached => m + 1 \in Reached
    BY <1>2
  <2>2. 0 \in Int /\ n \in Int /\ n \in 0..n
    OBVIOUS
  <2>3. \A m \in 0..n : m \in Reached
    BY <1>1, <2>1, <2>2, IntervalInduction
  <2>4. QED
    BY <2>2, <2>3
<1>4. QED
  BY <1>3 DEF Recurs

-----------------------------------------------------------------------------
(* What a filter returns *)

\* g[i] is what the filter S leaves of the first i elements of s.
Filters(g, s, S, X) ==
  /\ g \in [0..Len(s) -> Seq(X)] /\ g[0] = <<>>
  /\ \A i \in 1..Len(s) :
       g[i] = IF s[i] \in S THEN Append(g[i - 1], s[i]) ELSE g[i - 1]

FilterOf(s, S, X) == CHOOSE g : Filters(g, s, S, X) /\ Among(s, S) = g[Len(s)]

\* A filter goes through its sequence element by element.
LEMMA AmongSteps ==
  ASSUME NEW X, NEW s \in Seq(X), NEW S
  PROVE  Filters(FilterOf(s, S, X), s, S, X) /\ Among(s, S) = FilterOf(s, S, X)[Len(s)]
<1> DEFINE n == Len(s)
           step == [p \in (1..n) \X Seq(X) |->
                      IF s[p[1]] \in S THEN Append(p[2], s[p[1]]) ELSE p[2]]
           IsFilter(g) == g = [i \in 0..n |->
             IF i = 0 THEN <<>> ELSE IF s[i] \in S THEN Append(g[i - 1], s[i]) ELSE g[i - 1]]
<1>1. n \in Nat /\ DOMAIN s = 1..n /\ <<>> \in Seq(X)
  OBVIOUS
<1>2. step \in [(1..n) \X Seq(X) -> Seq(X)]
  <2>1. ASSUME NEW p \in (1..n) \X Seq(X)
        PROVE  (IF s[p[1]] \in S THEN Append(p[2], s[p[1]]) ELSE p[2]) \in Seq(X)
    <3>1. p[1] \in 1..n /\ p[2] \in Seq(X)
      OBVIOUS
    <3>2. s[p[1]] \in X
      BY <3>1
    <3>3. QED
      BY <3>1, <3>2, AppendProperties
  <2> HIDE DEF n
  <2>2. QED
    BY <2>1
<1>3. PICK g \in [0..n -> Seq(X)] :
        \A i \in 0..n : g[i] = IF i = 0 THEN <<>> ELSE step[<<i, g[i - 1]>>]
  <2> DEFINE V == Seq(X)
             start == <<>>
  <2>1. n \in Nat /\ start \in V /\ step \in [(1..n) \X V -> V]
    BY <1>1, <1>2
  <2> HIDE DEF step, n, V, start, IsFilter
  <2>2. PICK g : Recurs(g, n, V, start, step)
    BY <2>1, RecursionExists
  <2>3. QED
    BY <2>2 DEF V, start, Recurs
<1>4. \A i \in 1..n : g[i] = IF s[i] \in S THEN Append(g[i - 1], s[i]) ELSE g[i - 1]
  <2> HIDE DEF n
  <2> TAKE i \in 1..n
  <2>1. i \in 0..n /\ i # 0 /\ i - 1 \in 0..n
    BY <1>1
  <2>2. g[i] = step[<<i, g[i - 1]>>] /\ g[i - 1] \in Seq(X)
    BY <1>3, <2>1
  <2>3. <<i, g[i - 1]>> \in (1..n) \X Seq(X)
    BY <2>2
  <2>4. QED
    BY <2>2, <2>3
<1>5. g[0] = <<>>
  BY <1>1, <1>3
<1> HIDE DEF step
<1>6. IsFilter(g)
  <2> HIDE DEF n
  <2>1. \A i \in 0..n : g[i] =
          IF i = 0 THEN <<>> ELSE IF s[i] \in S THEN Append(g[i - 1], s[i]) ELSE g[i - 1]
    <3> TAKE i \in 0..n
    <3>1. i = 0 \/ i \in 1..n
      BY <1>1
    <3>2. QED
      BY <1>4, <1>5, <3>1
  <2>2. g = [i \in 0..n |-> g[i]]
    BY <1>3
  <2>3. QED
    BY <2>1, <2>2
<1> DEFINE f == CHOOSE h : IsFilter(h)
<1>7. IsFilter(f)
  BY <1>6
<1>8. Among(s, S) = f[n]
  BY DEF Among
<1>9. f = g
  <2> HIDE DEF f, n
  <2> DEFINE Same == {i \in 0..n : f[i] = g[i]}
  <2>1. \A i \in 0..n : f[i] =
          IF i = 0 THEN <<>> ELSE IF s[i] \in S THEN Append(f[i - 1], s[i]) ELSE f[i - 1]
    BY <1>7
  <2>2. 0 \in Same
    BY <1>1, <1>5, <2>1
  <2>3. \A i \in 0..(n - 1) : i \in Same => i + 1 \in Same
    <3> TAKE i \in 0..(n - 1)
    <3> HAVE i \in Same
    <3>1. i + 1 \in 1..n /\ i + 1 \in 0..n /\ i + 1 # 0 /\ (i + 1) - 1 = i /\ i \in 0..n
      BY <1>1
    <3>2. f[i + 1] = IF s[i + 1] \in S THEN Append(f[i], s[i + 1]) ELSE f[i]
      BY <2>1, <3>1
    <3>3. g[i + 1] = IF s[i + 1] \in S THEN Append(g[i], s[i + 1]) ELSE g[i]
      BY <1>4, <3>1
    <3>4. QED
      BY <3>1, <3>2, <3>3
  <2>4. \A i \in 0..n : i \in Same
    <3> HIDE DEF Same
    <3>1. 0 \in Int /\ n \in Int
      BY <1>1
    <3>2. QED
      BY <2>2, <2>3, <3>1, IntervalInduction
  <2>5. f = [i \in 0..n |-> f[i]] /\ g = [i \in 0..n |-> g[i]]
    BY <1>3, <1>7
  <2>6. \A i \in 0..n : f[i] = g[i]
    BY <2>4
  <2>7. QED
    BY <2>5, <2>6
<1> HIDE DEF IsFilter, f
<1>10. Filters(g, s, S, X)
  BY <1>1, <1>3, <1>4, <1>5 DEF Filters
<1>11. Among(s, S) = g[Len(s)]
  BY <1>8, <1>9
<1>12. QED
  BY <1>10, <1>11 DEF FilterOf

\* The places of a sequence in order.
Places(s) == [i \in DOMAIN s |-> i]

\* b is what is at the places a of s, and a are the places of I up to i, in order.
Picks(a, b, i, s, I, X) ==
  /\ a \in Seq(I) /\ b \in Seq(X) /\ Len(b) = Len(a)
  /\ \A k \in DOMAIN a : a[k] <= i /\ b[k] = s[a[k]]
  /\ \A k, l \in DOMAIN a : k < l => a[k] < a[l]
  /\ \A j \in I : j <= i => \E k \in DOMAIN a : a[k] = j

\* One more place is taken at the end, or left out.
LEMMA PicksOneMore ==
  ASSUME NEW X, NEW s \in Seq(X), NEW I \in SUBSET (1..Len(s)),
         NEW i \in 0..(Len(s) - 1), NEW a, NEW b, Picks(a, b, i, s, I, X)
  PROVE  /\ i + 1 \in I => Picks(Append(a, i + 1), Append(b, s[i + 1]), i + 1, s, I, X)
         /\ i + 1 \notin I => Picks(a, b, i + 1, s, I, X)
<1>1. /\ a \in Seq(I) /\ b \in Seq(X) /\ Len(b) = Len(a)
      /\ \A k \in DOMAIN a : a[k] <= i /\ b[k] = s[a[k]]
      /\ \A k, l \in DOMAIN a : k < l => a[k] < a[l]
      /\ \A j \in I : j <= i => \E k \in DOMAIN a : a[k] = j
  BY DEF Picks
<1>2. Len(s) \in Nat /\ DOMAIN s = 1..Len(s) /\ i \in Nat /\ i + 1 \in DOMAIN s /\ s[i + 1] \in X
  OBVIOUS
<1>3. \A j \in I : j \in Nat
  BY <1>2
<1>4. Len(a) \in Nat /\ DOMAIN a = 1..Len(a) /\ DOMAIN b = 1..Len(a)
      /\ \A k \in DOMAIN a : a[k] \in I /\ a[k] \in Nat
  <2>1. a \in Seq(I) /\ b \in Seq(X) /\ Len(b) = Len(a)
    BY <1>1
  <2>2. Len(a) \in Nat /\ DOMAIN a = 1..Len(a) /\ DOMAIN b = 1..Len(a)
    BY <2>1
  <2>3. \A k \in DOMAIN a : a[k] \in I
    BY <2>1
  <2>4. QED
    BY <1>3, <2>2, <2>3
<1>5. CASE i + 1 \in I
  <2> DEFINE c == Append(a, i + 1)
             d == Append(b, s[i + 1])
  <2>1. /\ c \in Seq(I) /\ Len(c) = Len(a) + 1 /\ c[Len(a) + 1] = i + 1
        /\ \A k \in 1..Len(a) : c[k] = a[k]
    BY <1>1, <1>5, AppendProperties
  <2>2. /\ d \in Seq(X) /\ Len(d) = Len(b) + 1 /\ d[Len(b) + 1] = s[i + 1]
        /\ \A k \in 1..Len(b) : d[k] = b[k]
    BY <1>1, <1>2, AppendProperties
  <2> HIDE DEF c, d
  <2>3. DOMAIN c = 1..(Len(a) + 1)
    BY <2>1
  <2>4. ASSUME NEW k \in DOMAIN c PROVE k \in DOMAIN a \/ k = Len(a) + 1
    BY <1>4, <2>3
  <2>5. ASSUME NEW k \in DOMAIN c PROVE c[k] <= i + 1 /\ d[k] = s[c[k]]
    <3>1. CASE k \in DOMAIN a
      <4>1. c[k] = a[k] /\ d[k] = b[k] /\ a[k] <= i /\ b[k] = s[a[k]] /\ a[k] \in Nat
        BY <1>1, <1>4, <2>1, <2>2, <3>1
      <4>2. QED
        BY <1>2, <4>1
    <3>2. CASE k = Len(a) + 1
      BY <1>1, <1>2, <2>1, <2>2, <3>2
    <3>3. QED
      BY <2>4, <3>1, <3>2
  <2>6. ASSUME NEW k \in DOMAIN c, NEW l \in DOMAIN c, k < l PROVE c[k] < c[l]
    <3>1. k \in DOMAIN a
      BY <1>4, <2>3, <2>4, <2>6
    <3>2. c[k] = a[k] /\ a[k] <= i /\ a[k] \in Nat
      BY <1>1, <1>4, <2>1, <3>1
    <3>3. CASE l = Len(a) + 1
      BY <1>2, <2>1, <3>2, <3>3
    <3>4. CASE l \in DOMAIN a
      <4>1. c[l] = a[l] /\ a[k] < a[l]
        BY <1>1, <1>4, <2>1, <2>6, <3>1, <3>4
      <4>2. QED
        BY <3>2, <4>1
    <3>5. QED
      BY <2>4, <3>3, <3>4
  <2>7. ASSUME NEW j \in I, j <= i + 1 PROVE \E k \in DOMAIN c : c[k] = j
    <3>1. CASE j = i + 1
      <4>1. Len(a) + 1 \in DOMAIN c
        BY <1>4, <2>3
      <4>2. QED
        BY <2>1, <3>1, <4>1
    <3>2. CASE j # i + 1
      <4>1. j <= i
        BY <1>2, <1>3, <2>7, <3>2
      <4>2. PICK k \in DOMAIN a : a[k] = j
        BY <1>1, <4>1
      <4>3. k \in DOMAIN c /\ c[k] = j
        BY <1>4, <2>1, <2>3, <4>2
      <4>4. QED
        BY <4>3
    <3>3. QED
      BY <3>1, <3>2
  <2>8. Picks(c, d, i + 1, s, I, X)
    BY <1>1, <2>1, <2>2, <2>5, <2>6, <2>7 DEF Picks
  <2>9. QED
    BY <1>5, <2>8 DEF c, d
<1>6. CASE i + 1 \notin I
  <2>1. \A k \in DOMAIN a : a[k] <= i + 1
    <3> TAKE k \in DOMAIN a
    <3>1. a[k] <= i /\ a[k] \in Nat
      BY <1>1, <1>4
    <3>2. QED
      BY <1>2, <3>1
  <2>2. ASSUME NEW j \in I, j <= i + 1 PROVE j <= i
    BY <1>2, <1>3, <1>6, <2>2
  <2>3. QED
    BY <1>1, <1>6, <2>1, <2>2 DEF Picks
<1>7. QED
  BY <1>5, <1>6

\* A filter goes through the sequence once, from left to right: the places of
\* what passes, filtered the same way, name it.
LEMMA AmongIs ==
  ASSUME NEW X, NEW s \in Seq(X), NEW S, NEW I, I = {i \in DOMAIN s : s[i] \in S}
  PROVE  /\ Picks(Among(Places(s), I), Among(s, S), Len(s), s, I, X)
         /\ Among(s, S) = [k \in DOMAIN Among(Places(s), I) |-> s[Among(Places(s), I)[k]]]
<1> DEFINE n == Len(s)
           p == Places(s)
<1>1. n \in Nat /\ DOMAIN s = 1..n /\ I \in SUBSET (1..n) /\ p \in Seq(1..n) /\ Len(p) = n
      /\ \A i \in 1..n : p[i] = i
  BY DEF Places
<1> DEFINE g == FilterOf(s, S, X)
           h == FilterOf(p, I, 1..n)
<1>2. Filters(g, s, S, X) /\ Among(s, S) = g[n]
  BY AmongSteps
<1> HIDE DEF p
<1>3. Filters(h, p, I, 1..n) /\ Among(p, I) = h[n]
  <2> HIDE DEF n
  <2>1. QED
    BY <1>1, AmongSteps
<1> HIDE DEF g, h
<1> DEFINE Done == {i \in 0..n : Picks(h[i], g[i], i, s, I, X)}
<1>4. 0 \in Done
  <2>1. g[0] = <<>> /\ h[0] = <<>>
    BY <1>2, <1>3 DEF Filters
  <2>2. \A j \in I : ~(j <= 0)
    BY <1>1
  <2>3. <<>> \in Seq(I) /\ <<>> \in Seq(X) /\ DOMAIN <<>> = {}
    OBVIOUS
  <2>4. Picks(<<>>, <<>>, 0, s, I, X)
    BY <2>2, <2>3 DEF Picks
  <2>5. QED
    BY <1>1, <2>1, <2>4
<1>5. \A i \in 0..(n - 1) : i \in Done => i + 1 \in Done
  <2> TAKE i \in 0..(n - 1)
  <2> HAVE i \in Done
  <2>1. i + 1 \in 1..n /\ i + 1 \in 0..n /\ (i + 1) - 1 = i /\ p[i + 1] = i + 1
    BY <1>1
  <2>2. g[i + 1] = IF s[i + 1] \in S THEN Append(g[i], s[i + 1]) ELSE g[i]
    BY <1>2, <2>1 DEF Filters
  <2>3. h[i + 1] = IF i + 1 \in I THEN Append(h[i], i + 1) ELSE h[i]
    <3> HIDE DEF n
    <3>1. QED
      BY <1>1, <1>3, <2>1 DEF Filters
  <2>4. i + 1 \in I <=> s[i + 1] \in S
    BY <1>1, <2>1
  <2>5. Picks(h[i + 1], g[i + 1], i + 1, s, I, X)
    <3>1. Picks(h[i], g[i], i, s, I, X)
      OBVIOUS
    <3> HIDE DEF Done
    <3>2. I \in SUBSET (1..Len(s)) /\ i \in 0..(Len(s) - 1)
      BY <1>1
    <3>3. /\ i + 1 \in I => Picks(Append(h[i], i + 1), Append(g[i], s[i + 1]), i + 1, s, I, X)
          /\ i + 1 \notin I => Picks(h[i], g[i], i + 1, s, I, X)
      BY <3>1, <3>2, PicksOneMore
    <3>4. QED
      BY <2>2, <2>3, <2>4, <3>3
  <2>6. QED
    BY <2>1, <2>5
<1>6. n \in Done
  <2> HIDE DEF Done, n
  <2>1. 0 \in Int /\ n \in Int /\ n \in 0..n
    BY <1>1
  <2>2. QED
    BY <1>4, <1>5, <2>1, IntervalInduction
<1>7. Picks(Among(p, I), Among(s, S), n, s, I, X)
  BY <1>2, <1>3, <1>6
<1>8. Among(s, S) = [k \in DOMAIN Among(p, I) |-> s[Among(p, I)[k]]]
  <2> DEFINE a == Among(p, I)
             b == Among(s, S)
  <2> HIDE DEF a, b
  <2>1. b \in Seq(X) /\ Len(b) = Len(a) /\ a \in Seq(I) /\ \A k \in DOMAIN a : b[k] = s[a[k]]
    BY <1>7 DEF Picks, a, b
  <2>2. DOMAIN b = DOMAIN a /\ b = [k \in DOMAIN b |-> b[k]]
    BY <2>1
  <2>3. b = [k \in DOMAIN a |-> s[a[k]]]
    BY <2>1, <2>2
  <2>4. QED
    BY <2>3 DEF a, b
<1>9. QED
  BY <1>7, <1>8 DEF p

\* The places are in order: the k-th is at k or later.
LEMMA PicksAreLater ==
  ASSUME NEW X, NEW s \in Seq(X), NEW I \in SUBSET (1..Len(s)), NEW a, NEW b,
         Picks(a, b, Len(s), s, I, X)
  PROVE  /\ \A k \in DOMAIN a : a[k] \in 1..Len(s) /\ k <= a[k] /\ a[k] <= Len(s) - Len(a) + k
         /\ Len(a) <= Len(s)
<1> DEFINE n == Len(s)
           m == Len(a)
<1>1. /\ n \in Nat /\ m \in Nat /\ DOMAIN a = 1..m
      /\ \A k \in 1..m : a[k] \in 1..n
      /\ \A k, l \in 1..m : k < l => a[k] < a[l]
  <2>1. a \in Seq(I) /\ n \in Nat
    BY DEF Picks
  <2>2. m \in Nat /\ DOMAIN a = 1..m
    BY <2>1
  <2>3. \A k \in 1..m : a[k] \in I
    BY <2>1
  <2>4. \A k \in 1..m : a[k] \in 1..n
    BY <2>3
  <2>5. \A k, l \in 1..m : k < l => a[k] < a[l]
    BY <2>2 DEF Picks
  <2>6. QED
    BY <2>1, <2>2, <2>4, <2>5
<1> HIDE DEF n, m
<1> DEFINE Up == {k \in Int : k \in 1..m => k <= a[k]}
           Down == {t \in Int : t \in 0..(m - 1) => a[m - t] <= n - t}
<1>2. \A k \in 1..m : k \in Up
  <2>1. 1 \in Up
    BY <1>1
  <2>2. \A k \in 1..(m - 1) : k \in Up => k + 1 \in Up
    <3> TAKE k \in 1..(m - 1)
    <3> HAVE k \in Up
    <3>1. k \in 1..m /\ k + 1 \in 1..m /\ k < k + 1 /\ k <= a[k]
      BY <1>1
    <3>2. a[k] < a[k + 1] /\ a[k] \in 1..n /\ a[k + 1] \in 1..n
      BY <1>1, <3>1
    <3>3. QED
      BY <1>1, <3>1, <3>2
  <2> HIDE DEF Up
  <2>3. 1 \in Int /\ m \in Int
    BY <1>1
  <2>4. QED
    BY <2>1, <2>2, <2>3, IntervalInduction
<1>3. \A t \in 0..(m - 1) : t \in Down
  <2>1. 0 \in Down
    <3>1. m \in 1..m => a[m] \in 1..n
      BY <1>1
    <3>2. QED
      BY <1>1, <3>1
  <2>2. \A t \in 0..((m - 1) - 1) : t \in Down => t + 1 \in Down
    <3> TAKE t \in 0..((m - 1) - 1)
    <3> HAVE t \in Down
    <3>1. m - t \in 1..m /\ m - (t + 1) \in 1..m /\ m - (t + 1) < m - t /\ a[m - t] <= n - t
      BY <1>1
    <3>2. a[m - (t + 1)] < a[m - t] /\ a[m - t] \in 1..n /\ a[m - (t + 1)] \in 1..n
      BY <1>1, <3>1
    <3>3. QED
      BY <1>1, <3>1, <3>2
  <2> HIDE DEF Down
  <2>3. 0 \in Int /\ m - 1 \in Int
    BY <1>1
  <2>4. QED
    BY <2>1, <2>2, <2>3, IntervalInduction
<1>4. ASSUME NEW k \in 1..m PROVE a[k] \in 1..n /\ k <= a[k] /\ a[k] <= n - m + k
  <2>1. m - k \in 0..(m - 1) /\ m - (m - k) = k
    BY <1>1
  <2>2. a[k] <= n - (m - k)
    BY <1>3, <2>1
  <2>3. QED
    BY <1>1, <1>2, <2>2
<1>5. m <= n
  <2>1. m = 0 \/ m \in 1..m
    BY <1>1
  <2>2. QED
    BY <1>1, <1>4, <2>1
<1>6. QED
  BY <1>1, <1>4, <1>5 DEF n, m

\* What picks every place is the whole sequence, and what is as long picks every place.
LEMMA PicksAll ==
  ASSUME NEW X, NEW s \in Seq(X), NEW I \in SUBSET (1..Len(s)), NEW a, NEW b,
         Picks(a, b, Len(s), s, I, X)
  PROVE  /\ Len(a) = Len(s) => (\A k \in DOMAIN a : a[k] = k) /\ I = 1..Len(s)
         /\ I = 1..Len(s) => Len(a) = Len(s) /\ (\A k \in DOMAIN a : a[k] = k) /\ b = s
<1>1. /\ \A k \in DOMAIN a : a[k] \in 1..Len(s) /\ k <= a[k] /\ a[k] <= Len(s) - Len(a) + k
      /\ Len(a) <= Len(s)
  BY PicksAreLater
<1>2. /\ Len(s) \in Nat /\ DOMAIN s = 1..Len(s) /\ Len(a) \in Nat /\ DOMAIN a = 1..Len(a)
      /\ a \in Seq(I) /\ b \in Seq(X) /\ Len(b) = Len(a)
  BY DEF Picks
<1>3. Len(a) = Len(s) => \A k \in DOMAIN a : a[k] = k
  <2> SUFFICES ASSUME Len(a) = Len(s), NEW k \in DOMAIN a PROVE a[k] = k
    OBVIOUS
  <2>1. k \in Nat /\ a[k] \in 1..Len(s) /\ k <= a[k] /\ a[k] <= Len(s) - Len(a) + k
    BY <1>1, <1>2
  <2>2. QED
    BY <1>2, <2>1
<1>4. Len(a) = Len(s) => I = 1..Len(s)
  <2> SUFFICES ASSUME Len(a) = Len(s), NEW i \in 1..Len(s) PROVE i \in I
    OBVIOUS
  <2>1. i \in DOMAIN a /\ a[i] = i
    BY <1>2, <1>3
  <2>2. a[i] \in I
    BY <1>2, <2>1
  <2>3. QED
    BY <2>1, <2>2
<1>5. ASSUME I = 1..Len(s) PROVE Len(a) = Len(s)
  <2> DEFINE All == {i \in 0..Len(s) : \A j \in 1..i : j \in DOMAIN a /\ a[j] = j}
  <2>1. 0 \in All
    BY <1>2
  <2>2. \A i \in 0..(Len(s) - 1) : i \in All => i + 1 \in All
    <3> TAKE i \in 0..(Len(s) - 1)
    <3> HAVE i \in All
    <3>1. i + 1 \in I /\ i + 1 <= Len(s) /\ i + 1 \in 0..Len(s) /\ i \in Nat
      BY <1>2, <1>5
    <3>2. PICK k \in DOMAIN a : a[k] = i + 1
      BY <3>1 DEF Picks
    <3>3. k \in Nat /\ k >= 1 /\ k <= i + 1
      BY <1>1, <1>2, <3>2
    <3>4. ~(k <= i)
      <4> SUFFICES ASSUME k <= i PROVE FALSE
        OBVIOUS
      <4>1. k \in 1..i
        BY <3>1, <3>3
      <4>2. a[k] = k
        BY <4>1
      <4>3. QED
        BY <3>1, <3>2, <3>3, <4>2
    <3>5. k = i + 1
      BY <3>1, <3>3, <3>4
    <3>6. i + 1 \in DOMAIN a /\ a[i + 1] = i + 1
      BY <3>2, <3>5
    <3>7. \A j \in 1..(i + 1) : j = i + 1 \/ j \in 1..i
      BY <3>1
    <3>8. QED
      BY <3>1, <3>6, <3>7
  <2>3. Len(s) \in All
    <3> HIDE DEF All
    <3>1. 0 \in Int /\ Len(s) \in Int /\ Len(s) \in 0..Len(s)
      BY <1>2
    <3>2. QED
      BY <2>1, <2>2, <3>1, IntervalInduction
  <2>4. CASE Len(s) = 0
    BY <1>1, <1>2, <2>4
  <2>5. CASE Len(s) # 0
    <3>1. Len(s) \in 1..Len(s)
      BY <1>2, <2>5
    <3>2. Len(s) \in DOMAIN a
      BY <2>3, <3>1
    <3>3. Len(s) <= Len(a)
      BY <1>2, <3>2
    <3>4. Len(s) \in Nat /\ Len(a) \in Nat /\ Len(a) <= Len(s)
      BY <1>1, <1>2
    <3>5. QED
      BY <3>3, <3>4
  <2>6. QED
    BY <2>4, <2>5
<1>6. ASSUME I = 1..Len(s) PROVE b = s
  <2>0. Len(a) = Len(s)
    BY <1>5, <1>6
  <2>1. DOMAIN b = DOMAIN s /\ DOMAIN a = DOMAIN s
    <3>1. DOMAIN b = 1..Len(b)
      BY <1>2
    <3>2. QED
      BY <1>2, <2>0, <3>1
  <2>2. \A k \in DOMAIN s : b[k] = s[k]
    <3> TAKE k \in DOMAIN s
    <3>1. k \in DOMAIN a /\ a[k] = k
      BY <1>3, <2>1
    <3>2. b[k] = s[a[k]]
      BY <3>1 DEF Picks
    <3>3. QED
      BY <3>1, <3>2
  <2>3. b = [k \in DOMAIN b |-> b[k]] /\ s = [k \in DOMAIN s |-> s[k]]
    BY <1>2
  <2>4. QED
    BY <2>1, <2>2, <2>3
<1>7. QED
  BY <1>3, <1>4, <1>5, <1>6

\* A filter whose test all elements pass changes nothing, and two tests that agree on
\* the elements are one filter.
Passing(s, S) == {i \in DOMAIN s : s[i] \in S}

\* A filter returns the elements at the places that pass.
LEMMA AmongPassing ==
  ASSUME NEW X, NEW s \in Seq(X), NEW S
  PROVE  /\ Picks(Among(Places(s), Passing(s, S)), Among(s, S), Len(s), s, Passing(s, S), X)
         /\ Among(s, S) = [k \in DOMAIN Among(Places(s), Passing(s, S)) |->
                             s[Among(Places(s), Passing(s, S))[k]]]
<1>1. PICK I : I = Passing(s, S)
  OBVIOUS
<1>2. I = {i \in DOMAIN s : s[i] \in S} /\ I \in SUBSET (1..Len(s))
  BY <1>1 DEF Passing
<1>3. Picks(Among(Places(s), I), Among(s, S), Len(s), s, I, X)
  BY <1>2, AmongIs
<1>4. Among(s, S) = [k \in DOMAIN Among(Places(s), I) |-> s[Among(Places(s), I)[k]]]
  <2> PICK a, b : a = Among(Places(s), I) /\ b = Among(s, S)
    OBVIOUS
  <2>1. b \in Seq(X) /\ Len(b) = Len(a) /\ a \in Seq(I) /\ \A k \in DOMAIN a : b[k] = s[a[k]]
    BY <1>3 DEF Picks
  <2>2. DOMAIN b = DOMAIN a /\ b = [k \in DOMAIN b |-> b[k]]
    BY <2>1
  <2>3. b = [k \in DOMAIN a |-> s[a[k]]]
    BY <2>1, <2>2
  <2>4. QED
    BY <2>3
<1>5. QED
  BY <1>1, <1>3, <1>4

\* Filters whose tests agree on the sequence return the same.
LEMMA AmongAgrees ==
  ASSUME NEW X, NEW s \in Seq(X), NEW S, NEW T,
         \A i \in DOMAIN s : s[i] \in S <=> s[i] \in T
  PROVE  Among(s, S) = Among(s, T)
<1>1. Passing(s, S) = Passing(s, T)
  BY DEF Passing
<1>2. QED
  BY <1>1, AmongPassing

\* A filter that everything passes changes nothing.
LEMMA AmongAll ==
  ASSUME NEW X, NEW s \in Seq(X), NEW S, \A i \in DOMAIN s : s[i] \in S
  PROVE  Among(s, S) = s
<1>1. Passing(s, S) = 1..Len(s)
  BY DEF Passing
<1>2. Picks(Among(Places(s), Passing(s, S)), Among(s, S), Len(s), s, Passing(s, S), X)
  BY AmongPassing
<1>3. Passing(s, S) \in SUBSET (1..Len(s))
  BY <1>1
<1>4. Passing(s, S) = 1..Len(s) => Among(s, S) = s
  <2> SUFFICES ASSUME NEW a, NEW b, NEW I \in SUBSET (1..Len(s)), Picks(a, b, Len(s), s, I, X)
               PROVE  I = 1..Len(s) => b = s
    BY <1>2, <1>3
  <2>1. QED
    BY PicksAll
<1>5. QED
  BY <1>1, <1>4

\* What is left of a sequence with one more element.
LEMMA AmongOneMore ==
  ASSUME NEW X, NEW s \in Seq(X), NEW x \in X, NEW S, x \in S
  PROVE  Among(Append(s, x), S) = Append(Among(s, S), x)
<1> DEFINE n == Len(s)
           t == Append(s, x)
           g == FilterOf(s, S, X)
           h == FilterOf(t, S, X)
<1>1. /\ n \in Nat /\ t \in Seq(X) /\ Len(t) = n + 1 /\ t[n + 1] = x
      /\ \A i \in 1..n : t[i] = s[i]
  OBVIOUS
<1>2. Filters(g, s, S, X) /\ Among(s, S) = g[n]
  BY AmongSteps
<1>3. Filters(h, t, S, X) /\ Among(t, S) = h[Len(t)]
  <2> HIDE DEF t
  <2>1. QED
    BY <1>1, AmongSteps
<1> HIDE DEF t, g, h
<1>4. /\ g[0] = <<>> /\ h[0] = <<>>
      /\ \A i \in 1..n : g[i] = IF s[i] \in S THEN Append(g[i - 1], s[i]) ELSE g[i - 1]
      /\ \A i \in 1..(n + 1) : h[i] = IF t[i] \in S THEN Append(h[i - 1], t[i]) ELSE h[i - 1]
  BY <1>1, <1>2, <1>3 DEF Filters
<1> HIDE DEF n
<1> DEFINE Alike == {i \in Int : g[i] = h[i]}
<1>5. 0 \in Alike
  BY <1>4
<1>6. \A i \in 0..(n - 1) : i \in Alike => i + 1 \in Alike
  <2> TAKE i \in 0..(n - 1)
  <2> HAVE i \in Alike
  <2>1. i + 1 \in 1..n /\ i + 1 \in 1..(n + 1) /\ i + 1 \in Int /\ (i + 1) - 1 = i
    BY <1>1
  <2>2. g[i + 1] = IF s[i + 1] \in S THEN Append(g[i], s[i + 1]) ELSE g[i]
    BY <1>4, <2>1
  <2>3. h[i + 1] = IF s[i + 1] \in S THEN Append(h[i], s[i + 1]) ELSE h[i]
    BY <1>1, <1>4, <2>1
  <2>4. QED
    BY <2>1, <2>2, <2>3
<1>7. n \in Alike
  <2> HIDE DEF Alike
  <2>1. 0 \in Int /\ n \in Int /\ n \in 0..n
    BY <1>1
  <2>2. QED
    BY <1>5, <1>6, <2>1, IntervalInduction
<1>8. n + 1 \in 1..(n + 1) /\ (n + 1) - 1 = n
  BY <1>1
<1>9. h[n + 1] = Append(h[n], x)
  BY <1>1, <1>4, <1>8
<1>10. QED
  BY <1>1, <1>2, <1>3, <1>7, <1>9 DEF t
=============================================================================
