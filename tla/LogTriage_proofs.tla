-------------------------- MODULE LogTriage_proofs ---------------------------
(***************************************************************************)
(* What a repair makes of a session log, and what a run says of it, for    *)
(* logs of any length, any rows and any command line.                      *)
(*                                                                         *)
(* The rules are about sequences that other sequences are computed from: a *)
(* position is a sum over the rows before it, the surviving rows are a     *)
(* filtered sequence, a run of the rules is a fold.  So the lemmas about   *)
(* these come first, each by induction on an interval.  What the rules of  *)
(* a run have done is Applied, one rule at a time; from it follows which   *)
(* event each position names after the repair (EventsMove, EventsStay).    *)
(* The state of the run enters last: TriageInv says that the proof a run   *)
(* acts on is the one its rules made, and has passed the second check.     *)
(***************************************************************************)
EXTENDS LogTriage, Inductions

-----------------------------------------------------------------------------
(* Positions *)

\* A row as the rules see and write it.
RawRow == [type : RowType, seq : Int, len : Nat, sources : Seq(Source),
           descriptor : [version : 1..4, mode : {"one-shot", "continuable", "odd"},
                         keys : [DescriptorKey -> DescriptorValue]],
           refs : SUBSET (Int \X Int)]

\* The rows of a log are raw rows.
LEMMA RowIsRaw == Seq(Row) \subseteq Seq(RawRow)
<1>1. Row \subseteq RawRow
  BY DEF Row, RawRow
<1>2. QED
  BY <1>1

\* A row stands for a number of events.
LEMMA CountIs ==
  ASSUME NEW row \in RawRow
  PROVE  RowEventCount(row) \in Nat
BY DEF RowEventCount, RawRow

\* A row starts where the row before it ends.
LEMMA PositionIs ==
  ASSUME NEW rows \in Seq(RawRow)
  PROVE  /\ Position(rows, 1) = 0
         /\ \A i \in DOMAIN rows :
              Position(rows, i + 1) = Position(rows, i) + RowEventCount(rows[i])
         /\ \A i \in 1..(Len(rows) + 1) : Position(rows, i) \in Nat
<1> DEFINE n == Len(rows)
           step == [p \in (1..n) \X Nat |-> p[2] + RowEventCount(rows[p[1]])]
           IsAt(at) == at = [j \in 1..(n + 1) |->
                               IF j = 1 THEN 0 ELSE at[j - 1] + RowEventCount(rows[j - 1])]
<1>1. n \in Nat /\ DOMAIN rows = 1..n /\ \A i \in 1..n : RowEventCount(rows[i]) \in Nat
  BY CountIs
<1> HIDE DEF n
<1>2. step \in [(1..n) \X Nat -> Nat]
  BY <1>1
<1>3. PICK g : Recurs(g, n, Nat, 0, step)
  <2> HIDE DEF step
  <2>1. 0 \in Nat
    OBVIOUS
  <2>2. QED
    BY <1>1, <1>2, <2>1, RecursionExists
<1>4. g \in [0..n -> Nat] /\ g[0] = 0
      /\ \A i \in 1..n : g[i] = g[i - 1] + RowEventCount(rows[i])
  <2>1. g \in [0..n -> Nat] /\ g[0] = 0
    BY <1>1, <1>3 DEF Recurs
  <2>2. ASSUME NEW i \in 1..n PROVE g[i] = g[i - 1] + RowEventCount(rows[i])
    <3>1. i \in 0..n /\ i # 0 /\ i - 1 \in 0..n
      BY <1>1
    <3>2. g[i] = step[<<i, g[i - 1]>>] /\ g[i - 1] \in Nat
      BY <1>3, <3>1 DEF Recurs
    <3>3. <<i, g[i - 1]>> \in (1..n) \X Nat
      BY <3>2
    <3>4. QED
      BY <3>2, <3>3
  <2>3. QED
    BY <2>1, <2>2
<1> HIDE DEF step
<1> DEFINE f == [j \in 1..(n + 1) |-> g[j - 1]]
<1>5. IsAt(f)
  <2>1. ASSUME NEW j \in 1..(n + 1)
        PROVE  g[j - 1] = IF j = 1 THEN 0 ELSE f[j - 1] + RowEventCount(rows[j - 1])
    <3>1. CASE j = 1
      BY <1>4, <3>1
    <3>2. CASE j # 1
      <4>1. j - 1 \in 1..n /\ j - 1 \in 1..(n + 1)
        BY <1>1, <3>2
      <4>2. f[j - 1] = g[(j - 1) - 1]
        BY <4>1
      <4>3. g[j - 1] = g[(j - 1) - 1] + RowEventCount(rows[j - 1])
        BY <1>4, <4>1
      <4>4. QED
        BY <3>2, <4>2, <4>3
    <3>3. QED
      BY <3>1, <3>2
  <2>2. f = [j \in 1..(n + 1) |-> IF j = 1 THEN 0 ELSE f[j - 1] + RowEventCount(rows[j - 1])]
    BY <2>1
  <2>3. QED
    BY <2>2
<1> DEFINE at == CHOOSE h : IsAt(h)
<1>6. \A j \in 1..(n + 1) : at[j] = IF j = 1 THEN 0 ELSE at[j - 1] + RowEventCount(rows[j - 1])
  <2> HIDE DEF f
  <2>1. IsAt(at)
    BY <1>5
  <2> HIDE DEF at
  <2>2. QED
    BY <2>1
<1>7. \A i : Position(rows, i) = at[i]
  BY DEF Position, n
<1> HIDE DEF at
<1>8. Position(rows, 1) = 0
  BY <1>1, <1>6, <1>7
<1>9. ASSUME NEW i \in 1..n
      PROVE  Position(rows, i + 1) = Position(rows, i) + RowEventCount(rows[i])
  <2>1. i + 1 \in 1..(n + 1) /\ i + 1 # 1 /\ (i + 1) - 1 = i
    BY <1>1
  <2>2. QED
    BY <1>6, <1>7, <2>1
<1> DEFINE Natural == {i \in Nat : Position(rows, i) \in Nat}
<1>10. \A i \in 1..(n + 1) : i \in Natural
  <2>1. 1 \in Natural
    BY <1>8
  <2>2. \A i \in 1..((n + 1) - 1) : i \in Natural => i + 1 \in Natural
    BY <1>1, <1>9
  <2> HIDE DEF Natural
  <2>3. 1 \in Int /\ n + 1 \in Int
    BY <1>1
  <2>4. QED
    BY <2>1, <2>2, <2>3, IntervalInduction
<1>11. QED
  BY <1>1, <1>8, <1>9, <1>10 DEF n

\* Positions do not decrease, and a row ends before a later one starts.
LEMMA PositionOrder ==
  ASSUME NEW rows \in Seq(RawRow), NEW i \in 1..(Len(rows) + 1), NEW j \in i..(Len(rows) + 1)
  PROVE  /\ Position(rows, i) <= Position(rows, j)
         /\ i < j => Position(rows, i) + RowEventCount(rows[i]) <= Position(rows, j)
<1> DEFINE n == Len(rows)
           P(k) == Position(rows, k)
<1>1. n \in Nat /\ DOMAIN rows = 1..n
  OBVIOUS
<1>2. \A k \in 1..n : P(k + 1) = P(k) + RowEventCount(rows[k]) /\ RowEventCount(rows[k]) \in Nat
  <2> TAKE k \in 1..n
  <2>1. k \in DOMAIN rows /\ rows[k] \in RawRow
    BY <1>1
  <2>2. QED
    BY <2>1, PositionIs, CountIs
<1>3. \A k \in 1..(n + 1) : P(k) \in Nat
  BY PositionIs
<1> HIDE DEF n, P
<1>4. ASSUME NEW k \in 1..(n + 1)
      PROVE  \A l \in k..(n + 1) : P(k) <= P(l)
  <2> DEFINE Above == {l \in Int : P(k) <= P(l)}
  <2>1. k \in Above
    BY <1>3
  <2>2. \A l \in k..((n + 1) - 1) : l \in Above => l + 1 \in Above
    <3> TAKE l \in k..((n + 1) - 1)
    <3> HAVE l \in Above
    <3>1. l \in 1..n /\ l \in 1..(n + 1) /\ l + 1 \in 1..(n + 1) /\ l + 1 \in Int
      BY <1>1
    <3>2. P(l + 1) = P(l) + RowEventCount(rows[l]) /\ RowEventCount(rows[l]) \in Nat
      BY <1>2, <3>1
    <3>3. P(k) \in Nat /\ P(l) \in Nat /\ P(k) <= P(l)
      BY <1>3, <3>1
    <3>4. P(k) <= P(l + 1)
      BY <3>2, <3>3
    <3>5. QED
      BY <3>1, <3>4
  <2> HIDE DEF Above
  <2>3. k \in Int /\ n + 1 \in Int
    BY <1>1
  <2>4. \A l \in k..(n + 1) : l \in Above
    BY <2>1, <2>2, <2>3, IntervalInduction
  <2>5. QED
    BY <2>4 DEF Above
<1>5. i \in 1..(n + 1) /\ j \in i..(n + 1) /\ i \in Int /\ j \in Int
  BY <1>1 DEF n
<1>6. P(i) <= P(j)
  BY <1>4, <1>5
<1>7. ASSUME i < j PROVE P(i) + RowEventCount(rows[i]) <= P(j)
  <2>1. i \in 1..n /\ i + 1 \in 1..(n + 1) /\ j \in (i + 1)..(n + 1)
    BY <1>1, <1>5, <1>7
  <2>2. P(i + 1) <= P(j)
    BY <1>4, <2>1
  <2>3. QED
    BY <1>2, <2>1, <2>2
<1>8. QED
  BY <1>6, <1>7 DEF P

\* Rows of the same counts have the same positions.
LEMMA SamePositions ==
  ASSUME NEW rows \in Seq(RawRow), NEW others \in Seq(RawRow), Len(rows) = Len(others),
         \A i \in DOMAIN rows : RowEventCount(rows[i]) = RowEventCount(others[i])
  PROVE  \A i \in 1..(Len(rows) + 1) : Position(rows, i) = Position(others, i)
<1> DEFINE n == Len(rows)
           Same == {i \in Int : Position(rows, i) = Position(others, i)}
<1>1. n \in Nat /\ DOMAIN rows = 1..n /\ DOMAIN others = 1..n
  OBVIOUS
<1>2. \A i \in 1..n : Position(rows, i + 1) = Position(rows, i) + RowEventCount(rows[i])
  BY <1>1, PositionIs
<1>3. \A i \in 1..n : Position(others, i + 1) = Position(others, i) + RowEventCount(others[i])
  BY <1>1, PositionIs
<1>4. Position(rows, 1) = 0 /\ Position(others, 1) = 0
  BY PositionIs
<1>5. 1 \in Same
  BY <1>4
<1>6. \A i \in 1..((n + 1) - 1) : i \in Same => i + 1 \in Same
  <2> HIDE DEF n
  <2> TAKE i \in 1..((n + 1) - 1)
  <2> HAVE i \in Same
  <2>1. i \in 1..n /\ i + 1 \in Int
    BY <1>1
  <2>2. RowEventCount(rows[i]) = RowEventCount(others[i])
    BY <1>1, <2>1
  <2>3. Position(rows, i + 1) = Position(others, i + 1)
    BY <1>2, <1>3, <2>1, <2>2
  <2>4. QED
    BY <2>1, <2>3
<1>7. \A i \in 1..(n + 1) : i \in Same
  <2> HIDE DEF n, Same
  <2>1. 1 \in Int /\ n + 1 \in Int
    BY <1>1
  <2>2. QED
    BY <1>5, <1>6, <2>1, IntervalInduction
<1>8. QED
  BY <1>7

-----------------------------------------------------------------------------
(* Dropped positions *)

\* What the renumbering does to two positions, a finite set of which is dropped.
LEMMA ShiftedIs ==
  ASSUME NEW D \in SUBSET Int, IsFiniteSet(D), NEW a \in Int, NEW b \in Int, a <= b
  PROVE  /\ Shifted(D, a) \in Int /\ Shifted(D, b) \in Int
         /\ Shifted(D, a) <= Shifted(D, b)
         /\ Shifted(D, b) - Shifted(D, a) <= b - a
         /\ (\A d \in D : ~(a <= d /\ d < b)) => Shifted(D, b) - Shifted(D, a) = b - a
         /\ a \notin D /\ a < b => Shifted(D, a) < Shifted(D, b)
         /\ (\A d \in D : a <= d) => Shifted(D, a) = a
<1> DEFINE A == {d \in D : d < a}
           B == {d \in D : d < b}
           M == {d \in D : a <= d /\ d < b}
<1>0. \A d \in D : d \in Int
  OBVIOUS
<1>1. /\ IsFiniteSet(A) /\ IsFiniteSet(B) /\ IsFiniteSet(M)
      /\ Cardinality(A) \in Nat /\ Cardinality(B) \in Nat /\ Cardinality(M) \in Nat
  <2>1. A \in SUBSET D /\ B \in SUBSET D /\ M \in SUBSET D
    OBVIOUS
  <2> HIDE DEF A, B, M
  <2>2. IsFiniteSet(A) /\ IsFiniteSet(B) /\ IsFiniteSet(M)
    BY <2>1, FS_Subset
  <2>3. QED
    BY <2>2, FS_CardinalityType
<1>2. Shifted(D, a) = a - Cardinality(A) /\ Shifted(D, b) = b - Cardinality(B)
  BY DEF Shifted, DroppedBefore
<1>3. Cardinality(B) = Cardinality(A) + Cardinality(M)
  <2>1. B = A \union M /\ A \cap M = {}
    <3>1. ASSUME NEW d \in D
          PROVE  (d < b <=> d < a \/ (a <= d /\ d < b)) /\ ~(d < a /\ a <= d)
      <4>1. d \in Int
        BY <1>0
      <4>2. QED
        BY <4>1
    <3>2. QED
      BY <3>1
  <2> HIDE DEF A, B, M
  <2>2. Cardinality(A \union M) = Cardinality(A) + Cardinality(M) - Cardinality(A \cap M)
    BY <1>1, FS_Union
  <2>3. Cardinality(A \cap M) = 0
    BY <2>1, FS_EmptySet
  <2>4. QED
    BY <1>1, <2>1, <2>2, <2>3
<1>4. Cardinality(M) <= b - a
  <2>1. M \in SUBSET (a..(b - 1))
    <3>1. ASSUME NEW d \in M PROVE d \in a..(b - 1)
      <4>1. d \in Int /\ a <= d /\ d < b
        BY <1>0
      <4>2. QED
        BY <4>1
    <3>2. QED
      BY <3>1
  <2> HIDE DEF M
  <2>2. IsFiniteSet(a..(b - 1)) /\ Cardinality(a..(b - 1)) = IF a > b - 1 THEN 0 ELSE (b - 1) - a + 1
    BY FS_Interval
  <2>3. Cardinality(M) <= Cardinality(a..(b - 1))
    BY <2>1, <2>2, FS_Subset
  <2>4. QED
    BY <1>1, <2>2, <2>3
<1>5. ASSUME \A d \in D : ~(a <= d /\ d < b) PROVE Cardinality(M) = 0
  <2>1. M = {}
    BY <1>5
  <2>2. QED
    BY <2>1, FS_EmptySet
<1>6. ASSUME a \notin D, a < b PROVE Cardinality(M) < b - a
  <2>1. M \in SUBSET ((a + 1)..(b - 1))
    <3>1. ASSUME NEW d \in M PROVE d \in (a + 1)..(b - 1)
      <4>1. d \in Int /\ d # a /\ a <= d /\ d < b
        BY <1>0, <1>6
      <4>2. QED
        BY <4>1
    <3>2. QED
      BY <3>1
  <2> HIDE DEF M
  <2>2. /\ IsFiniteSet((a + 1)..(b - 1))
        /\ Cardinality((a + 1)..(b - 1)) = IF a + 1 > b - 1 THEN 0 ELSE (b - 1) - (a + 1) + 1
    BY FS_Interval
  <2>3. Cardinality(M) <= Cardinality((a + 1)..(b - 1))
    BY <2>1, <2>2, FS_Subset
  <2>4. QED
    BY <1>1, <1>6, <2>2, <2>3
<1>7. ASSUME \A d \in D : a <= d PROVE Cardinality(A) = 0
  <2>1. A = {}
    <3>1. ASSUME NEW d \in D PROVE ~(d < a)
      <4>1. d \in Int /\ a <= d
        BY <1>0, <1>7
      <4>2. QED
        BY <4>1
    <3>2. QED
      BY <3>1
  <2>2. QED
    BY <2>1, FS_EmptySet
<1> HIDE DEF A, B, M
<1>8. Shifted(D, a) \in Int /\ Shifted(D, b) \in Int
  BY <1>1, <1>2
<1>9. Shifted(D, b) - Shifted(D, a) = (b - a) - Cardinality(M)
  BY <1>1, <1>2, <1>3
<1>10. QED
  BY <1>1, <1>2, <1>4, <1>5, <1>6, <1>7, <1>8, <1>9

-----------------------------------------------------------------------------
(* The rows that are kept *)

\* The places of the kept rows: all of them, in order.
LEMMA KeptIs ==
  ASSUME NEW rows \in Seq(RawRow), NEW a, a = Kept(rows)
  PROVE  /\ Len(rows) \in Nat /\ DOMAIN rows = 1..Len(rows)
         /\ Len(a) \in Nat /\ DOMAIN a = 1..Len(a) /\ Len(a) <= Len(rows)
         /\ \A k \in DOMAIN a : a[k] \in DOMAIN rows /\ ~IsRemovableLegacyEvent(rows[a[k]])
         /\ \A k, l \in DOMAIN a : k < l => a[k] < a[l]
         /\ \A i \in DOMAIN rows :
              ~IsRemovableLegacyEvent(rows[i]) => \E k \in DOMAIN a : a[k] = i
         /\ Len(a) = Len(rows) => /\ \A k \in DOMAIN a : a[k] = k
                                  /\ \A i \in DOMAIN rows : ~IsRemovableLegacyEvent(rows[i])
<1> DEFINE S == {r \in RawRow : ~IsRemovableLegacyEvent(r)}
           I == {i \in DOMAIN rows : ~IsRemovableLegacyEvent(rows[i])}
<1>1. Len(rows) \in Nat /\ DOMAIN rows = 1..Len(rows) /\ \A i \in DOMAIN rows : rows[i] \in RawRow
  OBVIOUS
<1>2. I = {i \in DOMAIN rows : rows[i] \in S} /\ I \in SUBSET (1..Len(rows))
  BY <1>1
<1>3. a = Among(Places(rows), I)
  BY DEF Kept, Places
<1>4. PICK b : Picks(a, b, Len(rows), rows, I, RawRow)
  <2> HIDE DEF I, S
  <2>1. Picks(Among(Places(rows), I), Among(rows, S), Len(rows), rows, I, RawRow)
    BY <1>2, AmongIs
  <2>2. QED
    BY <1>3, <2>1
<1>5. /\ a \in Seq(I)
      /\ \A k, l \in DOMAIN a : k < l => a[k] < a[l]
      /\ \A i \in I : i <= Len(rows) => \E k \in DOMAIN a : a[k] = i
  BY <1>4 DEF Picks
<1> HIDE DEF S
<1>6. Len(a) <= Len(rows)
  <2> HIDE DEF I
  <2>1. QED
    BY <1>2, <1>4, PicksAreLater
<1>7. Len(a) = Len(rows) => (\A k \in DOMAIN a : a[k] = k) /\ I = 1..Len(rows)
  <2>1. I \in SUBSET (1..Len(rows))
    BY <1>2
  <2> HIDE DEF I
  <2>2. QED
    BY <1>4, <2>1, PicksAll
<1>8. Len(a) \in Nat /\ DOMAIN a = 1..Len(a) /\ \A k \in DOMAIN a : a[k] \in I
  <2> HIDE DEF I
  <2>1. QED
    BY <1>5
<1>9. \A i \in I : i <= Len(rows)
  BY <1>1
<1>10. QED
  BY <1>1, <1>5, <1>6, <1>7, <1>8, <1>9

\* What legacyDropSplit keeps, and where each row was.
LEMMA SplitIs ==
  ASSUME NEW rows \in Seq(RawRow)
  PROVE  /\ LegacyDropSplit(rows) \in Seq(RawRow)
         /\ Len(LegacyDropSplit(rows)) = Len(Kept(rows))
         /\ DOMAIN LegacyDropSplit(rows) = DOMAIN Kept(rows)
         /\ \A k \in DOMAIN Kept(rows) : LegacyDropSplit(rows)[k] = rows[Kept(rows)[k]]
<1> DEFINE a == Kept(rows)
           K == [k \in DOMAIN a |-> rows[a[k]]]
<1>1. Len(a) \in Nat /\ DOMAIN a = 1..Len(a) /\ \A k \in DOMAIN a : a[k] \in DOMAIN rows
  BY KeptIs
<1>2. LegacyDropSplit(rows) = K
  BY DEF LegacyDropSplit
<1> HIDE DEF a
<1>3. \A k \in DOMAIN a : rows[a[k]] \in RawRow
  BY <1>1
<1>4. K \in Seq(RawRow) /\ Len(K) = Len(a)
  BY <1>1, <1>3
<1>5. QED
  BY <1>2, <1>4 DEF a

\* The removed rows hold one event each.
LEMMA LossIs ==
  ASSUME NEW rows \in Seq(RawRow)
  PROVE  Position(rows, Len(rows) + 1)
           - Position(LegacyDropSplit(rows), Len(LegacyDropSplit(rows)) + 1)
         = Len(rows) - Len(LegacyDropSplit(rows))
<1> DEFINE a == Kept(rows)
           K == LegacyDropSplit(rows)
           n == Len(rows)
           m == Len(a)
           P(i) == Position(rows, i)
           Q(i) == Position(K, i)
<1>1. /\ n \in Nat /\ m \in Nat /\ DOMAIN rows = 1..n /\ DOMAIN a = 1..m
      /\ \A k \in 1..m : a[k] \in 1..n
      /\ \A k, l \in 1..m : k < l => a[k] < a[l]
      /\ \A i \in 1..n : ~IsRemovableLegacyEvent(rows[i]) => \E k \in 1..m : a[k] = i
  BY KeptIs
<1>2. K \in Seq(RawRow) /\ Len(K) = m /\ DOMAIN K = 1..m /\ \A k \in 1..m : K[k] = rows[a[k]]
  BY <1>1, SplitIs
<1>3. /\ P(1) = 0 /\ \A i \in 1..n : P(i + 1) = P(i) + RowEventCount(rows[i])
      /\ \A i \in 1..(n + 1) : P(i) \in Nat
  BY <1>1, PositionIs
<1>4. /\ Q(1) = 0 /\ \A i \in 1..m : Q(i + 1) = Q(i) + RowEventCount(K[i])
      /\ \A i \in 1..(m + 1) : Q(i) \in Nat
  BY <1>2, PositionIs
<1>5. \A i \in 1..n : RowEventCount(rows[i]) \in Nat
  BY <1>1, CountIs
<1>6. \A i \in 1..n : IsRemovableLegacyEvent(rows[i]) => RowEventCount(rows[i]) = 1
  BY DEF IsRemovableLegacyEvent, RowEventCount, Legacy
<1> HIDE DEF a, K, n, m, P, Q
<1> DEFINE Now(k) == IF k = 0 THEN 0 ELSE a[k]
           Later(k) == IF k = m THEN n + 1 ELSE a[k + 1]
<1>7. ASSUME NEW k \in 0..m
      PROVE  /\ Now(k) \in 0..n /\ Later(k) \in (Now(k) + 1)..(n + 1)
             /\ P(Later(k)) = P(Now(k) + 1) + (Later(k) - (Now(k) + 1))
  <2>1. Now(k) \in 0..n /\ (k # 0 => Now(k) = a[k] /\ k \in 1..m)
    BY <1>1
  <2>2. Later(k) \in (Now(k) + 1)..(n + 1)
    <3>1. CASE k = m
      BY <1>1, <2>1, <3>1
    <3>2. CASE k # m /\ k = 0
      BY <1>1, <3>2
    <3>3. CASE k # m /\ k # 0
      <4>1. k \in 1..m /\ k + 1 \in 1..m /\ k < k + 1
        BY <1>1, <3>3
      <4>2. a[k] < a[k + 1] /\ a[k] \in 1..n /\ a[k + 1] \in 1..n
        BY <1>1, <4>1
      <4>3. Now(k) = a[k] /\ Later(k) = a[k + 1]
        BY <3>3
      <4>4. QED
        BY <1>1, <4>2, <4>3
    <3>4. QED
      BY <3>1, <3>2, <3>3
  <2>3. ASSUME NEW i \in (Now(k) + 1)..(Later(k) - 1) PROVE i \in 1..n /\ IsRemovableLegacyEvent(rows[i])
    <3>1. i \in 1..n
      BY <1>1, <2>1, <2>2
    <3> SUFFICES ASSUME ~IsRemovableLegacyEvent(rows[i]) PROVE FALSE
      BY <3>1
    <3>2. PICK l \in 1..m : a[l] = i
      BY <1>1, <3>1
    <3>3. k < l
      <4>1. CASE k = 0
        BY <3>2, <4>1
      <4>2. CASE k # 0
        <5>1. k \in 1..m /\ a[k] < a[l] /\ a[k] \in 1..n
          BY <1>1, <2>1, <2>2, <2>3, <3>2, <4>2
        <5>2. ~(l < k) /\ l # k
          <6>1. a[l] \in 1..n
            BY <1>1, <3>2
          <6>2. QED
            BY <1>1, <3>2, <5>1, <6>1
        <5>3. QED
          BY <3>2, <5>1, <5>2
      <4>3. QED
        BY <4>1, <4>2
    <3>4. k # m /\ k + 1 \in 1..m /\ Later(k) = a[k + 1]
      BY <1>1, <3>2, <3>3
    <3>5. a[k + 1] <= a[l]
      <4>1. k + 1 = l \/ k + 1 < l
        BY <3>2, <3>3
      <4>2. a[l] \in 1..n /\ a[k + 1] \in 1..n
        BY <1>1, <3>2, <3>4
      <4>3. QED
        BY <1>1, <3>2, <3>4, <4>1, <4>2
    <3>6. QED
      BY <1>1, <2>3, <3>2, <3>4, <3>5
  <2> HIDE DEF Now, Later
  <2> DEFINE Even == {i \in Int : P(i) = P(Now(k) + 1) + (i - (Now(k) + 1))}
  <2>4. Now(k) + 1 \in Even
    BY <1>3, <2>1, <1>1
  <2>5. \A i \in (Now(k) + 1)..(Later(k) - 1) : i \in Even => i + 1 \in Even
    <3> TAKE i \in (Now(k) + 1)..(Later(k) - 1)
    <3> HAVE i \in Even
    <3>1. i \in 1..n /\ RowEventCount(rows[i]) = 1
      BY <1>6, <2>3
    <3>2. P(i + 1) = P(i) + 1 /\ i + 1 \in Int /\ i \in Int
      BY <1>3, <3>1
    <3>3. P(Now(k) + 1) \in Nat /\ P(i) = P(Now(k) + 1) + (i - (Now(k) + 1))
      BY <1>1, <1>3, <2>1
    <3>4. QED
      BY <2>1, <3>2, <3>3
  <2>6. Later(k) \in Even
    <3> HIDE DEF Even
    <3>1. Now(k) + 1 \in Int /\ Later(k) \in Int /\ Later(k) \in (Now(k) + 1)..Later(k)
      BY <2>1, <2>2, <1>1
    <3>2. QED
      BY <2>4, <2>5, <3>1, IntervalInduction
  <2>7. QED
    BY <2>1, <2>2, <2>6
<1> DEFINE Accounted == {k \in Int : P(Later(k)) - Q(k + 1) = Later(k) - (k + 1)}
<1>8. 0 \in Accounted
  <2>1. Now(0) = 0 /\ 0 \in 0..m
    BY <1>1
  <2>2. P(Later(0)) = P(1) + (Later(0) - 1) /\ Later(0) \in 1..(n + 1)
    BY <1>7, <2>1
  <2> HIDE DEF Later
  <2>3. QED
    BY <1>1, <1>3, <1>4, <2>2
<1>9. \A k \in 0..(m - 1) : k \in Accounted => k + 1 \in Accounted
  <2> TAKE k \in 0..(m - 1)
  <2> HAVE k \in Accounted
  <2>1. k + 1 \in 1..m /\ k + 1 \in 0..m /\ k + 1 \in 1..(m + 1) /\ (k + 1) + 1 \in 1..(m + 1)
        /\ Later(k) = a[k + 1] /\ Now(k + 1) = a[k + 1] /\ a[k + 1] \in 1..n /\ a[k + 1] \in 1..(n + 1)
    BY <1>1
  <2>2. /\ Later(k + 1) \in (a[k + 1] + 1)..(n + 1)
        /\ P(Later(k + 1)) = P(a[k + 1] + 1) + (Later(k + 1) - (a[k + 1] + 1))
    BY <1>7, <2>1
  <2>3. P(a[k + 1]) - Q(k + 1) = a[k + 1] - (k + 1)
    BY <2>1
  <2> HIDE DEF Later, Now
  <2>4. P(a[k + 1] + 1) = P(a[k + 1]) + RowEventCount(rows[a[k + 1]])
    BY <1>3, <2>1
  <2>5. Q((k + 1) + 1) = Q(k + 1) + RowEventCount(rows[a[k + 1]])
    BY <1>2, <1>4, <2>1
  <2>6. /\ P(a[k + 1]) \in Nat /\ Q(k + 1) \in Nat /\ RowEventCount(rows[a[k + 1]]) \in Nat
        /\ Later(k + 1) \in Int /\ a[k + 1] \in Int /\ k \in Int
    BY <1>1, <1>3, <1>4, <1>5, <2>1, <2>2
  <2>7. P(Later(k + 1)) - Q((k + 1) + 1) = Later(k + 1) - ((k + 1) + 1)
    <3>1. \A p, q, c, l, b, j \in Int :
            p - q = b - (j + 1) => ((p + c) + (l - (b + 1))) - (q + c) = l - ((j + 1) + 1)
      OBVIOUS
    <3> DEFINE p == P(a[k + 1])
               q == Q(k + 1)
               c == RowEventCount(rows[a[k + 1]])
               l == Later(k + 1)
               b == a[k + 1]
    <3>2. P(Later(k + 1)) = (p + c) + (l - (b + 1)) /\ Q((k + 1) + 1) = q + c /\ p - q = b - (k + 1)
      BY <2>2, <2>3, <2>4, <2>5
    <3>3. p \in Int /\ q \in Int /\ c \in Int /\ l \in Int /\ b \in Int /\ k \in Int
      BY <2>6
    <3> HIDE DEF p, q, c, b
    <3>4. ((p + c) + (l - (b + 1))) - (q + c) = l - ((k + 1) + 1)
      <4> HIDE DEF l
      <4>1. QED
        BY <3>1, <3>2, <3>3
    <3>5. QED
      BY <3>2, <3>4
  <2>8. QED
    BY <2>6, <2>7
<1>10. m \in Accounted
  <2> HIDE DEF Accounted
  <2>1. 0 \in Int /\ m \in Int /\ m \in 0..m
    BY <1>1
  <2>2. QED
    BY <1>8, <1>9, <2>1, IntervalInduction
<1>11. P(n + 1) - Q(m + 1) = (n + 1) - (m + 1)
  BY <1>10
<1>12. (n + 1) - (m + 1) = n - m
  BY <1>1
<1>13. QED
  BY <1>2, <1>11, <1>12 DEF P, Q, K, n, m

-----------------------------------------------------------------------------
(* The renumbering *)

\* The dropped positions are a finite set of naturals.
LEMMA DroppedIs ==
  ASSUME NEW rows \in Seq(RawRow)
  PROVE  /\ DroppedPositions(rows) \in SUBSET Nat
         /\ DroppedPositions(rows) \in SUBSET Int
         /\ IsFiniteSet(DroppedPositions(rows))
<1> DEFINE last == Position(rows, Len(rows) + 1)
<1>1. Len(rows) \in Nat /\ DOMAIN rows = 1..Len(rows)
  OBVIOUS
<1>2. last \in Nat
  BY <1>1, PositionIs
<1>3. DroppedPositions(rows) \in SUBSET (0..last)
  <2> HIDE DEF last
  <2>1. ASSUME NEW i \in DOMAIN rows PROVE Position(rows, i) \in 0..last
    <3>1. i \in 1..(Len(rows) + 1) /\ Len(rows) + 1 \in i..(Len(rows) + 1)
      BY <1>1
    <3>2. Position(rows, i) \in Nat /\ Position(rows, i) <= last
      BY <3>1, PositionIs, PositionOrder DEF last
    <3>3. QED
      BY <1>2, <3>2
  <2>2. QED
    BY <2>1 DEF DroppedPositions
<1> HIDE DEF last
<1>4. IsFiniteSet(0..last)
  BY <1>2, FS_Interval
<1>5. IsFiniteSet(DroppedPositions(rows))
  BY <1>3, <1>4, FS_Subset
<1>6. 0..last \subseteq Nat /\ 0..last \subseteq Int
  BY <1>2
<1>7. QED
  BY <1>3, <1>5, <1>6

\* Renumbering writes the number and the references of a kept row, and nothing else.
LEMMA RenumberedIs ==
  ASSUME NEW rows \in Seq(RawRow)
  PROVE  LET a == Kept(rows)
             D == DroppedPositions(rows)
             N == Renumbered(rows)
         IN  /\ N \in Seq(RawRow) /\ Len(N) = Len(a) /\ DOMAIN N = DOMAIN a
             /\ \A k \in DOMAIN a :
                  LET row == rows[a[k]]
                  IN  /\ N[k].type = row.type /\ N[k].len = row.len
                      /\ N[k].sources = row.sources /\ N[k].descriptor = row.descriptor
                      /\ N[k].seq = Shifted(D, row.seq)
                      /\ N[k].refs = {<<Shifted(D, r[1]), Shifted(D, r[2])>> : r \in row.refs}
<1> DEFINE a == Kept(rows)
           D == DroppedPositions(rows)
           N == Renumbered(rows)
<1>1. Len(a) \in Nat /\ DOMAIN a = 1..Len(a) /\ \A k \in DOMAIN a : a[k] \in DOMAIN rows
  BY KeptIs
<1>2. D \in SUBSET Int /\ IsFiniteSet(D)
  BY DroppedIs
<1>3. N = [k \in DOMAIN LegacyDropSplit(rows) |-> RenumberRow(LegacyDropSplit(rows)[k], D)]
  BY DEF Renumbered
<1> HIDE DEF a, D, N
<1>4. N = [k \in DOMAIN a |-> RenumberRow(rows[a[k]], D)]
  <2>1. /\ DOMAIN LegacyDropSplit(rows) = DOMAIN a
        /\ \A k \in DOMAIN a : LegacyDropSplit(rows)[k] = rows[a[k]]
    BY SplitIs DEF a
  <2>2. QED
    BY <1>3, <2>1
<1>5. \A x \in Int : Shifted(D, x) \in Int
  <2> TAKE x \in Int
  <2>1. x <= x
    OBVIOUS
  <2>2. QED
    BY <1>2, <2>1, ShiftedIs
<1>6. ASSUME NEW row \in RawRow
      PROVE  LET new == RenumberRow(row, D)
             IN  /\ new \in RawRow
                 /\ new.type = row.type /\ new.len = row.len
                 /\ new.sources = row.sources /\ new.descriptor = row.descriptor
                 /\ new.seq = Shifted(D, row.seq)
                 /\ new.refs = {<<Shifted(D, r[1]), Shifted(D, r[2])>> : r \in row.refs}
  <2> DEFINE refs == {<<Shifted(D, r[1]), Shifted(D, r[2])>> : r \in row.refs}
  <2>1. refs \in SUBSET (Int \X Int)
    <3>1. ASSUME NEW r \in row.refs PROVE <<Shifted(D, r[1]), Shifted(D, r[2])>> \in Int \X Int
      <4>1. r \in Int \X Int
        BY DEF RawRow
      <4>2. r[1] \in Int /\ r[2] \in Int
        BY <4>1
      <4>3. QED
        BY <1>5, <4>2
    <3>2. QED
      BY <3>1
  <2>2. Shifted(D, row.seq) \in Int
    BY <1>5 DEF RawRow
  <2>3. RenumberRow(row, D) = [row EXCEPT !.seq = Shifted(D, row.seq), !.refs = refs]
    BY DEF RenumberRow
  <2> HIDE DEF refs
  <2>4. QED
    BY <2>1, <2>2, <2>3 DEF RawRow, refs
<1>7. \A k \in DOMAIN a : rows[a[k]] \in RawRow
  BY <1>1
<1>8. N \in Seq(RawRow) /\ Len(N) = Len(a) /\ DOMAIN N = DOMAIN a
  <2>1. \A k \in DOMAIN a : RenumberRow(rows[a[k]], D) \in RawRow
    BY <1>6, <1>7
  <2>2. QED
    BY <1>1, <1>4, <2>1
<1>9. ASSUME NEW k \in DOMAIN a
      PROVE  LET row == rows[a[k]]
             IN  /\ N[k].type = row.type /\ N[k].len = row.len
                 /\ N[k].sources = row.sources /\ N[k].descriptor = row.descriptor
                 /\ N[k].seq = Shifted(D, row.seq)
                 /\ N[k].refs = {<<Shifted(D, r[1]), Shifted(D, r[2])>> : r \in row.refs}
  <2>1. N[k] = RenumberRow(rows[a[k]], D)
    BY <1>4
  <2>2. QED
    BY <1>6, <1>7, <2>1
<1>10. QED
  BY <1>8, <1>9 DEF a, D, N

\* What the gate lets pass.
LEMMA GateIs ==
  ASSUME NEW l, l.rows \in Seq(RawRow), RenumberRefusal(l) = None
  PROVE  LET D == DroppedPositions(l.rows)
         IN  /\ DenselyNumbered(l.rows) /\ DenselyNumbered(Renumbered(l.rows))
             /\ \A k \in DOMAIN Kept(l.rows) : ~NamesDropped(l.rows[Kept(l.rows)[k]], D)
             /\ \A d \in D : ~(d < l.seed)
<1> DEFINE kept == ToSet(LegacyDropSplit(l.rows))
           D == DroppedPositions(l.rows)
<1>1. /\ None # "other" /\ None # "reference-integrity" /\ None # "seed-cut"
  BY NoneAssumption DEF RefusalReason
<1>2. /\ DenselyNumbered(l.rows) /\ DenselyNumbered(Renumbered(l.rows))
      /\ \A row \in kept : ~NamesDropped(row, D)
      /\ \A d \in D : ~(d < l.seed)
  BY <1>1 DEF RenumberRefusal
<1>3. \A k \in DOMAIN Kept(l.rows) : l.rows[Kept(l.rows)[k]] \in kept
  <2> TAKE k \in DOMAIN Kept(l.rows)
  <2>1. k \in DOMAIN LegacyDropSplit(l.rows) /\ LegacyDropSplit(l.rows)[k] = l.rows[Kept(l.rows)[k]]
    BY SplitIs
  <2>2. QED
    BY <2>1 DEF ToSet
<1>4. QED
  BY <1>2, <1>3

\* Two rows of a dense log do not share a position.
LEMMA RowsAreApart ==
  ASSUME NEW rows \in Seq(RawRow), NEW i \in DOMAIN rows, NEW j \in DOMAIN rows, NEW p \in Int,
         Position(rows, i) <= p, p < Position(rows, i) + RowEventCount(rows[i]),
         Position(rows, j) <= p, p < Position(rows, j) + RowEventCount(rows[j])
  PROVE  i = j
<1>1. Len(rows) \in Nat /\ DOMAIN rows = 1..Len(rows)
  OBVIOUS
<1>2. ASSUME NEW k \in DOMAIN rows, NEW l \in DOMAIN rows, k < l
      PROVE  Position(rows, k) + RowEventCount(rows[k]) <= Position(rows, l)
  <2>1. k \in 1..(Len(rows) + 1) /\ l \in k..(Len(rows) + 1)
    BY <1>1, <1>2
  <2>2. QED
    BY <1>2, <2>1, PositionOrder
<1>3. \A k \in DOMAIN rows : Position(rows, k) \in Nat /\ RowEventCount(rows[k]) \in Nat
  <2> TAKE k \in DOMAIN rows
  <2>1. k \in 1..(Len(rows) + 1) /\ rows[k] \in RawRow
    BY <1>1
  <2>2. QED
    BY <2>1, PositionIs, CountIs
<1>4. ~(i < j) /\ ~(j < i)
  BY <1>2, <1>3
<1>5. QED
  BY <1>1, <1>4

\* No dropped position is inside a kept row.
LEMMA KeptRowsAreWhole ==
  ASSUME NEW rows \in Seq(RawRow), NEW i \in DOMAIN rows, ~IsRemovableLegacyEvent(rows[i]),
         NEW d \in DroppedPositions(rows)
  PROVE  ~(Position(rows, i) <= d /\ d < Position(rows, i) + RowEventCount(rows[i]))
<1> SUFFICES ASSUME Position(rows, i) <= d, d < Position(rows, i) + RowEventCount(rows[i]) PROVE FALSE
  OBVIOUS
<1>1. PICK j \in DOMAIN rows : IsRemovableLegacyEvent(rows[j]) /\ d = Position(rows, j)
  BY DEF DroppedPositions
<1>2. d \in Int
  BY DroppedIs
<1>3. RowEventCount(rows[j]) = 1
  BY <1>1 DEF IsRemovableLegacyEvent, RowEventCount, Legacy
<1>4. Position(rows, j) <= d /\ d < Position(rows, j) + RowEventCount(rows[j])
  BY <1>1, <1>2, <1>3
<1>5. i = j
  BY <1>2, <1>4, RowsAreApart
<1>6. QED
  BY <1>1, <1>5

\* An event of a kept row is where the renumbering put it, and nothing else is there.
LEMMA EventIsShifted ==
  ASSUME NEW rows \in Seq(RawRow), NEW i \in DOMAIN rows, ~IsRemovableLegacyEvent(rows[i]),
         NEW p \in Int, p \notin DroppedPositions(rows)
  PROVE  LET D     == DroppedPositions(rows)
             start == Position(rows, i)
             count == RowEventCount(rows[i])
         IN  /\ start <= p /\ p < start + count
                  <=> Shifted(D, start) <= Shifted(D, p) /\ Shifted(D, p) < Shifted(D, start) + count
             /\ start <= p /\ p < start + count => Shifted(D, p) - Shifted(D, start) = p - start
<1> DEFINE D     == DroppedPositions(rows)
           start == Position(rows, i)
           count == RowEventCount(rows[i])
           end   == start + count
<1>1. start \in Nat /\ count \in Nat /\ end \in Nat
  <2>1. i \in 1..(Len(rows) + 1) /\ rows[i] \in RawRow
    OBVIOUS
  <2>2. QED
    BY <2>1, PositionIs, CountIs
<1>2. D \in SUBSET Int /\ IsFiniteSet(D) /\ \A d \in D : d \in Int
  BY DroppedIs
<1>3. \A d \in D : ~(start <= d /\ d < end)
  BY KeptRowsAreWhole
<1>4. p \notin D
  OBVIOUS
<1> HIDE DEF D, start, count
<1>5. Shifted(D, start) \in Int /\ Shifted(D, p) \in Int /\ Shifted(D, end) \in Int
  <2>1. start \in Int /\ end \in Int /\ start <= start /\ p <= p /\ end <= end
    BY <1>1
  <2>2. QED
    BY <1>2, <2>1, ShiftedIs
<1>6. Shifted(D, end) - Shifted(D, start) = count
  <2>1. start \in Int /\ end \in Int /\ start <= end /\ end - start = count
    BY <1>1
  <2> HIDE DEF end
  <2>2. QED
    BY <1>2, <1>3, <2>1, ShiftedIs
<1>7. ASSUME start <= p, p < end
      PROVE  /\ Shifted(D, p) - Shifted(D, start) = p - start
             /\ Shifted(D, start) <= Shifted(D, p) /\ Shifted(D, p) < Shifted(D, start) + count
  <2>1. \A d \in D : ~(start <= d /\ d < p)
    BY <1>1, <1>2, <1>3, <1>7
  <2>2. Shifted(D, p) - Shifted(D, start) = p - start
    BY <1>1, <1>2, <1>7, <2>1, ShiftedIs
  <2>3. QED
    BY <1>1, <1>5, <1>7, <2>2
<1>8. ASSUME p < start PROVE Shifted(D, p) < Shifted(D, start)
  BY <1>1, <1>2, <1>4, <1>8, ShiftedIs
<1>9. ASSUME end <= p PROVE Shifted(D, start) + count <= Shifted(D, p)
  <2>1. Shifted(D, end) <= Shifted(D, p)
    BY <1>1, <1>2, <1>9, ShiftedIs
  <2>2. QED
    BY <1>1, <1>5, <1>6, <2>1
<1>10. start <= p /\ p < end
         <=> Shifted(D, start) <= Shifted(D, p) /\ Shifted(D, p) < Shifted(D, start) + count
  <2>1. p < start \/ end <= p \/ (start <= p /\ p < end)
    BY <1>1
  <2>2. QED
    BY <1>1, <1>5, <1>7, <1>8, <1>9, <2>1
<1>11. QED
  BY <1>7, <1>10 DEF D, start, count

-----------------------------------------------------------------------------
(* What the rules rewrite *)

SourceRewritten(new, old) ==
  new = old \/ (IsForeign(old) /\ ~RewriteRefused(old) /\ new = ToPluginSource(old))
DescriptorRewritten(new, old) ==
  new = old \/ (~BumpRefused(old) /\ new = [old EXCEPT !.version = 3])

RowRewritten(new, old) ==
  /\ new \in RawRow /\ old \in RawRow
  /\ new.type = old.type /\ new.seq = old.seq /\ new.len = old.len /\ new.refs = old.refs
  /\ DOMAIN new.sources = DOMAIN old.sources
  /\ \A k \in DOMAIN old.sources : SourceRewritten(new.sources[k], old.sources[k])
  /\ DescriptorRewritten(new.descriptor, old.descriptor)

Rewrites(new, old) ==
  /\ new \in Seq(RawRow) /\ old \in Seq(RawRow) /\ Len(new) = Len(old)
  /\ \A i \in DOMAIN old : RowRewritten(new[i], old[i])

\* No row a rule is about.
CleanOf(rule, rows) == \A i \in DOMAIN rows : ~Detects(rule, rows[i])

\* A rewritten source is a plugin source the released arm takes.
LEMMA SourceIsAdmitted ==
  ASSUME NEW s \in Source, IsForeign(s), ~RewriteRefused(s)
  PROVE  /\ ToPluginSource(s) \in Source /\ ~IsForeign(ToPluginSource(s))
         /\ ToPluginSource(s).kind = "plugin" /\ PluginSourceValue(ToPluginSource(s))
<1>1. s.kind = "team"
  BY DEF Source, IsForeign, IsReleasedSourceKind, RewriteRefused
<1>2. None # "team"
  BY NoneAssumption
<1>3. /\ ToPluginSource(s) \in Source
      /\ ToPluginSource(s).kind = "plugin" /\ ToPluginSource(s).plugin = "team"
      /\ ToPluginSource(s).form = s.form /\ ToPluginSource(s).summary = s.summary
      /\ ToPluginSource(s).sections = s.sections
  BY <1>1 DEF Source, ToPluginSource
<1>4. ~IsForeign(ToPluginSource(s))
  BY <1>3 DEF IsForeign, IsReleasedSourceKind
<1>5. s.form \in {"notice", "snapshot", "relay", None}
  BY DEF Source, RewriteRefused
<1>6. /\ s.summary # None => s.form = "notice" /\ s.summary = "text"
      /\ s.sections # None => s.form = "snapshot" /\ s.sections = "named"
      /\ s.form = "snapshot" => s.sections # None
      /\ s.form = "notice" => s.summary # None
  BY DEF RewriteRefused
<1>7. PluginSourceValue(ToPluginSource(s))
  <2> DEFINE t == ToPluginSource(s)
  <2>1. t.plugin # None
    BY <1>2, <1>3
  <2>2. t.form \in {"notice", "snapshot", "relay", None}
    BY <1>3, <1>5
  <2>3. /\ t.summary # None => t.form = "notice" /\ t.summary = "text"
        /\ t.sections # None => t.form = "snapshot" /\ t.sections = "named"
        /\ t.form = "snapshot" => t.sections # None
        /\ t.form = "notice" => t.summary # None
    BY <1>3, <1>6
  <2> HIDE DEF t
  <2>4. PluginSourceValue(t)
    BY <2>1, <2>2, <2>3 DEF PluginSourceValue
  <2>5. QED
    BY <2>4 DEF t
<1>8. QED
  BY <1>3, <1>4, <1>7

\* The sources of a row that is rewritten once more.
LEMMA SourcesRewritten ==
  ASSUME NEW old, NEW row, RowRewritten(row, old),
         \A s \in ForeignSources(row) : ~RewriteRefused(s),
         NEW new, new = NormalizeRow("source-kind", row)
  PROVE  /\ RowRewritten(new, old) /\ new.descriptor = row.descriptor
         /\ ForeignSources(new) = {}
<1>1. row \in RawRow /\ old \in RawRow
  BY DEF RowRewritten
<1> DEFINE W(s) == IF IsForeign(s) THEN ToPluginSource(s) ELSE s
           sources == [k \in DOMAIN row.sources |-> W(row.sources[k])]
<1>2. row.sources \in Seq(Source)
  BY <1>1 DEF RawRow
<1>3. ASSUME NEW k \in DOMAIN row.sources
      PROVE  /\ row.sources[k] \in Source
             /\ IsForeign(row.sources[k]) => ~RewriteRefused(row.sources[k])
             /\ W(row.sources[k]) \in Source /\ ~IsForeign(W(row.sources[k]))
  <2>1. row.sources[k] \in Source /\ row.sources[k] \in ToSet(row.sources)
    BY <1>2 DEF ToSet
  <2>2. IsForeign(row.sources[k]) => ~RewriteRefused(row.sources[k])
    BY <2>1 DEF ForeignSources
  <2>3. QED
    BY <2>1, <2>2, SourceIsAdmitted
<1>4. sources \in Seq(Source) /\ DOMAIN sources = DOMAIN row.sources
  BY <1>2, <1>3
<1>5. new = [row EXCEPT !.sources = sources]
  BY DEF NormalizeRow
<1>6. \A k \in DOMAIN row.sources : sources[k] = W(row.sources[k])
  OBVIOUS
<1> HIDE DEF sources
<1>7. /\ new \in RawRow /\ new.sources = sources
      /\ new.type = row.type /\ new.seq = row.seq /\ new.len = row.len /\ new.refs = row.refs
      /\ new.descriptor = row.descriptor
  BY <1>1, <1>4, <1>5 DEF RawRow
<1>8. ASSUME NEW k \in DOMAIN old.sources
      PROVE  SourceRewritten(sources[k], old.sources[k])
  <2>1. k \in DOMAIN row.sources /\ SourceRewritten(row.sources[k], old.sources[k])
    BY DEF RowRewritten
  <2>2. sources[k] = W(row.sources[k])
    BY <1>6, <2>1
  <2>3. old.sources[k] \in Source
    BY <1>1 DEF RawRow
  <2>4. CASE IsForeign(row.sources[k])
    <3>1. row.sources[k] = old.sources[k]
      BY <2>1, <2>3, <2>4, SourceIsAdmitted DEF SourceRewritten
    <3>2. QED
      BY <1>3, <2>1, <2>2, <2>4, <3>1 DEF SourceRewritten
  <2>5. CASE ~IsForeign(row.sources[k])
    BY <2>1, <2>2, <2>5
  <2>6. QED
    BY <2>4, <2>5
<1>9. RowRewritten(new, old)
  BY <1>4, <1>7, <1>8 DEF RowRewritten
<1>10. ForeignSources(new) = {}
  <2>1. \A k \in DOMAIN sources : ~IsForeign(sources[k])
    BY <1>3, <1>4, <1>6
  <2>2. QED
    BY <1>7, <2>1 DEF ForeignSources, ToSet
<1>11. QED
  BY <1>7, <1>9, <1>10

\* The descriptor of a row that is rewritten once more.
LEMMA DescriptorRewrittenOnce ==
  ASSUME NEW old, NEW row, RowRewritten(row, old),
         Detects("subagent-descriptor-version", row) => ~BumpRefused(row.descriptor),
         NEW new, new = NormalizeRow("subagent-descriptor-version", row)
  PROVE  /\ RowRewritten(new, old) /\ new.sources = row.sources
         /\ ~Detects("subagent-descriptor-version", new)
<1>1. row \in RawRow /\ old \in RawRow
  BY DEF RowRewritten
<1>2. \A r : Detects("subagent-descriptor-version", r) <=> r.type = Descriptor /\ r.descriptor.version # 3
  BY DEF Detects
<1>3. CASE ~Detects("subagent-descriptor-version", row)
  <2>1. new = row
    BY <1>3 DEF NormalizeRow
  <2>2. QED
    BY <1>3, <2>1
<1>4. CASE Detects("subagent-descriptor-version", row)
  <2> DEFINE d == [row.descriptor EXCEPT !.version = 3]
  <2>1. new = [row EXCEPT !.descriptor.version = 3]
    BY <1>4 DEF NormalizeRow
  <2>2. /\ new \in RawRow /\ new.descriptor = d /\ d.version = 3
        /\ new.type = row.type /\ new.seq = row.seq /\ new.len = row.len /\ new.refs = row.refs
        /\ new.sources = row.sources
    BY <1>1, <2>1 DEF RawRow
  <2>3. row.descriptor = old.descriptor
    <3>1. DescriptorRewritten(row.descriptor, old.descriptor)
      BY DEF RowRewritten
    <3>2. row.descriptor.version # 3
      BY <1>2, <1>4
    <3>3. [old.descriptor EXCEPT !.version = 3].version = 3
      BY <1>1 DEF RawRow
    <3>4. QED
      BY <3>1, <3>2, <3>3 DEF DescriptorRewritten
  <2>4. DescriptorRewritten(new.descriptor, old.descriptor)
    BY <1>4, <2>2, <2>3 DEF DescriptorRewritten
  <2>5. RowRewritten(new, old)
    BY <2>2, <2>4 DEF RowRewritten
  <2>6. QED
    BY <1>2, <2>2, <2>5
<1>5. QED
  BY <1>3, <1>4

\* Nothing is rewritten to begin with.
LEMMA RewritesItself ==
  ASSUME NEW rows \in Seq(RawRow)
  PROVE  Rewrites(rows, rows)
<1>1. \A i \in DOMAIN rows : rows[i] \in RawRow
  OBVIOUS
<1>2. \A r \in RawRow : RowRewritten(r, r)
  BY DEF RowRewritten, SourceRewritten, DescriptorRewritten
<1>3. QED
  BY <1>1, <1>2 DEF Rewrites

RawLog == [seed : Nat, rows : Seq(RawRow)]

\* A rule that rewrites, and does not refuse, leaves no row it is about and brings
\* back none of another rule.
LEMMA NormalizeIs ==
  ASSUME NEW base, NEW l \in RawLog, Rewrites(l.rows, base),
         NEW rule \in Rule, rule # "drop-legacy-events", NormalizeRefusal(rule, l) = None,
         NEW new, new = Normalize(rule, l)
  PROVE  /\ new \in RawLog /\ new.seed = l.seed
         /\ Rewrites(new.rows, base) /\ CleanOf(rule, new.rows)
         /\ \A other \in Rule : CleanOf(other, l.rows) => CleanOf(other, new.rows)
<1> DEFINE rows == l.rows
<1>1. rows \in Seq(RawRow) /\ Len(rows) \in Nat /\ DOMAIN rows = 1..Len(rows)
  BY DEF RawLog
<1>2. \A i \in DOMAIN rows : rows[i] \in RawRow /\ rows[i] \in ToSet(rows)
  BY <1>1 DEF ToSet
<1>3. base \in Seq(RawRow) /\ Len(rows) = Len(base) /\ DOMAIN base = DOMAIN rows
      /\ \A i \in DOMAIN rows : RowRewritten(rows[i], base[i])
  BY <1>1 DEF Rewrites
<1>4. None # "other"
  BY NoneAssumption DEF RefusalReason
<1>5. \A r : /\ Detects("source-kind", r) <=> ForeignSources(r) # {}
             /\ Detects("subagent-descriptor-version", r) <=> r.type = Descriptor /\ r.descriptor.version # 3
             /\ Detects("fallbacks-switch", r) <=> r.type = Legacy
             /\ Detects("drop-legacy-events", r) <=> r.type = Legacy
  BY DEF Detects, IsRemovableLegacyEvent
<1>6. ASSUME NEW wanted \in {"source-kind", "subagent-descriptor-version"}, rule = wanted,
             \A i \in DOMAIN rows :
               /\ RowRewritten(NormalizeRow(rule, rows[i]), base[i])
               /\ ~Detects(rule, NormalizeRow(rule, rows[i]))
               /\ \A other \in Rule :
                    ~Detects(other, rows[i]) => ~Detects(other, NormalizeRow(rule, rows[i]))
      PROVE  /\ new \in RawLog /\ new.seed = l.seed
             /\ Rewrites(new.rows, base) /\ CleanOf(rule, new.rows)
             /\ \A other \in Rule : CleanOf(other, l.rows) => CleanOf(other, new.rows)
  <2> DEFINE N == [i \in DOMAIN rows |-> NormalizeRow(rule, rows[i])]
  <2>1. new = [l EXCEPT !.rows = N]
    BY <1>6 DEF Normalize
  <2>2. \A i \in DOMAIN rows : NormalizeRow(rule, rows[i]) \in RawRow
    BY <1>6 DEF RowRewritten
  <2>3. N \in Seq(RawRow) /\ Len(N) = Len(rows) /\ DOMAIN N = DOMAIN rows
    <3> HIDE DEF rows
    <3>1. QED
      BY <1>1, <2>2
  <2>4. \A i \in DOMAIN rows : N[i] = NormalizeRow(rule, rows[i])
    OBVIOUS
  <2> HIDE DEF N
  <2>5. new \in RawLog /\ new.seed = l.seed /\ new.rows = N
    BY <2>1, <2>3 DEF RawLog
  <2>6. Rewrites(N, base)
    BY <1>3, <1>6, <2>3, <2>4 DEF Rewrites
  <2>7. CleanOf(rule, N)
    BY <1>6, <2>3, <2>4 DEF CleanOf
  <2>8. \A other \in Rule : CleanOf(other, rows) => CleanOf(other, N)
    BY <1>6, <2>3, <2>4 DEF CleanOf
  <2>9. QED
    BY <2>5, <2>6, <2>7, <2>8
<1>7. CASE rule = "source-kind"
  <2>1. ASSUME NEW i \in DOMAIN rows
        PROVE  /\ RowRewritten(NormalizeRow(rule, rows[i]), base[i])
               /\ ~Detects(rule, NormalizeRow(rule, rows[i]))
               /\ \A other \in Rule :
                    ~Detects(other, rows[i]) => ~Detects(other, NormalizeRow(rule, rows[i]))
    <3> DEFINE row == rows[i]
               next == NormalizeRow("source-kind", row)
    <3>1. row \in ToSet(rows) /\ RowRewritten(row, base[i])
      BY <1>2, <1>3
    <3>2. \A s \in ForeignSources(row) : ~RewriteRefused(s)
      BY <1>4, <1>7, <3>1 DEF NormalizeRefusal
    <3> HIDE DEF next, row
    <3>3. /\ RowRewritten(next, base[i]) /\ next.descriptor = row.descriptor
          /\ ForeignSources(next) = {}
      BY <3>1, <3>2, SourcesRewritten DEF next
    <3>4. next.type = row.type
      BY <3>1, <3>3 DEF RowRewritten
    <3>5. ~Detects("source-kind", next)
      BY <1>5, <3>3
    <3>6. \A other \in Rule : ~Detects(other, row) => ~Detects(other, next)
      BY <1>5, <3>3, <3>4 DEF Rule
    <3>7. QED
      BY <1>7, <3>3, <3>5, <3>6 DEF row, next
  <2>2. QED
    BY <1>6, <1>7, <2>1
<1>8. CASE rule = "subagent-descriptor-version"
  <2>1. ASSUME NEW i \in DOMAIN rows
        PROVE  /\ RowRewritten(NormalizeRow(rule, rows[i]), base[i])
               /\ ~Detects(rule, NormalizeRow(rule, rows[i]))
               /\ \A other \in Rule :
                    ~Detects(other, rows[i]) => ~Detects(other, NormalizeRow(rule, rows[i]))
    <3> DEFINE row == rows[i]
               next == NormalizeRow("subagent-descriptor-version", row)
    <3>1. row \in ToSet(rows) /\ RowRewritten(row, base[i])
      BY <1>2, <1>3
    <3>2. Detects("subagent-descriptor-version", row) => ~BumpRefused(row.descriptor)
      BY <1>4, <1>8, <3>1 DEF NormalizeRefusal
    <3> HIDE DEF next, row
    <3>3. /\ RowRewritten(next, base[i]) /\ next.sources = row.sources
          /\ ~Detects("subagent-descriptor-version", next)
      BY <3>1, <3>2, DescriptorRewrittenOnce DEF next
    <3>4. next.type = row.type
      BY <3>1, <3>3 DEF RowRewritten
    <3>5. ForeignSources(next) = ForeignSources(row)
      BY <3>3 DEF ForeignSources
    <3>6. \A other \in Rule : ~Detects(other, row) => ~Detects(other, next)
      BY <1>5, <3>3, <3>4, <3>5 DEF Rule
    <3>7. QED
      BY <1>8, <3>3, <3>6 DEF row, next
  <2>2. QED
    BY <1>6, <1>8, <2>1
<1>9. CASE rule = "fallbacks-switch"
  <2>1. new = l
    BY <1>9 DEF Normalize
  <2>2. CleanOf(rule, rows)
    <3>1. \A r \in ToSet(rows) : ~Detects(rule, r)
      BY <1>4, <1>9 DEF NormalizeRefusal
    <3>2. QED
      BY <1>2, <3>1 DEF CleanOf
  <2>3. QED
    BY <2>1, <2>2
<1>10. QED
  BY <1>7, <1>8, <1>9 DEF Rule

-----------------------------------------------------------------------------
(* One run of the rules *)

\* f[n] is what the first n rules made of the log l.
ProofRun(f, l, rules) ==
  /\ f[0] = Unproven(l)
  /\ \A n \in 1..Len(rules) : f[n] = ProofStep(f[n - 1], rules[n])

\* The registry has no more than three rules for a run, and so the run is spelt out.
LEMMA ProofRunExists ==
  ASSUME NEW l, NEW rules \in Seq(Rule), Len(rules) <= 3
  PROVE  \E f : ProofRun(f, l, rules) /\ RunProof(l, rules) = f[Len(rules)]
<1> DEFINE n == Len(rules)
           p0 == Unproven(l)
           p1 == ProofStep(p0, rules[1])
           p2 == ProofStep(p1, rules[2])
           p3 == ProofStep(p2, rules[3])
           IsRun(f) == f = [i \in 0..n |-> IF i = 0 THEN Unproven(l)
                                           ELSE ProofStep(f[i - 1], rules[i])]
           g == [i \in 0..n |-> IF i = 0 THEN p0 ELSE IF i = 1 THEN p1 ELSE IF i = 2 THEN p2 ELSE p3]
<1>1. n \in 0..3
  <2>1. Len(rules) \in Nat
    OBVIOUS
  <2>2. \A x \in Nat : x <= 3 => x \in 0..3
    OBVIOUS
  <2>3. QED
    BY <2>1, <2>2
<1> HIDE DEF n
<1>2. IsRun(g)
  <2>1. ASSUME NEW i \in 0..n
        PROVE  g[i] = IF i = 0 THEN Unproven(l) ELSE ProofStep(g[i - 1], rules[i])
    <3>1. i = 0 \/ i = 1 \/ i = 2 \/ i = 3
      BY <1>1
    <3>2. i # 0 => i - 1 \in 0..n
      BY <1>1
    <3>3. CASE i = 0
      BY <3>3
    <3>4. CASE i = 1
      <4>1. g[1] = p1 /\ g[0] = p0
        BY <1>1, <3>2, <3>4
      <4>2. QED
        BY <3>4, <4>1
    <3>5. CASE i = 2
      <4>1. g[2] = p2 /\ g[1] = p1
        BY <1>1, <3>2, <3>5
      <4>2. QED
        BY <3>5, <4>1
    <3>6. CASE i = 3
      <4>1. g[3] = p3 /\ g[2] = p2
        BY <1>1, <3>2, <3>6
      <4>2. QED
        BY <3>6, <4>1
    <3>7. QED
      BY <3>1, <3>3, <3>4, <3>5, <3>6
  <2>2. g = [i \in 0..n |-> g[i]]
    OBVIOUS
  <2> HIDE DEF g
  <2>3. QED
    BY <2>1, <2>2
<1> HIDE DEF g
<1> DEFINE f == CHOOSE h : IsRun(h)
<1>3. IsRun(f)
  BY <1>2
<1>4. RunProof(l, rules) = f[n]
  BY DEF RunProof, n
<1> HIDE DEF f
<1>5. \A i \in 0..n : f[i] = IF i = 0 THEN Unproven(l) ELSE ProofStep(f[i - 1], rules[i])
  BY <1>3
<1>6. f[0] = Unproven(l)
  BY <1>1, <1>5
<1>7. ASSUME NEW i \in 1..n PROVE f[i] = ProofStep(f[i - 1], rules[i])
  <2>1. i \in 0..n /\ i # 0
    BY <1>1
  <2>2. QED
    BY <1>5, <2>1
<1>8. ProofRun(f, l, rules)
  BY <1>6, <1>7 DEF ProofRun, n
<1>9. QED
  BY <1>4, <1>8 DEF n

\* The rules of one run: those of the registry that a drop, if there is one, comes first of.
RuleList == {rules \in Seq(Rule) :
               /\ Len(rules) <= 3
               /\ \A i \in DOMAIN rules : rules[i] = "drop-legacy-events" => i = 1}

Drops(rules, n) == n >= 1 /\ rules[1] = "drop-legacy-events"

Acc == [refused : Rule \union {None}, reason : RefusalReason \union {None},
        log : RawLog, dropped : Int]

\* What the first n rules have made of the log, when none of them refused it.
Applied(acc, l, rules, n) ==
  LET base == IF Drops(rules, n) THEN Renumbered(l.rows) ELSE l.rows
  IN /\ acc.log.seed = l.seed
     /\ Rewrites(acc.log.rows, base)
     /\ Drops(rules, n) => RenumberRefusal(l) = None
     /\ acc.dropped = IF Drops(rules, n) THEN Len(l.rows) - Len(Kept(l.rows)) ELSE 0
     /\ \A i \in 1..n : CleanOf(rules[i], acc.log.rows)

\* One more rule.
LEMMA AppliedOneMore ==
  ASSUME NEW l \in RawLog, NEW rules \in RuleList, NEW n \in 0..(Len(rules) - 1),
         NEW acc \in Acc, n = 0 => acc = Unproven(l),
         acc.refused = None => Applied(acc, l, rules, n),
         NEW next, next = ProofStep(acc, rules[n + 1])
  PROVE  /\ next \in Acc
         /\ next.refused = None => Applied(next, l, rules, n + 1)
<1> DEFINE rule == rules[n + 1]
           reason == NormalizeRefusal(rule, acc.log)
<1>1. /\ n \in Nat /\ n + 1 \in DOMAIN rules /\ DOMAIN rules = 1..Len(rules) /\ rule \in Rule
      /\ rule = "drop-legacy-events" => n = 0
      /\ n # 0 => rule # "drop-legacy-events"
  <2>1. rules \in Seq(Rule) /\ Len(rules) \in Nat
    BY DEF RuleList
  <2>2. n \in Nat /\ n + 1 \in 1..Len(rules) /\ DOMAIN rules = 1..Len(rules)
    BY <2>1
  <2>3. rule \in Rule
    BY <2>1, <2>2
  <2>4. rule = "drop-legacy-events" => n + 1 = 1
    BY <2>2 DEF RuleList
  <2>5. QED
    BY <2>2, <2>3, <2>4
<1>2. None \notin Rule
  BY NoneAssumption
<1>3. acc.log \in RawLog /\ l.rows \in Seq(RawRow)
  BY DEF Acc, RawLog
<1>4. CASE acc.refused # None
  <2>1. next = acc
    BY <1>4 DEF ProofStep
  <2>2. QED
    BY <1>4, <2>1
<1>5. CASE acc.refused = None /\ reason # None
  <2>1. next = [acc EXCEPT !.refused = rule, !.reason = reason]
    BY <1>5 DEF ProofStep
  <2>2. reason \in RefusalReason
    BY <1>5 DEF NormalizeRefusal, RenumberRefusal, RefusalReason
  <2> HIDE DEF reason, rule
  <2>3. next \in Acc /\ next.refused = rule
    BY <1>1, <2>1, <2>2 DEF Acc
  <2>4. QED
    BY <1>1, <1>2, <2>3
<1>6. CASE acc.refused = None /\ reason = None /\ rule = "drop-legacy-events"
  <2>1. n = 0 /\ acc = Unproven(l) /\ Drops(rules, 1)
    BY <1>1, <1>6 DEF Drops
  <2>2. acc.log = l
    BY <2>1 DEF Unproven
  <2>3. next = [acc EXCEPT !.log = [l EXCEPT !.rows = Renumbered(l.rows)],
                           !.dropped = Len(l.rows) - Len(LegacyDropSplit(l.rows))]
    BY <1>6, <2>2 DEF ProofStep, Normalize
  <2>4. RenumberRefusal(l) = None
    BY <1>6, <2>2 DEF NormalizeRefusal
  <2>5. /\ Renumbered(l.rows) \in Seq(RawRow) /\ DOMAIN Renumbered(l.rows) = DOMAIN Kept(l.rows)
        /\ \A k \in DOMAIN Kept(l.rows) : Renumbered(l.rows)[k].type = l.rows[Kept(l.rows)[k]].type
    BY <1>3, RenumberedIs
  <2>6. Len(LegacyDropSplit(l.rows)) = Len(Kept(l.rows)) /\ Len(l.rows) \in Int /\ Len(Kept(l.rows)) \in Int
    BY <1>3, SplitIs, KeptIs
  <2>7. /\ next \in Acc /\ next.log.rows = Renumbered(l.rows) /\ next.log.seed = l.seed
        /\ next.dropped = Len(l.rows) - Len(Kept(l.rows))
    <3> DEFINE lost == Len(l.rows) - Len(Kept(l.rows))
               kept == [l EXCEPT !.rows = Renumbered(l.rows)]
    <3>1. next = [acc EXCEPT !.log = kept, !.dropped = lost]
      BY <2>3, <2>6
    <3>2. lost \in Int
      BY <2>6
    <3>3. kept \in RawLog /\ kept.rows = Renumbered(l.rows) /\ kept.seed = l.seed
      BY <2>5 DEF RawLog
    <3> HIDE DEF lost, kept
    <3>4. next \in Acc /\ next.log = kept /\ next.dropped = lost
      BY <3>1, <3>2, <3>3 DEF Acc
    <3>5. QED
      BY <3>3, <3>4 DEF lost
  <2>8. CleanOf("drop-legacy-events", Renumbered(l.rows))
    <3>1. ASSUME NEW k \in DOMAIN Kept(l.rows) PROVE ~IsRemovableLegacyEvent(Renumbered(l.rows)[k])
      <4>1. ~IsRemovableLegacyEvent(l.rows[Kept(l.rows)[k]])
        BY <1>3, KeptIs
      <4>2. QED
        BY <2>5, <4>1 DEF IsRemovableLegacyEvent
    <3>2. QED
      BY <2>5, <3>1 DEF CleanOf, Detects
  <2>9. Rewrites(Renumbered(l.rows), Renumbered(l.rows))
    BY <2>5, RewritesItself
  <2>10. \A i \in 1..1 : rules[i] = "drop-legacy-events"
    BY <1>6, <2>1
  <2>11. Applied(next, l, rules, 1)
    BY <2>1, <2>4, <2>7, <2>8, <2>9, <2>10 DEF Applied
  <2>12. QED
    BY <2>1, <2>7, <2>11
<1>7. CASE acc.refused = None /\ reason = None /\ rule # "drop-legacy-events"
  <2> DEFINE new == Normalize(rule, acc.log)
             base == IF Drops(rules, n) THEN Renumbered(l.rows) ELSE l.rows
  <2>1. next = [acc EXCEPT !.log = new]
    <3>1. next = [acc EXCEPT !.log = new, !.dropped = acc.dropped]
      BY <1>7 DEF ProofStep
    <3>2. QED
      BY <3>1 DEF Acc
  <2>2. Applied(acc, l, rules, n)
    BY <1>7
  <2>3. Drops(rules, n + 1) <=> Drops(rules, n)
    <3>1. n = 0 => rules[1] # "drop-legacy-events"
      BY <1>7
    <3>2. QED
      BY <1>1, <3>1 DEF Drops
  <2>4. Rewrites(acc.log.rows, base) /\ rule \in Rule /\ rule # "drop-legacy-events"
    BY <1>1, <1>7, <2>2 DEF Applied
  <2>5. NormalizeRefusal(rule, acc.log) = None
    BY <1>7
  <2> HIDE DEF base, new, rule, reason
  <2>6. /\ new \in RawLog /\ new.seed = acc.log.seed
        /\ Rewrites(new.rows, base) /\ CleanOf(rule, new.rows)
        /\ \A other \in Rule : CleanOf(other, acc.log.rows) => CleanOf(other, new.rows)
    <3> DEFINE log0 == acc.log
    <3>1. /\ log0 \in RawLog /\ Rewrites(log0.rows, base) /\ new = Normalize(rule, log0)
          /\ rule \in Rule /\ rule # "drop-legacy-events" /\ NormalizeRefusal(rule, log0) = None
      BY <1>3, <2>4, <2>5 DEF new
    <3> HIDE DEF log0
    <3>2. /\ new \in RawLog /\ new.seed = log0.seed
          /\ Rewrites(new.rows, base) /\ CleanOf(rule, new.rows)
          /\ \A other \in Rule : CleanOf(other, log0.rows) => CleanOf(other, new.rows)
      BY <3>1, NormalizeIs
    <3>3. QED
      BY <3>2 DEF log0
  <2>7. next \in Acc /\ next.log = new /\ next.dropped = acc.dropped
    BY <2>1, <2>6 DEF Acc
  <2>8. ASSUME NEW i \in 1..(n + 1) PROVE CleanOf(rules[i], new.rows)
    <3>1. CASE i = n + 1
      BY <2>6, <3>1 DEF rule
    <3>2. CASE i # n + 1
      <4>1. i \in 1..n /\ i \in DOMAIN rules
        BY <1>1, <3>2
      <4>2. CleanOf(rules[i], acc.log.rows)
        BY <2>2, <4>1 DEF Applied
      <4>3. rules[i] \in Rule
        BY <4>1 DEF RuleList
      <4>4. QED
        BY <2>6, <4>2, <4>3
    <3>3. QED
      BY <3>1, <3>2
  <2>9. Applied(next, l, rules, n + 1)
    BY <2>2, <2>3, <2>6, <2>7, <2>8 DEF Applied, base
  <2>10. QED
    BY <2>7, <2>9
<1>8. QED
  BY <1>4, <1>5, <1>6, <1>7

\* What a run that refuses nothing has made of a log.
LEMMA RunProofIs ==
  ASSUME NEW l \in RawLog, NEW rules \in RuleList, NEW proven, proven = RunProof(l, rules)
  PROVE  proven \in Acc /\ (proven.refused = None => Applied(proven, l, rules, Len(rules)))
<1> DEFINE n == Len(rules)
<1>1. rules \in Seq(Rule) /\ n \in Nat /\ n <= 3
  BY DEF RuleList
<1>2. PICK f : ProofRun(f, l, rules) /\ RunProof(l, rules) = f[n]
  BY <1>1, ProofRunExists
<1> DEFINE Done == {i \in 0..n : /\ i = 0 => f[i] = Unproven(l)
                                 /\ f[i] \in Acc
                                 /\ f[i].refused = None => Applied(f[i], l, rules, i)}
<1>3. 0 \in Done
  <2>1. f[0] = Unproven(l)
    BY <1>2 DEF ProofRun
  <2>2. Unproven(l) \in Acc
    BY DEF Unproven, Acc
  <2>3. Rewrites(l.rows, l.rows) /\ ~Drops(rules, 0)
    BY RewritesItself DEF RawLog, Drops
  <2>4. Applied(Unproven(l), l, rules, 0)
    BY <2>3 DEF Applied, Unproven
  <2>5. QED
    BY <1>1, <2>1, <2>2, <2>4
<1>4. \A i \in 0..(n - 1) : i \in Done => i + 1 \in Done
  <2> TAKE i \in 0..(n - 1)
  <2> HAVE i \in Done
  <2>1. f[i] \in Acc /\ (i = 0 => f[i] = Unproven(l)) /\ (f[i].refused = None => Applied(f[i], l, rules, i))
    OBVIOUS
  <2>2. i + 1 \in 1..n /\ i + 1 \in 0..n /\ i + 1 # 0 /\ (i + 1) - 1 = i
    BY <1>1
  <2>3. f[i + 1] = ProofStep(f[i], rules[i + 1])
    BY <1>2, <2>2 DEF ProofRun
  <2> HIDE DEF Done
  <2>4. f[i + 1] \in Acc /\ (f[i + 1].refused = None => Applied(f[i + 1], l, rules, i + 1))
    BY <2>1, <2>3, AppliedOneMore
  <2>5. QED
    BY <2>2, <2>4 DEF Done
<1>5. n \in Done
  <2> HIDE DEF n, Done
  <2>1. 0 \in Int /\ n \in Int /\ n \in 0..n
    BY <1>1
  <2>2. QED
    BY <1>3, <1>4, <2>1, IntervalInduction
<1>6. QED
  BY <1>2, <1>5

-----------------------------------------------------------------------------
(* The rows a repair writes *)

\* The rules a command line selects.
LEMMA SelectedRulesAre ==
  ASSUME opts \in Option
  PROVE  /\ SelectedRules \in RuleList
         /\ Drops(SelectedRules, Len(SelectedRules)) => opts.drop
         /\ opts.class = None =>
              \A rule \in {"source-kind", "subagent-descriptor-version"} :
                \E i \in 1..Len(SelectedRules) : SelectedRules[i] = rule
         /\ opts.class = None =>
              \E i \in 1..Len(SelectedRules) :
                SelectedRules[i] \in {"fallbacks-switch", "drop-legacy-events"}
<1> DEFINE all == ReportRules
<1>1. /\ all \in Seq(Rule) /\ Len(all) = 3
      /\ all[1] \in {"source-kind", "drop-legacy-events"}
      /\ all[1] = "drop-legacy-events" <=> opts.drop
      /\ \A i \in DOMAIN all : all[i] = "drop-legacy-events" => i = 1
      /\ \A rule \in {"source-kind", "subagent-descriptor-version"} : \E i \in 1..3 : all[i] = rule
      /\ \E i \in 1..3 : all[i] \in {"fallbacks-switch", "drop-legacy-events"}
  <2> DEFINE plain == <<"source-kind", "subagent-descriptor-version", "fallbacks-switch">>
             lossy == <<"drop-legacy-events", "source-kind", "subagent-descriptor-version">>
  <2>1. all = IF ~opts.drop THEN plain ELSE lossy
    BY DEF ReportRules, PolicyRules, BuiltInRules
  <2>2. /\ plain \in Seq(Rule) /\ Len(plain) = 3 /\ DOMAIN plain = 1..3
        /\ plain[1] = "source-kind" /\ plain[2] = "subagent-descriptor-version"
        /\ plain[3] = "fallbacks-switch"
    BY DEF Rule
  <2>3. /\ lossy \in Seq(Rule) /\ Len(lossy) = 3 /\ DOMAIN lossy = 1..3
        /\ lossy[1] = "drop-legacy-events" /\ lossy[2] = "source-kind"
        /\ lossy[3] = "subagent-descriptor-version"
    BY DEF Rule
  <2>4. 1 \in 1..3 /\ 2 \in 1..3 /\ 3 \in 1..3 /\ \A i \in 1..3 : i = 1 \/ i = 2 \/ i = 3
    OBVIOUS
  <2> HIDE DEF plain, lossy, all
  <2>5. CASE ~opts.drop
    BY <2>1, <2>2, <2>4, <2>5
  <2>6. CASE opts.drop
    BY <2>1, <2>3, <2>4, <2>6
  <2>7. QED
    BY <2>5, <2>6
<1> HIDE DEF all
<1>2. all \in RuleList
  <2>1. Len(all) = 3 /\ 3 <= 3
    BY <1>1
  <2>2. all \in Seq(Rule) /\ Len(all) <= 3
    BY <1>1, <2>1
  <2>3. QED
    BY <1>1, <2>2 DEF RuleList
<1>3. CASE opts.class = None
  <2>1. SelectedRules = all
    BY <1>3 DEF SelectedRules, all
  <2>2. QED
    BY <1>1, <1>2, <2>1 DEF Drops
<1>4. CASE opts.class # None
  <2> DEFINE S == {r \in ToSet(all) : ClassOf(r) = opts.class}
             I == {i \in DOMAIN all : all[i] \in S}
             a == Among(Places(all), I)
             b == Among(all, S)
  <2>1. SelectedRules = b
    BY <1>4 DEF SelectedRules, all
  <2> HIDE DEF S
  <2>2. Picks(a, b, Len(all), all, I, Rule) /\ I \in SUBSET (1..Len(all))
    <3>1. I \in SUBSET (1..Len(all))
      BY <1>1
    <3> HIDE DEF all
    <3>2. QED
      BY <1>1, <3>1, AmongIs
  <2> HIDE DEF a, b, I
  <2>3. a \in Seq(I) /\ b \in Seq(Rule) /\ Len(b) = Len(a)
        /\ \A k \in DOMAIN a : b[k] = all[a[k]]
    BY <2>2 DEF Picks
  <2>4. Len(a) <= 3 /\ \A k \in DOMAIN a : a[k] \in 1..3 /\ k <= a[k]
    <3>1. Len(a) <= Len(all) /\ \A k \in DOMAIN a : a[k] \in 1..Len(all) /\ k <= a[k]
      BY <1>1, <2>2, PicksAreLater
    <3>2. QED
      BY <1>1, <3>1
  <2>5. DOMAIN a = 1..Len(a) /\ DOMAIN b = 1..Len(b) /\ DOMAIN b = DOMAIN a /\ Len(b) \in Nat
    <3>1. DOMAIN a = 1..Len(a)
      BY <2>3
    <3>2. DOMAIN b = 1..Len(b) /\ Len(b) \in Nat
      BY <2>3
    <3>3. QED
      BY <2>3, <3>1, <3>2
  <2>6. ASSUME NEW k \in DOMAIN b, b[k] = "drop-legacy-events" PROVE k = 1 /\ opts.drop
    <3>1. all[a[k]] = "drop-legacy-events" /\ a[k] \in 1..3 /\ k <= a[k] /\ k \in 1..Len(b)
      BY <2>3, <2>4, <2>5, <2>6
    <3>2. a[k] = 1
      <4>1. a[k] \in DOMAIN all
        BY <1>1, <3>1
      <4>2. QED
        BY <1>1, <3>1, <4>1
    <3>3. QED
      BY <1>1, <2>5, <3>1, <3>2
  <2>7. b \in RuleList
    BY <2>3, <2>4, <2>6 DEF RuleList
  <2>8. Drops(b, Len(b)) => opts.drop
    <3>1. Len(b) >= 1 => 1 \in DOMAIN b
      BY <2>5
    <3>2. QED
      BY <2>6, <3>1 DEF Drops
  <2>9. QED
    BY <1>4, <2>1, <2>7, <2>8
<1>5. QED
  BY <1>3, <1>4

\* The selected rules made the proof, and none of them refused the log.
ProofStands == proof = RunProof(log, SelectedRules) /\ proof.refused = None

\* The proof that stands is the selected rules applied to the end of their list.
LEMMA ProofIsApplied ==
  ASSUME log \in Log, opts \in Option, ProofStands
  PROVE  /\ log \in RawLog /\ log.rows \in Seq(RawRow)
         /\ Drops(SelectedRules, Len(SelectedRules)) => opts.drop
         /\ Applied(proof, log, SelectedRules, Len(SelectedRules))
<1> DEFINE L == SelectedRules
<1>1. log \in RawLog /\ log.rows \in Seq(RawRow)
  BY RowIsRaw DEF Log, RawLog
<1>2. L \in RuleList /\ (Drops(L, Len(L)) => opts.drop)
  BY SelectedRulesAre
<1>3. Applied(proof, log, L, Len(L))
  <2> HIDE DEF L
  <2>1. proof = RunProof(log, L) /\ proof.refused = None
    BY DEF ProofStands, L
  <2>2. QED
    BY <1>1, <1>2, <2>1, RunProofIs
<1>4. QED
  BY <1>1, <1>2, <1>3

\* In any case: the rows are those of the log that survive, and but for numbers,
\* references and what a rule rewrites they are unchanged.
LEMMA WrittenRowsAre ==
  ASSUME log \in Log, opts \in Option, ProofStands
  PROVE  LET rows == log.rows
             N    == proof.log.rows
         IN  /\ rows \in Seq(RawRow) /\ N \in Seq(RawRow)
             /\ Len(rows) - Len(N) = proof.dropped /\ Len(N) <= Len(rows)
             /\ DOMAIN Survivors = DOMAIN N
             /\ \A j \in DOMAIN N :
                  LET old == rows[Survivors[j]]
                  IN  /\ Survivors[j] \in DOMAIN rows
                      /\ N[j].type = old.type /\ N[j].len = old.len
                      /\ RowEventCount(N[j]) = RowEventCount(old)
                      /\ DOMAIN N[j].sources = DOMAIN old.sources
                      /\ \A k \in DOMAIN old.sources :
                           SourceRewritten(N[j].sources[k], old.sources[k])
                      /\ DescriptorRewritten(N[j].descriptor, old.descriptor)
             /\ \A i \in 1..Len(SelectedRules) : CleanOf(SelectedRules[i], N)
             /\ proof.dropped > 0 => opts.drop
             /\ Position(rows, Len(rows) + 1) - Position(N, Len(N) + 1) = proof.dropped
<1> DEFINE rows == log.rows
           N    == proof.log.rows
           L    == SelectedRules
<1>1. log \in RawLog /\ rows \in Seq(RawRow)
  BY ProofIsApplied
<1>2. Drops(L, Len(L)) => opts.drop
  BY ProofIsApplied
<1>3. Applied(proof, log, L, Len(L))
  BY ProofIsApplied
<1> DEFINE base == IF Drops(L, Len(L)) THEN Renumbered(rows) ELSE rows
<1>4. /\ Rewrites(N, base)
      /\ proof.dropped = IF Drops(L, Len(L)) THEN Len(rows) - Len(Kept(rows)) ELSE 0
      /\ \A i \in 1..Len(L) : CleanOf(L[i], N)
  BY <1>3 DEF Applied
<1> HIDE DEF rows, N, L
<1>5. /\ Len(rows) \in Nat /\ DOMAIN rows = 1..Len(rows)
      /\ Len(Kept(rows)) \in Nat /\ DOMAIN Kept(rows) = 1..Len(Kept(rows))
      /\ Len(Kept(rows)) <= Len(rows)
      /\ \A k \in DOMAIN Kept(rows) : Kept(rows)[k] \in DOMAIN rows
      /\ Len(Kept(rows)) = Len(rows) => \A k \in DOMAIN Kept(rows) : Kept(rows)[k] = k
  BY <1>1, KeptIs
<1>6. Survivors = IF proof.dropped = 0 THEN [i \in DOMAIN rows |-> i] ELSE Kept(rows)
  BY DEF Survivors, rows
<1> DEFINE n == Len(rows)
           m == Len(Kept(rows))
           lost == proof.dropped
<1>13. /\ n \in Nat /\ m \in Nat /\ m <= n
       /\ lost = IF Drops(L, Len(L)) THEN n - m ELSE 0
  BY <1>4, <1>5
<1> HIDE DEF n, m, lost
<1>14. /\ lost \in Nat /\ (lost = 0 /\ Drops(L, Len(L)) => m = n)
       /\ (Drops(L, Len(L)) => m = n - lost) /\ (~Drops(L, Len(L)) => n = n - lost)
       /\ (lost > 0 => Drops(L, Len(L)))
       /\ n - lost \in Nat /\ n - (n - lost) = lost /\ n - lost <= n
  <2>1. \A x, y \in Nat : y <= x => /\ x - y \in Nat /\ y = x - (x - y) /\ x - y <= x
                                  /\ x - 0 = x /\ x - x = 0 /\ x <= x
                                  /\ (x - y = 0 => y = x)
    OBVIOUS
  <2>2. CASE Drops(L, Len(L))
    <3>1. lost = n - m
      BY <1>13, <2>2
    <3>2. QED
      BY <1>13, <2>2, <3>1
  <2>3. CASE ~Drops(L, Len(L))
    <3>1. lost = 0
      BY <1>13, <2>3
    <3>2. QED
      BY <1>13, <2>3, <3>1
  <2>4. QED
    BY <2>2, <2>3
<1>7. /\ base \in Seq(RawRow) /\ Len(base) = Len(rows) - proof.dropped
      /\ DOMAIN Survivors = DOMAIN base
      /\ \A j \in DOMAIN base :
           LET old == rows[Survivors[j]]
           IN  /\ Survivors[j] \in DOMAIN rows
               /\ base[j].type = old.type /\ base[j].len = old.len
               /\ base[j].sources = old.sources /\ base[j].descriptor = old.descriptor
  <2>1. CASE Drops(L, Len(L))
    <3>1. base = Renumbered(rows) /\ proof.dropped = Len(rows) - Len(Kept(rows))
      BY <1>4, <2>1
    <3>2. /\ base \in Seq(RawRow) /\ Len(base) = Len(Kept(rows)) /\ DOMAIN base = DOMAIN Kept(rows)
          /\ \A k \in DOMAIN Kept(rows) :
               /\ base[k].type = rows[Kept(rows)[k]].type /\ base[k].len = rows[Kept(rows)[k]].len
               /\ base[k].sources = rows[Kept(rows)[k]].sources
               /\ base[k].descriptor = rows[Kept(rows)[k]].descriptor
      BY <1>1, <3>1, RenumberedIs
    <3> HIDE DEF base
    <3>3. DOMAIN Survivors = DOMAIN Kept(rows) /\ \A k \in DOMAIN Kept(rows) : Survivors[k] = Kept(rows)[k]
      <4>1. CASE proof.dropped = 0
        <5>1. Len(Kept(rows)) = Len(rows)
          BY <1>14, <2>1, <4>1 DEF n, m, lost
        <5>2. DOMAIN Kept(rows) = DOMAIN rows /\ \A k \in DOMAIN Kept(rows) : Kept(rows)[k] = k
          BY <1>5, <5>1
        <5>3. QED
          BY <1>6, <4>1, <5>2
      <4>2. CASE proof.dropped # 0
        BY <1>6, <4>2
      <4>3. QED
        BY <4>1, <4>2
    <3>4. Len(base) = Len(rows) - proof.dropped
      BY <1>14, <2>1, <3>2 DEF n, m, lost
    <3>5. \A k \in DOMAIN Kept(rows) : Kept(rows)[k] \in DOMAIN rows
      BY <1>5
    <3>6. QED
      BY <3>2, <3>3, <3>4, <3>5
  <2>2. CASE ~Drops(L, Len(L))
    <3>1. base = rows /\ proof.dropped = 0
      BY <1>4, <2>2
    <3>2. Survivors = [i \in DOMAIN rows |-> i]
      BY <1>6, <3>1
    <3> HIDE DEF base
    <3>3. Len(base) = Len(rows) - proof.dropped
      BY <1>14, <2>2, <3>1 DEF n, lost
    <3>4. QED
      BY <1>1, <3>1, <3>2, <3>3
  <2>3. QED
    BY <2>1, <2>2
<1> HIDE DEF base
<1>8. /\ N \in Seq(RawRow) /\ Len(N) = Len(base) /\ DOMAIN N = DOMAIN base
      /\ \A j \in DOMAIN base : RowRewritten(N[j], base[j])
  <2>1. N \in Seq(RawRow) /\ base \in Seq(RawRow) /\ Len(N) = Len(base)
        /\ \A j \in DOMAIN base : RowRewritten(N[j], base[j])
    BY <1>4 DEF Rewrites
  <2>2. DOMAIN N = 1..Len(N) /\ DOMAIN base = 1..Len(base)
    BY <2>1
  <2>3. QED
    BY <2>1, <2>2
<1>9. ASSUME NEW j \in DOMAIN N
      PROVE  LET old == rows[Survivors[j]]
             IN  /\ Survivors[j] \in DOMAIN rows
                 /\ N[j].type = old.type /\ N[j].len = old.len
                 /\ RowEventCount(N[j]) = RowEventCount(old)
                 /\ DOMAIN N[j].sources = DOMAIN old.sources
                 /\ \A k \in DOMAIN old.sources :
                      SourceRewritten(N[j].sources[k], old.sources[k])
                 /\ DescriptorRewritten(N[j].descriptor, old.descriptor)
  <2>1. RowRewritten(N[j], base[j]) /\ j \in DOMAIN base
    BY <1>8
  <2>2. QED
    BY <1>7, <2>1 DEF RowRewritten, RowEventCount
<1>10. Len(rows) - Len(N) = proof.dropped /\ Len(N) <= Len(rows) /\ (proof.dropped > 0 => opts.drop)
  <2>1. Len(N) = n - lost
    BY <1>7, <1>8 DEF n, lost
  <2>2. QED
    BY <1>2, <1>14, <2>1 DEF n, lost
<1>11. Position(rows, Len(rows) + 1) - Position(N, Len(N) + 1) = proof.dropped
  <2> DEFINE K == IF Drops(L, Len(L)) THEN LegacyDropSplit(rows) ELSE rows
  <2>1. K \in Seq(RawRow) /\ Len(K) = Len(N) /\ \A j \in DOMAIN N : RowEventCount(K[j]) = RowEventCount(N[j])
    <3>1. CASE Drops(L, Len(L))
      <4>1. K = LegacyDropSplit(rows) /\ base = Renumbered(rows)
        BY <3>1 DEF base
      <4>2. /\ K \in Seq(RawRow) /\ Len(K) = Len(Kept(rows))
            /\ \A k \in DOMAIN Kept(rows) : K[k] = rows[Kept(rows)[k]]
        BY <1>1, <4>1, SplitIs
      <4>3. /\ Len(base) = Len(Kept(rows)) /\ DOMAIN base = DOMAIN Kept(rows)
            /\ \A k \in DOMAIN Kept(rows) :
                 /\ base[k].type = rows[Kept(rows)[k]].type /\ base[k].len = rows[Kept(rows)[k]].len
        BY <1>1, <4>1, RenumberedIs
      <4> HIDE DEF K
      <4>4. \A j \in DOMAIN N : RowEventCount(K[j]) = RowEventCount(N[j])
        <5> TAKE j \in DOMAIN N
        <5>1. j \in DOMAIN base /\ j \in DOMAIN Kept(rows) /\ RowRewritten(N[j], base[j])
          BY <1>8, <4>3
        <5>2. QED
          BY <4>2, <4>3, <5>1 DEF RowRewritten, RowEventCount
      <4>5. QED
        BY <1>8, <4>2, <4>3, <4>4
    <3>2. CASE ~Drops(L, Len(L))
      <4>1. K = rows /\ base = rows
        BY <3>2 DEF base
      <4> HIDE DEF K
      <4>2. \A j \in DOMAIN N : RowEventCount(K[j]) = RowEventCount(N[j])
        <5> TAKE j \in DOMAIN N
        <5>1. RowRewritten(N[j], base[j])
          BY <1>8
        <5>2. QED
          BY <4>1, <5>1 DEF RowRewritten, RowEventCount
      <4>3. QED
        BY <1>1, <1>8, <4>1, <4>2
    <3>3. QED
      BY <3>1, <3>2
  <2>2. Position(rows, Len(rows) + 1) - Position(K, Len(K) + 1) = Len(rows) - Len(K)
    <3>1. CASE Drops(L, Len(L))
      <4>1. K = LegacyDropSplit(rows)
        BY <3>1
      <4> HIDE DEF K
      <4>2. QED
        BY <1>1, <4>1, LossIs
    <3>2. CASE ~Drops(L, Len(L))
      <4>1. K = rows
        BY <3>2
      <4>2. Len(rows) + 1 \in 1..(Len(rows) + 1)
        <5>1. \A x \in Nat : x + 1 \in 1..(x + 1)
          OBVIOUS
        <5>2. QED
          BY <1>5, <5>1
      <4>3. Position(rows, Len(rows) + 1) \in Nat
        BY <1>1, <4>2, PositionIs
      <4>4. \A x, y \in Nat : x - x = y - y
        OBVIOUS
      <4> HIDE DEF K
      <4>5. QED
        BY <1>5, <4>1, <4>3, <4>4
    <3>3. QED
      BY <3>1, <3>2
  <2> HIDE DEF K
  <2>3. \A i \in 1..(Len(N) + 1) : Position(N, i) = Position(K, i)
    BY <1>8, <2>1, SamePositions
  <2>4. Len(N) \in Nat /\ Len(N) + 1 \in 1..(Len(N) + 1)
    BY <1>8
  <2>5. Position(N, Len(N) + 1) = Position(K, Len(K) + 1)
    BY <2>1, <2>3, <2>4
  <2>6. Len(rows) - Len(K) = proof.dropped
    BY <1>10, <2>1
  <2>7. QED
    BY <2>2, <2>5, <2>6
<1>12. QED
  BY <1>1, <1>4, <1>7, <1>8, <1>9, <1>10, <1>11 DEF rows, N, L

\* After a removal, what the gate let pass and where the surviving rows are.
LEMMA DropIs ==
  ASSUME log \in Log, opts \in Option, ProofStands, proof.dropped > 0
  PROVE  LET rows == log.rows
             N    == proof.log.rows
             D    == DroppedPositions(rows)
         IN  /\ RenumberRefusal(log) = None
             /\ Survivors = Kept(rows) /\ DOMAIN N = DOMAIN Kept(rows)
             /\ \A j \in DOMAIN N :
                  /\ N[j].refs = {<<Shifted(D, r[1]), Shifted(D, r[2])>> : r \in rows[Kept(rows)[j]].refs}
                  /\ Position(N, j) = Shifted(D, Position(rows, Kept(rows)[j]))
<1> DEFINE rows == log.rows
           N    == proof.log.rows
           D    == DroppedPositions(rows)
           L    == SelectedRules
           a    == Kept(rows)
           M    == Renumbered(rows)
<1>1. rows \in Seq(RawRow) /\ Applied(proof, log, L, Len(L))
  BY ProofIsApplied
<1>2. Drops(L, Len(L))
  <2>1. ~(0 > 0)
    OBVIOUS
  <2>2. QED
    BY <1>1, <2>1 DEF Applied
<1>3. Rewrites(N, M) /\ RenumberRefusal(log) = None
  BY <1>1, <1>2 DEF Applied
<1>4. DenselyNumbered(rows) /\ DenselyNumbered(M)
  BY <1>1, <1>3, GateIs
<1>5. /\ M \in Seq(RawRow) /\ Len(M) = Len(a) /\ DOMAIN M = DOMAIN a
      /\ \A k \in DOMAIN a :
           /\ M[k].seq = Shifted(D, rows[a[k]].seq)
           /\ M[k].refs = {<<Shifted(D, r[1]), Shifted(D, r[2])>> : r \in rows[a[k]].refs}
  BY <1>1, RenumberedIs
<1>6. Survivors = a
  <2>1. ~(0 > 0)
    OBVIOUS
  <2>2. proof.dropped # 0
    BY <2>1
  <2>3. QED
    BY <2>2 DEF Survivors
<1>7. \A k \in DOMAIN a : a[k] \in DOMAIN rows
  BY <1>1, KeptIs
<1> HIDE DEF rows, N, D, L, a, M
<1>8. /\ N \in Seq(RawRow) /\ Len(N) = Len(M) /\ DOMAIN N = DOMAIN M
      /\ \A j \in DOMAIN M : RowRewritten(N[j], M[j])
  <2>1. N \in Seq(RawRow) /\ M \in Seq(RawRow) /\ Len(N) = Len(M)
        /\ \A j \in DOMAIN M : RowRewritten(N[j], M[j])
    BY <1>3 DEF Rewrites
  <2>2. QED
    BY <2>1
<1>9. \A i \in DOMAIN N : RowEventCount(N[i]) = RowEventCount(M[i])
  <2> TAKE i \in DOMAIN N
  <2>1. RowRewritten(N[i], M[i])
    BY <1>8
  <2>2. QED
    BY <2>1 DEF RowRewritten, RowEventCount
<1>10. \A i \in 1..(Len(N) + 1) : Position(N, i) = Position(M, i)
  BY <1>5, <1>8, <1>9, SamePositions
<1>11. ASSUME NEW j \in DOMAIN N
       PROVE  /\ N[j].refs = {<<Shifted(D, r[1]), Shifted(D, r[2])>> : r \in rows[a[j]].refs}
              /\ Position(N, j) = Shifted(D, Position(rows, a[j]))
  <2>1. j \in DOMAIN M /\ j \in DOMAIN a /\ RowRewritten(N[j], M[j]) /\ a[j] \in DOMAIN rows
    BY <1>5, <1>7, <1>8
  <2>2. N[j].refs = M[j].refs
    BY <2>1 DEF RowRewritten
  <2>3. j \in 1..(Len(N) + 1)
    BY <1>8
  <2>4. Position(M, j) = M[j].seq /\ rows[a[j]].seq = Position(rows, a[j])
    BY <1>4, <2>1 DEF DenselyNumbered
  <2>5. QED
    BY <1>5, <1>10, <2>1, <2>2, <2>3, <2>4
<1>12. QED
  BY <1>3, <1>5, <1>6, <1>8, <1>11 DEF rows, N, D, a, M

\* Without a removal every row is where it was, with its number and its references.
LEMMA NoDropIs ==
  ASSUME log \in Log, opts \in Option, ProofStands, ~(proof.dropped > 0)
  PROVE  LET rows == log.rows
             N    == proof.log.rows
         IN  /\ Len(N) = Len(rows) /\ DOMAIN N = DOMAIN rows
             /\ Survivors = [i \in DOMAIN rows |-> i]
             /\ \A i \in DOMAIN N : /\ N[i].seq = rows[i].seq /\ N[i].refs = rows[i].refs
                                   /\ Position(N, i) = Position(rows, i)
<1> DEFINE rows == log.rows
           N    == proof.log.rows
           D    == DroppedPositions(rows)
           L    == SelectedRules
           a    == Kept(rows)
           M    == Renumbered(rows)
<1>1. rows \in Seq(RawRow) /\ Applied(proof, log, L, Len(L))
  BY ProofIsApplied
<1>2. /\ Len(rows) \in Nat /\ DOMAIN rows = 1..Len(rows)
      /\ Len(a) \in Nat /\ DOMAIN a = 1..Len(a) /\ Len(a) <= Len(rows)
      /\ Len(a) = Len(rows) => /\ \A k \in DOMAIN a : a[k] = k
                               /\ \A i \in DOMAIN rows : ~IsRemovableLegacyEvent(rows[i])
  BY <1>1, KeptIs
<1>3. proof.dropped = IF Drops(L, Len(L)) THEN Len(rows) - Len(a) ELSE 0
  BY <1>1 DEF Applied
<1> HIDE DEF rows, N, D, L, a, M
<1>4. proof.dropped = 0 /\ (Drops(L, Len(L)) => Len(a) = Len(rows))
  <2>1. \A x, y \in Nat : y <= x => (~(x - y > 0) => x - y = 0 /\ y = x)
    OBVIOUS
  <2>2. QED
    BY <1>2, <1>3, <2>1
<1>5. Survivors = [i \in DOMAIN rows |-> i]
  BY <1>4 DEF Survivors, rows
<1> DEFINE base == IF Drops(L, Len(L)) THEN M ELSE rows
<1>6. Rewrites(N, base)
  BY <1>1 DEF Applied, rows, M, N
<1>7. /\ base \in Seq(RawRow) /\ Len(base) = Len(rows) /\ DOMAIN base = DOMAIN rows
      /\ \A i \in DOMAIN rows :
           /\ base[i].type = rows[i].type /\ base[i].len = rows[i].len
           /\ base[i].seq = rows[i].seq /\ base[i].refs = rows[i].refs
  <2>1. CASE Drops(L, Len(L))
    <3>1. Len(a) = Len(rows) /\ DOMAIN a = DOMAIN rows /\ (\A i \in DOMAIN rows : a[i] = i) /\ D = {}
      <4>1. Len(a) = Len(rows)
        BY <1>4, <2>1
      <4>2. DOMAIN a = DOMAIN rows
        BY <1>2, <4>1
      <4>3. \A i \in DOMAIN rows : ~IsRemovableLegacyEvent(rows[i])
        BY <1>2, <4>1
      <4>4. D = {}
        BY <4>3 DEF D, DroppedPositions
      <4>5. QED
        BY <1>2, <4>1, <4>2, <4>4
    <3>2. \A x \in Int : Shifted(D, x) = x
      <4> TAKE x \in Int
      <4>1. DroppedBefore(D, x) = 0
        <5>1. {d \in D : d < x} = {}
          BY <3>1
        <5>2. QED
          BY <5>1, FS_EmptySet DEF DroppedBefore
      <4>2. QED
        BY <4>1 DEF Shifted
    <3>3. /\ M \in Seq(RawRow) /\ Len(M) = Len(a) /\ DOMAIN M = DOMAIN a
          /\ \A k \in DOMAIN a :
               /\ M[k].type = rows[a[k]].type /\ M[k].len = rows[a[k]].len
               /\ M[k].seq = Shifted(D, rows[a[k]].seq)
               /\ M[k].refs = {<<Shifted(D, r[1]), Shifted(D, r[2])>> : r \in rows[a[k]].refs}
      BY <1>1, RenumberedIs DEF M, a, D
    <3>4. ASSUME NEW i \in DOMAIN rows
          PROVE  /\ M[i].type = rows[i].type /\ M[i].len = rows[i].len
                 /\ M[i].seq = rows[i].seq /\ M[i].refs = rows[i].refs
      <4>1. rows[i].seq \in Int /\ rows[i].refs \in SUBSET (Int \X Int)
        <5>1. rows[i] \in RawRow
          BY <1>1
        <5>2. QED
          BY <5>1 DEF RawRow
      <4>2. {<<Shifted(D, r[1]), Shifted(D, r[2])>> : r \in rows[i].refs} = rows[i].refs
        <5>1. \A r \in rows[i].refs : <<Shifted(D, r[1]), Shifted(D, r[2])>> = r
          BY <3>2, <4>1
        <5>2. QED
          BY <5>1
      <4>3. i \in DOMAIN a /\ a[i] = i
        BY <3>1
      <4>4. QED
        BY <3>2, <3>3, <4>1, <4>2, <4>3
    <3>5. base = M
      BY <2>1
    <3> HIDE DEF base
    <3>6. QED
      BY <3>1, <3>3, <3>4, <3>5
  <2>2. CASE ~Drops(L, Len(L))
    BY <1>1, <2>2
  <2>3. QED
    BY <2>1, <2>2
<1> HIDE DEF base
<1>8. /\ N \in Seq(RawRow) /\ Len(N) = Len(base) /\ DOMAIN N = DOMAIN base
      /\ \A j \in DOMAIN base : RowRewritten(N[j], base[j])
  <2>1. N \in Seq(RawRow) /\ base \in Seq(RawRow) /\ Len(N) = Len(base)
        /\ \A j \in DOMAIN base : RowRewritten(N[j], base[j])
    BY <1>6 DEF Rewrites
  <2>2. QED
    BY <2>1
<1>9. \A i \in DOMAIN N : /\ RowEventCount(N[i]) = RowEventCount(rows[i])
                          /\ N[i].seq = rows[i].seq /\ N[i].refs = rows[i].refs
  <2> TAKE i \in DOMAIN N
  <2>1. RowRewritten(N[i], base[i]) /\ i \in DOMAIN rows
    BY <1>7, <1>8
  <2>2. QED
    BY <1>7, <2>1 DEF RowRewritten, RowEventCount
<1>10. \A i \in 1..(Len(N) + 1) : Position(N, i) = Position(rows, i)
  BY <1>1, <1>7, <1>8, <1>9, SamePositions
<1>11. \A i \in DOMAIN N : i \in 1..(Len(N) + 1)
  BY <1>8
<1>12. QED
  BY <1>5, <1>7, <1>8, <1>9, <1>10, <1>11 DEF rows, N

-----------------------------------------------------------------------------
(* The events a position names *)

\* The event at a position of the log is, after the repair, at the position the
\* renumbering moved it to.
LEMMA EventsMove ==
  ASSUME log \in Log, opts \in Option, ProofStands, proof.dropped > 0,
         NEW p \in Int, p \notin DroppedPositions(log.rows)
  PROVE  WrittenEventAt(Shifted(DroppedPositions(log.rows), p)) = SourceEventAt(p)
<1> DEFINE rows == log.rows
           N    == proof.log.rows
           D    == DroppedPositions(rows)
           a    == Kept(rows)
           q    == Shifted(D, p)
           Here(i)  == Position(rows, i) <= p /\ p < Position(rows, i) + RowEventCount(rows[i])
           There(j) == Position(N, j) <= q /\ q < Position(N, j) + RowEventCount(N[j])
<1>1. rows \in Seq(RawRow)
  BY ProofIsApplied
<1>2. /\ \A k \in DOMAIN a : a[k] \in DOMAIN rows /\ ~IsRemovableLegacyEvent(rows[a[k]])
      /\ \A i \in DOMAIN rows : ~IsRemovableLegacyEvent(rows[i]) => \E k \in DOMAIN a : a[k] = i
  BY <1>1, KeptIs
<1>3. /\ Survivors = a /\ DOMAIN N = DOMAIN a
      /\ \A j \in DOMAIN N : Position(N, j) = Shifted(D, Position(rows, a[j]))
  BY DropIs
<1>4. \A j \in DOMAIN N : RowEventCount(N[j]) = RowEventCount(rows[a[j]])
  BY <1>3, WrittenRowsAre
<1>5. ASSUME NEW j \in DOMAIN N
      PROVE  (There(j) <=> Here(a[j]))
             /\ (Here(a[j]) => q - Position(N, j) = p - Position(rows, a[j]))
  <2> DEFINE i == a[j]
  <2>1. i \in DOMAIN rows /\ ~IsRemovableLegacyEvent(rows[i])
    BY <1>2, <1>3
  <2>2. Position(N, j) = Shifted(D, Position(rows, i)) /\ RowEventCount(N[j]) = RowEventCount(rows[i])
    BY <1>3, <1>4
  <2>3. /\ Position(rows, i) <= p /\ p < Position(rows, i) + RowEventCount(rows[i])
             <=> Shifted(D, Position(rows, i)) <= Shifted(D, p)
                 /\ Shifted(D, p) < Shifted(D, Position(rows, i)) + RowEventCount(rows[i])
        /\ Position(rows, i) <= p /\ p < Position(rows, i) + RowEventCount(rows[i])
             => Shifted(D, p) - Shifted(D, Position(rows, i)) = p - Position(rows, i)
    <3> HIDE DEF i, rows
    <3>1. QED
      BY <1>1, <2>1, EventIsShifted DEF rows
  <2> HIDE DEF i, rows, N, D, a
  <2>4. QED
    BY <2>2, <2>3 DEF i
<1>6. ASSUME NEW i \in DOMAIN rows, Here(i)
      PROVE  ~IsRemovableLegacyEvent(rows[i])
  <2> SUFFICES ASSUME IsRemovableLegacyEvent(rows[i]) PROVE FALSE
    OBVIOUS
  <2>1. RowEventCount(rows[i]) = 1
    BY DEF IsRemovableLegacyEvent, RowEventCount, Legacy
  <2>2. Position(rows, i) \in Nat
    <3>1. i \in 1..(Len(rows) + 1)
      BY <1>1
    <3>2. QED
      BY <1>1, <3>1, PositionIs
  <2>3. p = Position(rows, i)
    BY <1>6, <2>1, <2>2
  <2>4. p \in DroppedPositions(rows)
    BY <2>3 DEF DroppedPositions
  <2>5. QED
    BY <2>4
<1>7. SourceEventAt(p) = {<<i, p - Position(rows, i)>> : i \in {k \in DOMAIN rows : Here(k)}}
  BY DEF SourceEventAt, EventAt
<1>8. WrittenEventAt(q) = {<<a[j], q - Position(N, j)>> : j \in {k \in DOMAIN N : There(k)}}
  <2>1. EventAt(N, q) = {<<j, q - Position(N, j)>> : j \in {k \in DOMAIN N : There(k)}}
    BY DEF EventAt
  <2>2. WrittenEventAt(q) = {<<a[e[1]], e[2]>> : e \in EventAt(N, q)}
    BY <1>3 DEF WrittenEventAt
  <2> DEFINE J == {k \in DOMAIN N : There(k)}
             Off(j) == q - Position(N, j)
  <2>3. {<<a[e[1]], e[2]>> : e \in {<<j, Off(j)>> : j \in J}} = {<<a[j], Off(j)>> : j \in J}
    <3> DEFINE E == {<<j, Off(j)>> : j \in J}
               W == {<<a[e[1]], e[2]>> : e \in E}
               R == {<<a[j], Off(j)>> : j \in J}
    <3> HIDE DEF J, Off, a
    <3>1. ASSUME NEW x \in W PROVE x \in R
      <4>1. PICK e \in E : x = <<a[e[1]], e[2]>>
        OBVIOUS
      <4>2. PICK j \in J : e = <<j, Off(j)>>
        OBVIOUS
      <4>3. x = <<a[j], Off(j)>>
        BY <4>1, <4>2
      <4>4. QED
        BY <4>3
    <3>2. ASSUME NEW x \in R PROVE x \in W
      <4>1. PICK j \in J : x = <<a[j], Off(j)>>
        OBVIOUS
      <4> DEFINE e == <<j, Off(j)>>
      <4>2. e \in E /\ e[1] = j /\ e[2] = Off(j)
        OBVIOUS
      <4>3. x = <<a[e[1]], e[2]>>
        BY <4>1, <4>2
      <4> HIDE DEF e, E
      <4>4. QED
        BY <4>2, <4>3
    <3>3. QED
      BY <3>1, <3>2
  <2>4. QED
    BY <2>1, <2>2, <2>3
<1> HIDE DEF rows, N, D, a, q, Here, There
<1>9. QED
  BY <1>2, <1>3, <1>5, <1>6, <1>7, <1>8 DEF q, D, rows

\* When no row is removed every event is where it was.
LEMMA EventsStay ==
  ASSUME log \in Log, opts \in Option, ProofStands, ~(proof.dropped > 0), NEW p \in Int
  PROVE  WrittenEventAt(p) = SourceEventAt(p)
<1> DEFINE rows == log.rows
           N    == proof.log.rows
           Here(i)  == Position(rows, i) <= p /\ p < Position(rows, i) + RowEventCount(rows[i])
           There(j) == Position(N, j) <= p /\ p < Position(N, j) + RowEventCount(N[j])
<1>1. /\ DOMAIN N = DOMAIN rows /\ Survivors = [i \in DOMAIN rows |-> i]
      /\ \A i \in DOMAIN N : Position(N, i) = Position(rows, i)
  BY NoDropIs
<1>2. \A j \in DOMAIN N : RowEventCount(N[j]) = RowEventCount(rows[j])
  BY <1>1, WrittenRowsAre
<1>3. \A j \in DOMAIN N : There(j) <=> Here(j)
  BY <1>1, <1>2
<1>4. EventAt(N, p) = {<<j, p - Position(N, j)>> : j \in {k \in DOMAIN N : There(k)}}
  BY DEF EventAt
<1>5. SourceEventAt(p) = {<<i, p - Position(rows, i)>> : i \in {k \in DOMAIN rows : Here(k)}}
  BY DEF SourceEventAt, EventAt
<1>6. WrittenEventAt(p) = {<<Survivors[e[1]], e[2]>> : e \in EventAt(N, p)}
  BY DEF WrittenEventAt
<1> DEFINE I == {k \in DOMAIN rows : Here(k)}
           Off(i) == p - Position(rows, i)
<1>7. EventAt(N, p) = {<<i, Off(i)>> : i \in I} /\ \A i \in I : Survivors[i] = i
  <2> HIDE DEF rows, N, Here, There
  <2>1. QED
    BY <1>1, <1>3, <1>4
<1>8. {<<Survivors[e[1]], e[2]>> : e \in {<<i, Off(i)>> : i \in I}} = {<<i, Off(i)>> : i \in I}
  <2> HIDE DEF I, Off
  <2>1. QED
    BY <1>7
<1>9. QED
  BY <1>5, <1>6, <1>7, <1>8

-----------------------------------------------------------------------------
(* What a run says of a log *)

\* From the proof on, the proof is the one the selected rules made; once it is
\* settled, a loss has passed the second check; what is written counts it.
TriageInv ==
  /\ log \in Log /\ opts \in Option /\ (opts.apply => opts.oracle)
  /\ pc \in {"proven", "settle"} \/ Written => ProofStands
  /\ pc = "settle" \/ Written => (proof.dropped > 0 => ~LossyDropRefused)
  /\ Written => outcome.dropped = proof.dropped
  /\ pc = "done" /\ opts.oracle /\ outcome.status = "ok"
       => RestoreStrictly(log.rows) = "ok" \/ outcome.truncated

\* Before analyzeLog has looked at anything.
LEMMA TriageStarts == Init => TriageInv
<1> SUFFICES ASSUME Init PROVE TriageInv
  OBVIOUS
<1>1. log \in Log /\ opts \in Option /\ (opts.apply => opts.oracle)
  BY TriageAssumption DEF Init
<1>2. pc = "decode"
  BY DEF Init
<1>3. QED
  BY <1>1, <1>2 DEF TriageInv, Written

\* No early return of analyzeLog, and no step between two of them, breaks it.
LEMMA TriageStep == TriageInv /\ [Next]_vars => TriageInv'
<1> SUFFICES ASSUME TriageInv, [Next]_vars PROVE TriageInv'
  OBVIOUS
<1>1. CASE UNCHANGED vars
  <2>1. /\ log' = log /\ opts' = opts /\ pc' = pc /\ proof' = proof /\ outcome' = outcome
        /\ refusal' = refusal
    BY <1>1 DEF vars
  <2>2. (Written' <=> Written) /\ (ProofStands' <=> ProofStands) /\ (LossyDropRefused' <=> LossyDropRefused)
    BY <2>1 DEF Written, ProofStands, LossyDropRefused, LegacyEventCount, SelectedRules, ReportRules
  <2>3. QED
    BY <2>1, <2>2 DEF TriageInv
<1> SUFFICES ASSUME Next PROVE TriageInv'
  BY <1>1
<1>2. log' = log /\ opts' = opts
  BY DEF Next, DecodeFails, Classify, ReportOk, NothingRepairs, Prove, CheckDrop,
         ReportRepairable, LeaveUnselected, Publish, PublishFails
<1>3. log' \in Log /\ opts' \in Option /\ (opts'.apply => opts'.oracle)
  BY <1>2 DEF TriageInv
<1>4. /\ Base.status = "unrepairable" /\ ~Base.published
      /\ \A s : Report(s).status = s /\ ~Report(s).published
  BY DEF Base, Report
\* A run that ends without a promise and without writing.
<1>5. ASSUME pc' = "done", ~outcome'.published,
             outcome'.status = "repairable" => ~outcome'.selected,
             outcome'.status = "ok" /\ opts.oracle => RestoreStrictly(log.rows) = "ok" \/ outcome'.truncated
      PROVE  TriageInv'
  <2>1. ~Written'
    BY <1>5 DEF Written
  <2>2. QED
    BY <1>2, <1>3, <1>5, <2>1 DEF TriageInv
\* A run that goes on.
<1>6. ASSUME pc' \in {"classified", "proven", "settle"},
             pc' \in {"proven", "settle"} => ProofStands',
             pc' = "settle" => (proof'.dropped > 0 => ~LossyDropRefused')
      PROVE  TriageInv'
  <2>1. ~Written' /\ pc' # "done"
    BY <1>6 DEF Written
  <2>2. QED
    BY <1>3, <1>6, <2>1 DEF TriageInv
\* A run that settles on the proof.
<1>7. ASSUME pc = "settle", proof' = proof, pc' = "done", outcome'.status = "repairable",
             outcome'.dropped = proof.dropped
      PROVE  TriageInv'
  <2>1. (ProofStands' <=> ProofStands) /\ (LossyDropRefused' <=> LossyDropRefused)
    BY <1>2, <1>7 DEF ProofStands, LossyDropRefused, LegacyEventCount, SelectedRules, ReportRules
  <2>2. ProofStands' /\ (proof.dropped > 0 => ~LossyDropRefused')
    BY <1>7, <2>1 DEF TriageInv
  <2>3. QED
    BY <1>3, <1>7, <2>2 DEF TriageInv
<1>8. CASE DecodeFails
  <2>1. pc' = "done" /\ outcome'.status = "unrepairable" /\ ~outcome'.published
    BY <1>8 DEF DecodeFails, Return, Base
  <2>2. QED
    BY <1>5, <2>1
<1>9. CASE Classify
  <2>1. pc' = "classified"
    BY <1>9 DEF Classify, Continue
  <2>2. QED
    BY <1>6, <2>1
<1>10. CASE ReportOk
  <2>1. /\ pc' = "done" /\ outcome'.status = "ok" /\ ~outcome'.published
        /\ outcome'.truncated = (opts.oracle /\ RestoreStrictly(log.rows) # "ok")
    BY <1>10 DEF ReportOk, Return, Report, Base, StrictRefusalOf
  <2>2. QED
    BY <1>5, <2>1
<1>11. CASE NothingRepairs
  <2>1. pc' = "done" /\ outcome'.status = "unrepairable" /\ ~outcome'.published
    BY <1>11 DEF NothingRepairs, Return, Report, Base
  <2>2. QED
    BY <1>5, <2>1
<1>12. CASE Prove
  <2> DEFINE full     == RunProof(log, ReportRules)
             selected == RunProof(log, SelectedRules)
  <2>1. proof' = selected
    BY <1>12 DEF Prove
  <2>2. CASE full.refused # None
    <3>1. pc' = "done" /\ outcome'.status = "unrepairable" /\ ~outcome'.published
      BY <1>12, <2>2 DEF Prove, Return, Report, Base
    <3>2. QED
      BY <1>5, <3>1
  <2>3. CASE full.refused = None /\ (selected.refused # None \/ (full.dropped > 0 /\ selected.dropped = 0))
    <3>1. pc' = "done" /\ outcome'.status = "repairable" /\ ~outcome'.published /\ ~outcome'.selected
      BY <1>12, <2>3 DEF Prove, Return, Report, Base
    <3>2. QED
      BY <1>5, <3>1
  <2>4. CASE /\ full.refused = None
             /\ ~(selected.refused # None \/ (full.dropped > 0 /\ selected.dropped = 0))
    <3>1. pc' = "proven"
      BY <1>12, <2>4 DEF Prove, Continue
    <3>2. ProofStands'
      <4>1. SelectedRules' = SelectedRules
        BY <1>2 DEF SelectedRules, ReportRules
      <4>2. QED
        BY <1>2, <2>1, <2>4, <4>1 DEF ProofStands
    <3>3. QED
      BY <1>6, <3>1, <3>2
  <2>5. QED
    BY <2>2, <2>3, <2>4
<1>13. CASE CheckDrop
  <2>1. pc = "proven" /\ proof' = proof
    BY <1>13 DEF CheckDrop
  <2>2. CASE proof.dropped > 0 /\ LossyDropRefused
    <3>1. pc' = "done" /\ outcome'.status = "unrepairable" /\ ~outcome'.published
      BY <1>13, <2>2 DEF CheckDrop, Return, Report, Base
    <3>2. QED
      BY <1>5, <3>1
  <2>3. CASE ~(proof.dropped > 0 /\ LossyDropRefused)
    <3>1. pc' = "settle"
      BY <1>13, <2>3 DEF CheckDrop, Continue
    <3>2. (ProofStands' <=> ProofStands) /\ (LossyDropRefused' <=> LossyDropRefused)
      BY <1>2, <2>1 DEF ProofStands, LossyDropRefused, LegacyEventCount, SelectedRules, ReportRules
    <3>3. ProofStands
      BY <2>1 DEF TriageInv
    <3>4. QED
      BY <1>6, <2>1, <2>3, <3>1, <3>2, <3>3
  <2>4. QED
    BY <2>2, <2>3
<1>14. CASE ReportRepairable
  <2>1. /\ pc = "settle" /\ proof' = proof /\ pc' = "done"
        /\ outcome'.status = "repairable" /\ outcome'.dropped = proof.dropped
    BY <1>14 DEF ReportRepairable, Return, Counted, Report, Base
  <2>2. QED
    BY <1>7, <2>1
<1>15. CASE LeaveUnselected
  <2>1. pc' = "done" /\ outcome'.status = "repairable" /\ ~outcome'.published /\ ~outcome'.selected
    BY <1>15 DEF LeaveUnselected, Return, Report, Base
  <2>2. QED
    BY <1>5, <2>1
<1>16. CASE Publish
  <2>1. /\ pc = "settle" /\ proof' = proof /\ pc' = "done"
        /\ outcome'.status = "repairable" /\ outcome'.dropped = proof.dropped
    BY <1>16 DEF Publish, Return, Counted, Report, Base
  <2>2. QED
    BY <1>7, <2>1
<1>17. CASE PublishFails
  <2>1. pc' = "done" /\ outcome'.status = "unrepairable" /\ ~outcome'.published
    BY <1>17 DEF PublishFails, Return, Report, Base
  <2>2. QED
    BY <1>5, <2>1
<1>18. QED
  BY <1>8, <1>9, <1>10, <1>11, <1>12, <1>13, <1>14, <1>15, <1>16, <1>17 DEF Next

\* Between the early returns of analyzeLog: the log and the command line stay what they
\* were taken as, the proof at hand is the one the selected rules made of this log, no loss
\* passes unless the second check (lossyDropRefusal) let it, what is written counts the
\* removed events, and a log the oracle calls ok restores strictly or is said to be truncated.
THEOREM TriageInvariant == Spec => []TriageInv
<1>1. QED
  BY TriageStarts, TriageStep, PTL DEF Spec

-----------------------------------------------------------------------------
(* A repair is faithful *)

\* A reference is shifted with the events it names: none of them was removed.
LEMMA ReferencesAreKept == TriageInv => ReferencesKeepTheirEvents
<1> SUFFICES ASSUME TriageInv, Written, proof.dropped > 0, NEW j \in DOMAIN proof.log.rows
             PROVE  LET before == log.rows[Survivors[j]].refs
                        after == proof.log.rows[j].refs
                        Names(r) == UNION {SourceEventAt(p) : p \in r[1]..r[2]}
                        NewNames(r) == UNION {WrittenEventAt(p) : p \in r[1]..r[2]}
                    IN {Names(r) : r \in before} = {NewNames(r) : r \in after}
  BY DEF ReferencesKeepTheirEvents
<1> DEFINE rows == log.rows
           D    == DroppedPositions(rows)
           i    == Kept(rows)[j]
           before == rows[i].refs
           after  == proof.log.rows[j].refs
           Moved(r) == <<Shifted(D, r[1]), Shifted(D, r[2])>>
           Names(r) == UNION {SourceEventAt(p) : p \in r[1]..r[2]}
           NewNames(r) == UNION {WrittenEventAt(p) : p \in r[1]..r[2]}
<1>1. log \in Log /\ opts \in Option /\ ProofStands
  BY DEF TriageInv
<1>2. /\ rows \in Seq(RawRow) /\ rows \in Seq(Row)
  BY <1>1, ProofIsApplied DEF Log
<1>3. /\ RenumberRefusal(log) = None /\ Survivors = Kept(rows) /\ j \in DOMAIN Kept(rows)
      /\ after = {Moved(r) : r \in before}
  BY <1>1, DropIs
<1>4. i \in DOMAIN rows
  BY <1>2, <1>3, KeptIs
<1>5. \A r \in before : r[1] \in Int /\ r[2] \in Int /\ r[1] <= r[2]
  <2>1. rows[i] \in Row
    BY <1>2, <1>4
  <2>2. QED
    BY <2>1 DEF Row
<1>6. \A r \in before : \A d \in D : ~(r[1] <= d /\ d <= r[2])
  <2>1. ~NamesDropped(rows[i], D)
    BY <1>2, <1>3, GateIs
  <2>2. QED
    BY <2>1 DEF NamesDropped
<1>7. D \in SUBSET Int /\ IsFiniteSet(D) /\ \A d \in D : d \in Int
  BY <1>2, DroppedIs
<1>8. \A p \in Int : p \notin D => WrittenEventAt(Shifted(D, p)) = SourceEventAt(p)
  BY <1>1, EventsMove
<1> HIDE DEF rows, D, i, before, after
<1>9. ASSUME NEW r \in before PROVE NewNames(Moved(r)) = Names(r)
  <2> DEFINE a == r[1]
             b == r[2]
             c == Shifted(D, a)
  <2>1. a \in Int /\ b \in Int /\ a <= b /\ c \in Int
    <3>1. a \in Int /\ b \in Int /\ a <= b /\ a <= a
      BY <1>5
    <3>2. QED
      BY <1>7, <3>1, ShiftedIs
  <2>2. \A d \in D : ~(a <= d /\ d <= b)
    BY <1>6
  <2> HIDE DEF a, b, c
  <2>3. \A p \in a..b : p \in Int /\ p \notin D /\ Shifted(D, p) = c + (p - a)
    <3> TAKE p \in a..b
    <3>1. p \in Int /\ a <= p /\ p <= b
      BY <2>1
    <3>2. p \notin D
      BY <2>2, <3>1
    <3>3. \A d \in D : ~(a <= d /\ d < p)
      BY <1>7, <2>1, <2>2, <3>1
    <3>4. Shifted(D, p) - Shifted(D, a) = p - a /\ Shifted(D, p) \in Int
      BY <1>7, <2>1, <3>1, <3>3, ShiftedIs
    <3>5. QED
      BY <2>1, <3>1, <3>2, <3>4 DEF c
  <2>4. Moved(r)[1] = c /\ Moved(r)[2] = c + (b - a)
    <3>1. b \in a..b
      BY <2>1
    <3>2. QED
      BY <2>3, <3>1 DEF a, b, c
  <2>5. \A p \in a..b : WrittenEventAt(c + (p - a)) = SourceEventAt(p)
    BY <1>8, <2>3
  <2>6. /\ \A p \in a..b : c + (p - a) \in c..(c + (b - a))
        /\ \A q \in c..(c + (b - a)) : \E p \in a..b : q = c + (p - a)
    <3>1. ASSUME NEW q \in c..(c + (b - a)) PROVE \E p \in a..b : q = c + (p - a)
      <4>1. a + (q - c) \in a..b /\ q = c + ((a + (q - c)) - a)
        BY <2>1
      <4>2. QED
        BY <4>1
    <3>2. QED
      BY <2>1, <3>1
  <2>7. Names(r) = UNION {SourceEventAt(p) : p \in a..b}
    BY DEF a, b
  <2>8. NewNames(Moved(r)) = UNION {WrittenEventAt(q) : q \in c..(c + (b - a))}
    BY <2>4
  <2>9. {SourceEventAt(p) : p \in a..b} = {WrittenEventAt(q) : q \in c..(c + (b - a))}
    BY <2>5, <2>6
  <2>10. QED
    BY <2>7, <2>8, <2>9
<1> HIDE DEF Names, NewNames, Moved
<1>10. {Names(r) : r \in before} = {NewNames(r) : r \in after}
  BY <1>3, <1>9
<1>11. Survivors[j] = i
  BY <1>3 DEF i
<1>12. QED
  BY <1>10, <1>11 DEF Names, NewNames, before, after, rows

\* The gate refuses a drop before the seed cut, so no event before it moves.
LEMMA InheritedAreKept == TriageInv => InheritedEventsStay
<1> SUFFICES ASSUME TriageInv, Written, NEW p \in 0..(log.seed - 1)
             PROVE  WrittenEventAt(p) = SourceEventAt(p)
  BY DEF InheritedEventsStay
<1> DEFINE D == DroppedPositions(log.rows)
<1>1. log \in Log /\ opts \in Option /\ ProofStands
  BY DEF TriageInv
<1>2. p \in Int /\ p < log.seed /\ log.seed \in Int
  BY <1>1 DEF Log
<1>3. CASE ~(proof.dropped > 0)
  BY <1>1, <1>2, <1>3, EventsStay
<1>4. CASE proof.dropped > 0
  <2>1. log.rows \in Seq(RawRow) /\ RenumberRefusal(log) = None
    BY <1>1, <1>4, ProofIsApplied, DropIs
  <2>2. \A d \in D : ~(d < log.seed)
    BY <2>1, GateIs
  <2>3. D \in SUBSET Int /\ IsFiniteSet(D) /\ \A d \in D : d \in Int
    BY <2>1, DroppedIs
  <2> HIDE DEF D
  <2>4. p \notin D /\ p <= p /\ \A d \in D : p <= d
    BY <1>2, <2>2, <2>3
  <2>5. Shifted(D, p) = p
    BY <1>2, <2>3, <2>4, ShiftedIs
  <2>6. WrittenEventAt(Shifted(D, p)) = SourceEventAt(p)
    BY <1>1, <1>2, <1>4, <2>4, EventsMove DEF D
  <2>7. QED
    BY <2>5, <2>6
<1>5. QED
  BY <1>3, <1>4

\* What a rule rewrote passes the released checks.
LEMMA RewrittenIsAdmitted ==
  ASSUME log \in Log, opts \in Option, ProofStands, NEW j \in DOMAIN proof.log.rows
  PROVE  LET old == log.rows[Survivors[j]]
             new == proof.log.rows[j]
         IN  /\ \A k \in DOMAIN new.sources :
                  new.sources[k] # old.sources[k] => PluginSourceValue(new.sources[k])
             /\ new.descriptor # old.descriptor => DescriptorAdmissible(new.descriptor)
<1> DEFINE old == log.rows[Survivors[j]]
           new == proof.log.rows[j]
<1>1. log.rows \in Seq(RawRow) /\ Survivors[j] \in DOMAIN log.rows
  BY WrittenRowsAre
<1>2. /\ DOMAIN new.sources = DOMAIN old.sources
      /\ \A k \in DOMAIN old.sources : SourceRewritten(new.sources[k], old.sources[k])
      /\ DescriptorRewritten(new.descriptor, old.descriptor)
  BY WrittenRowsAre
<1>3. old \in RawRow
  BY <1>1
<1> HIDE DEF old, new
<1>4. ASSUME NEW k \in DOMAIN new.sources, new.sources[k] # old.sources[k]
      PROVE  PluginSourceValue(new.sources[k])
  <2>1. old.sources[k] \in Source
    BY <1>2, <1>3 DEF RawRow
  <2>2. IsForeign(old.sources[k]) /\ ~RewriteRefused(old.sources[k])
        /\ new.sources[k] = ToPluginSource(old.sources[k])
    BY <1>2, <1>4 DEF SourceRewritten
  <2>3. QED
    BY <2>1, <2>2, SourceIsAdmitted
<1>5. ASSUME new.descriptor # old.descriptor PROVE DescriptorAdmissible(new.descriptor)
  <2> DEFINE d == old.descriptor
             e == [d EXCEPT !.version = 3]
  <2>1. ~BumpRefused(d) /\ new.descriptor = e
    BY <1>2, <1>5 DEF DescriptorRewritten
  <2>2. DescriptorAdmissible(d)
    BY <2>1 DEF BumpRefused
  <2>3. e.mode = d.mode /\ e.keys = d.keys
    BY <1>3 DEF RawRow
  <2> HIDE DEF d, e
  <2>4. DescriptorAdmissible(e)
    BY <2>2, <2>3 DEF DescriptorAdmissible
  <2>5. QED
    BY <2>1, <2>4
<1>6. QED
  BY <1>4, <1>5 DEF old, new

\* Without a class filter no row is left that a rule is about.
LEMMA WrittenRowsAreClean ==
  ASSUME log \in Log, opts \in Option, ProofStands, opts.class = None,
         NEW j \in DOMAIN proof.log.rows
  PROVE  /\ ForeignSources(proof.log.rows[j]) = {}
         /\ ~(proof.log.rows[j].type = Descriptor /\ proof.log.rows[j].descriptor.version # 3)
         /\ proof.log.rows[j].type # Legacy
<1> DEFINE N == proof.log.rows
<1>1. \A i \in 1..Len(SelectedRules) : CleanOf(SelectedRules[i], N)
  BY WrittenRowsAre
<1>2. /\ \A rule \in {"source-kind", "subagent-descriptor-version"} :
             \E i \in 1..Len(SelectedRules) : SelectedRules[i] = rule
      /\ \E i \in 1..Len(SelectedRules) :
             SelectedRules[i] \in {"fallbacks-switch", "drop-legacy-events"}
  BY SelectedRulesAre
<1> HIDE DEF N
<1>3. CleanOf("source-kind", N) /\ CleanOf("subagent-descriptor-version", N)
  BY <1>1, <1>2
<1>4. CleanOf("fallbacks-switch", N) \/ CleanOf("drop-legacy-events", N)
  BY <1>1, <1>2
<1>5. \A r : /\ Detects("source-kind", r) <=> ForeignSources(r) # {}
             /\ Detects("subagent-descriptor-version", r) <=> r.type = Descriptor /\ r.descriptor.version # 3
             /\ Detects("fallbacks-switch", r) <=> r.type = Legacy
             /\ Detects("drop-legacy-events", r) <=> r.type = Legacy
  BY DEF Detects, IsRemovableLegacyEvent
<1>6. j \in DOMAIN N
  BY DEF N
<1>7. QED
  BY <1>3, <1>4, <1>5, <1>6 DEF CleanOf, N

\* No row is left to a rule, and each source is the log's or one the host admits.
LEMMA RewrittenRowsAreAdmitted == TriageInv => RewritesAreAdmitted
<1> SUFFICES ASSUME TriageInv, Written, opts.class = None, NEW i \in DOMAIN proof.log.rows
             PROVE  /\ ReleasedRowRefusal(proof.log.rows, i) \notin
                          {"source-kind", "subagent-descriptor-version"}
                    /\ \A k \in DOMAIN proof.log.rows[i].sources :
                         proof.log.rows[i].sources[k] # log.rows[Survivors[i]].sources[k]
                           => PluginSourceValue(proof.log.rows[i].sources[k])
                    /\ proof.log.rows[i].descriptor # log.rows[Survivors[i]].descriptor
                         => DescriptorAdmissible(proof.log.rows[i].descriptor)
  BY DEF RewritesAreAdmitted
<1>1. log \in Log /\ opts \in Option /\ ProofStands
  BY DEF TriageInv
<1>2. /\ ForeignSources(proof.log.rows[i]) = {}
      /\ ~(proof.log.rows[i].type = Descriptor /\ proof.log.rows[i].descriptor.version # 3)
  BY <1>1, WrittenRowsAreClean
<1>3. ReleasedRowRefusal(proof.log.rows, i) \in {"unknown-event-type", "other-refusal", "ok"}
  BY <1>2 DEF ReleasedRowRefusal
<1>4. QED
  BY <1>1, <1>3, RewrittenIsAdmitted

\* Every reference of a surviving row names the events it named, the inherited
\* events are where they were, and what was rewritten is admitted (the removal and
\* the renumbering of rules.ts, and its two rewrites), for logs of any length.
THEOREM RepairsAreFaithful == Spec => []RepairIsFaithful
<1>1. TriageInv => RepairIsFaithful
  BY ReferencesAreKept, InheritedAreKept, RewrittenRowsAreAdmitted DEF RepairIsFaithful
<1>2. QED
  BY <1>1, TriageInvariant, PTL

-----------------------------------------------------------------------------
(* A report is true *)

\* The positions that are gone are the removed rows.
LEMMA LossesAreCounted == TriageInv => LossIsCounted
<1> SUFFICES ASSUME TriageInv, Written
             PROVE  /\ Position(log.rows, Len(log.rows) + 1)
                         - Position(proof.log.rows, Len(proof.log.rows) + 1) = outcome.dropped
                    /\ outcome.dropped > 0 => opts.drop
  BY DEF LossIsCounted
<1>1. log \in Log /\ opts \in Option /\ ProofStands /\ outcome.dropped = proof.dropped
  BY DEF TriageInv
<1>2. /\ Position(log.rows, Len(log.rows) + 1)
           - Position(proof.log.rows, Len(proof.log.rows) + 1) = proof.dropped
      /\ proof.dropped > 0 => opts.drop
  BY <1>1, WrittenRowsAre
<1>3. QED
  BY <1>1, <1>2

\* What strict recovery refuses is refused in the report, or said to be truncated.
LEMMA RefusalsAreTold == TriageInv => NoRefusalIsHidden
BY DEF TriageInv, NoRefusalIsHidden, CountsAsRefused

\* Nothing is removed, no rule refuses, and the log has no fault of its own.
LEMMA RepairedRowRestores ==
  ASSUME log \in Log, opts \in Option, ProofStands, opts.class = None, ~(proof.dropped > 0),
         \A i \in DOMAIN log.rows : log.rows[i].type # "unknown" /\ ~OtherFault(log.rows, i),
         NEW i \in DOMAIN proof.log.rows
  PROVE  ReleasedRowRefusal(proof.log.rows, i) = "ok"
<1> DEFINE rows == log.rows
           N    == proof.log.rows
           old  == rows[i]
           new  == N[i]
<1>1. /\ i \in DOMAIN rows /\ Survivors[i] = i
      /\ new.seq = old.seq /\ new.refs = old.refs /\ Position(N, i) = Position(rows, i)
  BY NoDropIs
<1>2. /\ new.type = old.type /\ RowEventCount(new) = RowEventCount(old)
      /\ DOMAIN new.sources = DOMAIN old.sources
      /\ new.descriptor = old.descriptor \/ DescriptorAdmissible(new.descriptor)
      /\ \A k \in DOMAIN new.sources :
           new.sources[k] = old.sources[k] \/ PluginSourceValue(new.sources[k])
  <2>1. /\ rows[Survivors[i]] = old
    BY <1>1
  <2>2. /\ new.type = old.type /\ RowEventCount(new) = RowEventCount(old)
        /\ DOMAIN new.sources = DOMAIN old.sources
    BY <2>1, WrittenRowsAre
  <2>3. /\ \A k \in DOMAIN new.sources :
             new.sources[k] # old.sources[k] => PluginSourceValue(new.sources[k])
        /\ new.descriptor # old.descriptor => DescriptorAdmissible(new.descriptor)
    BY <2>1, RewrittenIsAdmitted
  <2>4. QED
    BY <2>2, <2>3
<1>3. /\ ForeignSources(new) = {} /\ new.type # Legacy
      /\ ~(new.type = Descriptor /\ new.descriptor.version # 3)
  BY WrittenRowsAreClean
<1>4. old.type # "unknown" /\ ~OtherFault(rows, i)
  BY <1>1
<1> HIDE DEF rows, N, old, new
<1>5. /\ ~(RowEventCount(old) = 0 \/ old.seq # Position(rows, i))
      /\ ~(\E r \in old.refs : r[1] < 0 \/ r[2] >= old.seq)
      /\ ~(old.type = Descriptor /\ old.descriptor.version = 3 /\ ~DescriptorAdmissible(old.descriptor))
      /\ ~(\E s \in ToSet(old.sources) : s.kind = "plugin" /\ ~PluginSourceValue(s))
  BY <1>4 DEF OtherFault, old
<1>6. /\ ~(RowEventCount(new) = 0 \/ new.seq # Position(N, i))
      /\ ~(\E r \in new.refs : r[1] < 0 \/ r[2] >= new.seq)
      /\ ~(new.type = Descriptor /\ new.descriptor.version = 3 /\ ~DescriptorAdmissible(new.descriptor))
  BY <1>1, <1>2, <1>3, <1>5
<1>7. ~(\E s \in ToSet(new.sources) : s.kind = "plugin" /\ ~PluginSourceValue(s))
  <2> SUFFICES ASSUME NEW k \in DOMAIN new.sources,
                      new.sources[k].kind = "plugin", ~PluginSourceValue(new.sources[k])
               PROVE  FALSE
    BY DEF ToSet
  <2>1. new.sources[k] = old.sources[k] /\ k \in DOMAIN old.sources
    BY <1>2
  <2>2. old.sources[k] \in ToSet(old.sources)
    BY <2>1 DEF ToSet
  <2>3. QED
    BY <1>5, <2>1, <2>2
<1>8. ~OtherFault(N, i)
  BY <1>6, <1>7 DEF OtherFault, new
<1>9. QED
  BY <1>2, <1>3, <1>4, <1>8 DEF ReleasedRowRefusal, new, N

\* A drop was checked against the strict restore; without one, every row restores by itself.
LEMMA PlainPromisesAreKept == TriageInv => PlainPromiseIsKept
<1> SUFFICES ASSUME TriageInv, Promised, opts.class = None,
                    \A i \in DOMAIN log.rows :
                      log.rows[i].type # "unknown" /\ ~OtherFault(log.rows, i)
             PROVE  RestoreStrictly(proof.log.rows) = "ok"
  BY DEF PlainPromiseIsKept
<1>1. Written
  BY DEF Promised, Written
<1>2. log \in Log /\ opts \in Option /\ ProofStands
  BY <1>1 DEF TriageInv
<1>3. CASE proof.dropped > 0
  <2>1. ~LossyDropRefused
    BY <1>1, <1>3 DEF TriageInv
  <2>2. QED
    BY <2>1 DEF LossyDropRefused
<1>4. CASE ~(proof.dropped > 0)
  <2>1. RefusedRows(proof.log.rows) = {}
    BY <1>2, <1>4, RepairedRowRestores DEF RefusedRows
  <2>2. QED
    BY <2>1 DEF RestoreStrictly
<1>5. QED
  BY <1>3, <1>4

\* No log the strict restore refuses passes as loading without a word, the events a
\* repair removes are counted, and what a report without a filter promises restores
\* (analyzeLog and summarize), whatever the log and the command line.
THEOREM ReportsAreTrue == Spec => []ReportIsTrue
<1>1. TriageInv => ReportIsTrue
  BY LossesAreCounted, RefusalsAreTold, PlainPromisesAreKept DEF ReportIsTrue
<1>2. QED
  BY <1>1, TriageInvariant, PTL
=============================================================================
