--------------------------- MODULE BranchScanProofs ---------------------------
(***************************************************************************)
(* Proofs about the scan of the files a branch changed, for every set of   *)
(* paths and lines, every limit, size, score and batch.                    *)
(***************************************************************************)
EXTENDS BranchScan, FiniteSetTheorems, FunctionTheorems, TLAPS

-----------------------------------------------------------------------------
(* Finite sets in a strict total order R, a set of pairs.                  *)
InOrderOf(S, R) ==
    /\ \A x \in S : <<x, x>> \notin R
    /\ \A x, y, z \in S : <<x, y>> \in R /\ <<y, z>> \in R => <<x, z>> \in R
    /\ \A x, y \in S : x # y => <<x, y>> \in R \/ <<y, x>> \in R

Preceding(x, S, R) == {y \in S : <<y, x>> \in R}

\* Places are 1 to the number of elements, each taken once, in the order.
LEMMA Places ==
  ASSUME NEW S, NEW R, IsFiniteSet(S), InOrderOf(S, R)
  PROVE  /\ Cardinality(S) \in Nat
         /\ \A x \in S : Place(x, S, R) \in 1..Cardinality(S)
         /\ \A x, y \in S : <<x, y>> \in R <=> Place(x, S, R) < Place(y, S, R)
         /\ \A x, y \in S : Place(x, S, R) = Place(y, S, R) => x = y
         /\ \A i \in 1..Cardinality(S) : \E x \in S : Place(x, S, R) = i
<1> DEFINE n == Cardinality(S)
           P(x) == Preceding(x, S, R)
           place == [x \in S |-> Place(x, S, R)]
<1>1. n \in Nat
  BY FS_CardinalityType
<1>2. ASSUME NEW x \in S PROVE /\ IsFiniteSet(P(x)) /\ Cardinality(P(x)) \in Nat
                               /\ Cardinality(P(x)) < n
  <2>1. P(x) \in SUBSET S /\ P(x) # S
    BY <1>2 DEF InOrderOf, Preceding
  <2>2. IsFiniteSet(P(x)) /\ Cardinality(P(x)) <= n /\ (n = Cardinality(P(x)) => S = P(x))
    BY <2>1, FS_Subset
  <2>3. Cardinality(P(x)) \in Nat
    BY <2>2, FS_CardinalityType
  <2>4. QED
    BY <1>1, <2>1, <2>2, <2>3
<1>3. \A x \in S : Place(x, S, R) = Cardinality(P(x)) + 1
  BY DEF Place, Preceding
<1>4. \A x \in S : Place(x, S, R) \in 1..n
  BY <1>1, <1>2, <1>3
<1>5. ASSUME NEW x \in S, NEW y \in S, <<x, y>> \in R
      PROVE  Place(x, S, R) < Place(y, S, R)
  <2>1. P(x) \in SUBSET P(y) /\ x \in P(y) /\ x \notin P(x)
    BY <1>5 DEF InOrderOf, Preceding
  <2>2. Cardinality(P(x)) <= Cardinality(P(y)) /\ (Cardinality(P(y)) = Cardinality(P(x)) => P(y) = P(x))
    BY <1>2, <2>1, FS_Subset
  <2>3. QED
    BY <1>2, <1>3, <2>1, <2>2
<1>6. \A x, y \in S : <<x, y>> \in R <=> Place(x, S, R) < Place(y, S, R)
  <2>1. ASSUME NEW x \in S, NEW y \in S, Place(x, S, R) < Place(y, S, R)
        PROVE  <<x, y>> \in R
    <3>1. x # y /\ ~(Place(y, S, R) < Place(x, S, R))
      BY <1>4, <2>1
    <3>2. QED
      BY <1>5, <3>1 DEF InOrderOf
  <2>2. QED
    BY <1>5, <2>1
<1>7. \A x, y \in S : Place(x, S, R) = Place(y, S, R) => x = y
  <2>1. ASSUME NEW x \in S, NEW y \in S, x # y PROVE Place(x, S, R) # Place(y, S, R)
    <3>1. Place(x, S, R) < Place(y, S, R) \/ Place(y, S, R) < Place(x, S, R)
      BY <1>5, <2>1 DEF InOrderOf
    <3>2. QED
      BY <1>4, <3>1
  <2>2. QED
    BY <2>1
<1>8. place \in Injection(S, 1..n)
  <2>1. place \in [S -> 1..n]
    BY <1>4
  <2>2. \A x, y \in S : place[x] = place[y] => x = y
    BY <1>7
  <2>3. QED
    BY <2>1, <2>2, Fun_IsInj
<1>9. IsFiniteSet(1..n) /\ Cardinality(1..n) = n
  BY <1>1, FS_Interval
<1>10. place \in Surjection(S, 1..n)
  BY <1>8, <1>9, FS_Injection
<1>11. \A i \in 1..n : \E x \in S : Place(x, S, R) = i
  BY <1>10 DEF Surjection
<1>12. QED
  BY <1>1, <1>4, <1>6, <1>11, <1>7

\* s lists S in the order R.
Lists(s, S, R) ==
    /\ s \in [1..Cardinality(S) -> S]
    /\ \A x \in S : \E i \in 1..Cardinality(S) : s[i] = x
    /\ \A i, j \in 1..Cardinality(S) : i < j => <<s[i], s[j]>> \in R

LEMMA SortedLists ==
  ASSUME NEW S, NEW R, IsFiniteSet(S), InOrderOf(S, R)
  PROVE  /\ Lists(Sorted(S, R), S, R)
         /\ \A i \in 1..Cardinality(S) : Place(Sorted(S, R)[i], S, R) = i
<1> DEFINE s == Sorted(S, R)
           n == Cardinality(S)
<1>1. \A i \in 1..n : s[i] \in S /\ Place(s[i], S, R) = i
  BY Places DEF Sorted
<1>2. s \in [1..n -> S]
  BY <1>1 DEF Sorted
<1>3. \A x \in S : \E i \in 1..n : s[i] = x
  <2>1. ASSUME NEW x \in S PROVE s[Place(x, S, R)] = x /\ Place(x, S, R) \in 1..n
    <3>1. Place(x, S, R) \in 1..n
      BY Places
    <3>2. s[Place(x, S, R)] \in S /\ Place(s[Place(x, S, R)], S, R) = Place(x, S, R)
      BY <1>1, <3>1
    <3>3. QED
      BY <3>1, <3>2, Places
  <2>2. QED
    BY <2>1
<1>4. \A i, j \in 1..n : i < j => <<s[i], s[j]>> \in R
  BY <1>1, Places
<1>5. QED
  BY <1>1, <1>2, <1>3, <1>4 DEF Lists

\* There is one such list.
LEMMA OneList ==
  ASSUME NEW S, NEW R, IsFiniteSet(S), InOrderOf(S, R), NEW s, Lists(s, S, R)
  PROVE  s = Sorted(S, R)
<1> DEFINE n == Cardinality(S)
<1>1. n \in Nat /\ s \in [1..n -> S]
  BY FS_CardinalityType DEF Lists
<1>2. ASSUME NEW i \in 1..n PROVE Place(s[i], S, R) = i
  <2> DEFINE before == [j \in 1..(i - 1) |-> s[j]]
             P == Preceding(s[i], S, R)
  <2>1. \A j \in 1..n : <<s[j], s[i]>> \in R <=> j < i
    <3>1. SUFFICES ASSUME NEW j \in 1..n PROVE <<s[j], s[i]>> \in R <=> j < i
      OBVIOUS
    <3>2. s[i] \in S /\ s[j] \in S /\ <<s[i], s[i]>> \notin R
      BY <1>1 DEF InOrderOf
    <3>3. j < i => <<s[j], s[i]>> \in R
      BY DEF Lists
    <3>4. j > i => <<s[i], s[j]>> \in R
      BY DEF Lists
    <3>5. <<s[i], s[j]>> \in R => <<s[j], s[i]>> \notin R
      BY <3>2 DEF InOrderOf
    <3>6. j < i \/ j = i \/ j > i
      BY <1>1
    <3>7. QED
      BY <1>1, <3>2, <3>3, <3>4, <3>5, <3>6
  <2>2. before \in [1..(i - 1) -> P]
    BY <1>1, <2>1 DEF Preceding
  <2>3. \A j, k \in 1..(i - 1) : before[j] = before[k] => j = k
    <3>1. SUFFICES ASSUME NEW j \in 1..(i - 1), NEW k \in 1..(i - 1), j < k
                   PROVE  before[j] # before[k]
      BY <1>1
    <3>2. <<s[j], s[k]>> \in R /\ s[j] \in S
      BY <1>1, <3>1 DEF Lists
    <3>3. QED
      BY <3>2 DEF InOrderOf
  <2>4. \A y \in P : \E j \in 1..(i - 1) : before[j] = y
    <3>1. SUFFICES ASSUME NEW y \in P PROVE \E j \in 1..(i - 1) : before[j] = y
      OBVIOUS
    <3>2. PICK j \in 1..n : s[j] = y
      BY <3>1 DEF Lists, Preceding
    <3>3. j < i
      BY <2>1, <3>1, <3>2 DEF Preceding
    <3>4. QED
      BY <1>1, <3>2, <3>3
  <2>5. before \in Bijection(1..(i - 1), P)
    BY <2>2, <2>3, <2>4, Fun_IsBij
  <2>6. Cardinality(P) = i - 1
    BY <1>1, <2>5, FS_CountingElements DEF ExistsBijection
  <2>7. QED
    BY <1>1, <2>6 DEF Place, Preceding
<1>3. \A i \in 1..n : s[i] = Sorted(S, R)[i]
  <2>1. Lists(Sorted(S, R), S, R) /\ \A i \in 1..n : Place(Sorted(S, R)[i], S, R) = i
    BY SortedLists
  <2>2. \A i \in 1..n : Sorted(S, R)[i] \in S
    BY <2>1 DEF Lists
  <2>3. QED
    BY <1>1, <1>2, <2>1, <2>2, Places
<1>4. QED
  BY <1>1, <1>3, SortedLists DEF Lists

\* The first k elements.
First(S, R, k) == {x \in S : Place(x, S, R) <= k}

\* The first k elements of a sorted set are the first k of its sorted list.
LEMMA TopLists ==
  ASSUME NEW S, NEW R, IsFiniteSet(S), InOrderOf(S, R), NEW k \in Nat
  PROVE  /\ IsFiniteSet(First(S, R, k))
         /\ Cardinality(First(S, R, k)) = IF Cardinality(S) < k THEN Cardinality(S) ELSE k
         /\ Lists(Top(Sorted(S, R), k), First(S, R, k), R)
<1> DEFINE n == Cardinality(S)
           m == IF n < k THEN n ELSE k
           s == Sorted(S, R)
           F == First(S, R, k)
           t == [i \in 1..m |-> s[i]]
<1>1. n \in Nat /\ m \in Nat /\ m <= n /\ m <= k
  BY FS_CardinalityType
<1>2. /\ s \in [1..n -> S]
      /\ \A i \in 1..n : Place(s[i], S, R) = i
      /\ \A i, j \in 1..n : i < j => <<s[i], s[j]>> \in R
      /\ \A x \in S : \E i \in 1..n : s[i] = x
  BY SortedLists DEF Lists
<1>3. t \in [1..m -> F]
  <2>1. \A i \in 1..m : s[i] \in F
    BY <1>1, <1>2 DEF First
  <2>2. QED
    BY <2>1
<1>4. \A x \in F : \E i \in 1..m : t[i] = x
  <2>1. SUFFICES ASSUME NEW x \in F PROVE \E i \in 1..m : t[i] = x
    OBVIOUS
  <2>2. PICK i \in 1..n : s[i] = x
    BY <1>2 DEF First
  <2>3. i <= k
    BY <1>2, <2>2 DEF First
  <2>4. QED
    BY <1>1, <2>2, <2>3
<1>5. \A i, j \in 1..m : t[i] = t[j] => i = j
  BY <1>1, <1>2
<1>6. t \in Bijection(1..m, F)
  BY <1>3, <1>4, <1>5, Fun_IsBij
<1>7. IsFiniteSet(F) /\ Cardinality(F) = m
  <2>1. IsFiniteSet(F)
    BY FS_Subset DEF First
  <2>2. Cardinality(F) = m
    BY <1>1, <1>6, FS_CountingElements DEF ExistsBijection
  <2>3. QED
    BY <2>1, <2>2
<1>8. Top(s, k) = t
  <2>1. Len(s) = n /\ s \in Seq(S)
    BY <1>1, <1>2
  <2>2. Top(s, k) = SubSeq(s, 1, m)
    BY <2>1 DEF Top
  <2>3. QED
    BY <1>1, <2>1, <2>2
<1>9. Lists(t, F, R)
  <2>1. \A i, j \in 1..m : i < j => <<t[i], t[j]>> \in R
    BY <1>1, <1>2
  <2>2. QED
    BY <1>3, <1>4, <1>7, <2>1 DEF Lists
<1>10. QED
  BY <1>7, <1>8, <1>9

\* What is among the first k of all is among the first k of its part, and the
\* first k of the parts' first k are the first k of all.
LEMMA FirstOfParts ==
  ASSUME NEW A, NEW B, NEW R, IsFiniteSet(A), IsFiniteSet(B), InOrderOf(A \cup B, R), NEW k \in Nat
  PROVE  LET T == First(A, R, k) \cup First(B, R, k)
         IN  First(T, R, k) = First(A \cup B, R, k)
<1> DEFINE U == A \cup B
           T == First(A, R, k) \cup First(B, R, k)
<1>1. IsFiniteSet(U) /\ T \in SUBSET U /\ A \in SUBSET U /\ B \in SUBSET U /\ IsFiniteSet(T)
  <2>1. IsFiniteSet(U) /\ T \in SUBSET U
    BY FS_Union DEF First
  <2>2. IsFiniteSet(T)
    BY <2>1, FS_Subset
  <2>3. QED
    BY <2>1, <2>2
<1>2. ASSUME NEW V \in SUBSET U, NEW W \in SUBSET V, NEW x \in U
      PROVE  /\ Place(x, W, R) \in Nat /\ Place(x, V, R) \in Nat
             /\ Place(x, W, R) <= Place(x, V, R)
  <2>1. IsFiniteSet(V)
    BY <1>1, FS_Subset
  <2>2. IsFiniteSet(Preceding(x, V, R)) /\ Preceding(x, W, R) \in SUBSET Preceding(x, V, R)
    BY <2>1, FS_Subset DEF Preceding
  <2>3. /\ IsFiniteSet(Preceding(x, W, R))
        /\ Cardinality(Preceding(x, W, R)) <= Cardinality(Preceding(x, V, R))
    BY <2>2, FS_Subset
  <2>4. QED
    BY <2>2, <2>3, FS_CardinalityType DEF Place, Preceding
<1>3. First(U, R, k) \subseteq T
  <2>1. SUFFICES ASSUME NEW x \in First(U, R, k) PROVE x \in T
    OBVIOUS
  <2>2. x \in U /\ Place(x, U, R) <= k
    BY <2>1 DEF First
  <2>3. Place(x, A, R) <= k /\ Place(x, B, R) <= k
    BY <1>1, <1>2, <2>2
  <2>4. QED
    BY <2>2, <2>3 DEF First
<1>4. First(U, R, k) \subseteq First(T, R, k)
  <2>1. SUFFICES ASSUME NEW x \in First(U, R, k) PROVE x \in First(T, R, k)
    OBVIOUS
  <2>2. x \in T /\ x \in U /\ Place(x, U, R) <= k
    BY <1>3, <2>1 DEF First
  <2>3. Place(x, T, R) <= k
    BY <1>1, <1>2, <2>2
  <2>4. QED
    BY <2>2, <2>3 DEF First
<1>5. First(T, R, k) \subseteq First(U, R, k)
  <2>1. SUFFICES ASSUME NEW x \in T, Place(x, T, R) <= k, ~(Place(x, U, R) <= k)
                 PROVE  FALSE
    BY <1>1 DEF First
  <2> DEFINE F == First(U, R, k)
  <2>2. x \in U
    BY <1>1
  <2>3. /\ \A y \in U : Place(y, U, R) \in 1..Cardinality(U)
        /\ \A y, z \in U : <<y, z>> \in R <=> Place(y, U, R) < Place(z, U, R)
        /\ Cardinality(U) \in Nat
    BY <1>1, Places
  <2>4. F \in SUBSET Preceding(x, T, R)
    <3>1. SUFFICES ASSUME NEW y \in F PROVE y \in Preceding(x, T, R)
      OBVIOUS
    <3>2. y \in U /\ y \in T /\ Place(y, U, R) <= k
      BY <1>3 DEF First
    <3>3. Place(y, U, R) < Place(x, U, R)
      BY <2>1, <2>2, <2>3, <3>2
    <3>4. QED
      BY <2>2, <2>3, <3>2, <3>3 DEF Preceding
  <2>5. Cardinality(F) = k
    <3>1. ~(Cardinality(U) < k)
      BY <2>1, <2>2, <2>3
    <3>2. QED
      BY <1>1, <3>1, TopLists
  <2>6. IsFiniteSet(Preceding(x, T, R))
    BY <1>1, FS_Subset DEF Preceding
  <2>7. k <= Cardinality(Preceding(x, T, R)) /\ Cardinality(Preceding(x, T, R)) \in Nat
    BY <2>4, <2>5, <2>6, FS_Subset, FS_CardinalityType
  <2>8. Place(x, T, R) = Cardinality(Preceding(x, T, R)) + 1
    BY DEF Place, Preceding
  <2>9. QED
    BY <2>1, <2>7, <2>8
<1>6. QED
  BY <1>4, <1>5

LEMMA TopOfTops ==
  ASSUME NEW A, NEW B, NEW R, IsFiniteSet(A), IsFiniteSet(B), InOrderOf(A \cup B, R), NEW k \in Nat
  PROVE  Top(Sorted(First(A, R, k) \cup First(B, R, k), R), k) = Top(Sorted(A \cup B, R), k)
<1> DEFINE U == A \cup B
           T == First(A, R, k) \cup First(B, R, k)
<1>1. IsFiniteSet(U) /\ T \in SUBSET U
  BY FS_Union DEF First
<1>2. IsFiniteSet(T) /\ InOrderOf(T, R)
  <2>1. IsFiniteSet(T)
    BY <1>1, FS_Subset
  <2>2. InOrderOf(T, R)
    BY <1>1 DEF InOrderOf
  <2>3. QED
    BY <2>1, <2>2
<1>3. First(T, R, k) = First(U, R, k)
  BY FirstOfParts
<1> DEFINE F == First(U, R, k)
<1>4. Lists(Top(Sorted(T, R), k), F, R) /\ Lists(Top(Sorted(U, R), k), F, R) /\ IsFiniteSet(F)
  BY <1>1, <1>2, <1>3, TopLists
<1>5. InOrderOf(F, R)
  BY DEF First, InOrderOf
<1> HIDE DEF F, T, U
<1>6. Top(Sorted(T, R), k) = Sorted(F, R) /\ Top(Sorted(U, R), k) = Sorted(F, R)
  BY <1>4, <1>5, OneList
<1>7. QED
  BY <1>6 DEF T, U

-----------------------------------------------------------------------------
(* The ranking.  Hits have a total order: by score, path and line.         *)
ByPlace(m, n) == m[1] < n[1] \/ (m[1] = n[1] /\ m[2] < n[2])
Ahead ==
    {p \in Match \X Match :
        \/ input.score[p[1]] > input.score[p[2]]
        \/ input.score[p[1]] = input.score[p[2]] /\ ByPlace(p[1], p[2])}

Scored == input.score \in [Match -> Nat]

LEMMA MatchType ==
  /\ IsFiniteSet(Match) /\ Match \subseteq Nat \X Nat
  /\ \A m \in Match : m[1] \in Path /\ m[1] \in Nat /\ m[2] \in Nat
  /\ \A m, n \in Match : m[1] = n[1] /\ m[2] = n[2] => m = n
<1>1. IsFiniteSet(Match)
  BY ScanAssumption, FS_Product DEF Match
<1>2. ASSUME NEW m \in Match PROVE m[1] \in Path /\ m[1] \in Nat /\ m[2] \in Nat /\ m = <<m[1], m[2]>>
  <2>1. m \in Path \X Line
    BY DEF Match
  <2>2. m[1] \in Path /\ m[2] \in Line /\ m = <<m[1], m[2]>>
    BY <2>1
  <2>3. Path \subseteq Nat /\ Line \subseteq Nat
    BY ScanAssumption
  <2>4. QED
    BY <2>2, <2>3
<1>3. \A m, n \in Match : m[1] = n[1] /\ m[2] = n[2] => m = n
  BY <1>2
<1>4. Match \subseteq Nat \X Nat
  BY ScanAssumption DEF Match
<1>5. QED
  BY <1>1, <1>2, <1>3, <1>4

LEMMA AheadIsOrder == ASSUME Scored PROVE InOrderOf(Match, Ahead)
<1>1. \A m \in Match : input.score[m] \in Nat
  BY DEF Scored
<1>2. \A m, n \in Match : <<m, n>> \in Ahead <=>
          \/ input.score[m] > input.score[n]
          \/ input.score[m] = input.score[n] /\ ByPlace(m, n)
  BY DEF Ahead
<1>3. \A x \in Match : <<x, x>> \notin Ahead
  BY <1>1, <1>2, MatchType DEF ByPlace
<1>4. ASSUME NEW x \in Match, NEW y \in Match, NEW z \in Match,
             <<x, y>> \in Ahead, <<y, z>> \in Ahead
      PROVE  <<x, z>> \in Ahead
  BY <1>1, <1>2, <1>4, MatchType DEF ByPlace
<1>5. ASSUME NEW x \in Match, NEW y \in Match, x # y
      PROVE  <<x, y>> \in Ahead \/ <<y, x>> \in Ahead
  BY <1>1, <1>2, <1>5, MatchType DEF ByPlace
<1>6. QED
  BY <1>3, <1>4, <1>5 DEF InOrderOf

LEMMA OrderOfPart ==
  ASSUME NEW S, NEW R, InOrderOf(S, R), NEW T \in SUBSET S PROVE InOrderOf(T, R)
BY DEF InOrderOf

LEMMA LinesAreOrdered ==
  ASSUME NEW S \in SUBSET (Nat \X Nat) PROVE InOrderOf(S, ByLine(S))
<1>1. \A m, n \in S : <<m, n>> \in ByLine(S) <=> ByPlace(m, n)
  BY DEF ByLine, ByPlace
<1>2. \A m \in S : m[1] \in Nat /\ m[2] \in Nat /\ m = <<m[1], m[2]>>
  OBVIOUS
<1>3. \A x \in S : <<x, x>> \notin ByLine(S)
  BY <1>1, <1>2 DEF ByPlace
<1>4. ASSUME NEW x \in S, NEW y \in S, NEW z \in S, ByPlace(x, y), ByPlace(y, z) PROVE ByPlace(x, z)
  BY <1>2, <1>4 DEF ByPlace
<1>5. ASSUME NEW x \in S, NEW y \in S, x # y PROVE ByPlace(x, y) \/ ByPlace(y, x)
  BY <1>2, <1>5 DEF ByPlace
<1>6. QED
  BY <1>1, <1>3, <1>4, <1>5 DEF InOrderOf

\* The sort key refines to that order: equal keys are of one path.
LEMMA BeforeIsAhead ==
  ASSUME Scored, NEW m \in Match, NEW n \in Match
  PROVE  /\ Before(m, n) => <<m, n>> \in Ahead
         /\ ~Before(n, m) /\ ByPlace(m, n) => <<m, n>> \in Ahead
         /\ ~Before(n, m) /\ m[1] # n[1] => <<m, n>> \in Ahead
<1>1. input.score[m] \in Nat /\ input.score[n] \in Nat
  BY DEF Scored
<1>2. StartLine(m) < StartLine(n) => m[2] < n[2]
  BY MatchType DEF StartLine
<1>3. QED
  BY <1>1, <1>2, MatchType DEF Before, ByPlace, Ahead

\* A stable sort of hits whose ties are in order lists them in the order.
LEMMA StableSort ==
  ASSUME Scored, NEW S \in SUBSET Match, NEW hits \in [1..Cardinality(S) -> S],
         \A x \in S : \E i \in 1..Cardinality(S) : hits[i] = x,
         \A i, j \in 1..Cardinality(S) :
             i < j /\ ~Before(hits[j], hits[i]) => <<hits[i], hits[j]>> \in Ahead
  PROVE  Ranked(hits) = Sorted(S, Ahead)
<1> DEFINE n == Cardinality(S)
           D == 1..n
           R == Stably(hits)
           c == Sorted(D, R)
<1>1. IsFiniteSet(S) /\ n \in Nat /\ InOrderOf(S, Ahead)
  BY MatchType, AheadIsOrder, OrderOfPart, FS_Subset, FS_CardinalityType
<1>2. IsFiniteSet(D) /\ Cardinality(D) = n
  BY <1>1, FS_Interval
<1>3. \A i, j \in D : hits[i] = hits[j] => i = j
  <2>1. hits \in Surjection(D, S)
    BY Fun_IsSurj
  <2>2. hits \in Injection(D, S)
    BY <1>2, <2>1, FS_SurjSameCardinalityImpliesInj
  <2>3. QED
    BY <2>2, Fun_InjectionProperties
<1>4. ASSUME NEW i \in D, NEW j \in D PROVE <<i, j>> \in R <=> <<hits[i], hits[j]>> \in Ahead
  <2>1. hits[i] \in S /\ hits[j] \in S /\ hits[i] \in Match /\ hits[j] \in Match
    OBVIOUS
  <2>2. <<i, j>> \in R <=> \/ Before(hits[i], hits[j])
                           \/ ~Before(hits[j], hits[i]) /\ i < j
    BY DEF Stably
  <2>3. Before(hits[i], hits[j]) => <<hits[i], hits[j]>> \in Ahead
    BY <2>1, BeforeIsAhead
  <2>4. Before(hits[j], hits[i]) => <<hits[j], hits[i]>> \in Ahead
    BY <2>1, BeforeIsAhead
  <2>5. <<hits[i], hits[j]>> \in Ahead => <<hits[j], hits[i]>> \notin Ahead
    BY <1>1, <2>1 DEF InOrderOf
  <2>6. i = j => <<hits[i], hits[j]>> \notin Ahead
    BY <1>1, <2>1 DEF InOrderOf
  <2>7. i < j /\ ~Before(hits[j], hits[i]) => <<hits[i], hits[j]>> \in Ahead
    OBVIOUS
  <2>8. j < i /\ ~Before(hits[i], hits[j]) => <<hits[j], hits[i]>> \in Ahead
    OBVIOUS
  <2>9. i < j \/ i = j \/ j < i
    BY <1>1
  <2>10. QED
    BY <2>2, <2>3, <2>4, <2>5, <2>6, <2>7, <2>8, <2>9
<1>5. InOrderOf(D, R)
  <2>1. ASSUME NEW x \in D PROVE <<x, x>> \notin R
    BY <1>1, <1>4 DEF InOrderOf
  <2>2. ASSUME NEW x \in D, NEW y \in D, NEW z \in D, <<x, y>> \in R, <<y, z>> \in R
        PROVE  <<x, z>> \in R
    <3>1. <<hits[x], hits[y]>> \in Ahead /\ <<hits[y], hits[z]>> \in Ahead
      BY <1>4, <2>2
    <3>2. <<hits[x], hits[z]>> \in Ahead
      BY <1>1, <3>1 DEF InOrderOf
    <3>3. QED
      BY <1>4, <3>2
  <2>3. ASSUME NEW x \in D, NEW y \in D, x # y PROVE <<x, y>> \in R \/ <<y, x>> \in R
    <3>1. <<hits[x], hits[y]>> \in Ahead \/ <<hits[y], hits[x]>> \in Ahead
      BY <1>1, <1>3, <2>3 DEF InOrderOf
    <3>2. QED
      BY <1>4, <3>1
  <2>4. QED
    BY <2>1, <2>2, <2>3 DEF InOrderOf
<1>6. /\ c \in [D -> D]
      /\ \A x \in D : \E i \in D : c[i] = x
      /\ \A i, j \in D : i < j => <<c[i], c[j]>> \in R
  <2>1. Lists(c, D, R)
    BY <1>2, <1>5, SortedLists
  <2> HIDE DEF c, R
  <2>2. QED
    BY <1>2, <2>1 DEF Lists
<1>7. Ranked(hits) = [i \in D |-> hits[c[i]]]
  BY DEF Ranked
<1> HIDE DEF c, R
<1>8. Lists(Ranked(hits), S, Ahead)
  <2>1. Ranked(hits) \in [1..n -> S]
    BY <1>6, <1>7
  <2>2. \A x \in S : \E i \in 1..n : Ranked(hits)[i] = x
    BY <1>6, <1>7
  <2>3. ASSUME NEW i \in 1..n, NEW j \in 1..n, i < j
        PROVE  <<Ranked(hits)[i], Ranked(hits)[j]>> \in Ahead
    <3>1. c[i] \in D /\ c[j] \in D /\ <<c[i], c[j]>> \in R
      BY <1>6, <2>3
    <3>2. <<hits[c[i]], hits[c[j]]>> \in Ahead
      BY <1>4, <3>1
    <3>3. QED
      BY <1>7, <3>2
  <2>4. QED
    BY <2>1, <2>2, <2>3 DEF Lists
<1>9. QED
  BY <1>1, <1>8, OneList

\* Ranking matches is taking the first of them in that order.
LEMMA LexicalIsTop ==
  ASSUME Scored, NEW S \in SUBSET Match
  PROVE  LexicalSearch(S) = Top(Sorted(S, Ahead), input.limit)
<1> DEFINE hits == InOrder(S)
<1>1. IsFiniteSet(S)
  BY MatchType, FS_Subset
<1>2. /\ hits \in [1..Cardinality(S) -> S]
      /\ \A x \in S : \E i \in 1..Cardinality(S) : hits[i] = x
      /\ \A i, j \in 1..Cardinality(S) : i < j => <<hits[i], hits[j]>> \in ByLine(S)
  <2>1. Lists(hits, S, ByLine(S))
    BY <1>1, MatchType, LinesAreOrdered, SortedLists DEF InOrder
  <2> HIDE DEF hits
  <2>2. QED
    BY <2>1 DEF Lists
<1> HIDE DEF hits
<1>3. ASSUME NEW i \in 1..Cardinality(S), NEW j \in 1..Cardinality(S),
             i < j, ~Before(hits[j], hits[i])
      PROVE  <<hits[i], hits[j]>> \in Ahead
  <2>1. hits[i] \in Match /\ hits[j] \in Match /\ ByPlace(hits[i], hits[j])
    BY <1>2, <1>3 DEF ByLine, ByPlace
  <2>2. QED
    BY <1>3, <2>1, BeforeIsAhead
<1>4. Ranked(hits) = Sorted(S, Ahead)
  BY <1>2, <1>3, StableSort
<1>5. QED
  BY <1>4 DEF LexicalSearch, hits

LEMMA ListIsSeq ==
  ASSUME NEW T, NEW n \in Nat, NEW s \in [1..n -> T] PROVE s \in Seq(T) /\ Len(s) = n
OBVIOUS

LEMMA SeqIsList ==
  ASSUME NEW T, NEW s \in Seq(T), NEW n, Len(s) = n PROVE n \in Nat /\ s \in [1..n -> T]
OBVIOUS

\* Merging the winners of two sets of files gives the winners of both.
LEMMA MergeTops ==
  ASSUME Scored, input.limit \in Nat, NEW A \in SUBSET Match, NEW B \in SUBSET Match,
         \A a \in A, b \in B : a[1] # b[1]
  PROVE  Top(Ranked(LexicalSearch(A) \o LexicalSearch(B)), input.limit) = LexicalSearch(A \cup B)
<1> DEFINE k == input.limit
           F == First(A, Ahead, k)
           G == First(B, Ahead, k)
           f == LexicalSearch(A)
           g == LexicalSearch(B)
           S == F \cup G
           m == Cardinality(F)
           n == Cardinality(G)
           hits == f \o g
<1>1. /\ IsFiniteSet(A) /\ IsFiniteSet(B)
      /\ InOrderOf(A, Ahead) /\ InOrderOf(B, Ahead) /\ InOrderOf(A \cup B, Ahead)
  BY MatchType, AheadIsOrder, OrderOfPart, FS_Subset
<1>2. IsFiniteSet(F) /\ IsFiniteSet(G) /\ F \in SUBSET A /\ G \in SUBSET B
  <2>1. IsFiniteSet(F) /\ IsFiniteSet(G)
    BY <1>1, TopLists
  <2>2. QED
    BY <2>1 DEF First
<1>3. Lists(f, F, Ahead) /\ Lists(g, G, Ahead)
  BY <1>1, LexicalIsTop, TopLists
<1>4. m \in Nat /\ n \in Nat /\ Cardinality(S) = m + n /\ S \in SUBSET Match
  <2>1. F \cap G = {}
    BY <1>2
  <2>2. Cardinality(S) = m + n - Cardinality({})
    BY <1>2, <2>1, FS_Union
  <2>3. QED
    BY <1>2, <2>2, FS_EmptySet, FS_CardinalityType
<1> HIDE DEF F, G, f, g, k
<1>5. /\ f \in [1..m -> F] /\ g \in [1..n -> G]
      /\ \A x \in F : \E i \in 1..m : f[i] = x
      /\ \A x \in G : \E i \in 1..n : g[i] = x
      /\ \A i, j \in 1..m : i < j => <<f[i], f[j]>> \in Ahead
      /\ \A i, j \in 1..n : i < j => <<g[i], g[j]>> \in Ahead
  BY <1>3 DEF Lists
<1>6. /\ hits \in [1..(m + n) -> S]
      /\ \A i \in 1..m : hits[i] = f[i]
      /\ \A i \in 1..n : hits[m + i] = g[i]
  <2>1. f \in Seq(F) /\ g \in Seq(G) /\ Len(f) = m /\ Len(g) = n
    BY <1>4, <1>5, ListIsSeq
  <2>2. f \in Seq(S) /\ g \in Seq(S)
    BY <2>1
  <2>3. hits \in Seq(S) /\ Len(hits) = m + n
    BY <2>1, <2>2
  <2>4. hits \in [1..(m + n) -> S]
    BY <2>3, SeqIsList
  <2>5. \A i \in 1..m : hits[i] = f[i]
    BY <1>4, <2>1, <2>2
  <2>6. ASSUME NEW i \in 1..n PROVE hits[m + i] = g[i]
    <3>1. m + i \in 1..(m + n) /\ m + i > m /\ (m + i) - m = i
      BY <1>4
    <3>2. QED
      BY <1>4, <2>1, <2>2, <3>1
  <2>7. QED
    BY <2>4, <2>5, <2>6
<1> HIDE DEF hits
<1>7. \A x \in S : \E i \in 1..(m + n) : hits[i] = x
  <2>1. SUFFICES ASSUME NEW x \in S PROVE \E i \in 1..(m + n) : hits[i] = x
    OBVIOUS
  <2>2. CASE x \in F
    <3>1. PICK i \in 1..m : f[i] = x
      BY <1>5, <2>2
    <3>2. i \in 1..(m + n) /\ hits[i] = x
      BY <1>4, <1>6, <3>1
    <3>3. QED
      BY <3>2
  <2>3. CASE x \in G
    <3>1. PICK i \in 1..n : g[i] = x
      BY <1>5, <2>3
    <3>2. m + i \in 1..(m + n) /\ hits[m + i] = x
      BY <1>4, <1>6, <3>1
    <3>3. QED
      BY <3>2
  <2>4. QED
    BY <2>2, <2>3
<1>8. ASSUME NEW i \in 1..(m + n), NEW j \in 1..(m + n), i < j, ~Before(hits[j], hits[i])
      PROVE  <<hits[i], hits[j]>> \in Ahead
  <2>1. CASE j <= m
    <3>1. i \in 1..m /\ j \in 1..m
      BY <1>4, <1>8, <2>1
    <3>2. QED
      BY <1>5, <1>6, <1>8, <3>1
  <2>2. CASE m < i
    <3> DEFINE a == i - m
               b == j - m
    <3>1. a \in 1..n /\ b \in 1..n /\ a < b /\ m + a = i /\ m + b = j
      BY <1>4, <1>8, <2>2
    <3>2. hits[i] = g[a] /\ hits[j] = g[b]
      BY <1>6, <3>1
    <3>3. QED
      BY <1>5, <3>1, <3>2
  <2>3. CASE i <= m /\ m < j
    <3> DEFINE b == j - m
    <3>1. i \in 1..m /\ b \in 1..n /\ m + b = j
      BY <1>4, <1>8, <2>3
    <3>2. hits[i] \in A /\ hits[j] \in B
      BY <1>2, <1>5, <1>6, <3>1
    <3>3. hits[i] \in Match /\ hits[j] \in Match /\ hits[i][1] # hits[j][1]
      BY <3>2
    <3>4. QED
      BY <1>8, <3>3, BeforeIsAhead
  <2>4. QED
    BY <1>4, <2>1, <2>2, <2>3
<1>9. Ranked(hits) = Sorted(S, Ahead)
  BY <1>4, <1>6, <1>7, <1>8, StableSort
<1>10. Top(Sorted(S, Ahead), k) = Top(Sorted(A \cup B, Ahead), k)
  BY <1>1, TopOfTops DEF F, G, k
<1>11. LexicalSearch(A \cup B) = Top(Sorted(A \cup B, Ahead), k)
  BY LexicalIsTop DEF k
<1>12. QED
  BY <1>9, <1>10, <1>11 DEF hits, f, g, k

-----------------------------------------------------------------------------
(* The inductive invariant.                                                *)
Waiting == Range(todo) \cup batch \cup ({reading} \ {NoPath})
Taken == Eligible \ Waiting
TreeHalf == {m \in input.tree : m[1] \notin input.shadow}

\* The winners among the matches of some files.
Winners(paths) == Top(Sorted(Matches(paths), Ahead), input.limit)

InputOK ==
    /\ kind \in {"grep", "rank"} /\ (kind = "rank" => pc \notin {"tree", "treerun"})
    /\ input.size \in [Path -> Nat] /\ Scored
    /\ input.tree \in SUBSET TreeMatch /\ input.limit \in Nat /\ input.bytes \in Nat

PathsOK ==
    /\ todo \in Seq(Path)
    /\ \A i, j \in DOMAIN todo : todo[i] = todo[j] => i = j
    /\ reading \in Path \cup {NoPath} /\ reading \notin Range(todo) \cup batch
    /\ reading # NoPath =>
           input.size[reading] > 0 /\ (reported => input.size[reading] <= FileCap)
    /\ batch \in SUBSET Eligible /\ batch \cap Range(todo) = {}
    /\ pc \in {"tree", "treerun"} => Taken = {}

HeldOK == Held <= (IF input.bytes < FileCap THEN FileCap ELSE input.bytes)

RunOK ==
    /\ rg \in [pending : SUBSET (Nat \X Nat), got : SUBSET (Nat \X Nat),
               max : Int, truncated : BOOLEAN]
    /\ truncated \in BOOLEAN /\ killed \in BOOLEAN /\ remaining \in Int
    /\ pc = "treerun" =>
           /\ rg.pending \subseteq input.tree /\ rg.got \subseteq TreeHalf
           /\ rg.truncated \/ TreeHalf \subseteq rg.got \cup rg.pending
    /\ pc = "batchrun" =>
           /\ rg.pending \cup rg.got \subseteq Matches(batch)
           /\ rg.truncated \/ Matches(batch) \subseteq rg.got \cup rg.pending

\* What a grep keeps are matches; short of the flag, all of what was looked at.
GrepOK ==
    kind = "grep" =>
        /\ out \subseteq All
        /\ pc \in {"fill", "batch", "batchrun"} /\ ~truncated =>
               TreeHalf \cup Matches(Taken) \subseteq out
        /\ pc = "merge" /\ ~truncated => All \subseteq out
        /\ pc = "done" => Cardinality(out) <= input.limit /\ (truncated \/ out = All)

\* A ranking has no limit in rg, and keeps the winners of what was looked at.
RankOK ==
    kind = "rank" /\ ~killed =>
        /\ pc = "batchrun" => rg.max = NoLimit /\ ~rg.truncated
        /\ pc \in {"fill", "batch", "batchrun"} => ranked = Winners(Taken)
        /\ pc \in {"merge", "done"} => ranked = Winners(Eligible)

ScanInv == InputOK /\ PathsOK /\ HeldOK /\ RunOK /\ GrepOK /\ RankOK

LEMMA RangeIn == ASSUME NEW T, NEW s \in Seq(T) PROVE Range(s) \subseteq T
BY DEF Range

LEMMA HeadAndTail ==
  ASSUME NEW T, NEW s \in Seq(T), s # <<>>, \A i, j \in DOMAIN s : s[i] = s[j] => i = j
  PROVE  /\ Head(s) \in T /\ Tail(s) \in Seq(T)
         /\ \A i, j \in DOMAIN Tail(s) : Tail(s)[i] = Tail(s)[j] => i = j
         /\ Range(s) = {Head(s)} \cup Range(Tail(s)) /\ Head(s) \notin Range(Tail(s))
<1> DEFINE t == Tail(s)
<1>1. /\ Len(s) \in Nat /\ Len(s) > 0 /\ DOMAIN s = 1..Len(s)
      /\ Head(s) = s[1] /\ Head(s) \in T /\ t \in Seq(T)
      /\ Len(t) = Len(s) - 1 /\ DOMAIN t = 1..(Len(s) - 1)
      /\ \A i \in DOMAIN t : t[i] = s[i + 1] /\ i + 1 \in DOMAIN s
  OBVIOUS
<1> HIDE DEF t
<1>2. \A i, j \in DOMAIN t : t[i] = t[j] => i = j
  <2>1. SUFFICES ASSUME NEW i \in DOMAIN t, NEW j \in DOMAIN t, t[i] = t[j] PROVE i = j
    OBVIOUS
  <2>2. i + 1 = j + 1
    BY <1>1, <2>1
  <2>3. QED
    BY <1>1, <2>2
<1>3. Head(s) \notin Range(t)
  <2>1. SUFFICES ASSUME NEW i \in DOMAIN t, t[i] = s[1] PROVE FALSE
    BY <1>1 DEF Range
  <2>2. i + 1 = 1
    BY <1>1, <2>1
  <2>3. QED
    BY <1>1, <2>2
<1>4. Range(s) = {Head(s)} \cup Range(t)
  <2>1. Range(t) \subseteq Range(s) /\ Head(s) \in Range(s)
    BY <1>1 DEF Range
  <2>2. ASSUME NEW i \in DOMAIN s, s[i] # s[1] PROVE s[i] \in Range(t)
    <3>1. i - 1 \in DOMAIN t /\ (i - 1) + 1 = i
      BY <1>1, <2>2
    <3>2. t[i - 1] = s[i]
      BY <1>1, <3>1
    <3>3. QED
      BY <3>1, <3>2 DEF Range
  <2>3. QED
    BY <1>1, <2>1, <2>2 DEF Range
<1>5. QED
  BY <1>1, <1>2, <1>3, <1>4 DEF t

\* The text of a file is counted once, when the file joins the batch.
LEMMA TextOfBatch ==
  ASSUME input.size \in [Path -> Nat], NEW paths \in SUBSET Path
  PROVE  /\ IsFiniteSet(Bytes(paths)) /\ Cardinality(Bytes(paths)) \in Nat
         /\ \A p \in Path \ paths :
                Cardinality(Bytes(paths \cup {p})) = Cardinality(Bytes(paths)) + input.size[p]
<1> DEFINE text(p) == {p} \X (1..input.size[p])
<1>1. \A p \in Path : IsFiniteSet(text(p)) /\ Cardinality(text(p)) = input.size[p]
  <2>1. SUFFICES ASSUME NEW p \in Path
                 PROVE  IsFiniteSet(text(p)) /\ Cardinality(text(p)) = input.size[p]
    OBVIOUS
  <2>2. input.size[p] \in Nat
    OBVIOUS
  <2>3. IsFiniteSet({p}) /\ Cardinality({p}) = 1
    BY FS_Singleton
  <2>4. IsFiniteSet(1..input.size[p]) /\ Cardinality(1..input.size[p]) = input.size[p]
    BY <2>2, FS_Interval
  <2>5. /\ IsFiniteSet(text(p))
        /\ Cardinality(text(p)) = Cardinality({p}) * Cardinality(1..input.size[p])
    BY <2>3, <2>4, FS_Product
  <2>6. \A n \in Nat : 1 * n = n
    OBVIOUS
  <2>7. QED
    BY <2>2, <2>3, <2>4, <2>5, <2>6
<1>2. IsFiniteSet(Bytes(paths))
  <2>1. IsFiniteSet(paths)
    BY ScanAssumption, FS_Subset
  <2>2. IsFiniteSet({text(p) : p \in paths})
    <3> DEFINE f == [p \in paths |-> text(p)]
    <3>1. f \in Surjection(paths, {text(p) : p \in paths})
      BY Fun_IsSurj
    <3>2. QED
      BY <2>1, <3>1, FS_Surjection
  <2>3. \A T \in {text(p) : p \in paths} : IsFiniteSet(T)
    BY <1>1
  <2>4. QED
    BY <2>2, <2>3, FS_UNION DEF Bytes
<1>3. ASSUME NEW p \in Path \ paths
      PROVE  Cardinality(Bytes(paths \cup {p})) = Cardinality(Bytes(paths)) + input.size[p]
  <2>1. Bytes(paths \cup {p}) = Bytes(paths) \cup text(p) /\ Bytes(paths) \cap text(p) = {}
    BY DEF Bytes
  <2>2. input.size[p] \in Nat /\ Cardinality(Bytes(paths)) \in Nat
    BY <1>2, FS_CardinalityType
  <2>3. IsFiniteSet(text(p)) /\ Cardinality(text(p)) = input.size[p]
    BY <1>1
  <2> HIDE DEF text
  <2>4. Cardinality(Bytes(paths) \cup text(p))
           = Cardinality(Bytes(paths)) + Cardinality(text(p)) - Cardinality(Bytes(paths) \cap text(p))
    BY <1>2, <2>3, FS_Union
  <2>5. Cardinality(Bytes(paths) \cap text(p)) = 0
    BY <2>1, FS_EmptySet
  <2>6. Cardinality(Bytes(paths) \cup text(p)) = Cardinality(Bytes(paths)) + input.size[p]
    BY <2>2, <2>3, <2>4, <2>5
  <2>7. QED
    BY <2>1, <2>6
<1>4. QED
  BY <1>2, <1>3, FS_CardinalityType

LEMMA NoWinners == ASSUME Scored, input.limit \in Nat PROVE Winners({}) = <<>>
<1>1. Matches({}) = {}
  BY DEF Matches
<1>2. IsFiniteSet({}) /\ Cardinality({}) = 0 /\ InOrderOf({}, Ahead)
  BY FS_EmptySet DEF InOrderOf
<1>3. Lists(Winners({}), First({}, Ahead, input.limit), Ahead)
  BY <1>1, <1>2, TopLists DEF Winners
<1>4. First({}, Ahead, input.limit) = {}
  BY DEF First
<1>5. Winners({}) \in [1..0 -> {}]
  BY <1>2, <1>3, <1>4 DEF Lists
<1>6. Winners({}) \in Seq({}) /\ Len(Winners({})) = 0
  BY <1>5, ListIsSeq
<1>7. QED
  BY <1>6

LEMMA WinnersOfMore ==
  ASSUME Scored, input.limit \in Nat, NEW A, NEW B, A \cap B = {}
  PROVE  Top(Ranked(Winners(A) \o LexicalSearch(Matches(B))), input.limit) = Winners(A \cup B)
<1>1. /\ Matches(A) \in SUBSET Match /\ Matches(B) \in SUBSET Match
      /\ Matches(A \cup B) = Matches(A) \cup Matches(B) /\ Matches(A \cup B) \in SUBSET Match
      /\ \A a \in Matches(A), b \in Matches(B) : a[1] # b[1]
  BY DEF Matches
<1>2. /\ Winners(A) = LexicalSearch(Matches(A))
      /\ Winners(A \cup B) = LexicalSearch(Matches(A \cup B))
  BY <1>1, LexicalIsTop DEF Winners
<1>3. QED
  BY <1>1, <1>2, MergeTops

-----------------------------------------------------------------------------
(* The steps.                                                              *)
LEMMA SameInput ==
  ASSUME input' = input, NEW S, Taken' = S
  PROVE  /\ Eligible' = Eligible /\ All' = All /\ TreeHalf' = TreeHalf
         /\ (Matches(Taken))' = Matches(S)
         /\ (Winners(Taken))' = Winners(S) /\ (Winners(Eligible))' = Winners(Eligible)
<1>1. Eligible' = Eligible
  BY DEF Eligible
<1>2. Ahead' = Ahead
  BY DEF Ahead, ByPlace
<1>3. (Matches(Taken))' = Matches(S) /\ (Matches(Eligible))' = Matches(Eligible)
  BY <1>1 DEF Matches
<1>4. All' = All /\ TreeHalf' = TreeHalf
  BY <1>3 DEF All, TreeHalf
<1>5. (Winners(Taken))' = Winners(S) /\ (Winners(Eligible))' = Winners(Eligible)
  BY <1>2, <1>3 DEF Winners
<1>6. QED
  BY <1>1, <1>3, <1>4, <1>5

Filling == NextPath \/ DropBlob \/ KeepBlob \/ EndBatch \/ RankBatch

\* All other steps leave the files alone.
LEMMA FilesAlone ==
  ASSUME [ScanNext]_scanVars
  PROVE  /\ input' = input /\ kind' = kind
         /\ pc' \in {"tree", "treerun"} => pc \in {"tree", "treerun"}
         /\ ~Filling => UNCHANGED <<todo, reading, reported, batch>>
BY DEF ScanNext, scanVars, Filling, NextPath, DropBlob, KeepBlob, Yield, StartTree, StartBatch, Consume,
       Watchdog, EndTree, EndBatch, Exhausted, Unusable, RankBatch, Drained, Merge

LEMMA TakenStep ==
  ASSUME ScanInv, [ScanNext]_scanVars
  PROVE  IF EndBatch \/ RankBatch THEN Taken' = Taken \cup batch ELSE Taken' = Taken
<1> USE DEF Taken, Waiting
<1>1. Eligible' = Eligible /\ (~Filling => Taken' = Taken)
  BY FilesAlone DEF Eligible
<1>2. CASE NextPath
  <2>1. todo \in Seq(Path) /\ todo # <<>> /\ \A i, j \in DOMAIN todo : todo[i] = todo[j] => i = j
    BY <1>2 DEF NextPath, ScanInv, PathsOK
  <2>2. Range(todo) = {Head(todo)} \cup Range(Tail(todo)) /\ Head(todo) \in Path
    BY <2>1, HeadAndTail
  <2>3. reading' = NoPath => Head(todo) \notin Eligible
    BY <1>2, <2>2, ScanAssumption DEF NextPath, BlobSizes, Unreported, Unreadable, Eligible
  <2>4. reading = NoPath /\ reading' \in {NoPath, Head(todo)} /\ todo' = Tail(todo) /\ batch' = batch
    BY <1>2 DEF NextPath
  <2>5. NoPath \notin Eligible /\ Head(todo) # NoPath
    BY <2>2, ScanAssumption DEF Eligible
  <2>6. Taken' = Taken
    BY <1>1, <2>2, <2>3, <2>4, <2>5
  <2>7. QED
    BY <1>2, <2>6 DEF NextPath, EndBatch, RankBatch
<1>3. CASE DropBlob
  <2>1. reading \notin Eligible
    BY <1>3, ScanAssumption DEF DropBlob, Eligible, ScanInv, PathsOK, InputOK
  <2>2. QED
    BY <1>1, <1>3, <2>1 DEF DropBlob, EndBatch, RankBatch
<1>4. CASE KeepBlob
  BY <1>1, <1>4 DEF KeepBlob, EndBatch, RankBatch
<1>5. CASE EndBatch \/ RankBatch
  <2>1. todo' = todo /\ reading' = reading /\ batch' = {}
    BY <1>5 DEF EndBatch, RankBatch
  <2>2. batch \subseteq Eligible /\ batch \cap Range(todo) = {} /\ reading \notin batch
    BY DEF ScanInv, PathsOK
  <2>3. QED
    BY <1>1, <1>5, <2>1, <2>2
<1>6. QED
  BY <1>1, <1>2, <1>3, <1>4, <1>5 DEF Filling

LEMMA InputStep == ASSUME ScanInv, [ScanNext]_scanVars PROVE InputOK'
<1>1. input' = input /\ kind' = kind /\ (pc' \in {"tree", "treerun"} => pc \in {"tree", "treerun"})
  BY FilesAlone
<1>2. QED
  BY <1>1 DEF ScanInv, InputOK, Scored, Match

LEMMA PathsStep == ASSUME ScanInv, [ScanNext]_scanVars PROVE PathsOK'
<1>1. PathsOK /\ input' = input /\ (pc' \in {"tree", "treerun"} => pc \in {"tree", "treerun"})
  BY FilesAlone DEF ScanInv
<1>2. Eligible' = Eligible
  BY <1>1 DEF Eligible
<1>3. (pc \in {"tree", "treerun"} => Taken = {})'
  <2>1. Filling => pc' \notin {"tree", "treerun"}
    BY DEF Filling, NextPath, DropBlob, KeepBlob, EndBatch, RankBatch
  <2>2. EndBatch \/ RankBatch => Filling
    BY DEF Filling
  <2>3. QED
    BY <1>1, <2>1, <2>2, TakenStep DEF PathsOK
<1>4. CASE NextPath
  <2> DEFINE h == Head(todo)
             t == Tail(todo)
  <2>1. todo \in Seq(Path) /\ todo # <<>> /\ \A i, j \in DOMAIN todo : todo[i] = todo[j] => i = j
    BY <1>1, <1>4 DEF NextPath, PathsOK
  <2>2. /\ h \in Path /\ t \in Seq(Path)
        /\ \A i, j \in DOMAIN t : t[i] = t[j] => i = j
        /\ Range(todo) = {h} \cup Range(t) /\ h \notin Range(t)
    BY <2>1, HeadAndTail
  <2>3. /\ todo' = t /\ batch' = batch /\ reading' \in {NoPath, h}
        /\ reading' # NoPath =>
               input.size[h] # Unreadable /\ (reported' => ~(input.size[h] > FileCap))
    BY <1>4 DEF NextPath, BlobSizes
  <2>4. input.size[h] \in Nat
    BY <2>2 DEF ScanInv, InputOK
  <2>5. NoPath \notin Path
    BY ScanAssumption
  <2> HIDE DEF h, t
  <2>6. batch \in SUBSET Eligible /\ batch \cap Range(todo) = {} /\ batch \subseteq Path
    BY <1>1 DEF PathsOK, Eligible
  <2>7. Range(t) \subseteq Path
    BY <2>2, RangeIn
  <2>8. reading' # NoPath => input.size[h] > 0 /\ (reported' => input.size[h] <= FileCap)
    BY <2>3, <2>4, ScanAssumption DEF Unreadable
  <2>9. reading' \notin Range(t) \cup batch
    BY <2>2, <2>3, <2>5, <2>6, <2>7
  <2>10. QED
    BY <1>1, <1>2, <1>3, <2>2, <2>3, <2>6, <2>8, <2>9 DEF PathsOK
<1>5. CASE DropBlob
  <2>1. UNCHANGED <<todo, batch>> /\ reading' = NoPath
    BY <1>5 DEF DropBlob
  <2>2. NoPath \notin Range(todo) \cup batch
    BY <1>1, RangeIn, ScanAssumption DEF PathsOK, Eligible
  <2>3. QED
    BY <1>1, <1>2, <1>3, <2>1, <2>2 DEF PathsOK
<1>6. CASE KeepBlob
  <2>1. /\ todo' = todo /\ reading' = NoPath /\ batch' = batch \cup {reading} /\ reading # NoPath
        /\ input.size[reading] <= FileCap
    BY <1>6 DEF KeepBlob
  <2>2. reading \in Eligible
    BY <1>1, <2>1, ScanAssumption DEF PathsOK, Eligible, ScanInv, InputOK
  <2>3. NoPath \notin Range(todo) \cup batch'
    <3>1. Range(todo) \subseteq Path /\ batch' \subseteq Path /\ NoPath \notin Path
      BY <1>1, <2>1, <2>2, RangeIn, ScanAssumption DEF PathsOK, Eligible
    <3>2. QED
      BY <3>1
  <2>4. batch' \in SUBSET Eligible /\ batch' \cap Range(todo) = {}
    BY <1>1, <2>1, <2>2 DEF PathsOK
  <2>5. QED
    BY <1>1, <1>2, <1>3, <2>1, <2>3, <2>4 DEF PathsOK
<1>7. CASE EndBatch \/ RankBatch
  <2>1. UNCHANGED <<todo, reading, reported>> /\ batch' = {}
    BY <1>7 DEF EndBatch, RankBatch
  <2>2. QED
    BY <1>1, <1>2, <1>3, <2>1 DEF PathsOK
<1>8. CASE ~Filling
  <2>1. UNCHANGED <<todo, reading, reported, batch>>
    BY <1>8, FilesAlone
  <2>2. QED
    BY <1>1, <1>2, <1>3, <2>1 DEF PathsOK
<1>9. QED
  BY <1>4, <1>5, <1>6, <1>7, <1>8 DEF Filling

\* A file joins a batch it fits in, or an empty one.
LEMMA HeldStep == ASSUME ScanInv, [ScanNext]_scanVars PROVE HeldOK'
<1>1. PathsOK /\ HeldOK /\ input' = input /\ input.bytes \in Nat /\ FileCap \in Nat
  BY FilesAlone, ScanAssumption DEF ScanInv, InputOK
<1>2. input.size \in [Path -> Nat] /\ batch \in SUBSET Path
  BY <1>1 DEF ScanInv, InputOK, PathsOK, Eligible
<1>3. Held \in Nat
  BY <1>2, TextOfBatch DEF Held
<1>4. Held' = Cardinality(Bytes(batch'))
  BY <1>1 DEF Held, Bytes
<1>5. CASE KeepBlob
  <2>1. /\ batch' = batch \cup {reading} /\ reading \in Path \ batch
        /\ input.size[reading] <= FileCap
        /\ batch = {} \/ ~(Held + input.size[reading] > input.bytes)
    BY <1>1, <1>5 DEF KeepBlob, BatchIsFull, PathsOK
  <2>2. Held' = Held + input.size[reading] /\ input.size[reading] \in Nat
    BY <1>2, <1>4, <2>1, TextOfBatch DEF Held
  <2>3. batch = {} => Held = 0
    BY FS_EmptySet DEF Held, Bytes
  <2>4. QED
    BY <1>1, <1>3, <2>1, <2>2, <2>3 DEF HeldOK
<1>6. CASE EndBatch \/ RankBatch
  <2>1. batch' = {}
    BY <1>6 DEF EndBatch, RankBatch
  <2>2. Held' = 0
    BY <1>4, <2>1, FS_EmptySet DEF Bytes
  <2>3. QED
    BY <1>1, <2>2 DEF HeldOK
<1>7. CASE ~(KeepBlob \/ EndBatch \/ RankBatch)
  <2>1. batch' = batch
    BY <1>7, FilesAlone DEF Filling, NextPath, DropBlob
  <2>2. QED
    BY <1>1, <1>4, <2>1 DEF HeldOK, Held
<1>8. QED
  BY <1>5, <1>6, <1>7

LEMMA MatchesFinite ==
  ASSUME NEW paths
  PROVE  IsFiniteSet(Matches(paths)) /\ Matches(paths) \in SUBSET (Nat \X Nat)
<1>1. Matches(paths) \in SUBSET Match
  BY DEF Matches
<1>2. QED
  BY <1>1, MatchType, FS_Subset

Collected == [pending : SUBSET (Nat \X Nat), got : SUBSET (Nat \X Nat), max : Int, truncated : BOOLEAN]

\* What one event does to the run and its collector.
LEMMA ConsumeOrKill ==
  ASSUME rg \in Collected, Consume \/ Watchdog
  PROVE  /\ rg' \in Collected /\ Running /\ ~rg.truncated /\ rg'.max = rg.max
         /\ rg'.truncated => rg'.pending = {} /\ rg'.got = rg.got /\ (Watchdog \/ Full)
         /\ ~rg'.truncated =>
                \E m \in rg.pending :
                    /\ rg'.pending = rg.pending \ {m}
                    /\ IF pc = "treerun" /\ m[1] \in input.shadow
                       THEN rg'.got = rg.got ELSE rg'.got = rg.got \cup {m}
<1>1. CASE Consume
  <2>1. PICK m \in rg.pending :
            rg' = IF pc = "treerun" /\ m[1] \in input.shadow
                  THEN [rg EXCEPT !.pending = @ \ {m}]
                  ELSE IF Full THEN [rg EXCEPT !.pending = {}, !.truncated = TRUE]
                  ELSE [rg EXCEPT !.pending = @ \ {m}, !.got = @ \cup {m}]
    BY <1>1 DEF Consume
  <2>2. Running /\ ~rg.truncated
    BY <1>1 DEF Consume
  <2>3. m \in Nat \X Nat
    BY <2>1 DEF Collected
  <2>4. CASE pc = "treerun" /\ m[1] \in input.shadow
    BY <2>1, <2>2, <2>4 DEF Collected
  <2>5. CASE ~(pc = "treerun" /\ m[1] \in input.shadow) /\ Full
    BY <2>1, <2>2, <2>5 DEF Collected
  <2>6. CASE ~(pc = "treerun" /\ m[1] \in input.shadow) /\ ~Full
    BY <2>1, <2>2, <2>3, <2>6 DEF Collected
  <2>7. QED
    BY <2>4, <2>5, <2>6
<1>2. CASE Watchdog
  BY <1>2 DEF Watchdog, Collected
<1>3. QED
  BY <1>1, <1>2

LEMMA RunStep == ASSUME ScanInv, [ScanNext]_scanVars PROVE RunOK'
<1>1. InputOK /\ PathsOK /\ RunOK /\ input' = input
  BY FilesAlone DEF ScanInv
<1>2. /\ rg \in Collected /\ truncated \in BOOLEAN /\ killed \in BOOLEAN /\ remaining \in Int
      /\ input.tree \in SUBSET (Nat \X Nat) /\ input.limit \in Nat
  BY <1>1, ScanAssumption DEF RunOK, InputOK, Collected
<1>3. TreeHalf' = TreeHalf /\ (batch' = batch => (Matches(batch))' = Matches(batch))
  BY <1>1 DEF TreeHalf, Matches
<1>4. NoRun \in Collected
  BY DEF NoRun, Collected, NoLimit
<1>5. CASE StartTree
  <2>1. /\ rg' = [pending |-> input.tree, got |-> {}, max |-> input.limit, truncated |-> FALSE]
        /\ pc' = "treerun" /\ UNCHANGED <<truncated, killed, remaining>>
    BY <1>5 DEF StartTree, StartRun
  <2>2. rg' \in Collected
    BY <1>2, <2>1 DEF Collected
  <2>3. TreeHalf \subseteq input.tree
    BY DEF TreeHalf
  <2>4. QED
    BY <1>1, <1>2, <1>3, <2>1, <2>2, <2>3 DEF RunOK, Collected
<1>6. CASE StartBatch
  <2>1. /\ rg' = [pending |-> Matches(batch), got |-> {},
                  max |-> IF kind = "grep" THEN remaining ELSE NoLimit, truncated |-> FALSE]
        /\ pc' = "batchrun" /\ UNCHANGED <<batch, truncated, killed, remaining>>
    BY <1>6 DEF StartBatch, StartRun
  <2>2. rg' \in Collected
    BY <1>2, <2>1, MatchesFinite DEF Collected, NoLimit
  <2>3. QED
    BY <1>2, <1>3, <2>1, <2>2 DEF RunOK, Collected
<1>7. CASE Consume \/ Watchdog
  <2>1. /\ rg' \in Collected /\ Running /\ ~rg.truncated
        /\ rg'.truncated => rg'.pending = {} /\ rg'.got = rg.got
        /\ ~rg'.truncated =>
               \E m \in rg.pending :
                   /\ rg'.pending = rg.pending \ {m}
                   /\ IF pc = "treerun" /\ m[1] \in input.shadow
                      THEN rg'.got = rg.got ELSE rg'.got = rg.got \cup {m}
    BY <1>2, <1>7, ConsumeOrKill
  <2>2. UNCHANGED <<pc, batch, truncated, remaining>> /\ killed' \in BOOLEAN
    BY <1>2, <1>7 DEF Consume, Watchdog
  <2>3. CASE pc = "treerun"
    BY <1>1, <1>2, <1>3, <2>1, <2>2, <2>3 DEF RunOK, Collected, TreeHalf
  <2>4. CASE pc = "batchrun"
    BY <1>1, <1>2, <1>3, <2>1, <2>2, <2>4 DEF RunOK, Collected
  <2>5. QED
    BY <2>1, <2>3, <2>4 DEF Running
<1>8. CASE EndTree
  BY <1>1, <1>2, <1>4, <1>8 DEF EndTree, RunOK, Collected
<1>9. CASE EndBatch
  <2>1. rg.got \subseteq Matches(batch)
    BY <1>1, <1>9 DEF EndBatch, RunOK
  <2>2. Cardinality(rg.got) \in Nat
    BY <2>1, MatchesFinite, FS_Subset, FS_CardinalityType
  <2>3. /\ rg' = NoRun /\ pc' = "fill" /\ killed' = killed
        /\ truncated' = (truncated \/ rg.truncated) /\ remaining' = remaining - Cardinality(rg.got)
    BY <1>9 DEF EndBatch
  <2>4. truncated' \in BOOLEAN /\ remaining' \in Int
    BY <1>2, <2>2, <2>3 DEF Collected
  <2>5. QED
    BY <1>2, <1>4, <2>3, <2>4 DEF RunOK, Collected
<1>10. CASE RankBatch
  BY <1>2, <1>4, <1>10 DEF RankBatch, RunOK, Collected
<1>11. CASE Unusable
  <2>1. UNCHANGED <<batch, truncated, killed, remaining>>
    BY <1>11 DEF Unusable
  <2>2. CASE pc' = "failed" /\ rg' = rg
    BY <1>2, <2>1, <2>2 DEF RunOK, Collected
  <2>3. CASE pc' = "batchrun" /\ rg' = [NoRun EXCEPT !.got = Matches(batch)]
    <3>1. rg' = [pending |-> {}, got |-> Matches(batch), max |-> NoLimit, truncated |-> FALSE]
      BY <2>3 DEF NoRun
    <3>2. rg' \in Collected
      BY <3>1, MatchesFinite DEF Collected, NoLimit
    <3>3. QED
      BY <1>2, <1>3, <2>1, <2>3, <3>1, <3>2 DEF RunOK, Collected
  <2>4. QED
    BY <1>11, <2>2, <2>3 DEF Unusable
<1>12. CASE NextPath \/ DropBlob \/ KeepBlob \/ Yield \/ Exhausted \/ Drained \/ Merge
  <2>1. rg' = rg /\ truncated' \in BOOLEAN /\ UNCHANGED <<killed, remaining>>
    BY <1>2, <1>12 DEF NextPath, DropBlob, KeepBlob, Yield, Exhausted, Drained, Merge
  <2>2. pc' \notin {"treerun", "batchrun"}
    BY <1>12 DEF NextPath, DropBlob, KeepBlob, Yield, Exhausted, Drained, Merge
  <2>3. QED
    BY <1>2, <2>1, <2>2 DEF RunOK, Collected
<1>13. CASE UNCHANGED scanVars
  <2>1. UNCHANGED <<rg, pc, batch, truncated, killed, remaining>>
    BY <1>13 DEF scanVars
  <2>2. QED
    BY <1>1, <1>3, <2>1 DEF RunOK
<1>14. QED
  BY <1>5, <1>6, <1>7, <1>8, <1>9, <1>10, <1>11, <1>12, <1>13 DEF ScanNext

\* The merge keeps the first matches of both halves, all of them if they fit.
LEMMA MergeKeeps ==
  ASSUME NEW S \in SUBSET (Nat \X Nat), IsFiniteSet(S), NEW k \in Nat
  PROVE  LET kept == Range(Top(InOrder(S), k))
         IN  kept \subseteq S /\ Cardinality(kept) <= k /\ (Cardinality(S) > k \/ kept = S)
<1> DEFINE F == First(S, ByLine(S), k)
           s == Top(InOrder(S), k)
           m == Cardinality(F)
<1>1. /\ IsFiniteSet(F) /\ Lists(s, F, ByLine(S))
      /\ m = IF Cardinality(S) < k THEN Cardinality(S) ELSE k
  BY LinesAreOrdered, TopLists DEF InOrder
<1>2. F \in SUBSET S /\ Cardinality(S) \in Nat /\ m \in Nat
  BY <1>1, FS_CardinalityType DEF First
<1> HIDE DEF F, s
<1>3. Range(s) = F
  BY <1>1 DEF Lists, Range
<1>4. m = Cardinality(S) => F = S
  BY <1>2, FS_Subset
<1>5. QED
  BY <1>1, <1>2, <1>3, <1>4 DEF s

LEMMA AllFinite ==
  ASSUME InputOK PROVE IsFiniteSet(All) /\ All \in SUBSET (Nat \X Nat) /\ TreeHalf \subseteq All
<1>1. IsFiniteSet(TreeHalf) /\ TreeHalf \in SUBSET (Nat \X Nat)
  BY ScanAssumption, FS_Subset DEF InputOK, TreeHalf
<1>2. All = TreeHalf \cup Matches(Eligible)
  BY DEF All, TreeHalf
<1>3. QED
  BY <1>1, <1>2, MatchesFinite, FS_Union

LEMMA GrepStep == ASSUME ScanInv, [ScanNext]_scanVars PROVE GrepOK'
<1> SUFFICES ASSUME kind = "grep" PROVE GrepOK'
  <2>1. kind' = kind
    BY FilesAlone
  <2>2. QED
    BY <2>1 DEF GrepOK
<1>1. /\ InputOK /\ PathsOK /\ RunOK /\ GrepOK
      /\ input' = input /\ kind' = "grep" /\ input.limit \in Nat
  BY FilesAlone DEF ScanInv, InputOK
<1>2. /\ out \subseteq All
      /\ pc \in {"fill", "batch", "batchrun"} /\ ~truncated => TreeHalf \cup Matches(Taken) \subseteq out
      /\ pc = "merge" /\ ~truncated => All \subseteq out
      /\ pc = "done" => Cardinality(out) <= input.limit /\ (truncated \/ out = All)
  BY <1>1 DEF GrepOK
<1>3. /\ All' = All /\ TreeHalf' = TreeHalf /\ TreeHalf \subseteq All
      /\ IF EndBatch \/ RankBatch THEN (Matches(Taken))' = Matches(Taken \cup batch)
         ELSE (Matches(Taken))' = Matches(Taken)
  <2>1. TreeHalf \subseteq All
    BY <1>1, AllFinite
  <2>2. IF EndBatch \/ RankBatch THEN Taken' = Taken \cup batch ELSE Taken' = Taken
    BY TakenStep
  <2>3. QED
    BY <1>1, <2>1, <2>2, SameInput
<1>4. /\ \A ps \in SUBSET Eligible : Matches(ps) \subseteq All
      /\ Matches(Taken \cup batch) = Matches(Taken) \cup Matches(batch)
  BY DEF Matches, All
<1> HIDE DEF All, TreeHalf, Matches, Taken
<1>5. CASE EndTree
  <2>1. rg.pending = {} /\ rg.got \subseteq TreeHalf /\ (rg.truncated \/ TreeHalf \subseteq rg.got)
    BY <1>1, <1>5 DEF EndTree, RunOK
  <2>2. out' = rg.got /\ truncated' = rg.truncated /\ pc' = "fill"
    BY <1>5 DEF EndTree
  <2>3. (Matches(Taken))' = {}
    <3>1. Taken = {} /\ pc = "treerun"
      BY <1>1, <1>5 DEF PathsOK, EndTree
    <3>2. (Matches(Taken))' = Matches(Taken)
      BY <1>3, <3>1 DEF EndBatch, RankBatch
    <3>3. QED
      BY <3>1, <3>2 DEF Matches
  <2>4. QED
    BY <1>1, <1>3, <2>1, <2>2, <2>3 DEF GrepOK
<1>6. CASE EndBatch
  <2>1. /\ rg.pending = {} /\ rg.got \subseteq Matches(batch) /\ batch \subseteq Eligible
        /\ rg.truncated \/ Matches(batch) \subseteq rg.got
    BY <1>1, <1>6 DEF EndBatch, RunOK, PathsOK
  <2>2. /\ pc = "batchrun" /\ out' = out \cup rg.got /\ pc' = "fill"
        /\ truncated' = (truncated \/ rg.truncated)
    BY <1>6 DEF EndBatch
  <2>3. QED
    BY <1>1, <1>2, <1>3, <1>4, <1>6, <2>1, <2>2 DEF GrepOK
<1>7. CASE Drained
  <2>1. /\ pc = "fill" /\ todo = <<>> /\ reading = NoPath /\ batch = {}
        /\ pc' = "merge" /\ UNCHANGED <<out, truncated>>
    BY <1>7 DEF Drained
  <2>2. Taken = Eligible
    BY <2>1 DEF Taken, Waiting, Range
  <2>3. All = TreeHalf \cup Matches(Taken)
    BY <2>2 DEF All, TreeHalf
  <2>4. QED
    BY <1>1, <1>2, <1>3, <2>1, <2>3 DEF GrepOK
<1>8. CASE Exhausted
  BY <1>1, <1>2, <1>3, <1>8 DEF Exhausted, GrepOK
<1>9. CASE Merge
  <2>1. /\ out' = Range(Top(InOrder(out), input.limit))
        /\ truncated' = (truncated \/ Cardinality(out) > input.limit)
        /\ pc = "merge" /\ pc' = "done"
    BY <1>1, <1>9 DEF Merge
  <2>2. IsFiniteSet(out) /\ out \in SUBSET (Nat \X Nat)
    BY <1>1, <1>2, AllFinite, FS_Subset
  <2>3. /\ out' \subseteq out /\ Cardinality(out') <= input.limit
        /\ Cardinality(out) > input.limit \/ out' = out
    BY <1>1, <2>1, <2>2, MergeKeeps
  <2>4. ~truncated' => out' = All
    BY <1>2, <2>1, <2>3
  <2>5. truncated' \in BOOLEAN
    BY <2>1, <1>1 DEF RunOK
  <2>6. (Cardinality(out))' = Cardinality(out')
    OBVIOUS
  <2>7. QED
    BY <1>1, <1>2, <1>3, <2>1, <2>3, <2>4, <2>5, <2>6 DEF GrepOK
<1>10. CASE NextPath \/ DropBlob \/ KeepBlob \/ Yield \/ StartTree \/ StartBatch \/ Unusable
  <2>1. UNCHANGED <<out, truncated>>
    BY <1>10 DEF NextPath, DropBlob, KeepBlob, Yield, StartTree, StartBatch, Unusable
  <2>2. /\ pc' \notin {"merge", "done"}
        /\ pc' \in {"fill", "batch", "batchrun"} => pc \in {"fill", "batch", "batchrun"}
    BY <1>1, <1>10 DEF NextPath, DropBlob, KeepBlob, Yield, StartTree, StartBatch, Unusable
  <2>3. ~(EndBatch \/ RankBatch)
    BY <1>10 DEF NextPath, DropBlob, KeepBlob, Yield, StartTree, StartBatch, Unusable, EndBatch, RankBatch
  <2>4. QED
    BY <1>1, <1>2, <1>3, <2>1, <2>2, <2>3 DEF GrepOK
<1>11. CASE Consume \/ Watchdog
  <2>1. UNCHANGED <<out, truncated, pc>> /\ ~(EndBatch \/ RankBatch)
    <3>1. UNCHANGED <<out, truncated, pc>> /\ Running
      BY <1>11 DEF Consume, Watchdog
    <3>2. EndBatch \/ RankBatch => pc' # pc
      BY DEF EndBatch, RankBatch
    <3>3. QED
      BY <3>1, <3>2
  <2>2. QED
    BY <1>1, <1>2, <1>3, <2>1 DEF GrepOK
<1>12. CASE UNCHANGED scanVars
  <2>1. UNCHANGED <<out, truncated, pc>>
    BY <1>12 DEF scanVars
  <2>2. EndBatch \/ RankBatch => pc' # pc
    BY DEF EndBatch, RankBatch
  <2>3. QED
    BY <1>1, <1>2, <1>3, <2>1, <2>2 DEF GrepOK
<1>13. CASE RankBatch
  BY <1>13 DEF RankBatch
<1>14. QED
  BY <1>5, <1>6, <1>7, <1>8, <1>9, <1>10, <1>11, <1>12, <1>13 DEF ScanNext

LEMMA RankStep == ASSUME ScanInv, [ScanNext]_scanVars PROVE RankOK'
<1> SUFFICES ASSUME kind = "rank", ~killed' PROVE RankOK'
  <2>1. kind' = kind
    BY FilesAlone
  <2>2. QED
    BY <2>1 DEF RankOK
<1>1. /\ InputOK /\ PathsOK /\ RunOK /\ RankOK /\ input' = input /\ kind' = "rank"
      /\ pc \notin {"tree", "treerun"} /\ input.limit \in Nat /\ Scored
  BY FilesAlone DEF ScanInv, InputOK
<1>2. ~killed
  BY DEF ScanNext, scanVars, NextPath, DropBlob, KeepBlob, Yield, StartTree, StartBatch, Consume,
         Watchdog, EndTree, EndBatch, Exhausted, Unusable, RankBatch, Drained, Merge
<1>3. /\ pc = "batchrun" => rg.max = NoLimit /\ ~rg.truncated
      /\ pc \in {"fill", "batch", "batchrun"} => ranked = Winners(Taken)
      /\ pc \in {"merge", "done"} => ranked = Winners(Eligible)
  BY <1>1, <1>2 DEF RankOK
<1>4. /\ (Winners(Eligible))' = Winners(Eligible)
      /\ IF EndBatch \/ RankBatch THEN (Winners(Taken))' = Winners(Taken \cup batch)
         ELSE (Winners(Taken))' = Winners(Taken)
  BY <1>1, TakenStep, SameInput
<1> HIDE DEF Winners, Taken
<1>5. CASE RankBatch
  <2>1. /\ rg.pending = {} /\ pc = "batchrun" /\ pc' = "fill"
        /\ ranked' = Top(Ranked(ranked \o LexicalSearch(rg.got)), input.limit)
    BY <1>5 DEF RankBatch
  <2>2. rg.got = Matches(batch)
    BY <1>1, <1>3, <2>1 DEF RunOK
  <2>3. Taken \cap batch = {}
    BY DEF Taken, Waiting
  <2>4. ranked' = Winners(Taken \cup batch)
    BY <1>1, <1>3, <2>1, <2>2, <2>3, WinnersOfMore
  <2>5. QED
    BY <1>1, <1>4, <1>5, <2>1, <2>4 DEF RankOK
<1>6. CASE Drained
  <2>1. /\ pc = "fill" /\ todo = <<>> /\ reading = NoPath /\ batch = {}
        /\ pc' = "merge" /\ ranked' = ranked
    BY <1>6 DEF Drained
  <2>2. Taken = Eligible
    BY <2>1 DEF Taken, Waiting, Range
  <2>3. QED
    BY <1>1, <1>3, <1>4, <2>1, <2>2 DEF RankOK
<1>7. CASE Consume
  <2>1. /\ rg'.max = rg.max /\ (rg'.truncated => Full)
    <3>1. rg \in Collected
      BY <1>1 DEF RunOK, Collected
    <3>2. ~Watchdog
      BY DEF Watchdog
    <3>3. QED
      BY <1>7, <3>1, <3>2, ConsumeOrKill
  <2>2. UNCHANGED <<pc, ranked>> /\ Running
    BY <1>7 DEF Consume
  <2>3. pc = "batchrun"
    BY <1>1, <2>2 DEF Running
  <2>4. ~(EndBatch \/ RankBatch)
    BY <2>2, <2>3 DEF EndBatch, RankBatch
  <2>5. QED
    BY <1>1, <1>3, <1>4, <2>1, <2>2, <2>3, <2>4 DEF RankOK, Full
<1>8. CASE NextPath \/ DropBlob \/ KeepBlob \/ Yield \/ StartBatch \/ Unusable
  <2>1. ranked' = ranked /\ ~(EndBatch \/ RankBatch)
    BY <1>8 DEF NextPath, DropBlob, KeepBlob, Yield, StartBatch, Unusable, EndBatch, RankBatch
  <2>2. /\ pc' \in {"fill", "batch", "batchrun"} /\ pc \in {"fill", "batch", "batchrun"}
        /\ pc' = "batchrun" => rg'.max = NoLimit /\ ~rg'.truncated
    BY <1>1, <1>8 DEF NextPath, DropBlob, KeepBlob, Yield, StartBatch, Unusable, StartRun, NoRun
  <2>3. QED
    BY <1>1, <1>3, <1>4, <2>1, <2>2 DEF RankOK
<1>9. CASE Merge
  <2>1. ranked' = ranked /\ pc = "merge" /\ pc' = "done"
    BY <1>9 DEF Merge
  <2>2. QED
    BY <1>1, <1>3, <1>4, <2>1 DEF RankOK
<1>10. CASE UNCHANGED scanVars
  <2>1. UNCHANGED <<rg, ranked, pc>>
    BY <1>10 DEF scanVars
  <2>2. EndBatch \/ RankBatch => pc' # pc
    BY DEF EndBatch, RankBatch
  <2>3. QED
    BY <1>1, <1>3, <1>4, <2>1, <2>2 DEF RankOK
<1>11. ~(StartTree \/ EndTree \/ EndBatch \/ Exhausted \/ Watchdog)
  BY <1>1 DEF StartTree, EndTree, EndBatch, Exhausted, Watchdog
<1>12. QED
  BY <1>5, <1>6, <1>7, <1>8, <1>9, <1>10, <1>11 DEF ScanNext

LEMMA ScanInitially == ASSUME ScanInit PROVE ScanInv
<1>1. /\ kind \in {"grep", "rank"} /\ (kind = "rank" => pc \notin {"tree", "treerun"})
      /\ input.size \in Sizes /\ input.score \in Scores /\ input.tree \in SUBSET TreeMatch
      /\ input.limit \in Limits /\ input.bytes \in Batches /\ input.order \in Orders
      /\ todo = input.order /\ reading = NoPath /\ batch = {} /\ rg = NoRun
      /\ remaining = input.limit /\ out = {} /\ ranked = <<>> /\ ~truncated /\ ~killed
      /\ truncated \in BOOLEAN /\ killed \in BOOLEAN
      /\ pc \in {"tree", "fill"} /\ (pc = "fill" => kind = "rank")
  BY DEF ScanInit, Inputs
<1>2. InputOK
  BY <1>1, ScanAssumption DEF InputOK, Scored, Match
<1>3. /\ todo \in Seq(Path) /\ \A i, j \in DOMAIN todo : todo[i] = todo[j] => i = j
      /\ Path \subseteq Range(todo)
  BY <1>1, ScanAssumption DEF Range
<1>4. Taken = {}
  BY <1>3 DEF Taken, Waiting, Eligible
<1>5. NoPath \notin Range(todo)
  BY <1>3, RangeIn, ScanAssumption
<1>6. PathsOK
  BY <1>1, <1>3, <1>4, <1>5 DEF PathsOK
<1>7. HeldOK
  <2>1. Held = 0
    BY <1>1, FS_EmptySet DEF Held, Bytes
  <2>2. QED
    BY <1>2, <2>1, ScanAssumption DEF HeldOK, InputOK
<1>8. RunOK
  BY <1>1, <1>2 DEF RunOK, NoRun, NoLimit, InputOK
<1>9. GrepOK
  BY <1>1 DEF GrepOK
<1>10. RankOK
  <2>1. Winners(Taken) = <<>>
    BY <1>2, <1>4, NoWinners DEF InputOK
  <2>2. QED
    BY <1>1, <2>1 DEF RankOK
<1>11. QED
  BY <1>2, <1>6, <1>7, <1>8, <1>9, <1>10 DEF ScanInv

\* The inductive invariant holds in every state of a scan.
THEOREM ScanInvariant == ScanSpec => []ScanInv
<1>1. ScanInit => ScanInv
  BY ScanInitially
<1>2. ScanInv /\ [ScanNext]_scanVars => ScanInv'
  BY InputStep, PathsStep, HeldStep, RunStep, GrepStep, RankStep DEF ScanInv
<1>3. QED
  BY <1>1, <1>2, PTL DEF ScanSpec

-----------------------------------------------------------------------------
\* A finished grep returns only matches, at most its limit of them, and all
\* of them unless it says that it was cut short (search_branch).
THEOREM GrepHonest == ScanSpec => []GrepIsHonest
<1>1. ScanInv => GrepIsHonest
  BY DEF ScanInv, GrepOK, GrepIsHonest
<1>2. QED
  BY <1>1, ScanInvariant, PTL

\* Ranking batch by batch gives the ranking of all the files at once, however
\* the files fall into batches and whatever the scores (_scan_diff_sync).
THEOREM BatchedRanking == ScanSpec => []BatchedRankingExact
<1>1. ScanInv => BatchedRankingExact
  <2>1. SUFFICES ASSUME ScanInv, kind = "rank", pc = "done", ~killed
                 PROVE  ranked = LexicalSearch(Matches(Eligible))
    BY DEF BatchedRankingExact
  <2>2. ranked = Winners(Eligible) /\ Scored
    BY <2>1 DEF ScanInv, RankOK, InputOK
  <2>3. Matches(Eligible) \in SUBSET Match
    BY DEF Matches
  <2>4. QED
    BY <2>2, <2>3, LexicalIsTop DEF Winners
<1>2. QED
  BY <1>1, ScanInvariant, PTL

\* The text a scan holds stays within a batch and a file (blob_batches).
THEOREM ScanBounded == ScanSpec => []ScanIsBounded
<1>1. ScanInv => ScanIsBounded
  <2>1. SUFFICES ASSUME ScanInv PROVE ScanIsBounded
    OBVIOUS
  <2>2. /\ batch \in SUBSET Path /\ input.size \in [Path -> Nat]
        /\ input.bytes \in Nat /\ FileCap \in Nat
    BY <2>1, ScanAssumption DEF ScanInv, InputOK, PathsOK, Eligible
  <2>3. Held \in Nat
    BY <2>2, TextOfBatch DEF Held
  <2>4. reading # NoPath /\ reported => input.size[reading] \in Nat /\ input.size[reading] <= FileCap
    BY <2>1, <2>2 DEF ScanInv, PathsOK
  <2>5. QED
    BY <2>1, <2>2, <2>3, <2>4 DEF ScanInv, HeldOK, ScanIsBounded
<1>2. QED
  BY <1>1, ScanInvariant, PTL

=============================================================================
