--------------------------- MODULE PageTextProofs ---------------------------
(***************************************************************************)
(* Proofs about PageText, for any detections in any number, whatever the   *)
(* size of the page, the scale and margins of the canvas and the limits of *)
(* the layout code, the depth of the cuts among them.                      *)
(*                                                                         *)
(* The steps of the page are few; what there is to prove is about the      *)
(* operators: rounding outwards covers (OnPageCovers), a gap that no       *)
(* region crosses separates what is above from what is below (NearSide),   *)
(* so that cutting there, to whatever depth, keeps the order (XyCutReads), *)
(* and tiles that advance by no more than their height leave no row out    *)
(* (CutUpCovers).  The library's theorems of induction take an operator    *)
(* as a parameter; here a set of numbers takes its place (AllNumbers).     *)
(***************************************************************************)
EXTENDS PageText, FiniteSetTheorems, FunctionTheorems, SequenceTheorems,
        WellFoundedInduction, TLAPS

----------------------------------------------------------------------------
(* Induction over numbers, as a fact about sets of numbers.                 *)

\* A set with 0 in it, and with each number the next one, has them all.
LEMMA AllNumbers ==
    ASSUME NEW T, 0 \in T, \A m \in Nat : m \in T => m + 1 \in T
    PROVE  Nat \subseteq T
<1>. DEFINE R == {p \in Nat \X Nat : p[1] < p[2]}
            U == Nat \ T
<1>1. IsWellFoundedOn(R, Nat)
    BY NatLessThanWellFounded, Zenon DEF OpToRel
<1>2. \A x, y \in Nat : <<x, y>> \in R <=> x < y
    OBVIOUS
<1>. SUFFICES ASSUME U # {} PROVE FALSE
    OBVIOUS
<1>3. U \subseteq Nat
    OBVIOUS
<1>. HIDE DEF R
<1>4. PICK x \in U : \A y \in U : ~ (<<y, x>> \in R)
    BY <1>1, <1>3, WFMin
<1>5. x \in Nat \ {0} /\ x - 1 \in Nat /\ x - 1 < x /\ (x - 1) + 1 = x
    BY <1>4
<1>6. x - 1 \notin U
    BY <1>2, <1>4, <1>5
<1>7. x \in T
    BY <1>5, <1>6
<1>. QED  BY <1>4, <1>7

----------------------------------------------------------------------------
(* Sorting: what Ordered() gives for a finite set and a total order on it.  *)

\* The set of pairs R is a strict total order on S.
Orders(R, S) ==
    /\ \A x \in S : <<x, x>> \notin R
    /\ \A x, y, z \in S : <<x, y>> \in R /\ <<y, z>> \in R => <<x, z>> \in R
    /\ \A x, y \in S : x # y => <<x, y>> \in R \/ <<y, x>> \in R

\* A greater element has more below it.
LEMMA RankGrows ==
    ASSUME NEW S, IsFiniteSet(S), NEW R, Orders(R, S), NEW x \in S
    PROVE  /\ Cardinality(Below(R, S, x)) \in 0..(Cardinality(S) - 1)
           /\ \A y \in S : <<x, y>> \in R =>
                 Cardinality(Below(R, S, x)) < Cardinality(Below(R, S, y))
<1>1. ASSUME NEW T, T \subseteq S, x \in T, Below(R, S, x) \subseteq T
      PROVE  /\ Cardinality(Below(R, S, x)) \in Nat /\ Cardinality(T) \in Nat
             /\ Cardinality(Below(R, S, x)) < Cardinality(T)
    <2>1. IsFiniteSet(T) /\ IsFiniteSet(Below(R, S, x))
        BY <1>1, FS_Subset
    <2>2. x \notin Below(R, S, x)
        BY DEF Below, Orders
    <2>3. /\ Cardinality(Below(R, S, x)) \in Nat /\ Cardinality(T) \in Nat
          /\ Cardinality(Below(R, S, x)) <= Cardinality(T)
        BY <1>1, <2>1, FS_Subset, FS_CardinalityType
    <2>4. Cardinality(Below(R, S, x)) # Cardinality(T)
        BY <1>1, <2>1, <2>2, FS_Subset
    <2>. QED  BY <2>3, <2>4
<1>2. Cardinality(Below(R, S, x)) \in 0..(Cardinality(S) - 1)
    <2>1. Below(R, S, x) \subseteq S
        BY DEF Below
    <2>. QED  BY <1>1, <2>1
<1>3. ASSUME NEW y \in S, <<x, y>> \in R
      PROVE  Cardinality(Below(R, S, x)) < Cardinality(Below(R, S, y))
    <2>1. /\ Below(R, S, y) \subseteq S /\ x \in Below(R, S, y)
          /\ Below(R, S, x) \subseteq Below(R, S, y)
        BY <1>3 DEF Below, Orders
    <2>. QED  BY <1>1, <2>1
<1>. QED  BY <1>2, <1>3

\* So every place is taken, by the pigeonhole principle.
LEMMA EveryRank ==
    ASSUME NEW S, IsFiniteSet(S), NEW R, Orders(R, S), NEW k \in 0..(Cardinality(S) - 1)
    PROVE  \E x \in S : Cardinality(Below(R, S, x)) = k
<1>. DEFINE n == Cardinality(S)
            rank == [x \in S |-> Cardinality(Below(R, S, x))]
<1>1. n \in Nat /\ k \in 0..(n - 1)
    BY FS_CardinalityType
<1>2. /\ rank \in [S -> 0..(n - 1)]
      /\ \A x, y \in S : <<x, y>> \in R => rank[x] < rank[y]
    BY RankGrows
<1>3. \A x \in S : rank[x] = Cardinality(Below(R, S, x))
    OBVIOUS
<1>. HIDE DEF rank, n
<1>4. IsFiniteSet(0..(n - 1)) /\ Cardinality(0..(n - 1)) = n
    BY <1>1, FS_Interval
<1>5. ASSUME NEW x \in S, NEW y \in S, rank[x] = rank[y] PROVE x = y
    <2>1. \A i \in 0..(n - 1) : ~ (i < i)
        OBVIOUS
    <2>2. <<x, y>> \notin R /\ <<y, x>> \notin R
        BY <1>2, <1>5, <2>1
    <2>. QED  BY <2>2 DEF Orders
<1>6. rank \in Injection(S, 0..(n - 1))
    BY <1>2, <1>5 DEF Injection, IsInjective
<1>7. rank \in Surjection(S, 0..(n - 1))
    BY <1>4, <1>6, FS_Injection DEF n
<1>8. PICK x \in S : rank[x] = k
    BY <1>1, <1>7 DEF Surjection
<1>. QED  BY <1>3, <1>8

\* s lists the elements of S, each once, in the order R.
Enumerates(s, S, R) ==
    /\ s \in [1..Cardinality(S) -> S]
    /\ \A k, m \in 1..Cardinality(S) : k < m => <<s[k], s[m]>> \in R
    /\ \A x \in S : \E k \in 1..Cardinality(S) : s[k] = x

\* A sequence that puts every element at its rank does.
LEMMA Enumeration ==
    ASSUME NEW S, IsFiniteSet(S), NEW R, Orders(R, S),
           NEW s \in [1..Cardinality(S) -> S],
           \A k \in 1..Cardinality(S) : Cardinality(Below(R, S, s[k])) = k - 1
    PROVE  Enumerates(s, S, R)
<1>1. Cardinality(S) \in Nat
    BY FS_CardinalityType
<1>2. ASSUME NEW k \in 1..Cardinality(S), NEW m \in 1..Cardinality(S), k < m
      PROVE  <<s[k], s[m]>> \in R
    <2>1. s[k] \in S /\ s[m] \in S
        OBVIOUS
    <2>2. Cardinality(Below(R, S, s[k])) = k - 1 /\ Cardinality(Below(R, S, s[m])) = m - 1
        OBVIOUS
    <2>3. s[k] # s[m]
        BY <1>1, <1>2, <2>2
    <2>4. <<s[m], s[k]>> \in R => m - 1 < k - 1
        BY <2>1, <2>2, RankGrows
    <2>. QED  BY <1>1, <1>2, <2>1, <2>3, <2>4 DEF Orders
<1>3. ASSUME NEW x \in S PROVE \E k \in 1..Cardinality(S) : s[k] = x
    <2>. DEFINE n == Cardinality(S)
                h == Cardinality(Below(R, S, x))
    <2>1. h \in 0..(n - 1) /\ n \in Nat
        BY <1>1, RankGrows
    <2>2. h + 1 \in 1..n /\ (h + 1) - 1 = h
        <3>. HIDE DEF n, h
        <3>. QED  BY <2>1
    <2>3. s[h + 1] \in S /\ Cardinality(Below(R, S, s[h + 1])) = h
        BY <2>2
    <2>4. ~ (h < h)
        <3>. HIDE DEF n, h
        <3>. QED  BY <2>1
    <2>5. <<s[h + 1], x>> \notin R /\ <<x, s[h + 1]>> \notin R
        BY <2>3, <2>4, RankGrows
    <2>6. s[h + 1] = x
        BY <2>3, <2>5 DEF Orders
    <2>. QED  BY <2>2, <2>6
<1>. QED  BY <1>2, <1>3 DEF Enumerates

\* That is what Ordered() does.
LEMMA OrderedEnumerates ==
    ASSUME NEW S, IsFiniteSet(S), NEW R, Orders(R, S)
    PROVE  Enumerates(Ordered(S, R), S, R)
<1>1. ASSUME NEW k \in 1..Cardinality(S)
      PROVE  \E x \in S : Cardinality(Below(R, S, x)) = k - 1
    <2>1. k - 1 \in 0..(Cardinality(S) - 1)
        BY FS_CardinalityType
    <2>. QED  BY <2>1, EveryRank
<1>2. Ordered(S, R) \in [1..Cardinality(S) -> S]
    BY <1>1 DEF Ordered
<1>3. \A k \in 1..Cardinality(S) : Cardinality(Below(R, S, Ordered(S, R)[k])) = k - 1
    BY <1>1 DEF Ordered
<1>. QED  BY <1>2, <1>3, Enumeration

\* Kept() leaves out the other positions and keeps the order.
LEMMA KeptPositions ==
    ASSUME NEW S, IsFiniteSet(S), S \subseteq Int
    PROVE  Enumerates(Ordered(S, Ascending(S)), S, Ascending(S))
<1>1. Orders(Ascending(S), S)
    BY DEF Orders, Ascending
<1>2. ASSUME NEW K, IsFiniteSet(K), Orders(Ascending(K), K)
      PROVE  Enumerates(Ordered(K, Ascending(K)), K, Ascending(K))
    BY <1>2, OrderedEnumerates
<1>. QED  BY <1>1, <1>2

\* There is an element that comes before the others.
LEMMA First ==
    ASSUME NEW K, IsFiniteSet(K), K # {}, NEW R, Orders(R, K)
    PROVE  \E x \in K : \A y \in K : <<y, x>> \notin R
<1>1. Cardinality(K) \in Nat /\ Cardinality(K) # 0
    BY FS_CardinalityType, FS_EmptySet
<1>2. 0 \in 0..(Cardinality(K) - 1)
    BY <1>1
<1>3. PICK x \in K : Cardinality(Below(R, K, x)) = 0
    BY <1>2, EveryRank
<1>4. Below(R, K, x) \subseteq K
    BY DEF Below
<1>5. Below(R, K, x) = {}
    BY <1>3, <1>4, FS_Subset, FS_EmptySet
<1>. QED  BY <1>5 DEF Below

\* A finite set of integers has a greatest and a least element.
LEMMA Extremes ==
    ASSUME NEW S \in SUBSET Int, IsFiniteSet(S), S # {}
    PROVE  /\ Max(S) \in S /\ \A y \in S : Max(S) >= y
           /\ Min(S) \in S /\ \A y \in S : Min(S) <= y
<1>. DEFINE Up == {p \in Int \X Int : p[1] < p[2]}
            Down == {p \in Int \X Int : p[1] > p[2]}
<1>1. /\ \A x, y \in Int : <<x, y>> \in Up <=> x < y
      /\ \A x, y \in Int : <<x, y>> \in Down <=> x > y
    OBVIOUS
<1>. HIDE DEF Up, Down
<1>2. Orders(Up, S) /\ Orders(Down, S)
    BY <1>1 DEF Orders
<1>3. \E x \in S : \A y \in S : x <= y
    <2>1. PICK x \in S : \A y \in S : <<y, x>> \notin Up
        BY <1>2, First
    <2>2. \A y \in S : x \in Int /\ y \in Int /\ ~ (y < x)
        BY <1>1, <2>1
    <2>. QED  BY <2>2
<1>4. \E x \in S : \A y \in S : x >= y
    <2>1. PICK x \in S : \A y \in S : <<y, x>> \notin Down
        BY <1>2, First
    <2>2. \A y \in S : x \in Int /\ y \in Int /\ ~ (y > x)
        BY <1>1, <2>1
    <2>. QED  BY <2>2
<1>. QED  BY <1>3, <1>4 DEF Max, Min

\* The pieces put one after another are a sequence of what is in the pieces, and of
\* all of it.
LEMMA Flattened ==
    ASSUME NEW S, NEW seqs \in Seq(Seq(S))
    PROVE  /\ FlattenSeq(seqs) \in Seq(S)
           /\ \A i \in 1..Len(seqs) : \A j \in DOMAIN seqs[i] :
                 \E k \in DOMAIN FlattenSeq(seqs) : FlattenSeq(seqs)[k] = seqs[i][j]
<1>. DEFINE n == Len(seqs)
            E(f, m) == f = [i \in 1..m |-> IF i = 1 THEN seqs[i] ELSE f[i-1] \o seqs[i]]
            T == {m \in Nat : \E f : E(f, m)}
<1>1. n \in Nat /\ \A i \in 1..n : seqs[i] \in Seq(S)
    OBVIOUS
<1>2. 0 \in T
    <2>. DEFINE f == [i \in 1..0 |-> seqs[i]]
    <2>1. E(f, 0)
        OBVIOUS
    <2>. QED  BY <2>1
<1>3. ASSUME NEW m \in Nat, m \in T PROVE m + 1 \in T
    <2>1. PICK f : E(f, m)
        BY <1>3
    <2>. DEFINE g == [i \in 1..(m + 1) |-> IF i = 1 THEN seqs[i] ELSE f[i-1] \o seqs[i]]
    <2>2. \A i \in 1..m : f[i] = IF i = 1 THEN seqs[i] ELSE f[i-1] \o seqs[i]
        BY <2>1
    <2>3. \A i \in 1..m : g[i] = f[i]
        BY <2>2
    <2>4. g = [i \in 1..(m + 1) |-> IF i = 1 THEN seqs[i] ELSE f[i-1] \o seqs[i]]
        OBVIOUS
    <2>. HIDE DEF g
    <2>5. \A i \in 1..(m + 1) : i # 1 => g[i-1] = f[i-1]
        BY <2>3
    <2>6. E(g, m + 1)
        BY <2>4, <2>5
    <2>. HIDE DEF E
    <2>. QED  BY <2>6
<1>4. \E f : E(f, n)
    BY <1>1, <1>2, <1>3, AllNumbers
<1>. DEFINE flatten[i \in 1..n] == IF i = 1 THEN seqs[i] ELSE flatten[i-1] \o seqs[i]
<1>5. flatten = [i \in 1..n |-> IF i = 1 THEN seqs[i] ELSE flatten[i-1] \o seqs[i]]
    BY <1>4
<1>6. FlattenSeq(seqs) = IF n = 0 THEN seqs ELSE flatten[n]
    BY DEF FlattenSeq
<1>. HIDE DEF flatten
<1>7. \A i \in 1..n : flatten[i] = IF i = 1 THEN seqs[i] ELSE flatten[i-1] \o seqs[i]
    BY <1>5
<1>. DEFINE G == {m \in Nat : m \in 1..n => flatten[m] \in Seq(S)}
<1>8. 0 \in G
    OBVIOUS
<1>9. ASSUME NEW m \in Nat, m \in G PROVE m + 1 \in G
    <2>. SUFFICES ASSUME m + 1 \in 1..n PROVE flatten[m + 1] \in Seq(S)
        OBVIOUS
    <2>1. seqs[m + 1] \in Seq(S)
        BY <1>1
    <2>2. CASE m = 0
        BY <1>7, <2>1, <2>2
    <2>3. CASE m # 0
        <3>1. m \in 1..n /\ flatten[m] \in Seq(S)
            BY <1>1, <1>9, <2>3
        <3>2. flatten[m + 1] = flatten[m] \o seqs[m + 1]
            <4>1. m + 1 # 1 /\ (m + 1) - 1 = m
                BY <2>3
            <4>. QED  BY <1>7, <4>1
        <3>. QED  BY <2>1, <3>1, <3>2, ConcatProperties
    <2>. QED  BY <2>2, <2>3
<1>10. Nat \subseteq G
    BY <1>8, <1>9, AllNumbers
<1>11. n # 0 => flatten[n] \in Seq(S)
    BY <1>1, <1>10
<1>12. n = 0 => seqs \in Seq(S)
    OBVIOUS
<1>. DEFINE Has(m, i) == \A j \in DOMAIN seqs[i] :
                            \E k \in DOMAIN flatten[m] : flatten[m][k] = seqs[i][j]
            A == {m \in Nat : m \in 1..n => \A i \in 1..m : Has(m, i)}
<1>13. 0 \in A
    OBVIOUS
<1>14. ASSUME NEW m \in Nat, m \in A PROVE m + 1 \in A
    <2>. SUFFICES ASSUME m + 1 \in 1..n, NEW i \in 1..(m + 1), NEW j \in DOMAIN seqs[i]
                  PROVE  \E k \in DOMAIN flatten[m + 1] : flatten[m + 1][k] = seqs[i][j]
        OBVIOUS
    <2>1. CASE m = 0
        <3>1. i = 1 /\ m + 1 = 1
            BY <2>1
        <3>. QED  BY <1>7, <3>1
    <2>2. CASE m # 0
        <3>1. m \in 1..n /\ m + 1 # 1 /\ (m + 1) - 1 = m
            BY <1>1, <2>2
        <3>. DEFINE s == flatten[m]
                    t == seqs[m + 1]
        <3>2. flatten[m + 1] = s \o t
            BY <1>7, <3>1
        <3>3. s \in Seq(S) /\ t \in Seq(S)
            BY <1>1, <1>10, <3>1
        <3>. HIDE DEF s, t
        <3>4. /\ DOMAIN s = 1..Len(s) /\ DOMAIN t = 1..Len(t)
              /\ Len(s) \in Nat /\ Len(t) \in Nat
            BY <3>3
        <3>5. /\ DOMAIN (s \o t) = 1..(Len(s) + Len(t))
              /\ \A k \in 1..(Len(s) + Len(t)) :
                    (s \o t)[k] = IF k <= Len(s) THEN s[k] ELSE t[k - Len(s)]
            BY <3>3, ConcatProperties
        <3>6. CASE i \in 1..m
            <4>1. PICK k \in DOMAIN s : s[k] = seqs[i][j]
                BY <1>14, <3>1, <3>6 DEF s
            <4>2. k \in DOMAIN (s \o t) /\ (s \o t)[k] = s[k]
                BY <3>4, <3>5
            <4>. QED  BY <3>2, <4>1, <4>2
        <3>7. CASE i = m + 1
            <4>1. j \in 1..Len(t) /\ seqs[i] = t
                BY <3>4, <3>7 DEF t
            <4>2. /\ Len(s) + j \in 1..(Len(s) + Len(t)) /\ ~ (Len(s) + j <= Len(s))
                  /\ (Len(s) + j) - Len(s) = j
                BY <3>4, <4>1
            <4>3. (s \o t)[Len(s) + j] = t[j]
                BY <3>5, <4>2
            <4>. QED  BY <3>2, <3>5, <4>1, <4>2, <4>3
        <3>. QED  BY <3>6, <3>7
    <2>. QED  BY <2>1, <2>2
<1>15. Nat \subseteq A
    <2>. HIDE DEF A
    <2>. QED  BY <1>13, <1>14, AllNumbers
<1>16. ASSUME NEW i \in 1..n, NEW j \in DOMAIN seqs[i]
       PROVE  n # 0 /\ \E k \in DOMAIN flatten[n] : flatten[n][k] = seqs[i][j]
    <2>1. n \in 1..n /\ n # 0 /\ i \in 1..n
        BY <1>1
    <2>2. \A h \in 1..n : Has(n, h)
        <3>1. n \in A
            <4>. HIDE DEF A
            <4>. QED  BY <1>1, <1>15
        <3>. HIDE DEF Has
        <3>. QED  BY <2>1, <3>1
    <2>3. Has(n, i)
        <3>. HIDE DEF Has
        <3>. QED  BY <2>2
    <2>. QED  BY <2>1, <2>3
<1>. QED  BY <1>6, <1>11, <1>12, <1>16

----------------------------------------------------------------------------
(* Places on the page, and the order in which one reads them.               *)

\* A proper part of the page.
Spot == {b \in Int \X Int \X Int \X Int : Inside(b)}

\* A region that shows one of n detections, or the whole page.
Region(n) == [box : Spot, src : 0..n]

\* One is above the other in the same column.
Above(a, b) == a[4] <= b[2] /\ a[1] < b[3] /\ b[1] < a[3]

\* s has each region of S once, and none after one that is below it.
Reads(s, S, rs) ==
    /\ s \in Seq(S)
    /\ \A k, m \in 1..Len(s) : k < m => s[k] # s[m] /\ ~Above(rs[s[m]].box, rs[s[k]].box)
    /\ \A i \in S : \E k \in 1..Len(s) : s[k] = i

\* The two edges of a box on either axis.
LEMMA Edges ==
    ASSUME NEW b \in Spot, NEW axis \in {1, 2}
    PROVE  /\ b[axis] \in 0..(Width + Height) /\ b[axis + 2] \in 0..(Width + Height)
           /\ b[axis] < b[axis + 2]
<1>1. /\ b[1] \in Int /\ b[2] \in Int /\ b[3] \in Int /\ b[4] \in Int
      /\ 0 <= b[1] /\ b[1] < b[3] /\ b[3] <= Width
      /\ 0 <= b[2] /\ b[2] < b[4] /\ b[4] <= Height
    BY DEF Spot, Inside
<1>2. Width \in Nat /\ Height \in Nat
    BY TextAssumption
<1>3. CASE axis = 1
    BY <1>1, <1>2, <1>3
<1>4. CASE axis = 2
    BY <1>1, <1>2, <1>4
<1>. QED  BY <1>3, <1>4

\* Sets of regions and of numbers up to a bound are finite.
LEMMA Finite ==
    ASSUME NEW n \in Nat
    PROVE  \A S : S \subseteq 0..n => IsFiniteSet(S)
<1>1. IsFiniteSet(0..n)
    BY FS_Interval
<1>. QED  BY <1>1, FS_Subset

\* sorted() from the top down never goes back up.
LEMMA TopDownReads ==
    ASSUME NEW n \in Nat, NEW c, NEW rs \in [1..n -> Region(c)], NEW S \in SUBSET (1..n)
    PROVE  Reads(TopDown(rs, S), S, rs)
<1>. DEFINE R == {p \in S \X S :
                    LET a == rs[p[1]].box  b == rs[p[2]].box IN
                    \/ a[2] < b[2]
                    \/ a[2] = b[2] /\ a[1] < b[1]
                    \/ a[2] = b[2] /\ a[1] = b[1] /\ p[1] < p[2]}
            x(i) == rs[i].box[1]
            y(i) == rs[i].box[2]
            s == TopDown(rs, S)
            size == Cardinality(S)
<1>1. \A i, j \in S : <<i, j>> \in R <=> \/ y(i) < y(j)
                                         \/ y(i) = y(j) /\ x(i) < x(j)
                                         \/ y(i) = y(j) /\ x(i) = x(j) /\ i < j
    OBVIOUS
<1>2. \A i \in S : rs[i].box \in Spot /\ i \in Int
    BY DEF Region
<1>3. \A i \in S : x(i) \in Int /\ y(i) \in Int /\ i \in Int /\ y(i) < rs[i].box[4]
    BY <1>2 DEF Spot, Inside
<1>4. IsFiniteSet(S) /\ size \in Nat
    <2>1. S \subseteq 0..n
        OBVIOUS
    <2>2. IsFiniteSet(S)
        BY <2>1, Finite
    <2>. QED  BY <2>2, FS_CardinalityType
<1>5. s = Ordered(S, R)
    BY DEF TopDown
<1>. HIDE DEF R, x, y, s, size
<1>6. Orders(R, S)
    <2>1. \A i \in S : <<i, i>> \notin R
        BY <1>1, <1>3
    <2>2. \A i, j, k \in S : <<i, j>> \in R /\ <<j, k>> \in R => <<i, k>> \in R
        BY <1>1, <1>3
    <2>3. \A i, j \in S : i # j => <<i, j>> \in R \/ <<j, i>> \in R
        BY <1>1, <1>3
    <2>. QED  BY <2>1, <2>2, <2>3 DEF Orders
<1>7. Enumerates(s, S, R)
    BY <1>4, <1>5, <1>6, OrderedEnumerates
<1>8. /\ s \in [1..size -> S]
      /\ \A k, m \in 1..size : k < m => <<s[k], s[m]>> \in R
      /\ \A i \in S : \E k \in 1..size : s[k] = i
    BY <1>7 DEF Enumerates, size
<1>9. s \in Seq(S) /\ Len(s) = size
    BY <1>4, <1>8
<1>10. ASSUME NEW k \in 1..size, NEW m \in 1..size, k < m
       PROVE  s[k] # s[m] /\ ~Above(rs[s[m]].box, rs[s[k]].box)
    <2>. DEFINE i == s[k]
                j == s[m]
    <2>1. i \in S /\ j \in S /\ <<i, j>> \in R
        BY <1>8, <1>10
    <2>. HIDE DEF i, j
    <2>2. <<i, i>> \notin R
        BY <1>6, <2>1 DEF Orders
    <2>3. i # j
        BY <2>1, <2>2
    <2>4. y(i) <= y(j) /\ y(i) \in Int /\ y(j) \in Int /\ y(j) < rs[j].box[4]
        BY <1>1, <1>3, <2>1
    <2>5. rs[j].box[4] \in Int
        BY <1>2, <2>1 DEF Spot
    <2>6. ~ (rs[j].box[4] <= y(i))
        BY <2>4, <2>5
    <2>. QED  BY <2>3, <2>6 DEF Above, i, j, y
<1>. QED  BY <1>8, <1>9, <1>10 DEF Reads, s

\* So does one half of the regions followed by the other, if no region of the second
\* is above one of the first.
LEMMA OneAfterTheOther ==
    ASSUME NEW rs, NEW A, NEW B, A \cap B = {},
           NEW s, Reads(s, A, rs), NEW t, Reads(t, B, rs),
           \A a \in A, b \in B : ~Above(rs[b].box, rs[a].box)
    PROVE  Reads(s \o t, A \cup B, rs)
<1>. DEFINE u == s \o t
            l == Len(s)
            r == Len(t)
<1>1. s \in Seq(A) /\ t \in Seq(B) /\ s \in Seq(A \cup B) /\ t \in Seq(A \cup B)
    BY DEF Reads
<1>2. /\ u \in Seq(A \cup B) /\ Len(u) = l + r /\ l \in Nat /\ r \in Nat
      /\ \A k \in 1..(l + r) : u[k] = IF k <= l THEN s[k] ELSE t[k - l]
    BY <1>1, ConcatProperties
<1>3. /\ \A k \in 1..l : s[k] \in A
      /\ \A k \in 1..r : t[k] \in B
    BY <1>1
<1>. HIDE DEF u, l, r
<1>4. ASSUME NEW k \in 1..(l + r), NEW m \in 1..(l + r), k < m
      PROVE  u[k] # u[m] /\ ~Above(rs[u[m]].box, rs[u[k]].box)
    <2>1. CASE m <= l
        <3>1. k \in 1..l /\ m \in 1..l /\ u[k] = s[k] /\ u[m] = s[m]
            BY <1>2, <1>4, <2>1
        <3>. QED  BY <1>4, <3>1 DEF Reads, l
    <2>2. CASE k <= l /\ l < m
        <3>1. k \in 1..l /\ m - l \in 1..r /\ u[k] = s[k] /\ u[m] = t[m - l]
            BY <1>2, <1>4, <2>2
        <3>2. u[k] \in A /\ u[m] \in B
            BY <1>3, <3>1
        <3>. QED  BY <3>2
    <2>3. CASE l < k
        <3>1. /\ k - l \in 1..r /\ m - l \in 1..r /\ k - l < m - l
              /\ u[k] = t[k - l] /\ u[m] = t[m - l]
            BY <1>2, <1>4, <2>3
        <3>2. \A i, j \in 1..r : i < j => t[i] # t[j] /\ ~Above(rs[t[j]].box, rs[t[i]].box)
            BY DEF Reads, r
        <3>3. t[k - l] # t[m - l] /\ ~Above(rs[t[m - l]].box, rs[t[k - l]].box)
            BY <3>1, <3>2
        <3>. QED  BY <3>1, <3>3
    <2>. QED  BY <1>2, <1>4, <2>1, <2>2, <2>3
<1>5. ASSUME NEW i \in A \cup B PROVE \E k \in 1..(l + r) : u[k] = i
    <2>1. CASE i \in A
        <3>1. PICK k \in 1..l : s[k] = i
            BY <2>1 DEF Reads, l
        <3>2. k \in 1..(l + r) /\ u[k] = s[k]
            BY <1>2
        <3>. QED  BY <3>1, <3>2
    <2>2. CASE i \in B
        <3>1. PICK k \in 1..r : t[k] = i
            BY <2>2 DEF Reads, r
        <3>2. k + l \in 1..(l + r) /\ ~ (k + l <= l) /\ (k + l) - l = k
            BY <1>2
        <3>3. u[k + l] = t[k]
            BY <1>2, <3>2
        <3>. QED  BY <3>1, <3>2, <3>3
    <2>. QED  BY <2>1, <2>2
<1>. QED  BY <1>2, <1>4, <1>5 DEF Reads, u

----------------------------------------------------------------------------
(* Cutting the page in its widest gap.                                      *)

\* What a gap separates: no region reaches into it.
LEMMA GapBetween ==
    ASSUME NEW n \in Nat, NEW c, NEW rs \in [1..n -> Region(c)], NEW S \in SUBSET (1..n),
           NEW axis \in {1, 2}, NEW g \in Gaps(rs, S, axis)
    PROVE  /\ g.axis = axis /\ g.from \in Int /\ g.to \in Int /\ g.from < g.to
           /\ \A i \in S : rs[i].box[axis] < g.to => rs[i].box[axis + 2] <= g.from
<1>. DEFINE start(i) == rs[i].box[axis]
            end(i) == rs[i].box[axis + 2]
            Starts == {start(i) : i \in S}
            Ends(s) == {end(i) : i \in {k \in S : start(k) < s}}
            reach(s) == Max(Ends(s))
            least == Min(Starts)
            M == Width + Height
<1>1. M \in Nat /\ 0..M \subseteq Int
    BY TextAssumption
<1>2. \A i \in S : start(i) \in 0..M /\ end(i) \in 0..M /\ start(i) < end(i)
    <2>1. \A i \in S : rs[i].box \in Spot
        BY DEF Region
    <2>. QED  BY <2>1, Edges
<1>3. PICK s \in Starts \ {least} : g = [axis |-> axis, from |-> reach(s), to |-> s] /\ reach(s) < s
    BY DEF Gaps
<1>4. g.axis = axis /\ g.from = reach(s) /\ g.to = s /\ s \in Starts
    BY <1>3
<1>5. /\ \A i \in S : start(i) \in Starts
      /\ \A t \in Starts : \E i \in S : start(i) = t
      /\ \A t : \A i \in S : start(i) < t => end(i) \in Ends(t)
      /\ \A t : \A e \in Ends(t) : \E i \in S : e = end(i)
    OBVIOUS
<1>. HIDE DEF start, end, Starts, Ends, M
<1>6. Starts \subseteq 0..M /\ Starts \subseteq Int /\ Ends(s) \subseteq 0..M /\ Ends(s) \subseteq Int
    BY <1>1, <1>2, <1>5
<1>7. IsFiniteSet(Starts) /\ IsFiniteSet(Ends(s))
    BY <1>1, <1>6, Finite
<1>8. least \in Starts /\ \A t \in Starts : least <= t
    BY <1>4, <1>6, <1>7, Extremes
<1>9. least < s /\ s \in Int
    <2>1. s \in Starts /\ s # least /\ s \in Int /\ least \in Int
        BY <1>3, <1>6, <1>8
    <2>2. least <= s
        BY <1>8, <2>1
    <2>. QED  BY <2>1, <2>2
<1>10. Ends(s) # {}
    <2>1. PICK i \in S : start(i) = least
        BY <1>5, <1>8
    <2>. QED  BY <1>5, <1>9, <2>1
<1>11. reach(s) \in Ends(s) /\ \A e \in Ends(s) : e <= reach(s)
    <2>1. Max(Ends(s)) \in Ends(s) /\ \A e \in Ends(s) : Max(Ends(s)) >= e
        BY <1>6, <1>7, <1>10, Extremes
    <2>2. \A e \in Ends(s) : e \in Int
        BY <1>6
    <2>. QED  BY <2>1, <2>2
<1>12. reach(s) \in Int /\ \A i \in S : start(i) < s => end(i) <= reach(s)
    BY <1>5, <1>6, <1>11
<1>. QED  BY <1>3, <1>4, <1>9, <1>12 DEF start, end

\* There are finitely many gaps.
LEMMA GapsFinite ==
    ASSUME NEW n \in Nat, NEW c, NEW rs \in [1..n -> Region(c)], NEW S \in SUBSET (1..n),
           NEW axis \in {1, 2}
    PROVE  IsFiniteSet(Gaps(rs, S, axis))
<1>. DEFINE start(i) == rs[i].box[axis]
            reach(s) == Max({rs[i].box[axis + 2] : i \in {k \in S : start(k) < s}})
            least == Min({start(i) : i \in S})
            V == {t \in {start(i) : i \in S} \ {least} : reach(t) < t}
            f == [s \in V |-> [axis |-> axis, from |-> reach(s), to |-> s]]
<1>1. Width + Height \in Nat
    BY TextAssumption
<1>2. \A i \in S : start(i) \in 0..(Width + Height)
    <2>1. \A i \in S : rs[i].box \in Spot
        BY DEF Region
    <2>. QED  BY <2>1, Edges
<1>3. V \subseteq 0..(Width + Height)
    BY <1>2
<1>4. Gaps(rs, S, axis) = {f[s] : s \in V}
    BY DEF Gaps
<1>. HIDE DEF V
<1>5. f \in Surjection(V, {f[s] : s \in V})
    BY DEF Surjection
<1>6. IsFiniteSet(V)
    BY <1>1, <1>3, Finite
<1>. HIDE DEF f
<1>. QED  BY <1>4, <1>5, <1>6, FS_Surjection

\* So one of them is preferred to the others.
LEMMA BestGap ==
    ASSUME NEW G \in SUBSET [axis : Int, from : Int, to : Int], IsFiniteSet(G), G # {}
    PROVE  \E g \in G : \A h \in G : Preferred(g, h)
<1>. DEFINE R == {p \in G \X G : ~Preferred(p[2], p[1])}
<1>1. \A g, h \in G : <<g, h>> \in R <=> ~Preferred(h, g)
    OBVIOUS
<1>. HIDE DEF R
<1>2. \A g \in G : /\ g.axis \in Int /\ g.from \in Int /\ g.to \in Int
                   /\ g = [axis |-> g.axis, from |-> g.from, to |-> g.to]
    OBVIOUS
<1>3. Orders(R, G)
    <2>1. \A g \in G : Preferred(g, g)
        BY <1>2 DEF Preferred
    <2>2. \A g, h, k \in G : ~Preferred(h, g) /\ ~Preferred(k, h) => ~Preferred(k, g)
        BY <1>2 DEF Preferred
    <2>3. ASSUME NEW g \in G, NEW h \in G, Preferred(g, h), Preferred(h, g) PROVE g = h
        <3>1. g.axis = h.axis /\ g.to = h.to /\ g.from = h.from
            BY <1>2, <2>3 DEF Preferred
        <3>. QED  BY <1>2, <3>1
    <2>. QED  BY <1>1, <2>1, <2>2, <2>3 DEF Orders
<1>4. PICK g \in G : \A h \in G : <<h, g>> \notin R
    BY <1>3, First
<1>. QED  BY <1>1, <1>4

\* The near side of the widest gap, and what is beyond: nothing beyond is above
\* anything on the near side.
LEMMA NearSide ==
    ASSUME NEW n \in Nat, NEW c, NEW rs \in [1..n -> Region(c)], NEW S \in SUBSET (1..n)
    PROVE  /\ Near(rs, S) \subseteq S
           /\ \A a \in Near(rs, S), b \in S \ Near(rs, S) : ~Above(rs[b].box, rs[a].box)
<1>. DEFINE G == IF S = {} THEN {} ELSE
                 {g \in Gaps(rs, S, 1) \cup Gaps(rs, S, 2) : g.to - g.from >= MinGap}
            best == CHOOSE g \in G : \A h \in G : Preferred(g, h)
            near == Near(rs, S)
<1>1. /\ near = {i \in S : G # {} /\ rs[i].box[best.axis] + rs[i].box[best.axis + 2] < best.from + best.to}
    BY DEF Near
<1>2. G \subseteq Gaps(rs, S, 1) \cup Gaps(rs, S, 2)
    OBVIOUS
<1>. HIDE DEF G, near
<1>3. CASE G = {}
    <2>1. near = {}
        BY <1>1, <1>3
    <2>. QED  BY <2>1 DEF near
<1>4. CASE G # {}
    <2>1. G \subseteq [axis : Int, from : Int, to : Int]
        <3>1. ASSUME NEW axis \in {1, 2}, NEW g \in Gaps(rs, S, axis)
              PROVE  g \in [axis : Int, from : Int, to : Int]
            <4>1. g.axis = axis /\ g.from \in Int /\ g.to \in Int
                BY GapBetween
            <4>2. PICK u, v : g = [axis |-> axis, from |-> u, to |-> v]
                BY DEF Gaps
            <4>. QED  BY <4>1, <4>2
        <3>. QED  BY <1>2, <3>1
    <2>2. IsFiniteSet(G)
        <3>1. IsFiniteSet(Gaps(rs, S, 1)) /\ IsFiniteSet(Gaps(rs, S, 2))
            BY GapsFinite
        <3>2. IsFiniteSet(Gaps(rs, S, 1) \cup Gaps(rs, S, 2))
            BY <3>1, FS_Union
        <3>. QED  BY <1>2, <3>2, FS_Subset
    <2>3. best \in G
        BY <1>4, <2>1, <2>2, BestGap
    <2>. DEFINE axis == best.axis
    <2>4. PICK ax \in {1, 2} : best \in Gaps(rs, S, ax)
        BY <1>2, <2>3
    <2>. HIDE DEF best
    <2>5. /\ axis = ax /\ best.from \in Int /\ best.to \in Int /\ best.from < best.to
          /\ \A i \in S : rs[i].box[ax] < best.to => rs[i].box[ax + 2] <= best.from
        BY <2>4, GapBetween
    <2>6. \A i \in S : rs[i].box \in Spot
        BY DEF Region
    <2>7. \A i \in S : /\ rs[i].box[ax] \in Int /\ rs[i].box[ax + 2] \in Int
                       /\ rs[i].box[ax] < rs[i].box[ax + 2]
        <3>1. ASSUME NEW b \in Spot
              PROVE  b[ax] \in Int /\ b[ax + 2] \in Int /\ b[ax] < b[ax + 2]
            BY Edges
        <3>. QED  BY <2>6, <3>1
    <2>8. \A i \in S : i \in near <=> rs[i].box[ax] + rs[i].box[ax + 2] < best.from + best.to
        BY <1>1, <1>4, <2>5
    <2>9. \A i \in S : /\ i \in near => rs[i].box[ax + 2] <= best.from
                       /\ i \notin near => best.to <= rs[i].box[ax]
        <3>. DEFINE start(i) == rs[i].box[ax]
                    end(i) == rs[i].box[ax + 2]
                    u == best.from
                    v == best.to
        <3>1. /\ u \in Int /\ v \in Int /\ u < v
              /\ \A i \in S : start(i) < v => end(i) <= u
              /\ \A i \in S : start(i) \in Int /\ end(i) \in Int /\ start(i) < end(i)
              /\ \A i \in S : i \in near <=> start(i) + end(i) < u + v
            BY <2>5, <2>7, <2>8
        <3>. HIDE DEF start, end, u, v
        <3>2. \A i \in S : (i \in near => end(i) <= u) /\ (i \notin near => v <= start(i))
            BY <3>1
        <3>. QED  BY <3>2 DEF start, end, u, v
    <2>10. near \subseteq S
        BY <1>1
    <2>11. ASSUME NEW a \in near, NEW b \in S \ near PROVE ~Above(rs[b].box, rs[a].box)
        <3>1. rs[a].box[ax] < rs[a].box[ax + 2] /\ rs[a].box[ax + 2] < rs[b].box[ax]
              /\ rs[b].box[ax] < rs[b].box[ax + 2]
            <4>. DEFINE start(i) == rs[i].box[ax]
                        end(i) == rs[i].box[ax + 2]
                        u == best.from
                        v == best.to
            <4>1. /\ u \in Int /\ v \in Int /\ u < v
                  /\ \A i \in S : start(i) \in Int /\ end(i) \in Int /\ start(i) < end(i)
                  /\ end(a) <= u /\ v <= start(b) /\ a \in S /\ b \in S
                BY <2>5, <2>7, <2>9, <2>10
            <4>. HIDE DEF start, end, u, v
            <4>2. start(a) < end(a) /\ end(a) < start(b) /\ start(b) < end(b)
                BY <4>1
            <4>. QED  BY <4>2 DEF start, end
        <3>2. /\ rs[a].box[ax] \in Int /\ rs[a].box[ax + 2] \in Int
              /\ rs[b].box[ax] \in Int /\ rs[b].box[ax + 2] \in Int
            BY <2>7, <2>10
        <3>3. CASE ax = 1
            BY <3>1, <3>2, <3>3 DEF Above
        <3>4. CASE ax = 2
            BY <3>1, <3>2, <3>4 DEF Above
        <3>. QED  BY <3>3, <3>4
    <2>. QED  BY <2>10, <2>11 DEF near
<1>. QED  BY <1>3, <1>4 DEF near

\* _xy_cut() reads every region once, and none after one that is below it, however
\* deep it goes.
LEMMA XyCutReads ==
    ASSUME NEW n \in Nat, NEW c, NEW rs \in [1..n -> Region(c)]
    PROVE  \E s : XyCut(rs) = Picked(rs, s) /\ Reads(s, 1..n, rs)
<1>. DEFINE D == DOMAIN rs
            Body(f, d, S) == IF d = 0 \/ Near(rs, S) \in {{}, S} THEN TopDown(rs, S)
                             ELSE f[d - 1][Near(rs, S)] \o f[d - 1][S \ Near(rs, S)]
            E(f, m) == f = [d \in 0..m |-> [S \in SUBSET D |-> Body(f, d, S)]]
            T == {m \in Nat : \E f : E(f, m)}
<1>1. D = 1..n /\ MaxDepth \in Nat
    BY TextAssumption
<1>2. \A S \in SUBSET D : Near(rs, S) \in SUBSET D /\ S \ Near(rs, S) \in SUBSET D
    BY <1>1, NearSide
<1>. HIDE DEF D
<1>3. 0 \in T
    <2>. DEFINE f == [d \in 0..0 |-> [S \in SUBSET D |-> TopDown(rs, S)]]
    <2>1. \A d \in 0..0, S \in SUBSET D : Body(f, d, S) = TopDown(rs, S)
        OBVIOUS
    <2>2. f = [d \in 0..0 |-> [S \in SUBSET D |-> TopDown(rs, S)]]
        OBVIOUS
    <2>. HIDE DEF f, Body
    <2>3. E(f, 0)
        BY <2>1, <2>2
    <2>. HIDE DEF E
    <2>. QED  BY <2>3
<1>4. ASSUME NEW m \in Nat, m \in T PROVE m + 1 \in T
    <2>1. PICK f : E(f, m)
        <3>. HIDE DEF E
        <3>. QED  BY <1>4
    <2>. DEFINE g == [d \in 0..(m + 1) |-> [S \in SUBSET D |-> Body(f, d, S)]]
    <2>. HIDE DEF Body
    <2>2. \A d \in 0..m, S \in SUBSET D : f[d][S] = Body(f, d, S)
        <3>. DEFINE h == [d \in 0..m |-> [S \in SUBSET D |-> Body(f, d, S)]]
        <3>1. \A d \in 0..m, S \in SUBSET D : h[d][S] = Body(f, d, S)
            OBVIOUS
        <3>2. f = h
            BY <2>1
        <3>. HIDE DEF h
        <3>. QED  BY <3>1, <3>2
    <2>3. \A d \in 0..m, S \in SUBSET D : g[d][S] = f[d][S]
        BY <2>2
    <2>4. g = [d \in 0..(m + 1) |-> [S \in SUBSET D |-> Body(f, d, S)]]
        OBVIOUS
    <2>. HIDE DEF g
    <2>5. \A d \in 0..(m + 1), S \in SUBSET D : Body(f, d, S) = Body(g, d, S)
        <3>. SUFFICES ASSUME NEW d \in 0..(m + 1), NEW S \in SUBSET D, d # 0
                      PROVE  /\ f[d - 1][Near(rs, S)] = g[d - 1][Near(rs, S)]
                             /\ f[d - 1][S \ Near(rs, S)] = g[d - 1][S \ Near(rs, S)]
            BY DEF Body
        <3>1. d - 1 \in 0..m
            OBVIOUS
        <3>. QED  BY <1>2, <2>3, <3>1
    <2>6. E(g, m + 1)
        BY <2>4, <2>5
    <2>. HIDE DEF E
    <2>. QED  BY <2>6
<1>5. \E f : E(f, MaxDepth)
    <2>. HIDE DEF E
    <2>. QED  BY <1>1, <1>3, <1>4, AllNumbers
<1>. DEFINE cut[d \in 0..MaxDepth] == [S \in SUBSET DOMAIN rs |->
                LET near == Near(rs, S)
                IN  IF d = 0 \/ near \in {{}, S} THEN TopDown(rs, S)
                    ELSE cut[d - 1][near] \o cut[d - 1][S \ near]]
<1>6. cut = [d \in 0..MaxDepth |-> [S \in SUBSET D |-> Body(cut, d, S)]]
    BY <1>5 DEF D
<1>7. XyCut(rs) = Picked(rs, cut[MaxDepth][D])
    BY DEF XyCut, D
<1>. HIDE DEF cut
<1>. HIDE DEF Body
<1>8. \A d \in 0..MaxDepth, S \in SUBSET D : cut[d][S] = Body(cut, d, S)
    <2>. DEFINE h == [d \in 0..MaxDepth |-> [S \in SUBSET D |-> Body(cut, d, S)]]
    <2>1. \A d \in 0..MaxDepth, S \in SUBSET D : h[d][S] = Body(cut, d, S)
        OBVIOUS
    <2>2. cut = h
        BY <1>6
    <2>. HIDE DEF h
    <2>. QED  BY <2>1, <2>2
<1>. DEFINE Good == {d \in Nat : d <= MaxDepth => \A S \in SUBSET D : Reads(cut[d][S], S, rs)}
<1>9. 0 \in Good
    <2>. SUFFICES ASSUME NEW S \in SUBSET D PROVE Reads(cut[0][S], S, rs)
        OBVIOUS
    <2>1. 0 \in 0..MaxDepth
        BY <1>1
    <2>2. cut[0][S] = TopDown(rs, S)
        BY <1>8, <2>1 DEF Body
    <2>. QED  BY <1>1, <2>2, TopDownReads
<1>10. ASSUME NEW m \in Nat, m \in Good PROVE m + 1 \in Good
    <2>. SUFFICES ASSUME m + 1 <= MaxDepth, NEW S \in SUBSET D
                  PROVE  Reads(cut[m + 1][S], S, rs)
        OBVIOUS
    <2>1. m + 1 \in 0..MaxDepth /\ (m + 1) - 1 = m /\ m <= MaxDepth /\ m + 1 # 0
        BY <1>1
    <2>. DEFINE near == Near(rs, S)
    <2>2. cut[m + 1][S] = IF near \in {{}, S} THEN TopDown(rs, S)
                          ELSE cut[m][near] \o cut[m][S \ near]
        BY <1>8, <2>1 DEF Body
    <2>3. near \in SUBSET D /\ S \ near \in SUBSET D
        BY <1>2
    <2>4. near \subseteq S /\ \A a \in near, b \in S \ near : ~Above(rs[b].box, rs[a].box)
        BY <1>1, NearSide
    <2>. HIDE DEF near
    <2>5. Reads(cut[m][near], near, rs) /\ Reads(cut[m][S \ near], S \ near, rs)
        BY <1>10, <2>1, <2>3
    <2>6. Reads(cut[m][near] \o cut[m][S \ near], near \cup (S \ near), rs)
        BY <2>4, <2>5, OneAfterTheOther
    <2>7. near \cup (S \ near) = S
        BY <2>4
    <2>8. Reads(TopDown(rs, S), S, rs)
        BY <1>1, TopDownReads
    <2>. QED  BY <2>2, <2>6, <2>7, <2>8
<1>11. Nat \subseteq Good
    <2>. HIDE DEF Good
    <2>. QED  BY <1>9, <1>10, AllNumbers
<1>12. Reads(cut[MaxDepth][D], D, rs)
    BY <1>1, <1>11
<1>. QED  BY <1>1, <1>7, <1>12

----------------------------------------------------------------------------
(* From the canvas of the layout model to the page.                         *)

\* What the layout model reports.
Detection == [box : Boxes, kind : {"text", "figure", "unsure"}, src : Nat]

\* Max() and Min() of two numbers.
LEMMA TwoNumbers ==
    ASSUME NEW a \in Int, NEW b \in Int
    PROVE  /\ Max({a, b}) = IF a >= b THEN a ELSE b
           /\ Min({a, b}) = IF a <= b THEN a ELSE b
<1>1. IsFiniteSet({a, b}) /\ {a, b} \in SUBSET Int /\ {a, b} # {}
    <2>1. IsFiniteSet({a}) /\ IsFiniteSet({b})
        BY FS_Singleton
    <2>2. IsFiniteSet({a} \cup {b})
        BY <2>1, FS_Union
    <2>3. {a, b} = {a} \cup {b}
        OBVIOUS
    <2>. QED  BY <2>2, <2>3
<1>2. /\ Max({a, b}) \in {a, b} /\ Max({a, b}) >= a /\ Max({a, b}) >= b
      /\ Min({a, b}) \in {a, b} /\ Min({a, b}) <= a /\ Min({a, b}) <= b
    BY <1>1, Extremes
<1>. QED  BY <1>2

\* Rounding down and up.
LEMMA Rounding ==
    ASSUME NEW n \in Int
    PROVE  /\ n \div Scale \in Int /\ Scale * (n \div Scale) <= n
           /\ Ceil(n) \in Int /\ Scale * Ceil(n) >= n
<1>1. Scale \in Nat /\ Scale > 0
    BY TextAssumption
<1>2. ASSUME NEW k \in Int PROVE k \div Scale \in Int /\ Scale * (k \div Scale) <= k
    BY <1>1
<1>3. -n \in Int /\ -n \div Scale \in Int /\ Scale * ((-n) \div Scale) <= -n
    BY <1>2
<1>4. ASSUME NEW q \in Int PROVE Scale * (-q) = -(Scale * q)
    BY <1>1
<1>. QED  BY <1>1, <1>2, <1>3, <1>4 DEF Ceil

\* The place on the page covers what is on the page of the place on the canvas.
Covers(r, d) ==
    /\ Scale * r[1] + PadX <= Max({d[1], PadX})
    /\ Scale * r[2] + PadY <= Max({d[2], PadY})
    /\ Scale * r[3] + PadX >= Min({d[3], Scale * Width + PadX})
    /\ Scale * r[4] + PadY >= Min({d[4], Scale * Height + PadY})

\* The near edge of a box, on either axis; pad is the margin.
LEMMA NearEdge ==
    ASSUME NEW e \in Int, NEW pad \in Nat
    PROVE  LET r == Max({(e - pad) \div Scale, 0})
           IN  r \in Nat /\ Scale * r + pad <= Max({e, pad})
<1>. DEFINE q == (e - pad) \div Scale
<1>1. q \in Int /\ Scale * q <= e - pad
    BY Rounding
<1>. HIDE DEF q
<1>2. /\ Max({q, 0}) = IF q >= 0 THEN q ELSE 0
      /\ Max({e, pad}) = IF e >= pad THEN e ELSE pad
    BY <1>1, TwoNumbers
<1>3. Scale \in Nat
    BY TextAssumption
<1>4. Scale * q \in Int /\ Scale * 0 = 0
    BY <1>1, <1>3
<1>5. CASE q >= 0
    BY <1>1, <1>2, <1>4, <1>5 DEF q
<1>6. CASE ~ (q >= 0)
    BY <1>1, <1>2, <1>4, <1>6 DEF q
<1>. QED  BY <1>5, <1>6

\* The far edge; size is the page's.
LEMMA FarEdge ==
    ASSUME NEW e \in Int, NEW pad \in Nat, NEW size \in Nat
    PROVE  LET r == Min({Ceil(e - pad), size})
           IN  r \in Int /\ r <= size /\ Scale * r + pad >= Min({e, Scale * size + pad})
<1>. DEFINE q == Ceil(e - pad)
<1>1. q \in Int /\ Scale * q >= e - pad
    BY Rounding
<1>. HIDE DEF q
<1>2. Scale \in Nat /\ Scale * size \in Int /\ Scale * q \in Int
    BY <1>1, TextAssumption
<1>. DEFINE whole == Scale * size
            part == Scale * q
<1>3. whole \in Int /\ part \in Int /\ part >= e - pad
    BY <1>1, <1>2
<1>4. /\ Min({q, size}) = IF q <= size THEN q ELSE size
      /\ Min({e, whole + pad}) = IF e <= whole + pad THEN e ELSE whole + pad
    <2>1. whole + pad \in Int /\ size \in Int
        BY <1>3
    <2>. HIDE DEF whole, part
    <2>2. Min({q, size}) = IF q <= size THEN q ELSE size
        BY <1>1, <2>1, TwoNumbers
    <2>3. Min({e, whole + pad}) = IF e <= whole + pad THEN e ELSE whole + pad
        BY <2>1, TwoNumbers
    <2>. QED  BY <2>2, <2>3
<1>5. CASE q <= size
    <2>1. Min({q, size}) = q
        BY <1>4, <1>5
    <2>2. part + pad >= Min({e, whole + pad})
        <3>. HIDE DEF part, whole
        <3>. QED  BY <1>3, <1>4
    <2>. QED  BY <1>1, <1>5, <2>1, <2>2 DEF q
<1>6. CASE ~ (q <= size)
    <2>1. Min({q, size}) = size
        BY <1>4, <1>6
    <2>2. whole + pad >= Min({e, whole + pad})
        <3>. HIDE DEF part, whole
        <3>. QED  BY <1>3, <1>4
    <2>. QED  BY <2>1, <2>2 DEF q
<1>. QED  BY <1>5, <1>6

\* A detection's place on the page is one, unless it is a speck, and covers it.
LEMMA OnPageCovers ==
    ASSUME NEW b \in Boxes
    PROVE  /\ OnPage(b) \in Int \X Int \X Int \X Int
           /\ BigEnough(OnPage(b)) => OnPage(b) \in Spot
           /\ Covers(OnPage(b), b)
<1>. DEFINE x0 == Max({(b[1] - PadX) \div Scale, 0})
            y0 == Max({(b[2] - PadY) \div Scale, 0})
            x1 == Min({Ceil(b[3] - PadX), Width})
            y1 == Min({Ceil(b[4] - PadY), Height})
<1>1. b[1] \in Int /\ b[2] \in Int /\ b[3] \in Int /\ b[4] \in Int
    BY TextAssumption
<1>2. PadX \in Nat /\ PadY \in Nat /\ Width \in Nat /\ Height \in Nat
    BY TextAssumption
<1>3. /\ x0 \in Nat /\ Scale * x0 + PadX <= Max({b[1], PadX})
      /\ y0 \in Nat /\ Scale * y0 + PadY <= Max({b[2], PadY})
    BY <1>1, <1>2, NearEdge
<1>4. /\ x1 \in Int /\ x1 <= Width /\ Scale * x1 + PadX >= Min({b[3], Scale * Width + PadX})
      /\ y1 \in Int /\ y1 <= Height /\ Scale * y1 + PadY >= Min({b[4], Scale * Height + PadY})
    BY <1>1, <1>2, FarEdge
<1>5. OnPage(b) = <<x0, y0, x1, y1>>
    BY DEF OnPage
<1>. HIDE DEF x0, y0, x1, y1
<1>6. OnPage(b) \in Int \X Int \X Int \X Int
    BY <1>3, <1>4, <1>5
<1>7. Covers(OnPage(b), b)
    BY <1>3, <1>4, <1>5 DEF Covers
<1>8. ASSUME BigEnough(OnPage(b)) PROVE Inside(OnPage(b))
    <2>1. MinRegion \in Nat \ {0}
        BY TextAssumption
    <2>2. x1 - x0 >= MinRegion /\ y1 - y0 >= MinRegion
        BY <1>5, <1>8 DEF BigEnough
    <2>3. x0 < x1 /\ y0 < y1
        BY <1>3, <1>4, <2>1, <2>2
    <2>. QED  BY <1>2, <1>3, <1>4, <1>5, <2>3 DEF Inside
<1>. QED  BY <1>6, <1>7, <1>8 DEF Spot

\* decode_detections() keeps detections once, and puts them on the page.
LEMMA Decoded ==
    ASSUME NEW ds \in Seq(Detection), \A i \in 1..Len(ds) : ds[i].src = i
    PROVE  LET rs == Decode(ds) IN
           \E m \in Nat :
              /\ rs \in [1..m -> Region(Len(ds))]
              /\ \A k \in 1..m : /\ rs[k].src \in 1..Len(ds)
                                 /\ rs[k].box = OnPage(ds[rs[k].src].box)
              /\ \A j, k \in 1..m : rs[j].src = rs[k].src => j = k
<1>. DEFINE n == Len(ds)
            sure == {i \in DOMAIN ds : ds[i].kind # "unsure"}
            kept == IF export = "v8" THEN Nms(ds, sure) ELSE sure
            K == {i \in kept : ds[i].kind # "figure" /\ BigEnough(OnPage(ds[i].box))}
            at == Ordered(K, Ascending(K))
            m == Cardinality(K)
<1>1. n \in Nat /\ DOMAIN ds = 1..n /\ \A i \in 1..n : ds[i] \in Detection /\ ds[i].box \in Boxes
    <2>1. n \in Nat /\ DOMAIN ds = 1..n /\ \A i \in 1..n : ds[i] \in Detection
        OBVIOUS
    <2>. HIDE DEF n
    <2>2. \A d \in Detection : d.box \in Boxes
        BY DEF Detection
    <2>. QED  BY <2>1, <2>2
<1>2. kept \subseteq 1..n
    BY <1>1 DEF Nms
<1>3. /\ K \subseteq 1..n /\ \A i \in K : BigEnough(OnPage(ds[i].box))
    BY <1>2
<1>4. Decode(ds) = [k \in DOMAIN Kept(ds, K) |-> [box |-> OnPage(Kept(ds, K)[k].box),
                                                  src |-> Kept(ds, K)[k].src]]
    BY DEF Decode
<1>. HIDE DEF K
<1>5. IsFiniteSet(K) /\ K \subseteq Int /\ m \in Nat
    <2>1. K \subseteq 0..n /\ K \subseteq Int
        BY <1>3
    <2>2. IsFiniteSet(K)
        BY <1>1, <2>1, Finite
    <2>. QED  BY <2>1, <2>2, FS_CardinalityType
<1>6. Enumerates(at, K, Ascending(K))
    BY <1>5, KeptPositions
<1>7. /\ at \in [1..m -> K]
      /\ \A j, k \in 1..m : j < k => at[j] < at[k]
    BY <1>6 DEF Enumerates, Ascending
<1>8. Kept(ds, K) = [k \in DOMAIN at |-> ds[at[k]]]
    BY DEF Kept, Picked
<1>. HIDE DEF at, m
<1>9. \A k \in 1..m : at[k] \in 1..n /\ BigEnough(OnPage(ds[at[k]].box))
    BY <1>3, <1>7
<1>10. Decode(ds) = [k \in 1..m |-> [box |-> OnPage(ds[at[k]].box), src |-> at[k]]]
    <2>1. Kept(ds, K) = [k \in 1..m |-> ds[at[k]]]
        BY <1>7, <1>8
    <2>2. \A k \in 1..m : ds[at[k]].src = at[k]
        BY <1>9
    <2>. QED  BY <1>4, <2>1, <2>2
<1>11. ASSUME NEW k \in 1..m
       PROVE  [box |-> OnPage(ds[at[k]].box), src |-> at[k]] \in Region(n)
    <2>1. OnPage(ds[at[k]].box) \in Spot
        BY <1>1, <1>9, OnPageCovers
    <2>. QED  BY <1>1, <1>9, <2>1 DEF Region
<1>12. \A j, k \in 1..m : at[j] = at[k] => j = k
    <2>1. \A k \in 1..m : at[k] \in Int
        BY <1>9
    <2>. QED  BY <1>7, <2>1
<1>. QED  BY <1>5, <1>9, <1>10, <1>11, <1>12

----------------------------------------------------------------------------
(* The regions and the tiles of a page.                                     *)

\* What NeverUpwards and NoInkClipped say of regions rs that were found in ds.
InOrder(rs) ==
    \A i, j \in DOMAIN rs : /\ rs[i].src = rs[j].src => i = j
                            /\ Above(rs[i].box, rs[j].box) => i < j

AllCovered(rs, ds) ==
    \A i \in DOMAIN rs : rs[i].src # 0 => Covers(rs[i].box, ds[rs[i].src].box)

\* detect() returns every region once, in order, and none too small.
LEMMA Detected ==
    ASSUME NEW ds \in Seq(Detection), \A i \in 1..Len(ds) : ds[i].src = i
    PROVE  LET rs == Detect(ds) IN
           /\ rs \in Seq(Region(Len(ds)))
           /\ InOrder(rs)
           /\ AllCovered(rs, ds)
           /\ ToSet(Decode(ds)) \subseteq ToSet(rs)
<1>. DEFINE c == Len(ds)
            raw == Decode(ds)
            rs == Detect(ds)
<1>1. PICK m \in Nat :
          /\ raw \in [1..m -> Region(c)]
          /\ \A k \in 1..m : raw[k].src \in 1..c /\ raw[k].box = OnPage(ds[raw[k].src].box)
          /\ \A j, k \in 1..m : raw[j].src = raw[k].src => j = k
    BY Decoded
<1>2. rs = IF raw = <<>> THEN <<Page>> ELSE XyCut(raw)
    BY DEF Detect
<1>3. c \in Nat /\ \A i \in 1..c : ds[i].box \in Boxes
    <2>1. c \in Nat /\ \A i \in 1..c : ds[i] \in Detection
        OBVIOUS
    <2>. QED  BY <2>1 DEF Detection
<1>. HIDE DEF raw, rs, c
<1>4. CASE raw = <<>>
    <2>1. Page \in Region(c)
        <3>1. Page.box = <<0, 0, Width, Height>> /\ Page.box \in Spot
            BY TextAssumption DEF Page, Spot, Inside
        <3>. QED  BY <1>3, <3>1 DEF Page, Region
    <2>2. rs = <<Page>> /\ DOMAIN rs = {1} /\ rs[1] = Page /\ Page.src = 0
        BY <1>2, <1>4 DEF Page
    <2>3. ~Above(Page.box, Page.box)
        BY TextAssumption DEF Above, Page
    <2>4. ToSet(raw) = {}
        BY <1>4 DEF ToSet
    <2>5. rs \in Seq(Region(c))
        BY <2>1, <2>2
    <2>6. InOrder(rs)
        BY <2>2, <2>3 DEF InOrder
    <2>7. AllCovered(rs, ds)
        BY <2>2 DEF AllCovered
    <2>. QED  BY <2>4, <2>5, <2>6, <2>7 DEF rs, raw, c
<1>5. CASE raw # <<>>
    <2>1. PICK s : XyCut(raw) = Picked(raw, s) /\ Reads(s, 1..m, raw)
        BY <1>1, XyCutReads
    <2>. DEFINE l == Len(s)
    <2>2. /\ s \in Seq(1..m) /\ l \in Nat /\ DOMAIN s = 1..l /\ \A k \in 1..l : s[k] \in 1..m
          /\ \A j, k \in 1..l : j < k => s[j] # s[k] /\ ~Above(raw[s[k]].box, raw[s[j]].box)
          /\ \A i \in 1..m : \E k \in 1..l : s[k] = i
        <3>1. s \in Seq(1..m)
            BY <2>1 DEF Reads
        <3>2. l \in Nat /\ DOMAIN s = 1..l /\ \A k \in 1..l : s[k] \in 1..m
            BY <3>1
        <3>3. /\ \A j, k \in 1..l : j < k => s[j] # s[k] /\ ~Above(raw[s[k]].box, raw[s[j]].box)
              /\ \A i \in 1..m : \E k \in 1..l : s[k] = i
            BY <2>1 DEF Reads
        <3>. QED  BY <3>1, <3>2, <3>3
    <2>. HIDE DEF l
    <2>3. rs = [k \in 1..l |-> raw[s[k]]]
        BY <1>2, <1>5, <2>1, <2>2 DEF Picked
    <2>4. /\ DOMAIN rs = 1..l
          /\ \A k \in 1..l : s[k] \in 1..m /\ rs[k] = raw[s[k]] /\ rs[k] \in Region(c)
        BY <1>1, <2>2, <2>3
    <2>5. rs \in Seq(Region(c))
        <3>1. l \in Nat /\ \A k \in 1..l : raw[s[k]] \in Region(c)
            BY <2>2, <2>4
        <3>. QED  BY <2>3, <3>1
    <2>6. InOrder(rs)
        <3>. SUFFICES ASSUME NEW i \in 1..l, NEW j \in 1..l
                      PROVE  /\ rs[i].src = rs[j].src => i = j
                             /\ Above(rs[i].box, rs[j].box) => i < j
            BY <2>4 DEF InOrder
        <3>1. i \in Int /\ j \in Int
            OBVIOUS
        <3>2. ASSUME rs[i].src = rs[j].src PROVE i = j
            <4>1. s[i] = s[j]
                <5>1. /\ s[i] \in 1..m /\ s[j] \in 1..m
                      /\ raw[s[i]].src = raw[s[j]].src
                    BY <2>4, <3>2
                <5>. QED  BY <1>1, <5>1
            <4>. QED  BY <2>2, <3>1, <4>1
        <3>3. ASSUME Above(rs[i].box, rs[j].box) PROVE i < j
            <4>1. ~ (j < i)
                BY <2>2, <2>4, <3>3
            <4>2. i # j
                <5>1. rs[j].box \in Spot
                    BY <2>4 DEF Region
                <5>2. ~Above(rs[j].box, rs[j].box)
                    BY <5>1 DEF Above, Spot, Inside
                <5>. QED  BY <3>3, <5>2
            <4>. QED  BY <3>1, <4>1, <4>2
        <3>. QED  BY <3>2, <3>3
    <2>7. AllCovered(rs, ds)
        <3>. SUFFICES ASSUME NEW i \in 1..l PROVE Covers(rs[i].box, ds[rs[i].src].box)
            BY <2>4 DEF AllCovered
        <3>1. rs[i].src \in 1..c /\ rs[i].box = OnPage(ds[rs[i].src].box)
            BY <1>1, <2>4
        <3>. QED  BY <1>3, <3>1, OnPageCovers
    <2>8. ToSet(raw) \subseteq ToSet(rs)
        <3>1. ASSUME NEW i \in 1..m PROVE raw[i] \in ToSet(rs)
            <4>1. PICK k \in 1..l : s[k] = i
                BY <2>2
            <4>. QED  BY <2>4, <4>1 DEF ToSet
        <3>2. ToSet(raw) = {raw[i] : i \in 1..m}
            BY <1>1 DEF ToSet
        <3>. QED  BY <3>1, <3>2
    <2>. QED  BY <2>5, <2>6, <2>7, <2>8 DEF rs, raw, c
<1>. QED  BY <1>4, <1>5

\* Row y of region r shows in tile t.
Shows(t, r, y) ==
    t.box[1] = r.box[1] /\ t.box[3] = r.box[3] /\ t.box[2] <= y /\ y < t.box[4]

\* A part of the page that is not too high for the encoder.
TileOf(n) == {t \in Region(n) : t.box[4] - t.box[2] <= MaxHeight}

\* tile() advances, and never by more than a tile.
LEMMA StepBounds == Step \in 1..MaxHeight
<1>1. MaxHeight \in Nat \ {0, 1} /\ Overlap \in Nat
    BY TextAssumption
<1>2. /\ MaxHeight \div 2 \in Int /\ MaxHeight \div 2 >= 1 /\ MaxHeight \div 2 <= MaxHeight
      /\ MaxHeight - Overlap \in Int /\ MaxHeight - Overlap <= MaxHeight
    BY <1>1
<1>3. Step = IF MaxHeight - Overlap >= MaxHeight \div 2 THEN MaxHeight - Overlap
             ELSE MaxHeight \div 2
    BY <1>2, TwoNumbers DEF Step
<1>. QED  BY <1>1, <1>2, <1>3

\* The tiles of one region, ...
LEMMA CutUpTiles ==
    ASSUME NEW n \in Nat, NEW r \in Region(n)
    PROVE  CutUp(r) \in Seq(TileOf(n))
<1>. DEFINE x0 == r.box[1]
            y0 == r.box[2]
            x1 == r.box[3]
            y1 == r.box[4]
            K == {k \in 0..Height : y0 + k * Step + MaxHeight >= y1}
            last == Min(K)
            top(k) == y0 + (k - 1) * Step
            box(k) == <<x0, top(k), x1, Min({top(k) + MaxHeight, y1})>>
<1>1. /\ r.box \in Spot /\ r.src \in 0..n /\ r = [box |-> r.box, src |-> r.src]
    BY DEF Region
<1>2. /\ x0 \in Int /\ y0 \in Int /\ x1 \in Int /\ y1 \in Int
      /\ 0 <= x0 /\ x0 < x1 /\ x1 <= Width
      /\ 0 <= y0 /\ y0 < y1 /\ y1 <= Height
    BY <1>1 DEF Spot, Inside
<1>3. MaxHeight \in Nat /\ Step \in Nat /\ Step >= 1 /\ Step <= MaxHeight /\ Height \in Nat
    BY StepBounds, TextAssumption
<1>4. CASE y1 - y0 <= MaxHeight
    <2>1. CutUp(r) = <<r>>
        BY <1>4 DEF CutUp
    <2>2. r \in TileOf(n)
        BY <1>4 DEF TileOf
    <2>. QED  BY <2>1, <2>2
<1>5. CASE ~ (y1 - y0 <= MaxHeight)
    <2>1. CutUp(r) = [k \in 1..(last + 1) |-> [r EXCEPT !.box = box(k)]]
        BY <1>5 DEF CutUp
    <2>2. last \in K /\ \A k \in K : last <= k
        <3>1. K \subseteq 0..Height /\ K \subseteq Int
            OBVIOUS
        <3>2. IsFiniteSet(K)
            BY <1>3, <3>1, Finite
        <3>3. Height * Step >= Height
            BY <1>3
        <3>4. Height \in K
            BY <1>2, <1>3, <3>3
        <3>. HIDE DEF K
        <3>. QED  BY <3>1, <3>2, <3>4, Extremes
    <2>3. \A k \in 0..Height : k \in K <=> y0 + k * Step + MaxHeight >= y1
        OBVIOUS
    <2>4. last \in 0..Height
        BY <2>2
    <2>. HIDE DEF K, last
    <2>5. ASSUME NEW k \in 1..(last + 1)
          PROVE  top(k) \in Int /\ y0 <= top(k) /\ top(k) < y1
        <3>1. k - 1 \in 0..last /\ k - 1 \in Nat
            BY <2>4
        <3>2. (k - 1) * Step \in Nat
            BY <1>3, <3>1
        <3>3. CASE k - 1 = 0
            <4>1. (k - 1) * Step = 0
                BY <1>3, <3>3
            <4>. QED  BY <1>2, <4>1
        <3>4. CASE k - 1 # 0
            <4>. DEFINE j == k - 2
            <4>1. j \in 0..Height /\ j < last /\ k - 1 = j + 1 /\ last \in Int /\ j \in Int
                BY <1>3, <2>4, <3>1, <3>4
            <4>. HIDE DEF j
            <4>2. j \notin K
                BY <2>2, <4>1
            <4>3. ~ (y0 + j * Step + MaxHeight >= y1)
                BY <2>3, <4>1, <4>2
            <4>4. j * Step \in Int
                BY <1>3, <4>1
            <4>5. (k - 1) * Step = j * Step + Step
                BY <1>3, <4>1
            <4>. QED  BY <1>2, <1>3, <3>2, <4>3, <4>4, <4>5
        <3>. QED  BY <3>3, <3>4
    <2>. HIDE DEF top
    <2>6. ASSUME NEW k \in 1..(last + 1)
          PROVE  [r EXCEPT !.box = box(k)] \in TileOf(n)
        <3>. DEFINE u == top(k)
                    v == Min({u + MaxHeight, y1})
        <3>1. u \in Int /\ y0 <= u /\ u < y1 /\ u + MaxHeight \in Int
            BY <1>3, <2>5
        <3>. HIDE DEF u
        <3>2. v = IF u + MaxHeight <= y1 THEN u + MaxHeight ELSE y1
            BY <1>2, <3>1, TwoNumbers
        <3>. HIDE DEF v
        <3>3. v \in Int /\ u < v /\ v <= y1 /\ v - u <= MaxHeight
            BY <1>2, <1>3, <3>1, <3>2
        <3>4. box(k) = <<x0, u, x1, v>>
            BY DEF u, v
        <3>5. <<x0, u, x1, v>> \in Spot
            <4>. HIDE DEF x0, y0, x1, y1
            <4>1. x0 \in Int /\ u \in Int /\ x1 \in Int /\ v \in Int
                BY <1>2, <3>1, <3>3
            <4>2. 0 <= x0 /\ x0 < x1 /\ x1 <= Width /\ 0 <= u /\ u < v /\ v <= Height
                BY <1>2, <1>3, <3>1, <3>3
            <4>. QED  BY <4>1, <4>2 DEF Spot, Inside
        <3>6. [r EXCEPT !.box = box(k)] = [box |-> <<x0, u, x1, v>>, src |-> r.src]
            BY <1>1, <3>4
        <3>7. [box |-> <<x0, u, x1, v>>, src |-> r.src] \in Region(n)
            BY <1>1, <3>5 DEF Region
        <3>. QED  BY <3>3, <3>6, <3>7 DEF TileOf
    <2>. DEFINE piece(k) == [r EXCEPT !.box = box(k)]
    <2>7. CutUp(r) = [k \in 1..(last + 1) |-> piece(k)] /\ last + 1 \in Nat
        BY <2>1, <2>4
    <2>8. \A k \in 1..(last + 1) : piece(k) \in TileOf(n)
        BY <2>6
    <2>. HIDE DEF piece
    <2>. QED  BY <2>7, <2>8
<1>. QED  BY <1>4, <1>5

\* ... which cover all of it.
LEMMA CutUpCovers ==
    ASSUME NEW n \in Nat, NEW r \in Region(n), NEW y \in r.box[2]..(r.box[4] - 1)
    PROVE  \E k \in DOMAIN CutUp(r) : Shows(CutUp(r)[k], r, y)
<1>. DEFINE x0 == r.box[1]
            y0 == r.box[2]
            x1 == r.box[3]
            y1 == r.box[4]
            K == {k \in 0..Height : y0 + k * Step + MaxHeight >= y1}
            last == Min(K)
            top(k) == y0 + (k - 1) * Step
            box(k) == <<x0, top(k), x1, Min({top(k) + MaxHeight, y1})>>
<1>1. /\ r.box \in Spot /\ r.src \in 0..n /\ r = [box |-> r.box, src |-> r.src]
    BY DEF Region
<1>2. /\ y0 \in Nat /\ y1 \in Nat /\ y0 < y1 /\ y1 <= Height
      /\ y \in Nat /\ y0 <= y /\ y < y1
    BY <1>1 DEF Spot, Inside
<1>3. MaxHeight \in Nat /\ Step \in Nat /\ Step >= 1 /\ Step <= MaxHeight /\ Height \in Nat
    BY StepBounds, TextAssumption
<1>4. CASE y1 - y0 <= MaxHeight
    <2>1. CutUp(r) = <<r>> /\ DOMAIN CutUp(r) = {1} /\ CutUp(r)[1] = r
        BY <1>4 DEF CutUp
    <2>. QED  BY <1>2, <2>1 DEF Shows
<1>5. CASE ~ (y1 - y0 <= MaxHeight)
    <2>1. CutUp(r) = [k \in 1..(last + 1) |-> [r EXCEPT !.box = box(k)]]
        BY <1>5 DEF CutUp
    <2>2. last \in K
        <3>1. K \subseteq 0..Height /\ K \subseteq Int
            OBVIOUS
        <3>2. IsFiniteSet(K)
            BY <1>3, <3>1, Finite
        <3>3. Height * Step >= Height
            BY <1>3
        <3>4. Height \in K
            BY <1>2, <1>3, <3>3
        <3>. HIDE DEF K
        <3>. QED  BY <3>1, <3>2, <3>4, Extremes
    <2>3. last \in 0..Height /\ y0 + last * Step + MaxHeight >= y1
        BY <2>2
    <2>. HIDE DEF K, last
    <2>. DEFINE J == {j \in 0..last : y < y0 + j * Step + MaxHeight}
                first == Min(J)
    <2>4. first \in J /\ \A j \in J : first <= j
        <3>1. J \subseteq 0..last /\ J \subseteq Int /\ last \in Nat
            BY <2>3
        <3>2. IsFiniteSet(J)
            BY <3>1, Finite
        <3>3. last * Step \in Int
            BY <1>3, <3>1
        <3>4. last \in J
            BY <1>2, <1>3, <2>3, <3>1, <3>3
        <3>. HIDE DEF J
        <3>. QED  BY <3>1, <3>2, <3>4, Extremes
    <2>5. \A j \in 0..last : j \in J <=> y < y0 + j * Step + MaxHeight
        OBVIOUS
    <2>6. first \in 0..last /\ first \in Nat /\ y < y0 + first * Step + MaxHeight
        BY <2>4
    <2>. HIDE DEF J, first
    <2>7. first * Step \in Nat /\ y0 + first * Step <= y
        <3>1. first * Step \in Nat
            BY <1>3, <2>6
        <3>2. CASE first = 0
            <4>1. first * Step = 0
                BY <1>3, <3>2
            <4>. QED  BY <1>2, <3>1, <4>1
        <3>3. CASE first # 0
            <4>. DEFINE j == first - 1
            <4>1. j \in 0..last /\ j \in Int /\ j < first /\ first = j + 1
                BY <2>3, <2>6, <3>3
            <4>. HIDE DEF j
            <4>2. ~ (y < y0 + j * Step + MaxHeight)
                BY <2>4, <2>5, <2>6, <4>1
            <4>3. j * Step \in Int /\ first * Step = j * Step + Step
                BY <1>3, <4>1
            <4>. QED  BY <1>2, <1>3, <3>1, <4>2, <4>3
        <3>. QED  BY <3>2, <3>3
    <2>. DEFINE u == y0 + first * Step
                v == Min({u + MaxHeight, y1})
                k == first + 1
    <2>8. k \in 1..(last + 1) /\ k - 1 = first
        BY <2>3, <2>6
    <2>9. box(k) = <<x0, u, x1, v>>
        BY <2>8
    <2>10. CutUp(r)[k].box = <<x0, u, x1, v>> /\ k \in DOMAIN CutUp(r)
        BY <1>1, <2>1, <2>8, <2>9
    <2>11. u \in Nat /\ u <= y /\ y < u + MaxHeight
        BY <1>2, <2>6, <2>7
    <2>. HIDE DEF u
    <2>12. v = IF u + MaxHeight <= y1 THEN u + MaxHeight ELSE y1
        <3>. DEFINE w == u + MaxHeight
        <3>1. w \in Int /\ y1 \in Int
            BY <1>2, <1>3, <2>11
        <3>. HIDE DEF w, y1
        <3>. QED  BY <3>1, TwoNumbers DEF w
    <2>. HIDE DEF v, k
    <2>13. y < v
        BY <1>2, <2>11, <2>12
    <2>. QED  BY <2>10, <2>11, <2>13 DEF Shows
<1>. QED  BY <1>4, <1>5

\* The tiles of all regions.
LEMMA Tiled ==
    ASSUME NEW n \in Nat, NEW rs \in Seq(Region(n))
    PROVE  /\ Tile(rs) \in Seq(TileOf(n))
           /\ \A i \in DOMAIN rs : \A y \in rs[i].box[2]..(rs[i].box[4] - 1) :
                 \E k \in DOMAIN Tile(rs) : Shows(Tile(rs)[k], rs[i], y)
<1>. DEFINE pieces == [i \in DOMAIN rs |-> CutUp(rs[i])]
<1>1. \A i \in DOMAIN rs : CutUp(rs[i]) \in Seq(TileOf(n))
    BY CutUpTiles
<1>2. pieces \in Seq(Seq(TileOf(n)))
    BY <1>1
<1>3. Tile(rs) = FlattenSeq(pieces)
    BY DEF Tile
<1>. HIDE DEF pieces
<1>4. Tile(rs) \in Seq(TileOf(n))
    BY <1>2, <1>3, Flattened
<1>5. ASSUME NEW i \in DOMAIN rs, NEW y \in rs[i].box[2]..(rs[i].box[4] - 1)
      PROVE  \E k \in DOMAIN Tile(rs) : Shows(Tile(rs)[k], rs[i], y)
    <2>1. rs[i] \in Region(n)
        OBVIOUS
    <2>2. PICK j \in DOMAIN CutUp(rs[i]) : Shows(CutUp(rs[i])[j], rs[i], y)
        BY <2>1, CutUpCovers
    <2>3. i \in 1..Len(pieces) /\ pieces[i] = CutUp(rs[i])
        BY DEF pieces
    <2>4. PICK k \in DOMAIN FlattenSeq(pieces) : FlattenSeq(pieces)[k] = pieces[i][j]
        BY <1>2, <2>2, <2>3, Flattened
    <2>. QED  BY <1>3, <2>2, <2>3, <2>4
<1>. QED  BY <1>4, <1>5

----------------------------------------------------------------------------
(* The page, step by step.                                                  *)

\* What is known at each stage.
TextInv ==
    /\ stage \in {"look", "prepared", "read", "done"}
    /\ export \in {"v8", "v10"}
    /\ flagged \in BOOLEAN
    /\ found \in Seq(Detection) /\ \A i \in 1..Len(found) : found[i].src = i
    /\ regions \in Seq(Region(Len(found))) /\ InOrder(regions) /\ AllCovered(regions, found)
    /\ tiles \in Seq(TileOf(Len(found)))
    /\ printed \in Scripts \cup {{}} /\ cuts \in [above : Fates, below : Fates]
    /\ bad \in 0..Len(tiles) /\ Len(texts) \in {0, Len(tiles)}
    /\ stage = "look" => regions = <<>> /\ tiles = <<>> /\ bad = 0 /\ texts = <<>>
    /\ stage # "look" => ToSet(Decode(found)) \subseteq ToSet(regions) /\ tiles = Tile(regions)

\* Nothing has been seen yet.
LEMMA TextInit == Init => TextInv
<1>. SUFFICES ASSUME Init PROVE TextInv
    OBVIOUS
<1>1. /\ found \in Seq(Detection) /\ \A i \in 1..Len(found) : found[i].src = i
      /\ regions \in Seq(Region(Len(found))) /\ tiles \in Seq(TileOf(Len(found)))
    BY DEF Init
<1>2. InOrder(regions) /\ AllCovered(regions, found)
    BY DEF Init, InOrder, AllCovered
<1>3. bad \in 0..Len(tiles) /\ Len(texts) \in {0, Len(tiles)}
    BY DEF Init
<1>4. printed \in Scripts \cup {{}} /\ cuts \in [above : Fates, below : Fates]
    BY DEF Init, Fates
<1>. QED  BY <1>1, <1>2, <1>3, <1>4 DEF Init, TextInv

\* The layout model sees one thing more.
LEMMA SeeStep ==
    ASSUME TextInv, NEW b \in Boxes, NEW kind \in {"text", "figure", "unsure"}, See(b, kind)
    PROVE  TextInv'
<1>. DEFINE d == [box |-> b, kind |-> kind, src |-> Len(found) + 1]
<1>1. /\ stage' = "look" /\ regions' = <<>> /\ tiles' = <<>> /\ bad' = 0 /\ texts' = <<>>
      /\ export' \in {"v8", "v10"} /\ flagged' \in BOOLEAN
      /\ found' = Append(found, d)
    BY DEF TextInv, See
<1>2. found \in Seq(Detection) /\ \A i \in 1..Len(found) : found[i].src = i
    BY DEF TextInv
<1>3. Len(found) \in Nat
    BY <1>2
<1>4. d \in Detection /\ d.src = Len(found) + 1
    BY <1>3 DEF Detection
<1>. HIDE DEF d
<1>5. /\ found' \in Seq(Detection) /\ Len(found') = Len(found) + 1
      /\ \A i \in 1..(Len(found) + 1) : found'[i] = IF i = Len(found) + 1 THEN d ELSE found[i]
    BY <1>1, <1>2, <1>4
<1>6. \A i \in 1..Len(found') : found'[i].src = i
    BY <1>2, <1>3, <1>4, <1>5
<1>7. regions' \in Seq(Region(Len(found'))) /\ tiles' \in Seq(TileOf(Len(found')))
    BY <1>1
<1>8. InOrder(regions') /\ AllCovered(regions', found')
    BY <1>1 DEF InOrder, AllCovered
<1>9. bad' \in 0..Len(tiles') /\ Len(texts') \in {0, Len(tiles')}
    BY <1>1
<1>10. printed' \in Scripts \cup {{}} /\ cuts' \in [above : Fates, below : Fates]
    BY DEF TextInv, See
<1>. QED  BY <1>1, <1>5, <1>6, <1>7, <1>8, <1>9, <1>10 DEF TextInv

\* The regions are put in order and cut up.
LEMMA PrepareStep ==
    ASSUME TextInv, Prepare
    PROVE  TextInv'
<1>1. /\ stage' = "prepared" /\ found' = found /\ export' = export /\ bad' = 0 /\ texts' = <<>>
      /\ flagged' = flagged /\ regions' = Detect(found) /\ tiles' = Tile(regions')
    BY DEF TextInv, Prepare
<1>2. found \in Seq(Detection) /\ \A i \in 1..Len(found) : found[i].src = i
    BY DEF TextInv
<1>3. /\ regions' \in Seq(Region(Len(found))) /\ InOrder(regions') /\ AllCovered(regions', found)
      /\ ToSet(Decode(found)) \subseteq ToSet(regions')
    BY <1>1, <1>2, Detected
<1>4. tiles' \in Seq(TileOf(Len(found)))
    <2>1. Len(found) \in Nat
        BY <1>2
    <2>. QED  BY <1>1, <1>3, <2>1, Tiled
<1>5. bad' \in 0..Len(tiles') /\ Len(texts') = 0
    <2>1. Len(tiles') \in Nat
        BY <1>4
    <2>. QED  BY <1>1, <2>1
<1>6. Decode(found)' = Decode(found)
    BY <1>1 DEF Decode
<1>7. printed' \in Scripts \cup {{}} /\ cuts' \in [above : Fates, below : Fates]
    BY DEF TextInv, Prepare
<1>. QED  BY <1>1, <1>2, <1>3, <1>4, <1>5, <1>6, <1>7 DEF TextInv

\* Nothing changes any more but the text.
LEMMA LaterSteps ==
    ASSUME TextInv,
           UNCHANGED <<found, export, regions, tiles>>,
           stage' = stage \/ (stage # "look" /\ stage' \in {"read", "done"}),
           stage' = "look" => bad' = bad /\ texts' = texts,
           printed' \in Scripts \cup {{}}, cuts' \in [above : Fates, below : Fates],
           bad' \in 0..Len(tiles), Len(texts') \in {0, Len(tiles)}, flagged' \in BOOLEAN
    PROVE  TextInv'
<1>1. Decode(found)' = Decode(found) /\ Tile(regions)' = Tile(regions)
    BY DEF Decode, Tile
<1>. QED  BY <1>1 DEF TextInv

\* TextInv is inductive.
THEOREM TextInductive == Spec => []TextInv
<1>1. ASSUME TextInv, Next PROVE TextInv'
    <2>1. ASSUME NEW b \in Boxes, NEW kind \in {"text", "figure", "unsure"}, See(b, kind)
          PROVE  TextInv'
        BY <1>1, <2>1, SeeStep
    <2>2. CASE Prepare
        BY <1>1, <2>2, PrepareStep
    <2>3. CASE Read
        <3>1. /\ UNCHANGED <<found, export, regions, tiles>> /\ flagged' = flagged
              /\ stage = "prepared" /\ stage' = "read"
              /\ bad' \in {0} \cup DOMAIN tiles
            BY <2>3 DEF Read
        <3>2. tiles \in Seq(TileOf(Len(found))) /\ flagged \in BOOLEAN
            BY <1>1 DEF TextInv
        <3>3. DOMAIN tiles = 1..Len(tiles) /\ Len(tiles) \in Nat
            BY <3>2
        <3>. PICK ls \in Scripts, how \in [above : Fates, below : Fates] :
                 /\ printed' = ls /\ cuts' = how
                 /\ \/ texts' = [k \in DOMAIN tiles |-> Answer(Seen(k, ls, how))]
                    \/ \E body : texts' = [k \in DOMAIN tiles |->
                                               Answer(IF k = bad' THEN body ELSE Seen(k, ls, how))]
            BY <2>3 DEF Read
        <3>4. DOMAIN texts' = DOMAIN tiles /\ \E B : texts' = [k \in DOMAIN tiles |-> B[k]]
            <4>1. CASE texts' = [k \in DOMAIN tiles |-> Answer(Seen(k, ls, how))]
                BY <4>1
            <4>2. CASE \E body : texts' = [k \in DOMAIN tiles |->
                             Answer(IF k = bad' THEN body ELSE Seen(k, ls, how))]
                BY <4>2
            <4>. QED  BY <4>1, <4>2
        <3>5. Len(texts') = Len(tiles)
            BY <3>3, <3>4
        <3>. QED  BY <1>1, <3>1, <3>2, <3>3, <3>5, LaterSteps
    <2>4. CASE Assemble
        <3>1. /\ UNCHANGED <<found, export, regions, tiles, bad, texts>>
              /\ UNCHANGED <<printed, cuts>>
              /\ stage = "read" /\ stage' = "done" /\ flagged' \in BOOLEAN
            BY <2>4 DEF Assemble, Loops
        <3>. QED  BY <1>1, <3>1, LaterSteps DEF TextInv
    <2>. QED  BY <1>1, <2>1, <2>2, <2>3, <2>4 DEF Next
<1>2. ASSUME TextInv, UNCHANGED vars PROVE TextInv'
    <2>1. UNCHANGED <<stage, found, export, regions, tiles, printed, cuts, bad, texts, flagged>>
        BY <1>2 DEF vars
    <2>2. printed \in Scripts \cup {{}} /\ cuts \in [above : Fates, below : Fates]
        BY <1>2 DEF TextInv
    <2>3. bad \in 0..Len(tiles) /\ Len(texts) \in {0, Len(tiles)} /\ flagged \in BOOLEAN
        BY <1>2 DEF TextInv
    <2>. QED  BY <1>2, <2>1, <2>2, <2>3, LaterSteps
<1>. QED  BY TextInit, <1>1, <1>2, PTL DEF Spec

\* What a page is made of is on the page, and no tile is higher than the encoder
\* takes, whatever was detected.
THEOREM TextTypes == Spec => []TypeOK
<1>1. ASSUME TextInv PROVE TypeOK
    <2>1. \A i \in DOMAIN found : found[i] \in Detection
        BY <1>1 DEF TextInv
    <2>2. \A i \in DOMAIN regions : regions[i] \in Region(Len(found))
        BY <1>1 DEF TextInv
    <2>3. \A i \in DOMAIN tiles : tiles[i] \in TileOf(Len(found))
        BY <1>1 DEF TextInv
    <2>4. \A i \in DOMAIN found :
              found[i].box \in Boxes /\ found[i].kind \in {"text", "figure", "unsure"}
        BY <2>1 DEF Detection
    <2>5. \A i \in DOMAIN regions : Inside(regions[i].box) /\ regions[i].src \in 0..Len(found)
        BY <2>2 DEF Region, Spot
    <2>6. \A i \in DOMAIN tiles :
              Inside(tiles[i].box) /\ tiles[i].box[4] - tiles[i].box[2] <= MaxHeight
        BY <2>3 DEF TileOf, Region, Spot
    <2>. QED  BY <1>1, <2>4, <2>5, <2>6 DEF TextInv, TypeOK
<1>. QED  BY TextInductive, <1>1, PTL

\* Whatever the scale and the margins of the canvas, no region is smaller than what
\* was detected.
THEOREM InkCovered == Spec => []NoInkClipped
<1>1. ASSUME TextInv PROVE NoInkClipped
    BY <1>1 DEF TextInv, AllCovered, Covers, NoInkClipped
<1>. QED  BY TextInductive, <1>1, PTL

\* For any number of regions anywhere on the page and whatever depth the cuts may
\* have: none is lost, none is read twice, none is read after one that is below it.
THEOREM ReadDownwards == Spec => []NeverUpwards
<1>1. ASSUME TextInv PROVE NeverUpwards
    BY <1>1 DEF TextInv, InOrder, Above, NeverUpwards
<1>. QED  BY TextInductive, <1>1, PTL

\* Wherever a region is cut up, each row of it shows in some tile, in its
\* whole width: whatever the budget and the overlap, nothing is left unsent.
THEOREM NothingUnsent ==
    Spec => [](stage # "look" =>
                   \A i \in DOMAIN regions : \A y \in regions[i].box[2]..(regions[i].box[4] - 1) :
                       \E k \in DOMAIN tiles : Shows(tiles[k], regions[i], y))
<1>. DEFINE Sent == stage # "look" =>
                        \A i \in DOMAIN regions : \A y \in regions[i].box[2]..(regions[i].box[4] - 1) :
                            \E k \in DOMAIN tiles : Shows(tiles[k], regions[i], y)
<1>1. ASSUME TextInv PROVE Sent
    <2>1. Len(found) \in Nat /\ regions \in Seq(Region(Len(found)))
        BY <1>1 DEF TextInv
    <2>2. stage # "look" => tiles = Tile(regions)
        BY <1>1 DEF TextInv
    <2>. QED  BY <2>1, <2>2, Tiled
<1>. QED  BY TextInductive, <1>1, PTL
=============================================================================
