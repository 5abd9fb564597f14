--------------------------- MODULE GeometryProofs ---------------------------
(***************************************************************************)
(* Lemmas about the shape arithmetic of module Geometry, for its partition,*)
(* and about the renumbering of chunks of module Regrid.                   *)
(***************************************************************************)
EXTENDS Regrid, MultidimProofs, FiniteSetTheorems

\* The number of chunks of a shape is a natural number: the padded shape has
\* natural extents and a chunk at least one item.
LEMMA NumChunksType ==
    ASSUME NEW s \in [Dims -> Nat]
    PROVE  NumChunks(s) \in Nat
BY ChunkShapeAssumption, ChunkCountType DEF NumChunks

\* The grid of an array: its extents are naturals, a chunk lies in it when it begins
\* inside the shape in every dimension, and its coordinates are a box.
LEMMA GridFacts ==
    ASSUME NEW s \in [Dims -> Nat]
    PROVE  /\ ChunksInArray(s) \in [Dims -> Nat]
           /\ \A j \in Dims, c \in Nat : c < ChunksInArray(s)[j] <=> ChunkShape[j] * c < s[j]
           /\ \A c : c \in GridCoords(s) <=> InBox(c, ChunksInArray(s))
<1> DEFINE grid == ChunksInArray(s)
<1>1. /\ grid \in [Dims -> Nat]
      /\ \A j \in Dims, c \in Nat : c < grid[j] <=> ChunkShape[j] * c < s[j]
  BY ChunkShapeAssumption, ChunkGridFacts DEF ChunksInArray
<1>2. ASSUME NEW c
      PROVE  c \in GridCoords(s) <=> InBox(c, grid)
  <2> DEFINE U == UNION {0..(grid[j] - 1) : j \in Dims}
  <2>1. GridCoords(s) = {d \in [Dims -> U] : \A j \in Dims : d[j] < grid[j]}
    BY DEF GridCoords
  <2> HIDE DEF grid
  <2>2. U \subseteq Nat
    BY <1>1
  <2>3. ASSUME NEW n \in Nat, NEW j \in Dims, n < grid[j]
        PROVE  n \in U
    BY <1>1, <2>3
  <2> HIDE DEF U
  <2>4. ASSUME c \in GridCoords(s) PROVE InBox(c, grid)
    BY <2>1, <2>2, <2>4 DEF InBox
  <2>5. ASSUME InBox(c, grid) PROVE c \in GridCoords(s)
    BY <2>1, <2>3, <2>5 DEF InBox
  <2> QED BY <2>4, <2>5
<1> QED BY <1>1, <1>2

\* The super-chunk of an array has as many chunks as its grid has places.
LEMMA NumChunksIsProduct ==
    ASSUME NEW s \in [Dims -> Nat]
    PROVE  NumChunks(s) = Product(ChunksInArray(s))
BY ChunkShapeAssumption, ChunkCountIsProduct DEF NumChunks, ChunksInArray

\* The number of a chunk: places of the grid and numbers of chunks correspond.
NumberIn(s, c) == MultidimToUnidim(c, Strides(ChunksInArray(s)))
PlaceIn(s, k)  == UnidimToMultidim(ChunksInArray(s), k)

\* An array has a chunk at every place of its grid, and only there.
LEMMA Numbering ==
    ASSUME NEW s \in [Dims -> Nat]
    PROVE  /\ \A c \in GridCoords(s) :
                 /\ ChunksInArray(s) \in [Dims -> Nat \ {0}]
                 /\ NumberIn(s, c) \in 0..NumChunks(s) - 1
                 /\ PlaceIn(s, NumberIn(s, c)) = c
           /\ \A k \in 0..NumChunks(s) - 1 :
                 /\ PlaceIn(s, k) \in GridCoords(s)
                 /\ NumberIn(s, PlaceIn(s, k)) = k
<1> DEFINE grid == ChunksInArray(s)
<1>1. grid \in [Dims -> Nat] /\ NumChunks(s) = Product(grid)
  BY GridFacts, NumChunksIsProduct
<1>2. \A c : c \in GridCoords(s) <=> InBox(c, grid)
  BY GridFacts
<1> HIDE DEF grid
<1>3. ASSUME NEW c \in GridCoords(s)
      PROVE  /\ grid \in [Dims -> Nat \ {0}]
             /\ MultidimToUnidim(c, Strides(grid)) \in 0..NumChunks(s) - 1
             /\ UnidimToMultidim(grid, MultidimToUnidim(c, Strides(grid))) = c
  <2>1. InBox(c, grid)
    BY <1>2, <1>3
  <2>2. grid \in [Dims -> Nat \ {0}]
    <3>1. \A j \in Dims : grid[j] \in Nat \ {0}
      BY <2>1, <1>1 DEF InBox
    <3> QED BY <3>1, <1>1
  <2> QED BY <2>1, <2>2, <1>1, NumberOfIndex
<1>4. ASSUME NEW k \in 0..NumChunks(s) - 1
      PROVE  /\ UnidimToMultidim(grid, k) \in GridCoords(s)
             /\ MultidimToUnidim(UnidimToMultidim(grid, k), Strides(grid)) = k
  <2>1. grid \in [Dims -> Nat \ {0}]
    <3>1. \A j \in Dims : grid[j] # 0
      BY <1>1, ProductZero
    <3> QED BY <3>1, <1>1
  <2> QED BY <2>1, <1>1, <1>2, IndexOfNumber
<1> QED BY <1>3, <1>4 DEF NumberIn, PlaceIn, grid

-----------------------------------------------------------------------------
(* Counting the members of a set between two numbers. *)

Count(D, lo, hi) == Cardinality({k \in lo..hi - 1 : k \in D})

\* A range has finitely many, an empty range none, and no range more than its
\* length.
LEMMA CountFinite ==
    ASSUME NEW D, NEW lo \in Int, NEW hi \in Int
    PROVE  /\ IsFiniteSet({k \in lo..hi - 1 : k \in D})
           /\ Cardinality({k \in lo..hi - 1 : k \in D}) \in Nat
           /\ Cardinality({k \in lo..hi - 1 : k \in D}) <=
                 (IF hi <= lo THEN 0 ELSE hi - lo)
<1> DEFINE range == lo..hi - 1
           some  == {k \in range : k \in D}
<1>1. IsFiniteSet(range) /\ Cardinality(range) = IF hi <= lo THEN 0 ELSE hi - lo
  <2>1. hi - 1 \in Int
    OBVIOUS
  <2>2. Cardinality(range) = IF lo > hi - 1 THEN 0 ELSE (hi - 1) - lo + 1
    BY <2>1, FS_Interval
  <2> QED BY <2>1, <2>2, FS_Interval
<1>2. some \in SUBSET range
  OBVIOUS
<1>3. IsFiniteSet(some) /\ Cardinality(some) <= Cardinality(range)
  <2> HIDE DEF some, range
  <2> QED BY <1>1, <1>2, FS_Subset
<1>4. Cardinality(some) \in Nat
  BY <1>3, FS_CardinalityType
<1> QED BY <1>1, <1>3, <1>4

\* A count is a natural number and no larger than the range.
LEMMA CountBounds ==
    ASSUME NEW D, NEW lo \in Int, NEW hi \in Int
    PROVE  /\ Count(D, lo, hi) \in Nat
           /\ Count(D, lo, hi) <= (IF hi <= lo THEN 0 ELSE hi - lo)
BY CountFinite DEF Count

\* Counting one more element at the lower end.
LEMMA CountBelow ==
    ASSUME NEW D, NEW lo \in Int, NEW hi \in Int, lo < hi
    PROVE  Count(D, lo, hi) = Count(D, lo + 1, hi) + (IF lo \in D THEN 1 ELSE 0)
<1> DEFINE rest == {k \in lo + 1..hi - 1 : k \in D}
           all  == {k \in lo..hi - 1 : k \in D}
<1>1. IsFiniteSet(rest) /\ Cardinality(rest) \in Nat
  <2>1. lo + 1 \in Int
    OBVIOUS
  <2> QED BY <2>1, CountFinite
<1>2. lo \notin rest /\ all = IF lo \in D THEN rest \cup {lo} ELSE rest
  OBVIOUS
<1> HIDE DEF rest, all
<1>3. Cardinality(all) = Cardinality(rest) + (IF lo \in D THEN 1 ELSE 0)
  BY <1>1, <1>2, FS_AddElement
<1> QED BY <1>3 DEF Count, rest, all

\* Counting one more element at the upper end.
LEMMA CountAbove ==
    ASSUME NEW D, NEW lo \in Int, NEW hi \in Int, lo <= hi
    PROVE  Count(D, lo, hi + 1) = Count(D, lo, hi) + (IF hi \in D THEN 1 ELSE 0)
<1> DEFINE rest == {k \in lo..hi - 1 : k \in D}
           all  == {k \in lo..(hi + 1) - 1 : k \in D}
<1>1. IsFiniteSet(rest) /\ Cardinality(rest) \in Nat
  BY CountFinite
<1>2. hi \notin rest /\ all = IF hi \in D THEN rest \cup {hi} ELSE rest
  OBVIOUS
<1> HIDE DEF rest, all
<1>3. Cardinality(all) = Cardinality(rest) + (IF hi \in D THEN 1 ELSE 0)
  BY <1>1, <1>2, FS_AddElement
<1> QED BY <1>3 DEF Count, rest, all

\* Counting in two parts.
LEMMA CountSplit ==
    ASSUME NEW D, NEW lo \in Int, NEW mid \in Int, NEW hi \in Int, lo <= mid, mid <= hi
    PROVE  Count(D, lo, hi) = Count(D, lo, mid) + Count(D, mid, hi)
<1> DEFINE low  == {k \in lo..mid - 1 : k \in D}
           high == {k \in mid..hi - 1 : k \in D}
           all  == {k \in lo..hi - 1 : k \in D}
<1>1. /\ IsFiniteSet(low) /\ Cardinality(low) \in Nat
      /\ IsFiniteSet(high) /\ Cardinality(high) \in Nat
  BY CountFinite
<1>2. all = low \cup high /\ low \cap high = {}
  OBVIOUS
<1> HIDE DEF low, high, all
<1>3. Cardinality(all) = Cardinality(low) + Cardinality(high) - Cardinality({})
  BY <1>1, <1>2, FS_Union
<1>4. Cardinality(all) = Cardinality(low) + Cardinality(high)
  BY <1>1, <1>3, FS_EmptySet
<1> QED BY <1>4 DEF Count, low, high, all

-----------------------------------------------------------------------------
(* Ranks. *)

\* M lists, in ascending order, the m numbers below n that are not in D.
Lists(M, m, n, D) ==
    /\ M \in [0..m - 1 -> 0..n - 1]
    /\ \A x, y \in 0..m - 1 : x < y => M[x] < M[y]
    /\ \A k \in 0..n - 1 : k \in D <=> ~ \E x \in 0..m - 1 : M[x] = k

\* The number of non-members of D below a non-member is its position in the list.
LEMMA Ranks ==
    ASSUME NEW n \in Nat, NEW m \in Nat, NEW M, NEW D, Lists(M, m, n, D)
    PROVE  /\ \A x \in 0..m - 1 : M[x] - Count(D, 0, M[x]) = x
           /\ m = n - Count(D, 0, n)
<1> DEFINE Rank(k) == k - Count(D, 0, k)
           Below(k, r) == r \in 0..m /\ \A x \in 0..m - 1 : M[x] < k <=> x < r
           S == {k \in 0..n : Below(k, Rank(k))}
<1> /\ M \in [0..m - 1 -> 0..n - 1]
    /\ \A x, y \in 0..m - 1 : x < y => M[x] < M[y]
    /\ \A k \in 0..n - 1 : k \in D <=> ~ \E x \in 0..m - 1 : M[x] = k
  BY DEF Lists
<1>1. \A k \in Nat : Count(D, 0, k) \in Nat
  BY CountBounds
<1>2. 0 \in S
  <2>1. Count(D, 0, 0) = 0
    BY CountBounds
  <2> QED BY <2>1
<1>3. ASSUME NEW k \in 0..n - 1, k \in S
      PROVE  k + 1 \in S
  <2>1. Count(D, 0, k + 1) = Count(D, 0, k) + (IF k \in D THEN 1 ELSE 0)
    BY CountAbove
  <2> DEFINE r == Rank(k)
  <2>2. Below(k, r)
    BY <1>3
  <2>3. r \in Int /\ k + 1 \in 0..n
    BY <1>1
  <2>4. Rank(k + 1) = IF k \in D THEN r ELSE r + 1
    <3>1. Count(D, 0, k) \in Nat
      BY <1>1
    <3>2. CASE k \in D
      BY <2>1, <3>1, <3>2
    <3>3. CASE k \notin D
      BY <2>1, <3>1, <3>3
    <3> QED BY <3>2, <3>3
  <2> HIDE DEF Rank, r
  <2>5. CASE k \in D
    <3>1. \A x \in 0..m - 1 : M[x] # k
      BY <2>5
    <3>2. \A x \in 0..m - 1 : M[x] < k + 1 <=> M[x] < k
      BY <3>1
    <3> QED BY <2>2, <2>3, <2>4, <2>5, <3>2
  <2>6. CASE k \notin D
    <3>1. PICK y \in 0..m - 1 : M[y] = k
      BY <2>6
    <3>2. r <= y
      BY <2>2, <3>1
    <3>3. y <= r
      <4>1. \A x \in 0..m - 1 : x < y => x < r
        BY <2>2, <3>1
      <4>2. y - 1 \in 0..m - 1 => y - 1 < r
        BY <4>1
      <4>3. r \in 0..m
        BY <2>2
      <4> QED BY <4>2, <4>3
    <3>4. r = y
      BY <2>3, <3>2, <3>3
    <3>5. \A x \in 0..m - 1 : M[x] < k + 1 <=> x < y + 1
      <4> TAKE x \in 0..m - 1
      <4>1. CASE x < y
        BY <3>1, <4>1
      <4>2. CASE x = y
        BY <3>1, <4>2
      <4>3. CASE y < x
        BY <3>1, <4>3
      <4> QED BY <4>1, <4>2, <4>3
    <3>6. Below(k + 1, y + 1)
      BY <3>5
    <3> HIDE DEF Below
    <3> QED BY <2>3, <2>4, <2>6, <3>4, <3>6
  <2> QED BY <2>5, <2>6
<1>4. \A k \in 0..n : Below(k, Rank(k))
  <2> HIDE DEF S
  <2>1. \A k \in 0..n : k \in S
    BY <1>2, <1>3, CountingUp
  <2> QED BY <2>1 DEF S
<1>5. ASSUME NEW x \in 0..m - 1
      PROVE  Rank(M[x]) = x
  <2> DEFINE r == Rank(M[x])
  <2>1. Below(M[x], r)
    BY <1>4
  <2> HIDE DEF r, Rank
  <2>2. \A y \in 0..m - 1 : M[y] < M[x] <=> y < x
    <3> TAKE y \in 0..m - 1
    <3>1. CASE y < x
      BY <3>1
    <3>2. CASE y = x
      BY <3>2
    <3>3. CASE x < y
      BY <3>3
    <3> QED BY <3>1, <3>2, <3>3
  <2>3. r \in 0..m /\ \A y \in 0..m - 1 : y < r <=> y < x
    BY <2>1, <2>2
  <2>4. r = x
    <3>1. x < r <=> x < x
      BY <2>3
    <3>2. r \in 0..m - 1 => (r < r <=> r < x)
      BY <2>3
    <3> QED BY <2>3, <3>1, <3>2
  <2> QED BY <2>4 DEF r
<1>6. Rank(n) = m
  <2> DEFINE r == Rank(n)
  <2>1. Below(n, r)
    BY <1>4
  <2> HIDE DEF r, Rank
  <2>2. r \in 0..m /\ \A x \in 0..m - 1 : x < r
    BY <2>1
  <2>3. m - 1 \in 0..m - 1 => m - 1 < r
    BY <2>2
  <2>4. r = m
    BY <2>2, <2>3
  <2> QED BY <2>4 DEF r
<1> QED BY <1>5, <1>6

-----------------------------------------------------------------------------
(* One dimension: a range of l items, from position a on, is cut out of f items and *)
(* t are left, in chunks of s items.                                                *)

FitsDim(s, f, t, a) ==
    \/ f - t = 0
    \/ a = t
    \/ (a % s) = 0 /\ ((f - t) % s) = 0 /\ a <= t

DownBy(s, l, a, c) == IF s * c < a THEN c ELSE c + (l \div s)
UpBy(s, l, a, c)   == IF s * c < a THEN c ELSE c - (l \div s)

\* Where a chunk that is left stood before lies inside the dimension and not in
\* the range.
LEMMA DownByFacts ==
    ASSUME NEW s \in Nat \ {0}, NEW f \in Nat, NEW t \in Nat, NEW a \in Nat,
           t <= f, FitsDim(s, f, t, a),
           NEW c \in Nat, s * c < t
    PROVE  /\ DownBy(s, f - t, a, c) \in Nat
           /\ s * DownBy(s, f - t, a, c) < f
           /\ ~ (s * DownBy(s, f - t, a, c) >= a /\ s * DownBy(s, f - t, a, c) < a + (f - t))
           /\ UpBy(s, f - t, a, DownBy(s, f - t, a, c)) = c
<1> DEFINE l == f - t
           q == l \div s
           e == DownBy(s, l, a, c)
<1>1. l \in Nat /\ l = f - t /\ s * c \in Nat
  OBVIOUS
<1>2. l = 0 \/ a = t \/ (a <= t /\ (l % s) = 0)
  BY DEF FitsDim
<1> HIDE DEF l
<1>3. q \in Nat /\ ((l % s) = 0 => l = q * s) /\ (l = 0 => q = 0)
  BY <1>1, ExactQuotient
<1>4. e = IF s * c < a THEN c ELSE c + q
  BY DEF DownBy
<1> HIDE DEF q, e
<1>5. CASE s * c < a
  <2>1. e = c
    BY <1>4, <1>5
  <2>2. UpBy(s, l, a, c) = c
    BY <1>5 DEF UpBy
  <2> QED BY <1>1, <1>5, <2>1, <2>2 DEF l, e
<1>6. CASE ~ (s * c < a)
  <2>1. l = q * s
    <3>1. l = 0 \/ (l % s) = 0
      BY <1>1, <1>2, <1>6
    <3> QED BY <1>3, <3>1
  <2>2. e = c + q /\ e \in Nat
    BY <1>3, <1>4, <1>6
  <2>3. s * e = s * c + l
    <3>1. s * (c + q) = s * c + q * s
      BY <1>3
    <3> QED BY <2>1, <2>2, <3>1
  <2>4. s * e >= a + l /\ s * e < f
    BY <1>1, <1>6, <2>1, <2>3
  <2>5. UpBy(s, l, a, e) = c
    <3>1. UpBy(s, l, a, e) = e - q
      <4>1. s * e \in Nat
        BY <2>2
      <4> QED BY <1>1, <2>4, <4>1 DEF UpBy, q
    <3> QED BY <1>3, <2>2, <3>1
  <2> QED BY <1>1, <2>2, <2>4, <2>5 DEF l, e
<1> QED BY <1>5, <1>6

\* A chunk outside the range is one that is left.
LEMMA UpByFacts ==
    ASSUME NEW s \in Nat \ {0}, NEW f \in Nat, NEW t \in Nat, NEW a \in Nat,
           t <= f, FitsDim(s, f, t, a),
           NEW e \in Nat, s * e < f, ~ (s * e >= a /\ s * e < a + (f - t))
    PROVE  /\ UpBy(s, f - t, a, e) \in Nat
           /\ s * UpBy(s, f - t, a, e) < t
           /\ DownBy(s, f - t, a, UpBy(s, f - t, a, e)) = e
<1> DEFINE l == f - t
           q == l \div s
           c == UpBy(s, l, a, e)
<1>1. l \in Nat /\ l = f - t /\ s * e \in Nat
  OBVIOUS
<1>2. l = 0 \/ a = t \/ (a <= t /\ (l % s) = 0 /\ (a % s) = 0)
  BY DEF FitsDim
<1> HIDE DEF l
<1>3. q \in Nat /\ ((l % s) = 0 => l = q * s) /\ (l = 0 => q = 0)
  BY <1>1, ExactQuotient
<1>4. c = IF s * e < a THEN e ELSE e - q
  BY DEF UpBy
<1> HIDE DEF q, c
<1>5. CASE s * e < a
  <2>1. c = e
    BY <1>4, <1>5
  <2>2. DownBy(s, l, a, e) = e
    BY <1>5 DEF DownBy
  <2>3. s * e < t
    BY <1>1, <1>2, <1>5
  <2> QED BY <1>1, <2>1, <2>2, <2>3 DEF l, c
<1>6. CASE ~ (s * e < a)
  <2>0. s * e >= a + l
    BY <1>1, <1>6 DEF l
  <2>1. l = q * s
    <3>1. l = 0 \/ (l % s) = 0
      BY <1>1, <1>2, <2>0
    <3> QED BY <1>3, <3>1
  <2>2. c = e - q /\ c \in Int
    BY <1>3, <1>4, <1>6
  <2>3. s * e = s * c + l
    <3>1. s * (e - q) = s * e - q * s
      BY <1>3
    <3>2. q * s \in Int
      BY <1>3
    <3> QED BY <1>1, <2>1, <2>2, <3>1, <3>2
  <2>4. s * c \in Int
    BY <2>2
  <2>5. s * c >= a /\ s * c < t
    BY <1>1, <2>0, <2>3, <2>4
  <2>6. c \in Nat
    <3>1. SUFFICES ASSUME c <= -1 PROVE FALSE
      BY <2>2
    <3>2. c + 1 <= 0 /\ c + 1 \in Int
      BY <2>2, <3>1
    <3>3. s * (c + 1) <= 0
      BY <3>2
    <3>4. s * (c + 1) = s * c + s
      BY <2>2
    <3> QED BY <2>4, <2>5, <3>3, <3>4
  <2>7. DownBy(s, l, a, c) = e
    <3>1. DownBy(s, l, a, c) = c + q
      BY <2>4, <2>5 DEF DownBy, q
    <3> QED BY <1>3, <2>2, <3>1
  <2> QED BY <1>1, <2>5, <2>6, <2>7 DEF l, c
<1> QED BY <1>5, <1>6

\* Two chunks keep their order.
LEMMA DownByOrder ==
    ASSUME NEW s \in Nat \ {0}, NEW l \in Nat, NEW a \in Nat,
           NEW c \in Nat, NEW d \in Nat, c < d
    PROVE  DownBy(s, l, a, c) < DownBy(s, l, a, d)
<1>1. l \div s \in Nat
  BY QuotientRest
<1>2. s * c <= s * d /\ s * c \in Nat /\ s * d \in Nat
  OBVIOUS
<1> QED BY <1>1, <1>2 DEF DownBy

-----------------------------------------------------------------------------
(* All dimensions: shape small is shape big without the range at start. *)

Length(big, small) == [j \in Dims |-> big[j] - small[j]]

IsCutOf(big, small, start) ==
    /\ big \in [Dims -> Nat] /\ small \in [Dims -> Nat] /\ start \in [Dims -> Nat]
    /\ \A j \in Dims : small[j] <= big[j]
    /\ Fits(start, Length(big, small), small, small)

\* The places a chunk that is left has before and after.
DownFrom(big, small, start, c) == Shifted(c, start, Length(big, small), 1)
UpFrom(big, small, start, c)   == Shifted(c, start, Length(big, small), -1)

\* A multiple of s is one on the other side of zero, too.
LEMMA NegativeRest ==
    ASSUME NEW s \in Nat \ {0}, NEW x \in Int, NEW y \in Int, y = -x, (x % s) = 0
    PROVE  (y % s) = 0
<1> DEFINE a == x \div s
<1>1. a \in Int /\ x = a * s
  BY Z3
<1> HIDE DEF a
<1>2. y = (-a) * s
  BY <1>1
<1>3. \A b \in Int : ((b * s) % s) = 0
  OBVIOUS
<1> QED BY <1>1, <1>2, <1>3

\* In each dimension such a shape is cut as above.
LEMMA CutDims ==
    ASSUME NEW big, NEW small, NEW start, IsCutOf(big, small, start), NEW j \in Dims
    PROVE  /\ ChunkShape[j] \in Nat \ {0}
           /\ big[j] \in Nat /\ small[j] \in Nat /\ start[j] \in Nat
           /\ small[j] <= big[j]
           /\ FitsDim(ChunkShape[j], big[j], small[j], start[j])
           /\ big[j] - small[j] \in Nat
           /\ Length(big, small)[j] = big[j] - small[j]
<1>1. Length(big, small)[j] = big[j] - small[j]
  BY DEF Length
<1>2. /\ ChunkShape[j] \in Nat \ {0}
      /\ big[j] \in Nat /\ small[j] \in Nat /\ start[j] \in Nat
      /\ small[j] <= big[j]
  BY ChunkShapeAssumption DEF IsCutOf
<1>3. FitsDim(ChunkShape[j], big[j], small[j], start[j])
  BY <1>1 DEF IsCutOf, Fits, FitsDim
<1> QED BY <1>1, <1>2, <1>3

\* The places before and after, dimension by dimension.
LEMMA ShiftedDims ==
    ASSUME NEW big, NEW small, NEW start, IsCutOf(big, small, start),
           NEW c \in [Dims -> Nat], NEW j \in Dims
    PROVE  /\ DownFrom(big, small, start, c)[j]
                = DownBy(ChunkShape[j], big[j] - small[j], start[j], c[j])
           /\ UpFrom(big, small, start, c)[j]
                = UpBy(ChunkShape[j], big[j] - small[j], start[j], c[j])
<1>1. /\ ChunkShape[j] \in Nat \ {0} /\ big[j] - small[j] \in Nat
      /\ Length(big, small)[j] = big[j] - small[j]
  BY CutDims
<1>2. (big[j] - small[j]) \div ChunkShape[j] \in Nat /\ c[j] \in Nat
  BY <1>1, QuotientRest
<1>3. /\ DownFrom(big, small, start, c)[j]
            = IF ChunkShape[j] * c[j] < start[j] THEN c[j]
              ELSE c[j] + 1 * ((big[j] - small[j]) \div ChunkShape[j])
      /\ UpFrom(big, small, start, c)[j]
            = IF ChunkShape[j] * c[j] < start[j] THEN c[j]
              ELSE c[j] + (-1) * ((big[j] - small[j]) \div ChunkShape[j])
  BY <1>1 DEF DownFrom, UpFrom, Shifted
<1>4. \A n, q \in Nat : n + 1 * q = n + q /\ n + (-1) * q = n - q
  OBVIOUS
<1> QED BY <1>2, <1>3, <1>4 DEF DownBy, UpBy

\* The chunks of the small grid come from the chunks of the big one that the range
\* does not cover.
LEMMA DownFromFacts ==
    ASSUME NEW big, NEW small, NEW start, IsCutOf(big, small, start),
           NEW c \in GridCoords(small)
    PROVE  /\ DownFrom(big, small, start, c) \in GridCoords(big)
           /\ ~ Covers(start, Length(big, small), DownFrom(big, small, start, c))
           /\ UpFrom(big, small, start, DownFrom(big, small, start, c)) = c
<1> DEFINE e == DownFrom(big, small, start, c)
<1>1. big \in [Dims -> Nat] /\ small \in [Dims -> Nat]
  BY DEF IsCutOf
<1>2. c \in [Dims -> Nat] /\ \A j \in Dims : ChunkShape[j] * c[j] < small[j]
  BY <1>1, GridFacts DEF InBox
<1>3. ASSUME NEW j \in Dims
      PROVE  /\ e[j] \in Nat
             /\ ChunkShape[j] * e[j] < big[j]
             /\ ~ (ChunkShape[j] * e[j] >= start[j]
                   /\ ChunkShape[j] * e[j] < start[j] + Length(big, small)[j])
             /\ UpBy(ChunkShape[j], big[j] - small[j], start[j], e[j]) = c[j]
  <2>1. e[j] = DownBy(ChunkShape[j], big[j] - small[j], start[j], c[j])
    BY <1>2, ShiftedDims
  <2>2. c[j] \in Nat /\ ChunkShape[j] * c[j] < small[j]
    BY <1>2
  <2> HIDE DEF e
  <2> QED BY <2>1, <2>2, CutDims, DownByFacts
<1>4. e \in [Dims -> Nat]
  <2>1. e = [j \in Dims |-> e[j]]
    BY DEF DownFrom, Shifted
  <2> HIDE DEF e
  <2> QED BY <2>1, <1>3
<1>5. e \in GridCoords(big)
  <2> HIDE DEF e
  <2>1. InBox(e, ChunksInArray(big))
    BY <1>1, <1>3, <1>4, GridFacts DEF InBox
  <2> QED BY <2>1, <1>1, GridFacts
<1>6. ~ Covers(start, Length(big, small), e)
  <2> HIDE DEF e
  <2> QED BY <1>3 DEF Covers
<1>7. UpFrom(big, small, start, e) = c
  <2> DEFINE u == UpFrom(big, small, start, e)
  <2>1. u = [j \in Dims |-> u[j]]
    BY DEF UpFrom, Shifted
  <2>2. ASSUME NEW j \in Dims
        PROVE  u[j] = c[j]
    <3> HIDE DEF e
    <3> QED BY <1>3, <1>4, ShiftedDims
  <2>3. c = [j \in Dims |-> c[j]]
    BY <1>2
  <2> HIDE DEF u
  <2>4. u = c
    BY <2>1, <2>2, <2>3
  <2> QED BY <2>4 DEF u
<1> QED BY <1>5, <1>6, <1>7

\* Each of those is at one place of the small grid.
LEMMA UpFromFacts ==
    ASSUME NEW big, NEW small, NEW start, IsCutOf(big, small, start),
           NEW e \in GridCoords(big), ~ Covers(start, Length(big, small), e)
    PROVE  /\ UpFrom(big, small, start, e) \in GridCoords(small)
           /\ DownFrom(big, small, start, UpFrom(big, small, start, e)) = e
<1> DEFINE c == UpFrom(big, small, start, e)
<1>1. big \in [Dims -> Nat] /\ small \in [Dims -> Nat]
  BY DEF IsCutOf
<1>2. e \in [Dims -> Nat] /\ \A j \in Dims : ChunkShape[j] * e[j] < big[j]
  BY <1>1, GridFacts DEF InBox
<1>3. ASSUME NEW j \in Dims
      PROVE  /\ c[j] \in Nat
             /\ ChunkShape[j] * c[j] < small[j]
             /\ DownBy(ChunkShape[j], big[j] - small[j], start[j], c[j]) = e[j]
  <2>1. c[j] = UpBy(ChunkShape[j], big[j] - small[j], start[j], e[j])
    BY <1>2, ShiftedDims
  <2>2. e[j] \in Nat /\ ChunkShape[j] * e[j] < big[j]
    BY <1>2
  <2>3. ~ (ChunkShape[j] * e[j] >= start[j]
           /\ ChunkShape[j] * e[j] < start[j] + (big[j] - small[j]))
    <3>1. Length(big, small)[j] = big[j] - small[j]
      BY CutDims
    <3> QED BY <3>1 DEF Covers
  <2> HIDE DEF c
  <2> QED BY <2>1, <2>2, <2>3, CutDims, UpByFacts
<1>4. c \in [Dims -> Nat]
  <2>1. c = [j \in Dims |-> c[j]]
    BY DEF UpFrom, Shifted
  <2> HIDE DEF c
  <2> QED BY <2>1, <1>3
<1>5. c \in GridCoords(small)
  <2> HIDE DEF c
  <2>1. InBox(c, ChunksInArray(small))
    BY <1>1, <1>3, <1>4, GridFacts DEF InBox
  <2> QED BY <2>1, <1>1, GridFacts
<1>6. DownFrom(big, small, start, c) = e
  <2> DEFINE u == DownFrom(big, small, start, c)
  <2>1. u = [j \in Dims |-> u[j]]
    BY DEF DownFrom, Shifted
  <2>2. ASSUME NEW j \in Dims
        PROVE  u[j] = e[j]
    <3> HIDE DEF c
    <3> QED BY <1>3, <1>4, ShiftedDims
  <2>3. e = [j \in Dims |-> e[j]]
    BY <1>2
  <2> HIDE DEF u
  <2>4. u = e
    BY <2>1, <2>2, <2>3
  <2> QED BY <2>4 DEF u
<1> QED BY <1>5, <1>6

\* The numbers, in the big grid, of the chunks that the range covers.
Covered(big, small, start) ==
    {k \in Int : Covers(start, Length(big, small), PlaceIn(big, k))}

\* The chunks that are left keep the order of their numbers.
LEMMA DownFromOrder ==
    ASSUME NEW big, NEW small, NEW start, IsCutOf(big, small, start),
           NEW c \in GridCoords(small), NEW d \in GridCoords(small),
           NumberIn(small, c) < NumberIn(small, d)
    PROVE  NumberIn(big, DownFrom(big, small, start, c))
             < NumberIn(big, DownFrom(big, small, start, d))
<1> DEFINE x == DownFrom(big, small, start, c)
           y == DownFrom(big, small, start, d)
<1>1. big \in [Dims -> Nat] /\ small \in [Dims -> Nat]
  BY DEF IsCutOf
<1>2. x \in GridCoords(big) /\ y \in GridCoords(big)
  BY DownFromFacts
<1>3. c \in [Dims -> Nat] /\ d \in [Dims -> Nat]
  BY <1>1, GridFacts DEF InBox
<1>4. ASSUME NEW j \in Dims
      PROVE  /\ c[j] < d[j] => x[j] < y[j]
             /\ c[j] = d[j] => x[j] = y[j]
             /\ c[j] > d[j] => x[j] > y[j]
  <2> DEFINE s == ChunkShape[j]
             l == big[j] - small[j]
             a == start[j]
  <2>1. x[j] = DownBy(s, l, a, c[j]) /\ y[j] = DownBy(s, l, a, d[j])
    BY <1>3, ShiftedDims
  <2>2. s \in Nat \ {0} /\ l \in Nat /\ a \in Nat /\ c[j] \in Nat /\ d[j] \in Nat
    BY <1>3, CutDims
  <2>3. c[j] < d[j] => DownBy(s, l, a, c[j]) < DownBy(s, l, a, d[j])
    BY <2>2, DownByOrder
  <2>4. d[j] < c[j] => DownBy(s, l, a, d[j]) < DownBy(s, l, a, c[j])
    BY <2>2, DownByOrder
  <2>5. DownBy(s, l, a, c[j]) \in Nat /\ DownBy(s, l, a, d[j]) \in Nat
    <3>1. x[j] \in Nat /\ y[j] \in Nat
      BY <1>1, <1>2, GridFacts DEF InBox
    <3> QED BY <2>1, <3>1
  <2> HIDE DEF s, l, a, x, y
  <2> QED BY <2>1, <2>2, <2>3, <2>4, <2>5
<1>5. /\ InBox(c, ChunksInArray(small)) /\ InBox(d, ChunksInArray(small))
      /\ InBox(x, ChunksInArray(big)) /\ InBox(y, ChunksInArray(big))
  BY <1>1, <1>2, GridFacts
<1>6. /\ ChunksInArray(small) \in [Dims -> Nat \ {0}]
      /\ ChunksInArray(big) \in [Dims -> Nat \ {0}]
  BY <1>1, <1>2, Numbering
<1> HIDE DEF x, y
<1>7. MultidimToUnidim(c, Strides(ChunksInArray(small)))
        < MultidimToUnidim(d, Strides(ChunksInArray(small)))
  BY DEF NumberIn
<1>8. MultidimToUnidim(x, Strides(ChunksInArray(big)))
        < MultidimToUnidim(y, Strides(ChunksInArray(big)))
  BY <1>4, <1>5, <1>6, <1>7, OrderKept
<1> QED BY <1>8 DEF NumberIn, x, y

\* The number of a chunk that is left is the number it had, less the covered ones in
\* front of it; and the small grid has as many chunks as are left.
LEMMA Renumbering ==
    ASSUME NEW big, NEW small, NEW start, IsCutOf(big, small, start)
    PROVE  LET D == Covered(big, small, start)
           IN  /\ \A c \in GridCoords(small) :
                    LET k == NumberIn(big, DownFrom(big, small, start, c))
                    IN  /\ k \in 0..NumChunks(big) - 1
                        /\ k \notin D
                        /\ k - Count(D, 0, k) = NumberIn(small, c)
               /\ NumChunks(small) = NumChunks(big) - Count(D, 0, NumChunks(big))
<1> DEFINE D == Covered(big, small, start)
           n == NumChunks(big)
           m == NumChunks(small)
           Down(c) == DownFrom(big, small, start, c)
           M == [i \in 0..m - 1 |-> NumberIn(big, Down(PlaceIn(small, i)))]
<1>1. big \in [Dims -> Nat] /\ small \in [Dims -> Nat]
  BY DEF IsCutOf
<1>2. n \in Nat /\ m \in Nat
  BY <1>1, NumChunksType
<1>3. \A i \in 0..m - 1 : PlaceIn(small, i) \in GridCoords(small)
                          /\ NumberIn(small, PlaceIn(small, i)) = i
  BY <1>1, Numbering
<1>4. \A c \in GridCoords(small) : NumberIn(small, c) \in 0..m - 1
                                   /\ PlaceIn(small, NumberIn(small, c)) = c
  BY <1>1, Numbering
<1>5. \A k \in 0..n - 1 : PlaceIn(big, k) \in GridCoords(big)
                          /\ NumberIn(big, PlaceIn(big, k)) = k
  BY <1>1, Numbering
<1>6. \A e \in GridCoords(big) : NumberIn(big, e) \in 0..n - 1
                                 /\ PlaceIn(big, NumberIn(big, e)) = e
  BY <1>1, Numbering
<1>7. ASSUME NEW c \in GridCoords(small)
      PROVE  /\ Down(c) \in GridCoords(big)
             /\ NumberIn(big, Down(c)) \in 0..n - 1
             /\ NumberIn(big, Down(c)) \notin D
  <2>1. Down(c) \in GridCoords(big) /\ ~ Covers(start, Length(big, small), Down(c))
    BY DownFromFacts
  <2> HIDE DEF Down, n
  <2> QED BY <2>1, <1>6 DEF Covered
<1> HIDE DEF D, n, m, Down
<1>8. M \in [0..m - 1 -> 0..n - 1]
  BY <1>3, <1>7
<1>9. ASSUME NEW x \in 0..m - 1, NEW y \in 0..m - 1, x < y
      PROVE  M[x] < M[y]
  <2>1. NumberIn(big, Down(PlaceIn(small, x))) < NumberIn(big, Down(PlaceIn(small, y)))
    BY <1>3, <1>9, DownFromOrder DEF Down
  <2> QED BY <2>1
<1>10. ASSUME NEW k \in 0..n - 1
       PROVE  k \in D <=> ~ \E x \in 0..m - 1 : M[x] = k
  <2>1. ASSUME NEW x \in 0..m - 1, M[x] = k PROVE k \notin D
    BY <1>3, <1>7, <2>1
  <2>2. ASSUME k \notin D PROVE \E x \in 0..m - 1 : M[x] = k
    <3> DEFINE e == PlaceIn(big, k)
               c == UpFrom(big, small, start, e)
    <3>1. e \in GridCoords(big) /\ ~ Covers(start, Length(big, small), e)
      BY <1>5, <2>2 DEF D, Covered
    <3>2. c \in GridCoords(small) /\ Down(c) = e
      BY <3>1, UpFromFacts DEF Down
    <3> HIDE DEF c, M
    <3>3. NumberIn(small, c) \in 0..m - 1
      BY <1>4, <3>2
    <3>4. M[NumberIn(small, c)] = NumberIn(big, Down(c))
      BY <1>4, <3>2, <3>3 DEF M
    <3>5. M[NumberIn(small, c)] = k
      BY <1>5, <3>2, <3>4
    <3> QED BY <3>3, <3>5
  <2> QED BY <2>1, <2>2
<1>11. /\ \A x \in 0..m - 1 : M[x] - Count(D, 0, M[x]) = x
       /\ m = n - Count(D, 0, n)
  <2> HIDE DEF M
  <2>1. Lists(M, m, n, D)
    BY <1>8, <1>9, <1>10 DEF Lists
  <2> QED BY <1>2, <2>1, Ranks
<1>12. ASSUME NEW c \in GridCoords(small)
       PROVE  NumberIn(big, Down(c)) - Count(D, 0, NumberIn(big, Down(c)))
                = NumberIn(small, c)
  <2>1. M[NumberIn(small, c)] = NumberIn(big, Down(c))
    BY <1>4
  <2> HIDE DEF M
  <2> QED BY <1>4, <1>11, <2>1
<1> HIDE DEF M
<1> QED BY <1>7, <1>11, <1>12 DEF D, n, m, Down
=============================================================================
