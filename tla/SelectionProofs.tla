--------------------------- MODULE SelectionProofs ---------------------------
(***************************************************************************)
(* Theorems about Selection: for every number of dimensions, partition and *)
(* shape and all lists of indexes, the loop over the runs of equal chunks  *)
(* comes to every combination of the lists' entries, so that a get returns *)
(* every selected item, and in a set the last occurrence of an index wins. *)
(***************************************************************************)
EXTENDS Selection, GeometryProofs, FiniteSetTheorems

-----------------------------------------------------------------------------
(* Runs. *)

\* The lists are sorted and the loop is at an entry of each.
AtRun ==
    /\ order \in [Dims -> Seq(Entries)]
    /\ at \in [Dims -> Nat \ {0}]
    /\ \A j \in Dims : at[j] <= Len(order[j])

\* The greatest of some numbers, and the least.
LEMMA MaxFacts ==
    ASSUME NEW n \in Int, NEW S, S # {}, \A i \in S : i \in Int /\ i <= n
    PROVE  Max(S) \in S /\ \A i \in S : i <= Max(S)
<1>1. PICK g \in S : \A i \in S : i <= g
  BY GreatestElement
<1>2. \A i \in S : g >= i
  BY <1>1
<1> DEFINE m == Max(S)
<1>3. m \in S /\ \A i \in S : m >= i
  BY <1>2 DEF Max
<1> HIDE DEF m
<1>4. \A i \in S : i <= m
  BY <1>3
<1> QED BY <1>3, <1>4 DEF m

\* The numbers of the entries that follow each other in one chunk are an interval, and the
\* entry behind it is in another chunk.
LEMMA RunFacts ==
    ASSUME AtRun, NEW j \in Dims
    PROVE  /\ LastOfRun(j) \in at[j]..Len(order[j])
           /\ Run(j) = at[j]..LastOfRun(j)
           /\ \A i \in Run(j) : ChunkIndex(j, i) = ChunkIndex(j, at[j])
           /\ LastOfRun(j) < Len(order[j])
                => ChunkIndex(j, LastOfRun(j) + 1) # ChunkIndex(j, at[j])
<1> DEFINE n == Len(order[j])
           a == at[j]
           X(i) == ChunkIndex(j, i)
           R == {i \in a..n : \A m \in a..i : X(m) = X(a)}
<1>1. n \in Nat /\ a \in Nat \ {0} /\ a <= n
  BY DEF AtRun
<1>2. Run(j) = R
  BY DEF Run
<1> HIDE DEF X, n, a
<1>3. a \in R
  <2>1. \A m \in a..a : m = a
    BY <1>1
  <2> QED BY <1>1, <2>1
<1>4. PICK g \in R : \A i \in R : i <= g
  <2>1. \A i \in R : i \in Int /\ i <= n
    BY <1>1
  <2>2. n \in Int /\ R # {}
    BY <1>1, <1>3
  <2> HIDE DEF R
  <2> QED BY <2>1, <2>2, GreatestElement
<1>5. g \in a..n /\ \A m \in a..g : X(m) = X(a)
  BY <1>4
<1>6. R = a..g
  <2>1. ASSUME NEW i \in R PROVE i \in a..g
    BY <1>1, <1>4, <1>5, <2>1
  <2>2. ASSUME NEW i \in a..g PROVE i \in R
    <3>1. i \in a..n
      BY <1>1, <1>5
    <3>2. \A m \in a..i : m \in a..g
      BY <1>1, <1>5
    <3> QED BY <1>5, <3>1, <3>2
  <2> HIDE DEF R
  <2> QED BY <2>1, <2>2
<1>7. Cardinality(R) = g - a + 1
  <2>1. a \in Int /\ g \in Int /\ ~(a > g)
    BY <1>1, <1>5
  <2>2. Cardinality(a..g) = g - a + 1
    BY <2>1, FS_Interval
  <2> HIDE DEF R
  <2> QED BY <1>6, <2>2
<1>8. LastOfRun(j) = g
  <2>1. LastOfRun(j) = a + Cardinality(R) - 1
    BY <1>2 DEF LastOfRun, a
  <2> QED BY <1>1, <1>5, <1>7, <2>1
<1>9. g < n => X(g + 1) # X(a)
  <2> SUFFICES ASSUME g < n, X(g + 1) = X(a) PROVE FALSE
    OBVIOUS
  <2>1. g + 1 \in a..n
    BY <1>1, <1>5
  <2>2. ASSUME NEW m \in a..g + 1 PROVE X(m) = X(a)
    <3>1. m \in a..g \/ m = g + 1
      BY <1>1, <1>5
    <3> QED BY <1>5, <3>1
  <2>3. g + 1 \in R
    BY <2>1, <2>2
  <2>4. g + 1 <= g
    BY <1>4, <2>3
  <2> QED BY <1>5, <1>1, <2>4
<1>10. \A i \in R : X(i) = X(a)
  BY <1>5, <1>6
<1> HIDE DEF R
<1> QED BY <1>2, <1>5, <1>6, <1>8, <1>9, <1>10 DEF X, n, a

-----------------------------------------------------------------------------
(* The order in which the loop comes to the entries. *)

\* The combinations of the lists' entries.
All == {e \in [Dims -> Nat] : \A j \in Dims : e[j] \in 1..Len(order[j])}

\* Those the loop has passed: in the first dimension where they are not in the run that
\* the loop is at, they come before it.
Passed(e) == \E i \in Dims : e[i] < at[i] /\ \A j \in 1..i - 1 : e[j] \in Run(j)

\* Those it is at.
LEMMA ElementsFacts ==
    ASSUME AtRun, NEW e
    PROVE  e \in Elements <=> e \in [Dims -> Nat] /\ \A j \in Dims : e[j] \in Run(j)
<1>1. \A j \in Dims : Run(j) \subseteq Nat
  BY RunFacts DEF AtRun
<1>2. ASSUME e \in Elements PROVE e \in [Dims -> Nat] /\ \A j \in Dims : e[j] \in Run(j)
  <2>1. /\ e \in [Dims -> UNION {Run(j) : j \in Dims}]
        /\ \A j \in Dims : e[j] \in Run(j)
    BY <1>2 DEF Elements
  <2> QED BY <1>1, <2>1
<1>3. ASSUME e \in [Dims -> Nat], \A j \in Dims : e[j] \in Run(j) PROVE e \in Elements
  <2>1. e \in [Dims -> UNION {Run(j) : j \in Dims}]
    BY <1>3
  <2> QED BY <1>3, <2>1 DEF Elements
<1> QED BY <1>2, <1>3

\* The dimensions whose run is not the last of its list, and the first dimension.
Unfinished == {j \in Dims : j = 1 \/ LastOfRun(j) < Len(order[j])}

\* One turn passes the elements of the runs the loop is at, and no other: with those
\* passed before, they are the ones in front of where the next turn begins.
LEMMA PassedNext ==
    ASSUME AtRun, at' = Advance, UNCHANGED order, NEW e \in All
    PROVE  Passed(e)' <=> Passed(e) \/ e \in Elements
<1> USE NDimAssumption
<1> DEFINE d == Max(Unfinished)
<1>1. d \in Unfinished /\ \A j \in Unfinished : j <= d
  <2>1. 1 \in Unfinished /\ \A j \in Unfinished : j \in Int /\ j <= NDim
    BY DEF Unfinished, Dims
  <2> HIDE DEF Unfinished
  <2> QED BY <2>1, MaxFacts
<1>2. at' = [j \in Dims |-> IF j < d THEN at[j] ELSE IF j = d THEN LastOfRun(d) + 1 ELSE 1]
  BY DEF Advance, Unfinished
<1> HIDE DEF d
<1>3. d \in Dims /\ \A j \in Dims : j > d => ~(LastOfRun(j) < Len(order[j]))
  <2>1. ASSUME NEW j \in Dims, j > d PROVE ~(LastOfRun(j) < Len(order[j]))
    <3>1. j \notin Unfinished
      BY <1>1, <2>1 DEF Unfinished, Dims
    <3> QED BY <3>1 DEF Unfinished
  <2> QED BY <1>1, <2>1 DEF Unfinished
<1>4. \A j \in Dims : /\ at[j] \in Nat \ {0} /\ LastOfRun(j) \in at[j]..Len(order[j])
                      /\ Run(j) = at[j]..LastOfRun(j)
                      /\ Len(order[j]) \in Nat
                      /\ e[j] \in 1..Len(order[j])
  BY RunFacts DEF AtRun, All
<1>5. \A j \in Dims : j < d => at'[j] = at[j] /\ Run(j)' = Run(j)
  <2> SUFFICES ASSUME NEW j \in Dims, j < d PROVE at'[j] = at[j] /\ Run(j)' = Run(j)
    OBVIOUS
  <2>1. at'[j] = at[j]
    BY <1>2
  <2>2. \A i : ChunkIndex(j, i)' = ChunkIndex(j, i)
    BY DEF ChunkIndex
  <2> QED BY <2>1, <2>2 DEF Run
<1>6. at'[d] = LastOfRun(d) + 1
  BY <1>2, <1>3 DEF Dims
<1>7. \A j \in Dims : j > d => at'[j] = 1
  BY <1>2, <1>3 DEF Dims
<1>8. \A j \in Dims : j \in 1..NDim /\ \A k \in 1..j - 1 : k \in Dims /\ k < j
  BY DEF Dims
<1>9. ASSUME Passed(e)' PROVE Passed(e) \/ e \in Elements
  <2>1. PICK i \in Dims : e[i] < at'[i] /\ \A j \in 1..i - 1 : e[j] \in Run(j)'
    BY <1>9 DEF Passed
  <2>2. CASE i < d
    <3>1. e[i] < at[i]
      BY <1>5, <2>1, <2>2
    <3>2. ASSUME NEW j \in 1..i - 1 PROVE e[j] \in Run(j)
      <4>1. j \in Dims /\ j < d
        BY <1>3, <1>8, <2>2
      <4> QED BY <1>5, <2>1, <4>1
    <3> QED BY <3>1, <3>2 DEF Passed
  <2>3. CASE i = d
    <3>1. \A j \in 1..d - 1 : e[j] \in Run(j)
      <4> SUFFICES ASSUME NEW j \in 1..d - 1 PROVE e[j] \in Run(j)
        OBVIOUS
      <4>1. j \in Dims /\ j < d
        BY <1>3, <1>8
      <4> QED BY <1>5, <2>1, <2>3, <4>1
    <3>2. e[d] <= LastOfRun(d)
      BY <1>3, <1>4, <1>6, <2>1, <2>3
    <3>3. CASE \E k \in Dims : e[k] < at[k]
      <4> DEFINE S == {k \in Dims : e[k] < at[k]}
      <4>1. S \in SUBSET Nat /\ S # {}
        BY <3>3 DEF Dims
      <4>2. PICK k \in S : \A m \in S : k <= m
        <5> HIDE DEF S
        <5> QED BY <4>1, LeastElement
      <4>3. ASSUME NEW j \in 1..k - 1 PROVE e[j] \in Run(j)
        <5>1. k \in Dims /\ j \in Dims /\ j < k
          BY <1>8, <4>2
        <5>2. j \notin S
          BY <4>2, <5>1 DEF Dims
        <5>3. at[j] <= e[j]
          BY <1>4, <5>1, <5>2
        <5>4. e[j] <= LastOfRun(j)
          <6>1. CASE j < d
            <7>1. e[j] \in Run(j)
              BY <1>3, <3>1, <5>1, <6>1 DEF Dims
            <7> QED BY <1>4, <5>1, <7>1
          <6>2. CASE j = d
            BY <3>2, <6>2
          <6>3. CASE j > d
            BY <1>3, <1>4, <5>1, <6>3
          <6> QED BY <1>3, <5>1, <6>1, <6>2, <6>3 DEF Dims
        <5> QED BY <1>4, <5>1, <5>3, <5>4
      <4> QED BY <4>2, <4>3 DEF Passed
    <3>4. CASE ~ \E k \in Dims : e[k] < at[k]
      <4>1. ASSUME NEW j \in Dims PROVE e[j] \in Run(j)
        <5>1. at[j] <= e[j]
          BY <1>4, <3>4
        <5>2. e[j] <= LastOfRun(j)
          <6>1. CASE j < d
            <7>1. e[j] \in Run(j)
              BY <1>3, <3>1, <6>1 DEF Dims
            <7> QED BY <1>4, <7>1
          <6>2. CASE j = d
            BY <3>2, <6>2
          <6>3. CASE j > d
            BY <1>3, <1>4, <6>3
          <6> QED BY <1>3, <6>1, <6>2, <6>3 DEF Dims
        <5> QED BY <1>4, <5>1, <5>2
      <4>2. e \in [Dims -> Nat]
        BY DEF All
      <4> QED BY <4>1, <4>2, ElementsFacts
    <3> QED BY <3>3, <3>4
  <2>4. CASE i > d
    BY <1>4, <1>7, <2>1, <2>4
  <2> QED BY <1>3, <2>2, <2>3, <2>4 DEF Dims
<1>10. ASSUME Passed(e) PROVE Passed(e)'
  <2>1. PICK i \in Dims : e[i] < at[i] /\ \A j \in 1..i - 1 : e[j] \in Run(j)
    BY <1>10 DEF Passed
  <2>2. CASE i <= d
    <3>1. e[i] < at'[i]
      <4>1. CASE i < d
        BY <1>5, <2>1, <4>1
      <4>2. CASE i = d
        BY <1>3, <1>4, <1>6, <2>1, <4>2
      <4> QED BY <1>3, <2>2, <4>1, <4>2 DEF Dims
    <3>2. ASSUME NEW j \in 1..i - 1 PROVE e[j] \in Run(j)'
      <4>1. j \in Dims /\ j < d
        BY <1>3, <1>8, <2>2 DEF Dims
      <4> QED BY <1>5, <2>1, <4>1
    <3> QED BY <3>1, <3>2 DEF Passed
  <2>3. CASE i > d
    <3>1. d \in 1..i - 1
      BY <1>3, <2>3 DEF Dims
    <3>2. e[d] < at'[d]
      BY <1>3, <1>4, <1>6, <2>1, <3>1
    <3>3. ASSUME NEW j \in 1..d - 1 PROVE e[j] \in Run(j)'
      <4>1. j \in Dims /\ j < d /\ j \in 1..i - 1
        BY <1>3, <1>8, <2>3 DEF Dims
      <4> QED BY <1>5, <2>1, <4>1
    <3> QED BY <1>3, <3>2, <3>3 DEF Passed
  <2> QED BY <1>3, <2>2, <2>3 DEF Dims
<1>11. ASSUME e \in Elements PROVE Passed(e)'
  <2>1. \A j \in Dims : e[j] \in Run(j)
    BY <1>11, ElementsFacts
  <2>2. e[d] < at'[d]
    BY <1>3, <1>4, <1>6, <2>1
  <2>3. ASSUME NEW j \in 1..d - 1 PROVE e[j] \in Run(j)'
    <3>1. j \in Dims /\ j < d
      BY <1>3, <1>8
    <3> QED BY <1>5, <2>1, <3>1
  <2> QED BY <1>3, <2>2, <2>3 DEF Passed
<1> QED BY <1>9, <1>10, <1>11

-----------------------------------------------------------------------------
(* Sorted lists. *)

\* The list s has each index of a caller's list once, with the place where it stood.
Arranged(list, s) ==
    /\ s \in Seq(Entries)
    /\ Len(s) = Len(list)
    /\ \A i \in 1..Len(s) : /\ s[i].index \in 0..Len(list) - 1
                            /\ s[i].value = list[s[i].index + 1]
    /\ \A i, m \in 1..Len(s) : s[i].index = s[m].index => i = m
    /\ \A q \in 0..Len(list) - 1 : \E i \in 1..Len(s) : s[i].index = q

\* Its values ascend, and equal ones are in the order of their places.
Ascending(s) ==
    \A i, m \in 1..Len(s) :
        i < m => \/ s[i].value < s[m].value
                 \/ s[i].value = s[m].value /\ s[i].index < s[m].index

\* What qsort is given.
Unsorted(list) == {[value |-> list[i], index |-> i - 1] : i \in DOMAIN list}

\* The indexes of a list, with their places.
LEMMA UnsortedFacts ==
    ASSUME NEW list \in Seq(Nat), Len(list) <= MaxIndexes
    PROVE  /\ IsFiniteSet(Unsorted(list)) /\ Cardinality(Unsorted(list)) = Len(list)
           /\ \A x \in Unsorted(list) : /\ x \in Entries
                                        /\ x.index \in 0..Len(list) - 1
                                        /\ x.value = list[x.index + 1]
           /\ \A x, y \in Unsorted(list) : x.index = y.index => x = y
           /\ \A q \in 0..Len(list) - 1 : \E x \in Unsorted(list) : x.index = q
<1> DEFINE n == Len(list)
           S == Unsorted(list)
           f == [i \in 1..n |-> [value |-> list[i], index |-> i - 1]]
<1>1. n \in Nat /\ DOMAIN list = 1..n /\ MaxIndexes \in Nat /\ n <= MaxIndexes
  BY BoundsAssumption
<1>2. \A i \in 1..n : list[i] \in Nat
  BY <1>1
<1> HIDE DEF n
<1>3. \A i \in 1..n : f[i] = [value |-> list[i], index |-> i - 1]
  OBVIOUS
<1>4. \A x : x \in S <=> \E i \in 1..n : x = f[i]
  BY <1>1, <1>3 DEF Unsorted
<1>5. f \in [1..n -> S]
  BY <1>4
<1>6. \A i, m \in 1..n : f[i].index = f[m].index => i = m
  BY <1>3, <1>1
<1> HIDE DEF S, f
<1>7. f \in Injection(1..n, S) /\ f \in Surjection(1..n, S)
  <2>1. IsInjective(f)
    BY <1>5, <1>6 DEF IsInjective
  <2> QED BY <1>4, <1>5, <2>1 DEF Injection, Surjection
<1>8. IsFiniteSet(1..n) /\ Cardinality(1..n) = n
  BY <1>1, FS_Interval
<1>9. IsFiniteSet(S) /\ Cardinality(S) = n
  BY <1>7, <1>8, FS_Surjection
<1>10. ASSUME NEW x \in S
       PROVE  x \in Entries /\ x.index \in 0..n - 1 /\ x.value = list[x.index + 1]
  <2>0. PICK i \in 1..n : x = f[i]
    BY <1>4
  <2>1. x = [value |-> list[i], index |-> i - 1]
    BY <1>3, <2>0
  <2>2. x.index = i - 1 /\ x.value = list[i] /\ (i - 1) + 1 = i
    BY <1>1, <2>1
  <2>3. i - 1 \in 0..n - 1 /\ i - 1 \in 0..MaxIndexes - 1 /\ list[i] \in Nat
    BY <1>1, <1>2
  <2>4. x \in Entries
    BY <2>1, <2>3 DEF Entries
  <2> QED BY <2>2, <2>3, <2>4
<1>11. \A x, y \in S : x.index = y.index => x = y
  BY <1>4, <1>6
<1>12. ASSUME NEW q \in 0..n - 1 PROVE \E x \in S : x.index = q
  <2>1. q + 1 \in 1..n /\ (q + 1) - 1 = q
    BY <1>1
  <2>2. f[q + 1] \in S
    BY <1>5, <2>1
  <2>3. f[q + 1] = [value |-> list[q + 1], index |-> (q + 1) - 1]
    BY <1>3, <2>1
  <2>4. f[q + 1].index = q
    BY <2>1, <2>3
  <2> QED BY <2>2, <2>4
<1> QED BY <1>9, <1>10, <1>11, <1>12 DEF n, S

\* A list that is sorted, in whatever order, has each of its indexes once.
LEMMA SortedArranged ==
    ASSUME NEW list \in Seq(Nat), Len(list) <= MaxIndexes, NEW s \in Sorted(list)
    PROVE  Arranged(list, s)
<1> DEFINE n == Len(list)
           S == Unsorted(list)
<1>1. /\ IsFiniteSet(S) /\ Cardinality(S) = n /\ n \in Nat
      /\ \A x \in S : /\ x \in Entries
                      /\ x.index \in 0..n - 1
                      /\ x.value = list[x.index + 1]
      /\ \A x, y \in S : x.index = y.index => x = y
      /\ \A q \in 0..n - 1 : \E x \in S : x.index = q
  BY UnsortedFacts
<1>2. s \in SetToSeqs(S)
  BY DEF Sorted, Unsorted
<1> HIDE DEF S, n
<1>3. s \in [1..n -> S] /\ \A i, m \in 1..n : i # m => s[i] # s[m]
  BY <1>1, <1>2 DEF SetToSeqs
<1>4. s \in Injection(1..n, S)
  BY <1>3 DEF Injection, IsInjective
<1>5. Cardinality(1..n) = n
  BY <1>1, FS_Interval
<1>6. s \in Surjection(1..n, S)
  BY <1>1, <1>4, <1>5, FS_Injection
<1>7. \A x \in S : \E i \in 1..n : s[i] = x
  BY <1>6 DEF Surjection
<1>8. s \in [1..n -> Entries]
  BY <1>1, <1>3
<1>9. s \in Seq(Entries) /\ Len(s) = n
  BY <1>1, <1>8
<1>10. \A i \in 1..n : s[i].index \in 0..n - 1 /\ s[i].value = list[s[i].index + 1]
  BY <1>1, <1>3
<1>11. \A i, m \in 1..n : s[i].index = s[m].index => i = m
  BY <1>1, <1>3
<1>12. \A q \in 0..n - 1 : \E i \in 1..n : s[i].index = q
  BY <1>1, <1>7
<1> QED BY <1>9, <1>10, <1>11, <1>12 DEF Arranged, n

\* A number that an int holds is not changed by the conversion.
LEMMA AsIntFacts ==
    ASSUME NEW n \in -HalfInt..HalfInt - 1
    PROVE  AsInt(n) = n
<1> DEFINE M == 2 * HalfInt
<1>1. M \in Nat \ {0} /\ n + HalfInt \in 0..M - 1
  BY HalfIntAssumption
<1>2. \A m \in Nat \ {0} : \A k \in 0..m - 1 : (k % m) = k
  OBVIOUS
<1> HIDE DEF M
<1>3. ((n + HalfInt) % M) = n + HalfInt
  BY <1>1, <1>2
<1> QED BY <1>3, HalfIntAssumption DEF AsInt, M

\* A list whose indexes the comparison can tell apart is sorted by them.
LEMMA SortedAscends ==
    ASSUME NEW list \in Seq(Nat), Len(list) <= MaxIndexes, MaxIndexes <= HalfInt,
           Comparable(list), NEW s \in Sorted(list)
    PROVE  Ascending(s)
<1> DEFINE S == Unsorted(list)
           Less(x, y) == \/ x.value < y.value
                         \/ x.value = y.value /\ x.index < y.index
<1>1. /\ Len(list) \in Nat /\ DOMAIN list = 1..Len(list)
      /\ HalfInt \in Nat \ {0} /\ MaxIndexes \in Nat
  BY HalfIntAssumption, BoundsAssumption
<1>2. \A x \in S : x.index \in 0..Len(list) - 1 /\ x.value = list[x.index + 1] /\ x.value \in Nat
  <2>1. \A x \in S : x \in Entries
    BY UnsortedFacts
  <2> QED BY <2>1, UnsortedFacts DEF Entries
<1>3. \A x, y \in S : x.index = y.index => x = y
  BY UnsortedFacts
<1> HIDE DEF S
<1>4. ASSUME NEW x \in S, NEW y \in S
      PROVE  Before(x, y) <=> Less(x, y)
  <2>1. x.index + 1 \in 1..Len(list) /\ y.index + 1 \in 1..Len(list)
    BY <1>1, <1>2
  <2>2. x.value - y.value \in -HalfInt..HalfInt - 1
    BY <1>1, <1>2, <2>1 DEF Comparable
  <2>3. x.index - y.index \in -HalfInt..HalfInt - 1
    BY <1>1, <1>2
  <2>4. AsInt(x.value - y.value) = x.value - y.value /\ AsInt(x.index - y.index) = x.index - y.index
    BY <2>2, <2>3, AsIntFacts
  <2>5. x.value \in Int /\ y.value \in Int /\ x.index \in Int /\ y.index \in Int
    BY <1>1, <1>2
  <2>6. Before(x, y) <=> (IF x.value - y.value # 0 THEN x.value - y.value
                          ELSE x.index - y.index) < 0
    BY <2>4 DEF Before, Compare
  <2> QED BY <2>5, <2>6
<1>5. OrdersWell(S)
  <2>1. ASSUME NEW x \in S, NEW y \in S, x # y PROVE Before(x, y) <=> ~Before(y, x)
    <3>1. x.index # y.index
      BY <1>3, <2>1
    <3>2. x.value \in Int /\ y.value \in Int /\ x.index \in Int /\ y.index \in Int
      BY <1>1, <1>2
    <3>3. Less(x, y) <=> ~Less(y, x)
      BY <3>1, <3>2
    <3> QED BY <1>4, <3>3
  <2>2. ASSUME NEW x \in S, NEW y \in S, NEW z \in S, Before(x, y), Before(y, z)
        PROVE  Before(x, z)
    <3>1. /\ x.value \in Int /\ y.value \in Int /\ z.value \in Int
          /\ x.index \in Int /\ y.index \in Int /\ z.index \in Int
      BY <1>1, <1>2
    <3>2. Less(x, y) /\ Less(y, z)
      BY <1>4, <2>2
    <3>3. Less(x, z)
      BY <3>1, <3>2
    <3> QED BY <1>4, <3>3
  <2> QED BY <2>1, <2>2 DEF OrdersWell
<1>6. s \in SetToSeqs(S) /\ \A i, m \in DOMAIN s : i < m => Before(s[i], s[m])
  BY <1>5 DEF Sorted, Unsorted, S
<1>7. Arranged(list, s)
  BY SortedArranged
<1>8. DOMAIN s = 1..Len(s) /\ \A i \in 1..Len(s) : s[i] \in S
  <2>1. s \in Seq(Entries)
    BY <1>7 DEF Arranged
  <2>2. DOMAIN s = 1..Len(s)
    BY <2>1
  <2>3. \A i \in DOMAIN s : s[i] \in S
    BY <1>6 DEF SetToSeqs
  <2> QED BY <2>2, <2>3
<1>9. \A i, m \in 1..Len(s) : i < m => Less(s[i], s[m])
  BY <1>4, <1>6, <1>8
<1> QED BY <1>9 DEF Ascending

-----------------------------------------------------------------------------
(* The inductive invariant. *)

\* The lists of the running call are sorted and name items of the array, the buffer has a
\* place for each combination of their entries, and the loop is at the beginning of a run in
\* every dimension, unless it is behind the last one in the first dimension.
Looping ==
    /\ \A j \in Dims : Arranged(call.list[j], order[j])
    /\ \A j \in Dims : (MaxIndexes <= HalfInt /\ Comparable(call.list[j])) => Ascending(order[j])
    /\ 1 \notin Beyond => \A j \in Dims : \A i \in DOMAIN call.list[j] : call.list[j][i] < shape[j]
    /\ Box(Origin, Sizes(call.list)) \subseteq DOMAIN buf
    /\ \A j \in Dims : at[j] > 1 /\ at[j] <= Len(order[j])
                         => ChunkIndex(j, at[j] - 1) # ChunkIndex(j, at[j])
    /\ \A j \in Dims : j # 1 /\ Len(order[j]) > 0 => at[j] <= Len(order[j])

Sound ==
    /\ shape \in Shapes
    /\ sc \in Seq(ChunkData) /\ Len(sc) = NumChunks(shape)
    /\ pc \in {"idle", "getting", "setting"}
    /\ call.op \in {"none", "get", "set"}
    /\ call.list \in [Dims -> Seq(Nat)] /\ \A j \in Dims : Len(call.list[j]) <= MaxIndexes
    /\ order \in [Dims -> Seq(Entries)]
    /\ at \in [Dims -> Nat \ {0}] /\ \A j \in Dims : at[j] <= Len(order[j]) + 1
    /\ \A q \in DOMAIN buf : buf[q] \in Values \cup {Garbage}
    /\ call.op = "set" => \A q \in DOMAIN buf : buf[q] \in Values
    /\ ret \in {"SUCCEED", "INVALID_ARGUMENT", "INVALID_INDEX", "BLOSC_FAILED"}
    /\ left \in 0..MaxCalls
    /\ pc = "getting" => call.op = "get"
    /\ pc = "setting" => call.op = "set"
    /\ pc # "idle" => Looping

\* It contains the type invariant.
LEMMA SoundType ==
    ASSUME Sound
    PROVE  TypeOK
<1>1. \A j \in Dims : at[j] \in 1..Len(order[j]) + 1
  <2> SUFFICES ASSUME NEW j \in Dims PROVE at[j] \in 1..Len(order[j]) + 1
    OBVIOUS
  <2>1. at[j] \in Nat \ {0} /\ at[j] <= Len(order[j]) + 1 /\ Len(order[j]) \in Nat
    BY DEF Sound
  <2> QED BY <2>1
<1> QED BY <1>1 DEF Sound, TypeOK

\* It holds at the beginning.
LEMMA SoundInit ==
    ASSUME Init
    PROVE  Sound
<1>1. /\ ListOf(<< >>) \in [Dims -> Seq(Nat)] /\ ListOf(<< >>) \in [Dims -> Seq(Entries)]
      /\ ListOf(1) \in [Dims -> Nat \ {0}]
      /\ \A j \in Dims : Len(ListOf(<< >>)[j]) = 0 /\ ListOf(1)[j] = 1
  BY DEF ListOf
<1>2. MaxIndexes \in Nat /\ MaxCalls \in Nat
  BY BoundsAssumption
<1>3. sc \in Seq(ChunkData) /\ Len(sc) = NumChunks(shape)
  <2>1. shape \in [Dims -> Nat]
    BY ShapesAssumption DEF Init
  <2>2. NumChunks(shape) \in Nat
    BY <2>1, NumChunksType
  <2> QED BY <2>2 DEF Init
<1>4. DOMAIN buf = {}
  BY DEF Init
<1>5. call.op = "none" /\ call.list = ListOf(<< >>)
  BY DEF Init
<1> QED BY <1>1, <1>2, <1>3, <1>4, <1>5 DEF Init, Sound

\* The lists that callers pass.
LEMMA SelectionsFacts ==
    ASSUME shape \in [Dims -> Nat], NEW list \in Selections
    PROVE  /\ list \in [Dims -> Seq(Nat)]
           /\ \A j \in Dims : Len(list[j]) <= MaxIndexes
           /\ \A j \in Dims : \A i \in DOMAIN list[j] : list[j][i] \in Indexes(j)
           /\ Sizes(list) \in [Dims -> Nat]
           /\ \A j \in Dims : Sizes(list)[j] = Len(list[j])
<1>1. ASSUME NEW j \in Dims
      PROVE  /\ list[j] \in Seq(Nat) /\ Len(list[j]) \in Nat /\ Len(list[j]) <= MaxIndexes
             /\ \A i \in DOMAIN list[j] : list[j][i] \in Indexes(j)
  <2>1. list[j] \in ListsFor(j)
    BY DEF Selections
  <2>2. PICK n \in 0..MaxIndexes : list[j] \in [1..n -> Indexes(j)]
    BY <2>1 DEF ListsFor
  <2>3. n \in Nat /\ n <= MaxIndexes
    BY <2>2, BoundsAssumption
  <2>4. Indexes(j) \subseteq Nat
    <3>1. shape[j] \in Nat /\ \A b \in Beyond : b \in Nat \ {0}
      BY BeyondAssumption
    <3>2. \A b \in Beyond : shape[j] - 1 + b \in Nat
      BY <3>1
    <3>3. 0..shape[j] - 1 \subseteq Nat
      BY <3>1
    <3> QED BY <3>2, <3>3 DEF Indexes
  <2>5. list[j] \in [1..n -> Nat]
    BY <2>2, <2>4
  <2> QED BY <2>2, <2>3, <2>5
<1>2. DOMAIN list = Dims /\ list = [j \in Dims |-> list[j]]
  BY DEF Selections
<1>3. list \in [Dims -> Seq(Nat)]
  BY <1>1, <1>2
<1>4. Sizes(list) \in [Dims -> Nat] /\ \A j \in Dims : Sizes(list)[j] = Len(list[j])
  BY <1>1 DEF Sizes
<1> QED BY <1>1, <1>3, <1>4

-----------------------------------------------------------------------------
(* The combinations of entries: places of the buffer, items, and places of a chunk. *)

\* The coordinates of the item that a combination of entries names.
Chosen(e) == [j \in Dims |-> order[j][e[j]].value]

\* The places of a chunk, padded to whole blocks.
LEMMA ChunkPlaces ==
    /\ \A p : p \in ChunkBox => p \in [Dims -> Nat]
    /\ \A p \in [Dims -> Nat] : (\A j \in Dims : p[j] < ChunkShape[j]) => p \in ChunkBox
BY ChunkShapeAssumption, BlockShapeAssumption, PaddedBox DEF ChunkBox, ExtChunkShape

\* A combination names the item that the caller's lists ask for at its place of the
\* buffer, and no other combination has that place.
LEMMA CombinationFacts ==
    ASSUME Sound, pc # "idle", NEW e \in All
    PROVE  /\ InBuffer(e) \in Box(Origin, Sizes(call.list)) /\ InBuffer(e) \in DOMAIN buf
           /\ Selects(InBuffer(e)) = Chosen(e)
           /\ Chosen(e) \in [Dims -> Nat]
           /\ 1 \notin Beyond => Chosen(e) \in Box(Origin, shape)
           /\ \A f \in All : InBuffer(f) = InBuffer(e) => f = e
<1> DEFINE list == call.list
<1>1. /\ list \in [Dims -> Seq(Nat)]
      /\ \A j \in Dims : Arranged(list[j], order[j])
      /\ 1 \notin Beyond => \A j \in Dims : \A i \in DOMAIN list[j] : list[j][i] < shape[j]
      /\ Box(Origin, Sizes(list)) \subseteq DOMAIN buf
      /\ shape \in [Dims -> Nat]
  BY ShapesAssumption DEF Sound, Looping
<1> HIDE DEF list
<1>2. ASSUME NEW j \in Dims
      PROVE  /\ Len(list[j]) \in Nat /\ DOMAIN list[j] = 1..Len(list[j])
             /\ order[j][e[j]].index \in 0..Len(list[j]) - 1
             /\ order[j][e[j]].value = list[j][order[j][e[j]].index + 1]
             /\ order[j][e[j]].index + 1 \in DOMAIN list[j]
             /\ order[j][e[j]].value \in Nat
  <2>1. list[j] \in Seq(Nat) /\ Arranged(list[j], order[j]) /\ e[j] \in 1..Len(order[j])
    BY <1>1 DEF All
  <2>2. Len(list[j]) \in Nat /\ DOMAIN list[j] = 1..Len(list[j])
    BY <2>1
  <2>3. /\ order[j][e[j]].index \in 0..Len(list[j]) - 1
        /\ order[j][e[j]].value = list[j][order[j][e[j]].index + 1]
    BY <2>1 DEF Arranged
  <2>4. order[j][e[j]].index + 1 \in DOMAIN list[j]
    BY <2>2, <2>3
  <2>5. \A i \in DOMAIN list[j] : list[j][i] \in Nat
    BY <2>1
  <2>6. order[j][e[j]].value \in Nat
    BY <2>3, <2>4, <2>5
  <2> QED BY <2>2, <2>3, <2>4, <2>6
<1>3. InBuffer(e) \in [Dims -> Nat] /\ \A j \in Dims : InBuffer(e)[j] = order[j][e[j]].index
  BY <1>2 DEF InBuffer
<1>4. Sizes(list) \in [Dims -> Nat] /\ \A j \in Dims : Sizes(list)[j] = Len(list[j])
  BY <1>2 DEF Sizes
<1>5. InBuffer(e) \in Box(Origin, Sizes(list))
  <2>1. \A j \in Dims : InBuffer(e)[j] < Sizes(list)[j]
    <3> SUFFICES ASSUME NEW j \in Dims PROVE InBuffer(e)[j] < Sizes(list)[j]
      OBVIOUS
    <3>1. order[j][e[j]].index \in 0..Len(list[j]) - 1 /\ Len(list[j]) \in Nat
      BY <1>2
    <3> QED BY <1>3, <1>4, <3>1
  <2>2. Sizes(list) \in [Dims -> Int]
    BY <1>4
  <2> QED BY <1>3, <2>1, <2>2, OriginBox
<1>6. Selects(InBuffer(e)) = Chosen(e)
  <2>1. \A j \in Dims : call.list[j][InBuffer(e)[j] + 1] = order[j][e[j]].value
    BY <1>2, <1>3 DEF list
  <2> QED BY <2>1 DEF Selects, Chosen
<1>7. Chosen(e) \in [Dims -> Nat] /\ \A j \in Dims : Chosen(e)[j] = order[j][e[j]].value
  BY <1>2 DEF Chosen
<1>8. 1 \notin Beyond => Chosen(e) \in Box(Origin, shape)
  <2> SUFFICES ASSUME 1 \notin Beyond PROVE Chosen(e) \in Box(Origin, shape)
    OBVIOUS
  <2>1. \A j \in Dims : Chosen(e)[j] < shape[j]
    BY <1>1, <1>2, <1>7
  <2>2. shape \in [Dims -> Int]
    BY <1>1
  <2> QED BY <1>7, <2>1, <2>2, OriginBox
<1>9. ASSUME NEW f \in All, InBuffer(f) = InBuffer(e) PROVE f = e
  <2>1. \A j \in Dims : f[j] = e[j]
    <3> SUFFICES ASSUME NEW j \in Dims PROVE f[j] = e[j]
      OBVIOUS
    <3>1. InBuffer(f)[j] = order[j][f[j]].index
      BY DEF InBuffer
    <3>2. f[j] \in 1..Len(order[j]) /\ e[j] \in 1..Len(order[j])
      BY DEF All
    <3>3. Arranged(list[j], order[j])
      BY <1>1
    <3>4. order[j][f[j]].index = order[j][e[j]].index
      BY <1>3, <1>9, <3>1
    <3>5. \A i, m \in 1..Len(order[j]) : order[j][i].index = order[j][m].index => i = m
      BY <3>3 DEF Arranged
    <3> QED BY <3>2, <3>4, <3>5
  <2>2. f \in [Dims -> Nat] /\ e \in [Dims -> Nat]
    BY DEF All
  <2> QED BY <2>1, <2>2
<1> QED BY <1>1, <1>5, <1>6, <1>7, <1>8, <1>9 DEF list

\* Each place of the buffer that the lists ask for is that of a combination.
LEMMA EveryPlace ==
    ASSUME Sound, pc # "idle", NEW q \in Box(Origin, Sizes(call.list))
    PROVE  \E e \in All : InBuffer(e) = q
<1> DEFINE list == call.list
<1>1. list \in [Dims -> Seq(Nat)] /\ \A j \in Dims : Arranged(list[j], order[j])
  BY DEF Sound, Looping
<1> HIDE DEF list
<1>2. \A j \in Dims : Len(list[j]) \in Nat
  BY <1>1
<1>3. Sizes(list) \in [Dims -> Nat] /\ \A j \in Dims : Sizes(list)[j] = Len(list[j])
  BY <1>2 DEF Sizes
<1>4. q \in [Dims -> Nat] /\ \A j \in Dims : q[j] < Len(list[j])
  <2>1. Sizes(list) \in [Dims -> Int]
    BY <1>3
  <2>2. q \in [Dims -> Nat] /\ \A j \in Dims : q[j] < Sizes(list)[j]
    BY <2>1, OriginBox DEF list
  <2> QED BY <1>3, <2>2
<1> DEFINE At(j) == CHOOSE i \in 1..Len(order[j]) : order[j][i].index = q[j]
           e == [j \in Dims |-> At(j)]
<1>5. ASSUME NEW j \in Dims
      PROVE  At(j) \in 1..Len(order[j]) /\ order[j][At(j)].index = q[j] /\ At(j) \in Nat
  <2>1. q[j] \in 0..Len(list[j]) - 1
    BY <1>2, <1>4
  <2>2. \E i \in 1..Len(order[j]) : order[j][i].index = q[j]
    BY <1>1, <2>1 DEF Arranged
  <2>3. At(j) \in 1..Len(order[j]) /\ order[j][At(j)].index = q[j]
    BY <2>2
  <2> HIDE DEF At
  <2> QED BY <2>3
<1> HIDE DEF At
<1>6. e \in All
  BY <1>5 DEF All
<1>7. InBuffer(e) = q
  <2>1. InBuffer(e) = [j \in Dims |-> q[j]]
    BY <1>5 DEF InBuffer
  <2> QED BY <1>4, <2>1
<1> QED BY <1>6, <1>7

\* The combinations of a turn name items of the chunk the loop is at, each lies at its
\* place there, and its block is decompressed.
LEMMA ElementPlace ==
    ASSUME AtRun, NEW e \in Elements
    PROVE  /\ e \in All
           /\ Place(e) \in ChunkBox /\ Wanted(BlockOf(Place(e)))
           /\ ChunkOf(shape, Chosen(e)) = Here
           /\ Place(e) = [j \in Dims |-> Chosen(e)[j] % ChunkShape[j]]
<1>1. e \in [Dims -> Nat] /\ \A j \in Dims : e[j] \in Run(j)
  BY ElementsFacts
<1>2. ASSUME NEW j \in Dims
      PROVE  /\ e[j] \in 1..Len(order[j])
             /\ ChunkIndex(j, e[j]) = ChunkIndex(j, at[j])
             /\ order[j][e[j]].value \in Nat
  <2>1. /\ LastOfRun(j) \in at[j]..Len(order[j]) /\ Run(j) = at[j]..LastOfRun(j)
        /\ ChunkIndex(j, e[j]) = ChunkIndex(j, at[j])
    BY <1>1, RunFacts
  <2>2. at[j] \in Nat \ {0} /\ order[j] \in Seq(Entries)
    BY DEF AtRun
  <2>3. Len(order[j]) \in Nat
    BY <2>2
  <2>4. e[j] \in 1..Len(order[j])
    BY <1>1, <2>1, <2>2, <2>3
  <2>5. order[j][e[j]] \in Entries
    BY <2>2, <2>4
  <2> QED BY <2>1, <2>4, <2>5 DEF Entries
<1>3. e \in All
  BY <1>1, <1>2 DEF All
<1>4. \A j \in Dims : Chosen(e)[j] = order[j][e[j]].value
  BY DEF Chosen
<1>5. Place(e) = [j \in Dims |-> Chosen(e)[j] % ChunkShape[j]]
  <2>1. \A j \in Dims : InChunk(j, e[j]) = (Chosen(e)[j] % ChunkShape[j])
    BY <1>4 DEF InChunk
  <2> QED BY <2>1 DEF Place
<1>6. Place(e) \in [Dims -> Nat] /\ \A j \in Dims : Place(e)[j] < ChunkShape[j]
  <2>1. ASSUME NEW j \in Dims
        PROVE  InChunk(j, e[j]) \in Nat /\ InChunk(j, e[j]) < ChunkShape[j]
    <3>1. ChunkShape[j] \in Nat \ {0} /\ order[j][e[j]].value \in Nat
      BY <1>2, ChunkShapeAssumption
    <3>2. \A x \in Nat : (x % ChunkShape[j]) \in Nat /\ (x % ChunkShape[j]) < ChunkShape[j]
      BY <3>1
    <3> QED BY <3>1, <3>2 DEF InChunk
  <2> QED BY <2>1 DEF Place
<1>7. Place(e) \in ChunkBox
  BY <1>6, ChunkPlaces
<1>8. Wanted(BlockOf(Place(e)))
  <2>1. ASSUME NEW j \in Dims
        PROVE  \E i \in Run(j) : InChunk(j, i) \div BlockShape[j] = BlockOf(Place(e))[j]
    <3>1. BlockOf(Place(e))[j] = InChunk(j, e[j]) \div BlockShape[j]
      BY DEF BlockOf, Place
    <3> QED BY <1>1, <3>1
  <2> QED BY <2>1 DEF Wanted
<1>9. ChunkOf(shape, Chosen(e)) = Here
  <2>1. \A j \in Dims : Chosen(e)[j] \div ChunkShape[j] = ChunkIndex(j, at[j])
    BY <1>2, <1>4 DEF ChunkIndex
  <2>2. [j \in Dims |-> Chosen(e)[j] \div ChunkShape[j]] = [j \in Dims |-> ChunkIndex(j, at[j])]
    BY <2>1
  <2> QED BY <2>2 DEF ChunkOf, Here, ChunkHolding, ChunksInArray
<1> QED BY <1>3, <1>5, <1>7, <1>8, <1>9

\* In a turn the loop is at an entry of each list.
LEMMA TurnFacts ==
    ASSUME Sound, More
    PROVE  AtRun
BY DEF Sound, More, AtRun

\* The last combination of the turn with a place in the chunk.
LastAt(p) == [j \in Dims |-> Max({i \in Run(j) : InChunk(j, i) = p[j]})]

\* If a combination of the turn has the place, this is one that has, and none of its
\* entries comes before that of another one that has.
LEMMA LastAtFacts ==
    ASSUME AtRun, NEW e \in Elements
    PROVE  /\ LastAt(Place(e)) \in Elements /\ Place(LastAt(Place(e))) = Place(e)
           /\ \A j \in Dims : \A i \in Run(j) :
                 InChunk(j, i) = Place(e)[j] => i <= LastAt(Place(e))[j]
<1> DEFINE p == Place(e)
           S(j) == {i \in Run(j) : InChunk(j, i) = p[j]}
<1>1. ASSUME NEW j \in Dims
      PROVE  /\ LastAt(p)[j] \in Run(j) /\ LastAt(p)[j] \in Nat
             /\ InChunk(j, LastAt(p)[j]) = p[j]
             /\ \A i \in S(j) : i <= LastAt(p)[j]
  <2>1. /\ LastOfRun(j) \in at[j]..Len(order[j]) /\ Run(j) = at[j]..LastOfRun(j)
        /\ at[j] \in Nat \ {0} /\ order[j] \in Seq(Entries)
    BY RunFacts DEF AtRun
  <2>2. Len(order[j]) \in Nat
    BY <2>1
  <2>3. e[j] \in S(j)
    <3>1. e[j] \in Run(j)
      BY ElementsFacts
    <3> QED BY <3>1 DEF Place
  <2>4. LastOfRun(j) \in Int /\ \A i \in S(j) : i \in Int /\ i <= LastOfRun(j)
    BY <2>1, <2>2
  <2>5. S(j) # {} /\ \A i \in S(j) : i \in Run(j) /\ InChunk(j, i) = p[j]
    BY <2>3
  <2>6. LastAt(p)[j] = Max(S(j))
    BY DEF LastAt
  <2> HIDE DEF S
  <2>7. Max(S(j)) \in S(j) /\ \A i \in S(j) : i <= Max(S(j))
    BY <2>4, <2>5, MaxFacts
  <2>8. LastAt(p)[j] \in Run(j) /\ InChunk(j, LastAt(p)[j]) = p[j]
    BY <2>5, <2>6, <2>7
  <2>9. LastAt(p)[j] \in Nat
    BY <2>1, <2>2, <2>8
  <2> QED BY <2>6, <2>7, <2>8, <2>9
<1>2. LastAt(p) \in [Dims -> Nat]
  <2>1. LastAt(p) = [j \in Dims |-> LastAt(p)[j]]
    BY DEF LastAt
  <2> QED BY <1>1, <2>1
<1>3. LastAt(p) \in Elements
  BY <1>1, <1>2, ElementsFacts
<1>4. Place(LastAt(p)) = p
  <2>1. Place(LastAt(p)) = [j \in Dims |-> p[j]]
    BY <1>1 DEF Place
  <2>2. p = [j \in Dims |-> p[j]]
    BY DEF Place
  <2> QED BY <2>1, <2>2
<1> QED BY <1>1, <1>3, <1>4

-----------------------------------------------------------------------------
(* The inductive invariant is kept. *)

\* Where the next turn begins: at a run of each list, or behind the last one of the first.
LEMMA AdvanceFacts ==
    ASSUME AtRun, at' = Advance
    PROVE  /\ at' \in [Dims -> Nat \ {0}] /\ \A j \in Dims : at'[j] <= Len(order[j]) + 1
           /\ \A j \in Dims : j # 1 => at'[j] <= Len(order[j])
           /\ \A j \in Dims : at'[j] \in {at[j], 1, LastOfRun(j) + 1}
<1> USE NDimAssumption
<1> DEFINE d == Max(Unfinished)
<1>1. d \in Unfinished /\ \A j \in Unfinished : j <= d
  <2>1. 1 \in Unfinished /\ \A j \in Unfinished : j \in Int /\ j <= NDim
    BY DEF Unfinished, Dims
  <2> HIDE DEF Unfinished
  <2> QED BY <2>1, MaxFacts
<1>2. at' = [j \in Dims |-> IF j < d THEN at[j] ELSE IF j = d THEN LastOfRun(d) + 1 ELSE 1]
  BY DEF Advance, Unfinished
<1>3. \A j \in Dims : /\ at[j] \in Nat \ {0} /\ LastOfRun(j) \in at[j]..Len(order[j])
                      /\ Len(order[j]) \in Nat /\ at[j] <= Len(order[j])
  BY RunFacts DEF AtRun
<1> HIDE DEF d
<1>4. ASSUME NEW j \in Dims
      PROVE  /\ at'[j] \in Nat \ {0} /\ at'[j] <= Len(order[j]) + 1
             /\ j # 1 => at'[j] <= Len(order[j])
             /\ at'[j] \in {at[j], 1, LastOfRun(j) + 1}
  <2>1. CASE j < d
    BY <1>2, <1>3, <2>1
  <2>2. CASE j = d
    <3>1. at'[j] = LastOfRun(j) + 1
      BY <1>2, <2>2 DEF Dims
    <3>2. j = 1 \/ LastOfRun(j) < Len(order[j])
      BY <1>1, <2>2 DEF Unfinished
    <3> QED BY <1>3, <3>1, <3>2
  <2>3. CASE j > d
    <3>1. at'[j] = 1
      BY <1>1, <1>2, <2>3 DEF Dims, Unfinished
    <3> QED BY <1>3, <3>1
  <2> QED BY <1>1, <2>1, <2>2, <2>3 DEF Dims, Unfinished
<1> QED BY <1>2, <1>4

\* A turn goes on to the beginning of a run.
LEMMA TurnSound ==
    ASSUME Sound, More, pc # "idle", at' = Advance, UNCHANGED order,
           UNCHANGED <<shape, pc, call>>, DOMAIN buf' = DOMAIN buf
    PROVE  /\ Looping'
           /\ at' \in [Dims -> Nat \ {0}] /\ \A j \in Dims : at'[j] <= Len(order[j]) + 1
<1>1. AtRun
  BY TurnFacts
<1>2. /\ at' \in [Dims -> Nat \ {0}] /\ \A j \in Dims : at'[j] <= Len(order[j]) + 1
      /\ \A j \in Dims : j # 1 => at'[j] <= Len(order[j])
      /\ \A j \in Dims : at'[j] \in {at[j], 1, LastOfRun(j) + 1}
  BY <1>1, AdvanceFacts
<1>3. ASSUME NEW j \in Dims, at'[j] > 1, at'[j] <= Len(order[j])
      PROVE  ChunkIndex(j, at'[j] - 1) # ChunkIndex(j, at'[j])
  <2>1. /\ LastOfRun(j) \in at[j]..Len(order[j]) /\ at[j] \in Nat \ {0} /\ Len(order[j]) \in Nat
        /\ Run(j) = at[j]..LastOfRun(j)
        /\ \A i \in Run(j) : ChunkIndex(j, i) = ChunkIndex(j, at[j])
        /\ LastOfRun(j) < Len(order[j])
              => ChunkIndex(j, LastOfRun(j) + 1) # ChunkIndex(j, at[j])
    BY <1>1, RunFacts DEF AtRun
  <2>2. CASE at'[j] = at[j]
    BY <1>3, <2>2 DEF Sound, Looping
  <2>3. CASE at'[j] = 1
    BY <1>3, <2>3
  <2>4. CASE at'[j] = LastOfRun(j) + 1
    <3>1. LastOfRun(j) < Len(order[j]) /\ LastOfRun(j) \in Run(j) /\ at'[j] - 1 = LastOfRun(j)
      BY <1>3, <2>1, <2>4
    <3>2. ChunkIndex(j, LastOfRun(j)) = ChunkIndex(j, at[j])
      BY <2>1, <3>1
    <3> QED BY <2>1, <2>4, <3>1, <3>2
  <2> QED BY <1>2, <2>2, <2>3, <2>4
<1>4. \A j \in Dims : \A i : ChunkIndex(j, i)' = ChunkIndex(j, i)
  BY DEF ChunkIndex
<1>5. \A j \in Dims : at'[j] > 1 /\ at'[j] <= Len(order'[j])
                         => (ChunkIndex(j, at[j] - 1) # ChunkIndex(j, at[j]))'
  <2> SUFFICES ASSUME NEW j \in Dims, at'[j] > 1, at'[j] <= Len(order[j])
               PROVE  (ChunkIndex(j, at[j] - 1) # ChunkIndex(j, at[j]))'
    OBVIOUS
  <2>1. ChunkIndex(j, at'[j] - 1) # ChunkIndex(j, at'[j])
    BY <1>3
  <2> QED BY <2>1 DEF ChunkIndex
<1>6. \A j \in Dims : j # 1 /\ Len(order'[j]) > 0 => at'[j] <= Len(order'[j])
  BY <1>2
<1>7. /\ \A j \in Dims : Arranged(call.list[j], order[j])
      /\ \A j \in Dims : (MaxIndexes <= HalfInt /\ Comparable(call.list[j])) => Ascending(order[j])
      /\ 1 \notin Beyond => \A j \in Dims : \A i \in DOMAIN call.list[j] : call.list[j][i] < shape[j]
      /\ Box(Origin, Sizes(call.list)) \subseteq DOMAIN buf
  BY DEF Sound, Looping
<1> QED BY <1>2, <1>5, <1>6, <1>7 DEF Looping

\* A call that is let in begins with sorted lists, at their first runs.
LEMMA EnterSound ==
    ASSUME Sound, Called, NEW op \in {"get", "set"}, NEW list \in Selections,
           NEW pad \in 0..MaxPad, Enter(op, list, [j \in Dims |-> Len(list[j]) + pad]),
           DOMAIN buf' = BufferBox(list, pad), UNCHANGED <<shape, sc>>,
           \A q \in DOMAIN buf' : buf'[q] \in Values \cup {Garbage},
           op = "set" => \A q \in DOMAIN buf' : buf'[q] \in Values
    PROVE  Sound'
<1>1. /\ shape \in [Dims -> Nat] /\ call' = [op |-> op, list |-> list]
      /\ MaxIndexes \in Nat /\ MaxPad \in Nat /\ pad \in Nat /\ MaxCalls \in Nat
  BY ShapesAssumption, BoundsAssumption DEF Sound, Enter
<1>2. /\ list \in [Dims -> Seq(Nat)]
      /\ \A j \in Dims : Len(list[j]) <= MaxIndexes /\ Len(list[j]) \in Nat
      /\ \A j \in Dims : \A i \in DOMAIN list[j] : list[j][i] \in Indexes(j)
      /\ Sizes(list) \in [Dims -> Nat]
      /\ \A j \in Dims : Sizes(list)[j] = Len(list[j])
  BY <1>1, SelectionsFacts
<1>3. /\ at' = ListOf(1) /\ ListOf(1) \in [Dims -> Nat \ {0}] /\ \A j \in Dims : ListOf(1)[j] = 1
  BY DEF Enter, ListOf
<1>4. left' \in 0..MaxCalls
  BY <1>1 DEF Sound, Called
<1>5. CASE OutOfRange(list) \/ Product(Sizes(list)) < Product([j \in Dims |-> Len(list[j]) + pad])
  <2>1. /\ ret' \in {"INVALID_INDEX", "INVALID_ARGUMENT"} /\ order' = ListOf(<< >>) /\ pc' = "idle"
    BY <1>5 DEF Enter, Called
  <2>2. ListOf(<< >>) \in [Dims -> Seq(Entries)] /\ \A j \in Dims : Len(ListOf(<< >>)[j]) = 0
    BY DEF ListOf
  <2>3. \A j \in Dims : at'[j] <= Len(order'[j]) + 1
    BY <1>3, <2>1, <2>2
  <2> QED BY <1>1, <1>2, <1>3, <1>4, <2>1, <2>2, <2>3 DEF Sound
<1>6. CASE ~(OutOfRange(list) \/ Product(Sizes(list)) < Product([j \in Dims |-> Len(list[j]) + pad]))
  <2>1. /\ pc' = (IF op = "get" THEN "getting" ELSE "setting")
        /\ order' \in [Dims -> UNION {Sorted(list[j]) : j \in Dims}]
        /\ \A j \in Dims : order'[j] \in Sorted(list[j])
        /\ ret' = ret
    BY <1>6 DEF Enter
  <2>2. ASSUME NEW j \in Dims
        PROVE  /\ Arranged(list[j], order'[j])
               /\ (MaxIndexes <= HalfInt /\ Comparable(list[j])) => Ascending(order'[j])
               /\ order'[j] \in Seq(Entries)
               /\ 1 <= Len(order'[j]) + 1
               /\ Len(order'[j]) > 0 => 1 <= Len(order'[j])
    <3>1. list[j] \in Seq(Nat) /\ Len(list[j]) <= MaxIndexes /\ order'[j] \in Sorted(list[j])
      BY <1>2, <2>1
    <3>2. Arranged(list[j], order'[j])
      BY <3>1, SortedArranged
    <3>3. (MaxIndexes <= HalfInt /\ Comparable(list[j])) => Ascending(order'[j])
      BY <3>1, SortedAscends
    <3>4. order'[j] \in Seq(Entries)
      BY <3>2 DEF Arranged
    <3>5. Len(order'[j]) \in Nat
      BY <3>4
    <3> QED BY <3>2, <3>3, <3>4, <3>5
  <2>3. order' \in [Dims -> Seq(Entries)]
    BY <2>1, <2>2
  <2>4. \A j \in Dims : at'[j] <= Len(order'[j]) + 1
    BY <1>3, <2>2
  <2>5. ASSUME 1 \notin Beyond, NEW j \in Dims, NEW i \in DOMAIN list[j]
        PROVE  list[j][i] < shape[j]
    <3>1. list[j][i] \in Indexes(j) /\ ~(list[j][i] > shape[j]) /\ shape[j] \in Nat
      BY <1>1, <1>2, <1>6 DEF OutOfRange
    <3>2. CASE list[j][i] \in 0..shape[j] - 1
      BY <3>1, <3>2
    <3>3. CASE \E b \in Beyond : list[j][i] = shape[j] - 1 + b
      <4>1. PICK b \in Beyond : list[j][i] = shape[j] - 1 + b
        BY <3>3
      <4>2. b \in Nat \ {0} /\ b # 1
        BY <2>5, BeyondAssumption
      <4> QED BY <3>1, <4>1, <4>2
    <3> QED BY <3>1, <3>2, <3>3 DEF Indexes
  <2>6. Box(Origin, Sizes(list)) \subseteq DOMAIN buf'
    <3> DEFINE hi == [j \in Dims |-> Len(list[j]) + pad]
    <3>1. hi \in [Dims -> Int] /\ Sizes(list) \in [Dims -> Int]
      BY <1>1, <1>2
    <3>2. \A j \in Dims : Sizes(list)[j] <= hi[j]
      BY <1>1, <1>2
    <3>3. DOMAIN buf' = Box(Origin, hi)
      BY DEF BufferBox
    <3> HIDE DEF hi
    <3>4. ASSUME NEW q \in Box(Origin, Sizes(list)) PROVE q \in Box(Origin, hi)
      <4>1. q \in [Dims -> Nat] /\ \A j \in Dims : q[j] < Sizes(list)[j]
        BY <3>1, OriginBox
      <4>2. \A j \in Dims : q[j] < hi[j]
        BY <3>1, <3>2, <4>1
      <4> QED BY <3>1, <4>1, <4>2, OriginBox
    <3> QED BY <3>3, <3>4
  <2>7. Looping'
    <3>1. \A j \in Dims : Arranged(list[j], order'[j])
      BY <2>2
    <3>2. \A j \in Dims : (MaxIndexes <= HalfInt /\ Comparable(list[j])) => Ascending(order'[j])
      BY <2>2
    <3>3. 1 \notin Beyond => \A j \in Dims : \A i \in DOMAIN list[j] : list[j][i] < shape'[j]
      BY <2>5
    <3>4. \A j \in Dims : ~(at'[j] > 1)
      BY <1>3
    <3>5. \A j \in Dims : Len(order'[j]) > 0 => at'[j] <= Len(order'[j])
      BY <1>3, <2>2
    <3>6. call'.list = list
      BY <1>1
    <3>7. \A j \in Dims : at'[j] > 1 /\ at'[j] <= Len(order'[j])
                             => (ChunkIndex(j, at[j] - 1) # ChunkIndex(j, at[j]))'
      BY <3>4
    <3> QED BY <2>6, <3>1, <3>2, <3>3, <3>5, <3>6, <3>7 DEF Looping
  <2>8. pc' = "getting" => op = "get"
    BY <2>1
  <2>9. pc' = "setting" => op = "set"
    BY <2>1
  <2> QED BY <1>1, <1>2, <1>3, <1>4, <2>1, <2>3, <2>4, <2>7, <2>8, <2>9 DEF Sound
<1> QED BY <1>5, <1>6

\* A turn of a set leaves a chunk.
LEMMA CopiedInType ==
    ASSUME Sound, pc = "setting", More, HasChunk(Here)
    PROVE  /\ CopiedIn \in ChunkData /\ Here + 1 \in 1..Len(sc) /\ Here \in Nat
           /\ [sc EXCEPT ![Here + 1] = CopiedIn] \in Seq(ChunkData)
           /\ Len([sc EXCEPT ![Here + 1] = CopiedIn]) = Len(sc)
<1>1. AtRun
  BY TurnFacts
<1>2. sc \in Seq(ChunkData) /\ call.op = "set" /\ \A q \in DOMAIN buf : buf[q] \in Values
  BY DEF Sound
<1>3. Here + 1 \in 1..Len(sc) /\ Here \in Nat
  <2>1. Len(sc) \in Nat
    BY <1>2
  <2> QED BY <2>1 DEF HasChunk
<1>4. sc[Here + 1] \in ChunkData
  BY <1>2, <1>3
<1>5. ASSUME NEW p \in ChunkBox
      PROVE  CopiedIn[p] \in Values
  <2>1. CASE \E e \in Elements : Place(e) = p
    <3>1. PICK e \in Elements : Place(e) = p
      BY <2>1
    <3>2. LastAt(p) \in Elements
      BY <1>1, <3>1, LastAtFacts
    <3>3. InBuffer(LastAt(p)) \in DOMAIN buf
      BY <1>1, <3>2, ElementPlace, CombinationFacts
    <3>4. CopiedIn[p] = buf[InBuffer(LastAt(p))]
      BY <2>1 DEF CopiedIn, LastAt
    <3> QED BY <1>2, <3>3, <3>4
  <2>2. CASE ~ \E e \in Elements : Place(e) = p
    <3>1. CopiedIn[p] = sc[Here + 1][p]
      BY <2>2 DEF CopiedIn
    <3> QED BY <1>4, <3>1 DEF ChunkData
  <2> QED BY <2>1, <2>2
<1>6. CopiedIn \in ChunkData
  <2>1. CopiedIn = [p \in ChunkBox |-> CopiedIn[p]]
    BY DEF CopiedIn
  <2> QED BY <1>5, <2>1 DEF ChunkData
<1> QED BY <1>2, <1>3, <1>6

\* A turn of a get leaves in the buffer what fits there.
LEMMA CopiedOutType ==
    ASSUME Sound, pc = "getting", More, HasChunk(Here)
    PROVE  /\ DOMAIN CopiedOut = DOMAIN buf
           /\ \A q \in DOMAIN buf : CopiedOut[q] \in Values \cup {Garbage}
<1>1. AtRun
  BY TurnFacts
<1>2. sc \in Seq(ChunkData) /\ \A q \in DOMAIN buf : buf[q] \in Values \cup {Garbage}
  BY DEF Sound
<1>3. Here + 1 \in 1..Len(sc)
  <2>1. Len(sc) \in Nat
    BY <1>2
  <2> QED BY <2>1 DEF HasChunk
<1>4. sc[Here + 1] \in ChunkData
  BY <1>2, <1>3
<1>5. \A p \in ChunkBox : Decompressed[p] \in Values \cup {Garbage}
  BY <1>4 DEF Decompressed, ChunkData
<1>6. ASSUME NEW q \in DOMAIN buf
      PROVE  CopiedOut[q] \in Values \cup {Garbage}
  <2>1. CASE \E e \in Elements : InBuffer(e) = q
    <3> DEFINE e == CHOOSE e \in Elements : InBuffer(e) = q
    <3>1. e \in Elements
      BY <2>1
    <3>2. CopiedOut[q] = Decompressed[Place(e)]
      BY <2>1 DEF CopiedOut
    <3> HIDE DEF e
    <3>3. Place(e) \in ChunkBox
      BY <1>1, <3>1, ElementPlace
    <3> QED BY <1>5, <3>2, <3>3
  <2>2. CASE ~ \E e \in Elements : InBuffer(e) = q
    <3>1. CopiedOut[q] = buf[q]
      BY <2>2 DEF CopiedOut
    <3> QED BY <1>2, <3>1
  <2> QED BY <2>1, <2>2
<1> QED BY <1>6 DEF CopiedOut

\* Every step keeps it.
LEMMA SoundStep ==
    ASSUME Sound, [Next]_vars
    PROVE  Sound'
<1>1. CASE GetSelection
  <2>1. PICK list \in Selections : \E pad \in 0..MaxPad :
            /\ buf' = [q \in BufferBox(list, pad) |-> Garbage]
            /\ Enter("get", list, [j \in Dims |-> Len(list[j]) + pad])
    BY <1>1 DEF GetSelection
  <2>2. PICK pad \in 0..MaxPad :
            /\ buf' = [q \in BufferBox(list, pad) |-> Garbage]
            /\ Enter("get", list, [j \in Dims |-> Len(list[j]) + pad])
    BY <2>1
  <2>3. DOMAIN buf' = BufferBox(list, pad) /\ \A q \in DOMAIN buf' : buf'[q] \in Values \cup {Garbage}
    BY <2>2
  <2>4. Called /\ UNCHANGED <<shape, sc>>
    BY <1>1 DEF GetSelection
  <2> QED BY <2>2, <2>3, <2>4, EnterSound
<1>2. CASE SetSelection
  <2>1. PICK list \in Selections : \E pad \in 0..MaxPad, f \in Buffers :
            /\ buf' = [q \in BufferBox(list, pad) |-> f[q]]
            /\ Enter("set", list, [j \in Dims |-> Len(list[j]) + pad])
    BY <1>2 DEF SetSelection
  <2>2. PICK pad \in 0..MaxPad, f \in Buffers :
            /\ buf' = [q \in BufferBox(list, pad) |-> f[q]]
            /\ Enter("set", list, [j \in Dims |-> Len(list[j]) + pad])
    BY <2>1
  <2>3. \A q \in BufferBox(list, pad) : f[q] \in Values
    <3> DEFINE hi == [j \in Dims |-> Len(list[j]) + pad]
               top == [j \in Dims |-> MaxIndexes + MaxPad]
    <3>1. MaxIndexes \in Nat /\ MaxPad \in Nat
      BY BoundsAssumption
    <3>2. shape \in [Dims -> Nat]
      BY ShapesAssumption DEF Sound
    <3>3. \A j \in Dims : Len(list[j]) \in Nat /\ Len(list[j]) <= MaxIndexes
      BY <3>2, SelectionsFacts
    <3>4. hi \in [Dims -> Int] /\ top \in [Dims -> Int] /\ \A j \in Dims : hi[j] <= top[j]
      BY <3>1, <3>3
    <3>5. f \in [Box(Origin, top) -> Values]
      BY BuffersAssumption
    <3>6. BufferBox(list, pad) = Box(Origin, hi)
      BY DEF BufferBox
    <3> HIDE DEF hi, top
    <3>7. ASSUME NEW q \in Box(Origin, hi) PROVE q \in Box(Origin, top)
      <4>1. q \in [Dims -> Nat] /\ \A j \in Dims : q[j] < hi[j]
        BY <3>4, OriginBox
      <4>2. \A j \in Dims : q[j] < top[j]
        BY <3>4, <4>1
      <4> QED BY <3>4, <4>1, <4>2, OriginBox
    <3> QED BY <3>5, <3>6, <3>7
  <2>4. DOMAIN buf' = BufferBox(list, pad) /\ \A q \in DOMAIN buf' : buf'[q] \in Values
    BY <2>2, <2>3
  <2>5. Called /\ UNCHANGED <<shape, sc>>
    BY <1>2 DEF SetSelection
  <2> QED BY <2>2, <2>4, <2>5, EnterSound
<1>3. CASE GetRun
  <2>1. /\ pc = "getting" /\ More /\ HasChunk(Here) /\ buf' = CopiedOut /\ at' = Advance
        /\ UNCHANGED <<shape, sc, pc, call, order, ret, left>>
    BY <1>3 DEF GetRun
  <2>2. DOMAIN buf' = DOMAIN buf /\ \A q \in DOMAIN buf : buf'[q] \in Values \cup {Garbage}
    BY <2>1, CopiedOutType
  <2>3. /\ Looping'
        /\ at' \in [Dims -> Nat \ {0}] /\ \A j \in Dims : at'[j] <= Len(order[j]) + 1
    BY <2>1, <2>2, TurnSound
  <2>4. call.op = "get"
    BY <2>1 DEF Sound
  <2> QED BY <2>1, <2>2, <2>3, <2>4 DEF Sound
<1>4. CASE SetRun
  <2>1. /\ pc = "setting" /\ More /\ HasChunk(Here) /\ sc' = [sc EXCEPT ![Here + 1] = CopiedIn]
        /\ at' = Advance /\ UNCHANGED <<shape, pc, call, order, buf, ret, left>>
    BY <1>4 DEF SetRun
  <2>2. sc' \in Seq(ChunkData) /\ Len(sc') = Len(sc)
    BY <2>1, CopiedInType
  <2>3. /\ Looping'
        /\ at' \in [Dims -> Nat \ {0}] /\ \A j \in Dims : at'[j] <= Len(order[j]) + 1
    BY <2>1, TurnSound
  <2> QED BY <2>1, <2>2, <2>3 DEF Sound
<1>5. CASE SelectionEnd \/ RunFails
  <2>1. /\ pc' = "idle" /\ ret' \in {"SUCCEED", "BLOSC_FAILED"}
        /\ order' = ListOf(<< >>) /\ at' = ListOf(1)
        /\ UNCHANGED <<shape, sc, call, buf, left>>
    BY <1>5 DEF SelectionEnd, RunFails, Leave
  <2>2. /\ ListOf(<< >>) \in [Dims -> Seq(Entries)]
        /\ ListOf(1) \in [Dims -> Nat \ {0}]
        /\ \A j \in Dims : Len(ListOf(<< >>)[j]) = 0 /\ ListOf(1)[j] = 1
    BY DEF ListOf
  <2> QED BY <2>1, <2>2 DEF Sound
<1>6. CASE UNCHANGED vars
  <2>1. /\ UNCHANGED <<shape, sc, pc, call, order, at, buf, ret, left>>
    BY <1>6 DEF vars
  <2>2. Looping => Looping'
    BY <2>1 DEF Looping, ChunkIndex
  <2> QED BY <2>1, <2>2 DEF Sound
<1> QED BY <1>1, <1>2, <1>3, <1>4, <1>5, <1>6 DEF Next

\* It holds in every state.
LEMMA AlwaysSound == Spec => []Sound
<1>1. Init => Sound
  BY SoundInit
<1>2. Sound /\ [Next]_vars => Sound'
  BY SoundStep
<1> QED BY <1>1, <1>2, PTL DEF Spec

\* Whatever the lists, also when the comparison's conversion to int spoils their order, the
\* calls keep the type invariant: the loop never leaves the lists, and the chunks stay chunks.
THEOREM SelectionTypeCorrect == Spec => []TypeOK
<1>1. Sound => TypeOK
  BY SoundType
<1> QED BY <1>1, AlwaysSound, PTL

\* Whatever the lists and their order, each element of a turn has a place of its own in the
\* buffer, if the buffer has one for each element of the selection.
THEOREM ElementsInBuffer == Spec => []StaysInBuffer
<1>1. ASSUME Sound, pc # "idle", More
      PROVE  /\ \A e \in Elements : InBuffer(e) \in Box(Origin, Sizes(call.list)) \cap DOMAIN buf
             /\ \A e, f \in Elements : InBuffer(e) = InBuffer(f) => e = f
  <2>1. \A e \in Elements : e \in All
    BY <1>1, TurnFacts, ElementPlace
  <2>2. \A e \in All : InBuffer(e) \in Box(Origin, Sizes(call.list)) \cap DOMAIN buf
    BY <1>1, CombinationFacts
  <2>3. \A e, f \in All : InBuffer(e) = InBuffer(f) => e = f
    BY <1>1, CombinationFacts
  <2> QED BY <2>1, <2>2, <2>3
<1>2. Sound => StaysInBuffer
  BY <1>1 DEF StaysInBuffer
<1> QED BY <1>2, AlwaysSound, PTL

-----------------------------------------------------------------------------
(* Getting. *)

\* What the loop of a get has done: the combinations it has passed are at their places of
\* the buffer, and the places that no combination has are as malloc left them.
GetPass ==
    /\ \A e \in All : Passed(e) => buf[InBuffer(e)] = Items[Chosen(e)]
    /\ \A q \in DOMAIN buf : q \notin Box(Origin, Sizes(call.list)) => buf[q] = Garbage

\* With it, what a get that has ended is to have done.
GetKept == (pc = "getting" => GetPass) /\ GetSelects

\* At the beginning the loop has passed nothing.
LEMMA NothingPassed == at = ListOf(1) => \A e \in All : ~Passed(e)
<1> SUFFICES ASSUME at = ListOf(1), NEW e \in All PROVE ~Passed(e)
  OBVIOUS
<1>1. \A i \in Dims : at[i] = 1 /\ e[i] \in 1..Len(order[i])
  BY DEF ListOf, All
<1> QED BY <1>1 DEF Passed

\* At the end it has passed every combination.
LEMMA AllPassed ==
    ASSUME Sound, pc # "idle", ~More, NEW e \in All
    PROVE  Passed(e)
<1>1. PICK j \in Dims : ~(at[j] <= Len(order[j]))
  BY DEF More
<1>2. /\ \A i \in Dims : i # 1 /\ Len(order[i]) > 0 => at[i] <= Len(order[i])
      /\ order[j] \in Seq(Entries) /\ at[j] \in Nat \ {0}
  BY DEF Sound, Looping
<1>3. Len(order[j]) \in Nat /\ e[j] \in 1..Len(order[j])
  BY <1>2 DEF All
<1>4. j = 1
  BY <1>1, <1>2, <1>3
<1>5. e[1] < at[1] /\ 1 \in Dims
  BY <1>1, <1>2, <1>3, <1>4
<1>6. \A i \in 1..1 - 1 : e[i] \in Run(i)
  OBVIOUS
<1> QED BY <1>5, <1>6 DEF Passed

\* What the loop puts into the buffer for a combination of the turn is its item.
LEMMA CopiedOutFacts ==
    ASSUME Sound, pc = "getting", More, 1 \notin Beyond, NEW e \in Elements
    PROVE  CopiedOut[InBuffer(e)] = Items[Chosen(e)]
<1>1. AtRun
  BY TurnFacts
<1>2. /\ e \in All
      /\ Place(e) \in ChunkBox /\ Wanted(BlockOf(Place(e)))
      /\ ChunkOf(shape, Chosen(e)) = Here
      /\ Place(e) = [j \in Dims |-> Chosen(e)[j] % ChunkShape[j]]
  BY <1>1, ElementPlace
<1>3. /\ InBuffer(e) \in DOMAIN buf /\ Chosen(e) \in Box(Origin, shape)
      /\ \A f \in All : InBuffer(f) = InBuffer(e) => f = e
  BY <1>2, CombinationFacts
<1>4. (CHOOSE f \in Elements : InBuffer(f) = InBuffer(e)) = e
  <2>1. \A f \in Elements : InBuffer(f) = InBuffer(e) => f = e
    BY <1>1, <1>3, ElementPlace
  <2> QED BY <2>1
<1>5. CopiedOut[InBuffer(e)] = Decompressed[Place(e)]
  BY <1>3, <1>4 DEF CopiedOut
<1>6. Decompressed[Place(e)] = sc[Here + 1][Place(e)]
  BY <1>2 DEF Decompressed
<1>7. Items[Chosen(e)] = ItemIn(shape, sc, Chosen(e))
  BY <1>3 DEF Items, ItemsIn
<1>8. ItemIn(shape, sc, Chosen(e)) = sc[Here + 1][Place(e)]
  BY <1>2 DEF ItemIn, ItemHeld, ChunkOf
<1> QED BY <1>5, <1>6, <1>7, <1>8

\* A turn of a get.
LEMMA GetTurn ==
    ASSUME Sound, pc = "getting", GetPass, GetRun, 1 \notin Beyond
    PROVE  GetPass'
<1>1. /\ More /\ HasChunk(Here) /\ buf' = CopiedOut /\ at' = Advance
      /\ UNCHANGED <<shape, sc, pc, call, order, ret, left>>
  BY DEF GetRun
<1>2. AtRun
  BY <1>1, TurnFacts
<1>3. DOMAIN buf' = DOMAIN buf
  BY <1>1, CopiedOutType
<1>4. Items' = Items /\ \A e : /\ InBuffer(e)' = InBuffer(e) /\ Chosen(e)' = Chosen(e)
                               /\ e \in All' <=> e \in All
  BY <1>1 DEF Items, InBuffer, Chosen, All
<1>5. ASSUME NEW e \in All, Passed(e)'
      PROVE  buf'[InBuffer(e)] = Items[Chosen(e)]
  <2>1. InBuffer(e) \in DOMAIN buf
    BY <1>1, CombinationFacts
  <2>2. CASE e \in Elements
    BY <1>1, <2>2, CopiedOutFacts
  <2>3. CASE e \notin Elements
    <3>1. Passed(e)
      BY <1>1, <1>2, <1>5, <2>3, PassedNext
    <3>2. \A f \in Elements : InBuffer(f) # InBuffer(e)
      <4> SUFFICES ASSUME NEW f \in Elements, InBuffer(f) = InBuffer(e) PROVE FALSE
        OBVIOUS
      <4>1. f \in All
        BY <1>2, ElementPlace
      <4>2. f = e
        BY <4>1, CombinationFacts
      <4> QED BY <2>3, <4>2
    <3>3. CopiedOut[InBuffer(e)] = buf[InBuffer(e)]
      BY <2>1, <3>2 DEF CopiedOut
    <3> QED BY <1>1, <3>1, <3>3 DEF GetPass
  <2> QED BY <2>2, <2>3
<1>6. ASSUME NEW q \in DOMAIN buf, q \notin Box(Origin, Sizes(call.list))
      PROVE  buf'[q] = Garbage
  <2>1. \A f \in Elements : InBuffer(f) # q
    <3> SUFFICES ASSUME NEW f \in Elements, InBuffer(f) = q PROVE FALSE
      OBVIOUS
    <3>1. f \in All
      BY <1>2, ElementPlace
    <3> QED BY <1>6, <3>1, CombinationFacts
  <2>2. CopiedOut[q] = buf[q]
    BY <2>1 DEF CopiedOut
  <2> QED BY <1>1, <1>6, <2>2 DEF GetPass
<1>7. \A e \in All' : Passed(e)' => buf'[InBuffer(e)'] = Items'[Chosen(e)']
  BY <1>4, <1>5
<1>8. \A q \in DOMAIN buf' : q \notin Box(Origin, Sizes(call'.list)) => buf'[q] = Garbage
  BY <1>1, <1>3, <1>6
<1> QED BY <1>7, <1>8 DEF GetPass

\* The end of a get: every place that the lists ask for has its item.
LEMMA GetEnd ==
    ASSUME Sound, pc = "getting", GetPass, ~More, NEW q \in DOMAIN buf
    PROVE  buf[q] = IF q \in Box(Origin, Sizes(call.list)) THEN Items[Selects(q)] ELSE Garbage
<1>1. CASE q \in Box(Origin, Sizes(call.list))
  <2>1. PICK e \in All : InBuffer(e) = q
    BY <1>1, EveryPlace
  <2>2. Passed(e) /\ Selects(q) = Chosen(e)
    BY <2>1, AllPassed, CombinationFacts
  <2> QED BY <1>1, <2>1, <2>2 DEF GetPass
<1>2. CASE q \notin Box(Origin, Sizes(call.list))
  BY <1>2 DEF GetPass
<1> QED BY <1>1, <1>2

\* A call begins: nothing is passed yet.
LEMMA GetBegins ==
    ASSUME Sound, GetSelection
    PROVE  GetKept'
<1>1. PICK list \in Selections : \E pad \in 0..MaxPad :
          /\ buf' = [q \in BufferBox(list, pad) |-> Garbage]
          /\ Enter("get", list, [j \in Dims |-> Len(list[j]) + pad])
  BY DEF GetSelection
<1>2. PICK pad \in 0..MaxPad :
          /\ buf' = [q \in BufferBox(list, pad) |-> Garbage]
          /\ Enter("get", list, [j \in Dims |-> Len(list[j]) + pad])
  BY <1>1
<1>3. at' = ListOf(1) /\ pc = "idle" /\ \A q \in DOMAIN buf' : buf'[q] = Garbage
  BY <1>2 DEF Enter, GetSelection, Called
<1>4. (pc' = "idle" /\ ret' \in {"INVALID_INDEX", "INVALID_ARGUMENT"}) \/ pc' = "getting"
  BY <1>2, <1>3 DEF Enter
<1>5. ~Succeeded("get")'
  BY <1>4 DEF Succeeded
<1>6. (\A e \in All : ~Passed(e))'
  <2>1. (at = ListOf(1) => \A e \in All : ~Passed(e))'
    BY NothingPassed, PTL
  <2>2. (at = ListOf(1))'
    BY <1>3
  <2> QED BY <2>1, <2>2
<1> QED BY <1>3, <1>5, <1>6 DEF GetKept, GetPass, GetSelects

\* Every step keeps it.
LEMMA GetStep ==
    ASSUME Sound, GetKept, [Next]_vars, 1 \notin Beyond
    PROVE  GetKept'
<1>1. CASE GetSelection
  BY <1>1, GetBegins
<1>2. CASE SetSelection
  <2>1. PICK list \in Selections, pad \in 0..MaxPad :
            Enter("set", list, [j \in Dims |-> Len(list[j]) + pad])
    BY <1>2 DEF SetSelection
  <2>2. call'.op = "set" /\ pc' # "getting"
    BY <1>2, <2>1 DEF Enter, SetSelection, Called
  <2> QED BY <2>2 DEF GetKept, GetSelects, Succeeded
<1>3. CASE GetRun
  <2>1. pc = "getting" /\ pc' = "getting"
    BY <1>3 DEF GetRun
  <2>2. GetPass'
    BY <1>3, <2>1, GetTurn DEF GetKept
  <2> QED BY <2>1, <2>2 DEF GetKept, GetSelects, Succeeded
<1>4. CASE SetRun
  <2>1. pc' = "setting"
    BY <1>4 DEF SetRun
  <2> QED BY <2>1 DEF GetKept, GetSelects, Succeeded
<1>5. CASE SelectionEnd
  <2>1. pc # "idle" /\ ~More /\ pc' = "idle" /\ UNCHANGED <<shape, sc, call, buf>>
    BY <1>5 DEF SelectionEnd, Leave
  <2>2. CASE pc = "getting"
    <3>1. GetPass
      BY <2>2 DEF GetKept
    <3>2. \A q \in DOMAIN buf :
             buf[q] = IF q \in Box(Origin, Sizes(call.list)) THEN Items[Selects(q)] ELSE Garbage
      BY <2>1, <2>2, <3>1, GetEnd
    <3>3. Items' = Items /\ \A q : Selects(q)' = Selects(q)
      BY <2>1 DEF Items, Selects
    <3> QED BY <2>1, <3>2, <3>3 DEF GetKept, GetSelects
  <2>3. CASE pc # "getting"
    <3>1. call.op = "set"
      BY <2>1, <2>3 DEF Sound
    <3> QED BY <2>1, <3>1 DEF GetKept, GetSelects, Succeeded
  <2> QED BY <2>2, <2>3
<1>6. CASE RunFails
  <2>1. pc' = "idle" /\ ret' = "BLOSC_FAILED"
    BY <1>6 DEF RunFails, Leave
  <2> QED BY <2>1 DEF GetKept, GetSelects, Succeeded
<1>7. CASE UNCHANGED vars
  <2>1. UNCHANGED <<shape, sc, pc, call, order, at, buf, ret, left>>
    BY <1>7 DEF vars
  <2>2. GetPass => GetPass'
    BY <2>1 DEF GetPass, All, Passed, Run, ChunkIndex, InBuffer, Items, Chosen
  <2>3. GetSelects => GetSelects'
    BY <2>1 DEF GetSelects, Succeeded, Items, Selects
  <2> QED BY <2>1, <2>2, <2>3 DEF GetKept
<1> QED BY <1>1, <1>2, <1>3, <1>4, <1>5, <1>6, <1>7 DEF Next

\* A get that succeeds has put every selected item where the caller's lists ask for it,
\* whatever the order of the lists and however they were sorted, if no caller passes an
\* index equal to the extent, which caterva_orthogonal_selection lets pass.
THEOREM GetCorrect ==
    ASSUME 1 \notin Beyond
    PROVE  Spec => []GetSelects
<1>1. Init => GetKept
  BY DEF Init, GetKept, GetSelects, Succeeded
<1>2. Sound /\ GetKept /\ [Next]_vars => GetKept'
  BY GetStep
<1>3. GetKept => GetSelects
  BY DEF GetKept
<1> QED BY <1>1, <1>2, <1>3, AlwaysSound, PTL DEF Spec

-----------------------------------------------------------------------------
(* Setting. *)

\* An item is in a chunk of the array, and no other item has its place there.
LEMMA ItemChunk ==
    ASSUME shape \in [Dims -> Nat], NEW c \in Box(Origin, shape)
    PROVE  /\ ChunkOf(shape, c) \in 0..NumChunks(shape) - 1
           /\ \A d \in Box(Origin, shape) :
                 /\ ChunkOf(shape, d) = ChunkOf(shape, c)
                 /\ \A j \in Dims : (d[j] % ChunkShape[j]) = (c[j] % ChunkShape[j])
                 => d = c
<1> DEFINE Chunk(x) == [j \in Dims |-> x[j] \div ChunkShape[j]]
<1>1. \A j \in Dims : ChunkShape[j] \in Nat \ {0}
  BY ChunkShapeAssumption
<1>2. ASSUME NEW x \in Box(Origin, shape)
      PROVE  /\ x \in [Dims -> Nat] /\ Chunk(x) \in GridCoords(shape)
             /\ ChunkOf(shape, x) = NumberIn(shape, Chunk(x))
  <2>1. shape \in [Dims -> Int]
    OBVIOUS
  <2>2. x \in [Dims -> Nat] /\ \A j \in Dims : x[j] < shape[j]
    BY <2>1, OriginBox
  <2>3. ASSUME NEW j \in Dims
        PROVE  Chunk(x)[j] \in Nat /\ Chunk(x)[j] < ChunksInArray(shape)[j]
    <3>1. x[j] \in Nat /\ x[j] < shape[j] /\ shape[j] \in Nat
      BY <2>2
    <3>2. x[j] \div ChunkShape[j] \in Nat /\ ChunkShape[j] * (x[j] \div ChunkShape[j]) <= x[j]
      <4>1. \A h \in Nat : /\ ChunkShape[j] * (x[j] \div ChunkShape[j]) <= x[j]
                           /\ x[j] \div ChunkShape[j] \in Nat
        BY <1>1, <3>1, PlaceDim
      <4>2. 0 \in Nat
        OBVIOUS
      <4> QED BY <4>1, <4>2
    <3> DEFINE q == x[j] \div ChunkShape[j]
               y == ChunkShape[j] * q
    <3>3. q \in Nat /\ y <= x[j] /\ y \in Int
      BY <1>1, <3>2
    <3>4. q < ChunksInArray(shape)[j] <=> y < shape[j]
      <4>1. q \in Nat
        BY <3>3
      <4> HIDE DEF q
      <4> QED BY <4>1, GridFacts
    <3> HIDE DEF y
    <3>5. y < shape[j]
      BY <3>1, <3>3
    <3>6. Chunk(x)[j] = q
      OBVIOUS
    <3> QED BY <3>3, <3>4, <3>5, <3>6
  <2>4. InBox(Chunk(x), ChunksInArray(shape))
    <3>1. Chunk(x) = [j \in Dims |-> Chunk(x)[j]]
      OBVIOUS
    <3> HIDE DEF Chunk
    <3>2. Chunk(x) \in [Dims -> Nat]
      BY <2>3, <3>1
    <3> QED BY <2>3, <3>2 DEF InBox
  <2>5. Chunk(x) \in GridCoords(shape)
    BY <2>4, GridFacts
  <2> QED BY <2>2, <2>5 DEF ChunkOf, NumberIn, ChunkHolding, ChunksInArray
<1>3. ASSUME NEW d \in Box(Origin, shape), ChunkOf(shape, d) = ChunkOf(shape, c),
             \A j \in Dims : (d[j] % ChunkShape[j]) = (c[j] % ChunkShape[j])
      PROVE  d = c
  <2>1. Chunk(d) = Chunk(c)
    <3>1. NumberIn(shape, Chunk(d)) = NumberIn(shape, Chunk(c))
      BY <1>2, <1>3
    <3>2. Chunk(d) \in GridCoords(shape) /\ Chunk(c) \in GridCoords(shape)
      BY <1>2
    <3> HIDE DEF Chunk
    <3>3. PlaceIn(shape, NumberIn(shape, Chunk(d))) = Chunk(d)
      BY <3>2, Numbering
    <3>4. PlaceIn(shape, NumberIn(shape, Chunk(c))) = Chunk(c)
      BY <3>2, Numbering
    <3> QED BY <3>1, <3>3, <3>4
  <2>2. d \in [Dims -> Nat] /\ c \in [Dims -> Nat]
    BY <1>2
  <2>3. ASSUME NEW j \in Dims PROVE d[j] = c[j]
    <3>1. d[j] \div ChunkShape[j] = c[j] \div ChunkShape[j]
      <4>1. Chunk(d)[j] = Chunk(c)[j]
        BY <2>1
      <4> QED BY <4>1
    <3>2. d[j] = (d[j] \div ChunkShape[j]) * ChunkShape[j] + (d[j] % ChunkShape[j])
      BY <1>1, <2>2, QuotientRest
    <3>3. c[j] = (c[j] \div ChunkShape[j]) * ChunkShape[j] + (c[j] % ChunkShape[j])
      BY <1>1, <2>2, QuotientRest
    <3> QED BY <1>3, <3>1, <3>2, <3>3
  <2> QED BY <2>2, <2>3
<1>4. ChunkOf(shape, c) \in 0..NumChunks(shape) - 1
  <2>1. Chunk(c) \in GridCoords(shape) /\ ChunkOf(shape, c) = NumberIn(shape, Chunk(c))
    BY <1>2
  <2> HIDE DEF Chunk
  <2> QED BY <2>1, Numbering
<1> QED BY <1>3, <1>4

\* Dividing keeps the order.
LEMMA DivAscends ==
    ASSUME NEW s \in Nat \ {0}, NEW x \in Nat, NEW y \in Nat, x <= y
    PROVE  x \div s \in Nat /\ y \div s \in Nat /\ x \div s <= y \div s
<1> DEFINE a == x \div s
           b == y \div s
<1>1. a \in Nat /\ (x % s) \in 0..s - 1 /\ x = a * s + (x % s)
  BY QuotientRest
<1>2. b \in Nat /\ (y % s) \in 0..s - 1 /\ y = b * s + (y % s)
  BY QuotientRest
<1> DEFINE r == (x % s)
           t == (y % s)
<1>3. r \in 0..s - 1 /\ t \in 0..s - 1 /\ x = a * s + r /\ y = b * s + t
  BY <1>1, <1>2
<1> HIDE DEF a, b, r, t
<1>4. ASSUME b < a PROVE FALSE
  <2>1. (b + 1) * s <= a * s
    BY <1>1, <1>2, <1>4
  <2>2. (b + 1) * s = b * s + s /\ a * s \in Nat /\ b * s \in Nat
    BY <1>1, <1>2
  <2> QED BY <1>3, <2>1, <2>2
<1>5. a <= b
  BY <1>1, <1>2, <1>4
<1> QED BY <1>1, <1>2, <1>5 DEF a, b

\* In a list that ascends the run has every entry of its chunk.
LEMMA RunHasAll ==
    ASSUME Sound, pc # "idle", More, NEW j \in Dims, Ascending(order[j]),
           NEW i \in 1..Len(order[j]), ChunkIndex(j, i) = ChunkIndex(j, at[j])
    PROVE  i \in Run(j)
<1>1. AtRun
  BY TurnFacts
<1>2. /\ LastOfRun(j) \in at[j]..Len(order[j]) /\ Run(j) = at[j]..LastOfRun(j)
      /\ LastOfRun(j) < Len(order[j])
            => ChunkIndex(j, LastOfRun(j) + 1) # ChunkIndex(j, at[j])
      /\ at[j] \in Nat \ {0} /\ order[j] \in Seq(Entries) /\ at[j] <= Len(order[j])
  BY <1>1, RunFacts DEF AtRun
<1>3. Len(order[j]) \in Nat /\ i \in Nat
  BY <1>2
<1>4. ASSUME NEW k \in 1..Len(order[j]), NEW l \in 1..Len(order[j]), k <= l
      PROVE  /\ ChunkIndex(j, k) \in Nat /\ ChunkIndex(j, l) \in Nat
             /\ ChunkIndex(j, k) <= ChunkIndex(j, l)
  <2>1. order[j][k] \in Entries /\ order[j][l] \in Entries
    BY <1>2
  <2>2. order[j][k].value \in Nat /\ order[j][l].value \in Nat
    BY <2>1 DEF Entries
  <2>3. order[j][k].value <= order[j][l].value
    <3>1. CASE k = l
      BY <2>2, <3>1
    <3>2. CASE k < l
      BY <2>2, <3>2 DEF Ascending
    <3> QED BY <1>3, <1>4, <3>1, <3>2
  <2>4. ChunkShape[j] \in Nat \ {0}
    BY ChunkShapeAssumption
  <2> QED BY <2>2, <2>3, <2>4, DivAscends DEF ChunkIndex
<1>5. ASSUME i < at[j] PROVE FALSE
  <2>1. at[j] - 1 \in 1..Len(order[j]) /\ at[j] \in 1..Len(order[j]) /\ i <= at[j] - 1
        /\ at[j] - 1 <= at[j] /\ at[j] > 1
    BY <1>2, <1>3, <1>5
  <2>2. ChunkIndex(j, i) <= ChunkIndex(j, at[j] - 1) /\ ChunkIndex(j, i) \in Nat
    BY <1>4, <2>1
  <2>3. /\ ChunkIndex(j, at[j] - 1) <= ChunkIndex(j, at[j])
        /\ ChunkIndex(j, at[j] - 1) \in Nat /\ ChunkIndex(j, at[j]) \in Nat
    BY <1>4, <2>1
  <2>4. ChunkIndex(j, at[j] - 1) # ChunkIndex(j, at[j])
    BY <1>2, <2>1 DEF Sound, Looping
  <2> QED BY <2>2, <2>3, <2>4
<1>6. ASSUME i > LastOfRun(j) PROVE FALSE
  <2>1. /\ LastOfRun(j) + 1 \in 1..Len(order[j]) /\ LastOfRun(j) + 1 <= i
        /\ at[j] \in 1..Len(order[j]) /\ at[j] <= LastOfRun(j) + 1 /\ LastOfRun(j) < Len(order[j])
    BY <1>2, <1>3, <1>6
  <2>2. /\ ChunkIndex(j, LastOfRun(j) + 1) <= ChunkIndex(j, i)
        /\ ChunkIndex(j, LastOfRun(j) + 1) \in Nat /\ ChunkIndex(j, i) \in Nat
    BY <1>4, <2>1
  <2>3. ChunkIndex(j, at[j]) <= ChunkIndex(j, LastOfRun(j) + 1)
    BY <1>4, <2>1
  <2>4. ChunkIndex(j, LastOfRun(j) + 1) # ChunkIndex(j, at[j])
    BY <1>2, <2>1
  <2> QED BY <2>2, <2>3, <2>4
<1> QED BY <1>2, <1>3, <1>5, <1>6

\* The entries of a turn that are the same chunk and place of it are the same index.
LEMMA SameIndex ==
    ASSUME Sound, NEW j \in Dims, NEW i \in 1..Len(order[j]), NEW m \in 1..Len(order[j]),
           ChunkIndex(j, i) = ChunkIndex(j, m)
    PROVE  InChunk(j, i) = InChunk(j, m) <=> order[j][i].value = order[j][m].value
<1>1. order[j][i] \in Entries /\ order[j][m] \in Entries
  <2>1. order[j] \in Seq(Entries)
    BY DEF Sound
  <2> QED BY <2>1
<1> DEFINE v == order[j][i].value
           w == order[j][m].value
           s == ChunkShape[j]
<1>2. v \in Nat /\ w \in Nat /\ s \in Nat \ {0}
  BY <1>1, ChunkShapeAssumption DEF Entries
<1>3. v \div s = w \div s
  BY DEF ChunkIndex
<1> HIDE DEF v, w, s
<1>4. v = (v \div s) * s + (v % s)
  BY <1>2, QuotientRest
<1>5. w = (w \div s) * s + (w % s)
  BY <1>2, QuotientRest
<1>6. (v % s) = (w % s) => v = w
  BY <1>3, <1>4, <1>5
<1> QED BY <1>6 DEF InChunk, v, w, s

\* If the lists ascend, the last combination of a turn with a place is made of the last
\* occurrences of its indexes in the caller's lists.
LEMMA LastForFacts ==
    ASSUME Sound, pc # "idle", More, \A j \in Dims : Ascending(order[j]), NEW e \in Elements
    PROVE  InBuffer(LastAt(Place(e))) = LastFor(Chosen(e))
<1> DEFINE m == LastAt(Place(e))
           list == call.list
<1>1. AtRun
  BY TurnFacts
<1>2. /\ m \in Elements /\ Place(m) = Place(e)
      /\ \A j \in Dims : \A i \in Run(j) : InChunk(j, i) = Place(e)[j] => i <= m[j]
  BY <1>1, LastAtFacts
<1> HIDE DEF m
<1>3. ASSUME NEW j \in Dims
      PROVE  order[j][m[j]].index = Max({y \in DOMAIN list[j] : list[j][y] = Chosen(e)[j]}) - 1
  <2> DEFINE v == order[j][e[j]].value
             S == {y \in DOMAIN list[j] : list[j][y] = v}
             x == order[j][m[j]].index + 1
             n == Len(order[j])
  <2>1. Chosen(e)[j] = v
    BY DEF Chosen
  <2>2. /\ e[j] \in Run(j) /\ m[j] \in Run(j)
        /\ e \in All /\ m \in All
    BY <1>1, <1>2, ElementsFacts, ElementPlace
  <2>3. e[j] \in 1..n /\ m[j] \in 1..n
    BY <2>2 DEF All
  <2>4. /\ ChunkIndex(j, e[j]) = ChunkIndex(j, at[j]) /\ ChunkIndex(j, m[j]) = ChunkIndex(j, at[j])
    BY <1>1, <2>2, RunFacts
  <2>5. Place(e)[j] = InChunk(j, e[j]) /\ Place(m)[j] = InChunk(j, m[j])
    BY DEF Place
  <2>6. order[j][m[j]].value = v
    BY <1>2, <2>3, <2>4, <2>5, SameIndex
  <2>7. Arranged(list[j], order[j]) /\ list[j] \in Seq(Nat) /\ order[j] \in Seq(Entries)
    BY DEF Sound, Looping
  <2>8. /\ Len(list[j]) \in Nat /\ DOMAIN list[j] = 1..Len(list[j])
        /\ n = Len(list[j])
    BY <2>7 DEF Arranged
  <2>9. /\ x \in DOMAIN list[j] /\ list[j][x] = v /\ order[j][m[j]].index \in Nat
    <3>1. /\ order[j][m[j]].index \in 0..Len(list[j]) - 1
          /\ order[j][m[j]].value = list[j][order[j][m[j]].index + 1]
      BY <2>3, <2>7 DEF Arranged
    <3> QED BY <2>6, <2>8, <3>1
  <2>10. ASSUME NEW y \in S PROVE y <= x
    <3>1. y - 1 \in 0..Len(list[j]) - 1 /\ list[j][y] = v /\ (y - 1) + 1 = y
      BY <2>8, <2>10
    <3>2. PICK i \in 1..n : order[j][i].index = y - 1
      BY <2>7, <3>1 DEF Arranged
    <3>3. order[j][i].value = v
      <4>1. order[j][i].value = list[j][order[j][i].index + 1]
        BY <2>7, <3>2 DEF Arranged
      <4> QED BY <3>1, <3>2, <4>1
    <3>4. ChunkIndex(j, i) = ChunkIndex(j, e[j])
      BY <3>3 DEF ChunkIndex
    <3>5. i \in Run(j)
      BY <2>4, <3>4, RunHasAll
    <3>6. InChunk(j, i) = InChunk(j, e[j])
      BY <2>3, <3>3, <3>4, SameIndex
    <3>7. i <= m[j]
      BY <1>2, <2>5, <3>5, <3>6
    <3>8. CASE i = m[j]
      <4>1. y - 1 = order[j][m[j]].index
        BY <3>2, <3>8
      <4> QED BY <2>9, <3>1, <4>1
    <3>9. CASE i < m[j]
      <4>1. \/ order[j][i].value < order[j][m[j]].value
            \/ order[j][i].index < order[j][m[j]].index
        BY <2>3, <3>9 DEF Ascending
      <4>2. order[j][i] \in Entries
        BY <2>7
      <4>3. v \in Nat
        BY <3>3, <4>2 DEF Entries
      <4>4. y - 1 < order[j][m[j]].index
        BY <2>6, <3>2, <3>3, <4>1, <4>3
      <4> QED BY <2>9, <3>1, <4>4
    <3> QED BY <2>3, <3>7, <3>8, <3>9
  <2>11. Max(S) = x
    <3>1. x \in S /\ x \in Int
      BY <2>8, <2>9
    <3>2. \A y \in S : y \in Int /\ y <= x
      BY <2>8, <2>10
    <3> HIDE DEF S, x
    <3>3. Max(S) \in S /\ \A y \in S : y <= Max(S)
      BY <3>1, <3>2, MaxFacts
    <3>4. Max(S) \in Int /\ Max(S) <= x /\ x <= Max(S)
      BY <3>1, <3>2, <3>3
    <3> DEFINE g == Max(S)
    <3>5. g \in Int /\ g <= x /\ x <= g
      BY <3>4
    <3> HIDE DEF g
    <3>6. g = x
      BY <3>1, <3>5
    <3> QED BY <3>6 DEF g
  <2>12. Max({y \in DOMAIN list[j] : list[j][y] = Chosen(e)[j]}) = x
    BY <2>1, <2>11
  <2> QED BY <2>9, <2>12
<1>4. InBuffer(m) = LastFor(Chosen(e))
  BY <1>3 DEF InBuffer, LastFor
<1> QED BY <1>4 DEF m

\* What the loop of a set has done, if the comparison can tell the values of each list
\* apart: the items of the combinations it has passed are the last that the buffer has
\* for them.
Tellable == \A j \in Dims : Comparable(call.list[j])
SetPass ==
    Tellable => \A e \in All : Passed(e) => Items[Chosen(e)] = buf[LastFor(Chosen(e))]

\* With it, what a set that has ended is to have done.
SetKept == (pc = "setting" => SetPass) /\ LastWins

\* What a turn does to an item that a combination names.
LEMMA CopiedInFacts ==
    ASSUME Sound, pc = "setting", SetRun, 1 \notin Beyond,
           \A j \in Dims : Ascending(order[j]), NEW e \in All
    PROVE  \/ Items'[Chosen(e)] = buf[LastFor(Chosen(e))]
           \/ e \notin Elements /\ Items'[Chosen(e)] = Items[Chosen(e)]
<1> DEFINE c == Chosen(e)
           p == [j \in Dims |-> c[j] % ChunkShape[j]]
<1>1. /\ More /\ HasChunk(Here) /\ sc' = [sc EXCEPT ![Here + 1] = CopiedIn]
      /\ UNCHANGED <<shape, pc, call, order, buf, ret, left>>
  BY DEF SetRun
<1>2. AtRun
  BY <1>1, TurnFacts
<1>3. c \in Box(Origin, shape) /\ c \in [Dims -> Nat]
  BY CombinationFacts
<1>4. shape \in [Dims -> Nat] /\ sc \in Seq(ChunkData) /\ Len(sc) = NumChunks(shape)
  BY ShapesAssumption DEF Sound
<1>5. Here + 1 \in 1..Len(sc) /\ Here \in Nat
  BY <1>1, CopiedInType
<1>6. ChunkOf(shape, c) \in 0..NumChunks(shape) - 1
  BY <1>3, <1>4, ItemChunk
<1>7. p \in ChunkBox
  <2>1. \A j \in Dims : (c[j] % ChunkShape[j]) \in Nat /\ (c[j] % ChunkShape[j]) < ChunkShape[j]
    <3> SUFFICES ASSUME NEW j \in Dims
                 PROVE  (c[j] % ChunkShape[j]) \in Nat /\ (c[j] % ChunkShape[j]) < ChunkShape[j]
      OBVIOUS
    <3>1. c[j] \in Nat /\ ChunkShape[j] \in Nat \ {0}
      BY <1>3, ChunkShapeAssumption
    <3>2. \A x \in Nat : \A s \in Nat \ {0} : (x % s) \in Nat /\ (x % s) < s
      OBVIOUS
    <3> HIDE DEF c
    <3> QED BY <3>1, <3>2
  <2>2. p \in [Dims -> Nat] /\ \A j \in Dims : p[j] < ChunkShape[j]
    BY <2>1
  <2> HIDE DEF p
  <2> QED BY <2>2, ChunkPlaces
<1>8. Items[c] = sc[ChunkOf(shape, c) + 1][p] /\ Items'[c] = sc'[ChunkOf(shape, c) + 1][p]
  BY <1>1, <1>3 DEF Items, ItemsIn, ItemIn, ItemHeld, ChunkOf
<1>9. CASE ChunkOf(shape, c) # Here
  <2>1. ChunkOf(shape, c) + 1 \in 1..Len(sc) /\ ChunkOf(shape, c) + 1 # Here + 1
    BY <1>4, <1>5, <1>6, <1>9
  <2>2. sc'[ChunkOf(shape, c) + 1] = sc[ChunkOf(shape, c) + 1]
    BY <1>1, <1>4, <2>1
  <2>3. e \notin Elements
    BY <1>2, <1>9, ElementPlace
  <2> QED BY <1>8, <2>2, <2>3
<1>10. CASE ChunkOf(shape, c) = Here
  <2>1. sc'[Here + 1] = CopiedIn
    BY <1>1, <1>4, <1>5
  <2>2. CASE \E f \in Elements : Place(f) = p
    <3>1. PICK f \in Elements : Place(f) = p
      BY <2>2
    <3>2. /\ f \in All /\ ChunkOf(shape, Chosen(f)) = Here
          /\ Place(f) = [j \in Dims |-> Chosen(f)[j] % ChunkShape[j]]
      BY <1>2, ElementPlace
    <3>3. Chosen(f) = c
      <4>1. Chosen(f) \in Box(Origin, shape)
        BY <3>2, CombinationFacts
      <4>2. \A j \in Dims : (Chosen(f)[j] % ChunkShape[j]) = (c[j] % ChunkShape[j])
        <5> SUFFICES ASSUME NEW j \in Dims
                     PROVE  (Chosen(f)[j] % ChunkShape[j]) = (c[j] % ChunkShape[j])
          OBVIOUS
        <5>1. Place(f)[j] = p[j]
          BY <3>1
        <5>2. Place(f)[j] = (Chosen(f)[j] % ChunkShape[j])
          BY <3>2
        <5>3. p[j] = (c[j] % ChunkShape[j])
          OBVIOUS
        <5> QED BY <5>1, <5>2, <5>3
      <4> HIDE DEF c
      <4> QED BY <1>3, <1>4, <1>10, <3>2, <4>1, <4>2, ItemChunk
    <3>4. InBuffer(LastAt(p)) = LastFor(c)
      BY <1>1, <3>1, <3>3, LastForFacts
    <3>5. CopiedIn[p] = buf[InBuffer(LastAt(p))]
      BY <1>7, <2>2 DEF CopiedIn, LastAt
    <3> QED BY <1>8, <1>10, <2>1, <3>4, <3>5
  <2>3. CASE ~ \E f \in Elements : Place(f) = p
    <3>1. CopiedIn[p] = sc[Here + 1][p]
      BY <1>7, <2>3 DEF CopiedIn
    <3>2. e \notin Elements
      <4> SUFFICES ASSUME e \in Elements PROVE FALSE
        OBVIOUS
      <4>1. Place(e) = p
        BY <1>2, ElementPlace
      <4> QED BY <2>3, <4>1
    <3> QED BY <1>8, <1>10, <2>1, <3>1, <3>2
  <2> QED BY <2>2, <2>3
<1> QED BY <1>9, <1>10

\* A turn of a set.
LEMMA SetTurn ==
    ASSUME Sound, pc = "setting", SetPass, SetRun, 1 \notin Beyond, MaxIndexes <= HalfInt
    PROVE  SetPass'
<1>1. /\ More /\ HasChunk(Here) /\ at' = Advance
      /\ UNCHANGED <<shape, pc, call, order, buf, ret, left>>
  BY DEF SetRun
<1>2. AtRun
  BY <1>1, TurnFacts
<1>3. \A e : /\ Chosen(e)' = Chosen(e) /\ (e \in All' <=> e \in All)
             /\ LastFor(Chosen(e))' = LastFor(Chosen(e))
  BY <1>1 DEF Chosen, All, LastFor
<1>4. Tellable' <=> Tellable
  BY <1>1 DEF Tellable
<1>5. ASSUME Tellable, NEW e \in All, Passed(e)'
      PROVE  Items'[Chosen(e)] = buf[LastFor(Chosen(e))]
  <2>1. \A j \in Dims : Ascending(order[j])
    BY <1>5 DEF Sound, Looping, Tellable
  <2>2. CASE e \notin Elements /\ Items'[Chosen(e)] = Items[Chosen(e)]
    <3>1. Passed(e)
      BY <1>1, <1>2, <1>5, <2>2, PassedNext
    <3> QED BY <1>5, <2>2, <3>1 DEF SetPass
  <2> QED BY <2>1, <2>2, CopiedInFacts
<1>6. Tellable' => \A e \in All' : Passed(e)' => Items'[Chosen(e)'] = buf'[LastFor(Chosen(e))']
  BY <1>1, <1>3, <1>4, <1>5
<1> QED BY <1>6 DEF SetPass

\* The end of a set: every item that the lists ask for is the last that the buffer has.
LEMMA SetEnd ==
    ASSUME Sound, pc = "setting", SetPass, Tellable, ~More, NEW c \in Selected
    PROVE  Items[c] = buf[LastFor(c)]
<1>1. PICK q \in Box(Origin, Sizes(call.list)) : c = Selects(q)
  BY DEF Selected
<1>2. PICK e \in All : InBuffer(e) = q
  BY EveryPlace
<1>3. Passed(e) /\ Chosen(e) = c
  BY <1>1, <1>2, AllPassed, CombinationFacts
<1> QED BY <1>3 DEF SetPass

\* A call begins: nothing is passed yet.
LEMMA SetBegins ==
    ASSUME Sound, SetSelection
    PROVE  SetKept'
<1>1. PICK list \in Selections, pad \in 0..MaxPad :
          Enter("set", list, [j \in Dims |-> Len(list[j]) + pad])
  BY DEF SetSelection
<1>2. at' = ListOf(1) /\ pc = "idle"
  BY <1>1 DEF Enter, SetSelection, Called
<1>3. (pc' = "idle" /\ ret' \in {"INVALID_INDEX", "INVALID_ARGUMENT"}) \/ pc' = "setting"
  BY <1>1, <1>2 DEF Enter
<1>4. ~Succeeded("set")'
  BY <1>3 DEF Succeeded
<1>5. (\A e \in All : ~Passed(e))'
  <2>1. (at = ListOf(1) => \A e \in All : ~Passed(e))'
    BY NothingPassed, PTL
  <2>2. (at = ListOf(1))'
    BY <1>2
  <2> QED BY <2>1, <2>2
<1> QED BY <1>4, <1>5 DEF SetKept, SetPass, LastWins

\* Every step keeps it.
LEMMA SetStep ==
    ASSUME Sound, SetKept, [Next]_vars, 1 \notin Beyond, MaxIndexes <= HalfInt
    PROVE  SetKept'
<1>1. CASE GetSelection
  <2>1. PICK list \in Selections, pad \in 0..MaxPad :
            Enter("get", list, [j \in Dims |-> Len(list[j]) + pad])
    BY <1>1 DEF GetSelection
  <2>2. call'.op = "get" /\ pc' # "setting"
    BY <1>1, <2>1 DEF Enter, GetSelection, Called
  <2> QED BY <2>2 DEF SetKept, LastWins, Succeeded
<1>2. CASE SetSelection
  BY <1>2, SetBegins
<1>3. CASE GetRun
  <2>1. pc' = "getting"
    BY <1>3 DEF GetRun
  <2> QED BY <2>1 DEF SetKept, LastWins, Succeeded
<1>4. CASE SetRun
  <2>1. pc = "setting" /\ pc' = "setting"
    BY <1>4 DEF SetRun
  <2>2. SetPass'
    BY <1>4, <2>1, SetTurn DEF SetKept
  <2> QED BY <2>1, <2>2 DEF SetKept, LastWins, Succeeded
<1>5. CASE SelectionEnd
  <2>1. pc # "idle" /\ ~More /\ pc' = "idle" /\ UNCHANGED <<shape, sc, call, buf>>
    BY <1>5 DEF SelectionEnd, Leave
  <2>2. CASE pc = "setting"
    <3>1. SetPass
      BY <2>2 DEF SetKept
    <3>2. Tellable => \A c \in Selected : Items[c] = buf[LastFor(c)]
      BY <2>1, <2>2, <3>1, SetEnd
    <3>3. /\ Items' = Items /\ Selected' = Selected /\ Tellable' = Tellable
          /\ \A c : LastFor(c)' = LastFor(c)
      BY <2>1 DEF Items, Selected, Selects, LastFor, Tellable
    <3>4. LastWins'
      BY <2>1, <3>2, <3>3 DEF LastWins, Tellable
    <3> QED BY <2>1, <3>4 DEF SetKept
  <2>3. CASE pc # "setting"
    <3>1. call.op = "get"
      BY <2>1, <2>3 DEF Sound
    <3> QED BY <2>1, <3>1 DEF SetKept, LastWins, Succeeded
  <2> QED BY <2>2, <2>3
<1>6. CASE RunFails
  <2>1. pc' = "idle" /\ ret' = "BLOSC_FAILED"
    BY <1>6 DEF RunFails, Leave
  <2> QED BY <2>1 DEF SetKept, LastWins, Succeeded
<1>7. CASE UNCHANGED vars
  <2>1. UNCHANGED <<shape, sc, pc, call, order, at, buf, ret, left>>
    BY <1>7 DEF vars
  <2>2. /\ Items' = Items /\ Selected' = Selected /\ Tellable' = Tellable /\ All' = All
        /\ \A c : LastFor(c)' = LastFor(c)
        /\ \A e : Passed(e)' = Passed(e) /\ Chosen(e)' = Chosen(e)
    <3>1. \A c : LastFor(c)' = LastFor(c)
      BY <2>1 DEF LastFor
    <3>2. /\ Items' = Items /\ Selected' = Selected /\ Tellable' = Tellable /\ All' = All
          /\ \A e : Chosen(e)' = Chosen(e)
      BY <2>1 DEF Items, Selected, Selects, Tellable, All, Chosen
    <3>3. \A e : Passed(e)' = Passed(e)
      BY <2>1 DEF Passed, Run, ChunkIndex
    <3> QED BY <3>1, <3>2, <3>3
  <2>3. SetPass => SetPass'
    <3>1. \A e : LastFor(Chosen(e))' = LastFor(Chosen(e))
      BY <2>1 DEF LastFor, Chosen
    <3> QED BY <2>1, <2>2, <3>1 DEF SetPass
  <2>4. LastWins => LastWins'
    BY <2>1, <2>2 DEF LastWins, Succeeded, Tellable
  <2> QED BY <2>1, <2>3, <2>4 DEF SetKept
<1> QED BY <1>1, <1>2, <1>3, <1>4, <1>5, <1>6, <1>7 DEF Next

\* When an index is repeated in a set, its last occurrence counts, for all lists whose values
\* the comparison can tell apart, if an int holds the differences of places in a list and no
\* caller passes an index equal to the extent.
THEOREM LastOccurrenceWins ==
    ASSUME 1 \notin Beyond, MaxIndexes <= HalfInt
    PROVE  Spec => []LastWins
<1>1. Init => SetKept
  BY DEF Init, SetKept, LastWins, Succeeded
<1>2. Sound /\ SetKept /\ [Next]_vars => SetKept'
  BY SetStep
<1>3. SetKept => LastWins
  BY DEF SetKept
<1> QED BY <1>1, <1>2, <1>3, AlwaysSound, PTL DEF Spec

\* A turn of a set changes no place of a chunk but those of the items that were selected.
LEMMA TurnTouches ==
    ASSUME Sound, SetRun, 1 \notin Beyond, NEW k \in 1..Len(sc), NEW p \in ChunkBox,
           sc'[k][p] # sc[k][p]
    PROVE  \E q \in Box(Origin, Sizes(call.list)) :
              /\ Selects(q) \in Box(Origin, shape)
              /\ ChunkOf(shape, Selects(q)) = k - 1
              /\ p = [j \in Dims |-> Selects(q)[j] % ChunkShape[j]]
              /\ sc'[k][p] = buf[q]
<1>1. /\ pc = "setting" /\ More /\ HasChunk(Here) /\ sc' = [sc EXCEPT ![Here + 1] = CopiedIn]
  BY DEF SetRun
<1>2. AtRun /\ sc \in Seq(ChunkData)
  BY <1>1, TurnFacts DEF Sound
<1>3. Here + 1 \in 1..Len(sc) /\ Here \in Nat
  BY <1>1, CopiedInType
<1>4. k = Here + 1 /\ sc'[k] = CopiedIn
  BY <1>1, <1>2, <1>3
<1>5. PICK e \in Elements : Place(e) = p
  <2> SUFFICES ASSUME ~ \E e \in Elements : Place(e) = p PROVE FALSE
    OBVIOUS
  <2>1. CopiedIn[p] = sc[Here + 1][p]
    BY DEF CopiedIn
  <2> QED BY <1>4, <2>1
<1> DEFINE m == LastAt(p)
           q == InBuffer(m)
<1>6. CopiedIn[p] = buf[q]
  BY <1>5 DEF CopiedIn, LastAt
<1>7. m \in Elements /\ Place(m) = p
  BY <1>2, <1>5, LastAtFacts
<1> HIDE DEF m
<1>8. /\ m \in All /\ ChunkOf(shape, Chosen(m)) = Here
      /\ p = [j \in Dims |-> Chosen(m)[j] % ChunkShape[j]]
  BY <1>2, <1>7, ElementPlace
<1>9. /\ q \in Box(Origin, Sizes(call.list)) /\ Selects(q) = Chosen(m)
      /\ Chosen(m) \in Box(Origin, shape)
  BY <1>1, <1>8, CombinationFacts
<1> HIDE DEF q
<1>10. ChunkOf(shape, Selects(q)) = k - 1
  BY <1>3, <1>4, <1>8, <1>9
<1>11. p = [j \in Dims |-> Selects(q)[j] % ChunkShape[j]]
  BY <1>8, <1>9
<1> QED BY <1>4, <1>6, <1>9, <1>10, <1>11

\* Nothing but the items that were selected is ever changed, padding included, and those
\* only to values that the caller's buffer has for them, whatever the order of the lists, if
\* no caller passes an index equal to the extent.
THEOREM OnlySelectedTouched ==
    ASSUME 1 \notin Beyond
    PROVE  Spec => TouchesOnlySelected
<1>1. ASSUME Sound, [Next]_vars, NEW k \in 1..Len(sc), NEW p \in ChunkBox,
             sc'[k][p] # sc[k][p]
      PROVE  SetRun
  BY <1>1 DEF Next, vars, GetSelection, SetSelection, GetRun, SelectionEnd, RunFails, Leave
<1>2. Sound /\ [Next]_vars =>
         \A k \in 1..Len(sc) : \A p \in ChunkBox :
            sc'[k][p] # sc[k][p] =>
                \E q \in Box(Origin, Sizes(call.list)) :
                    /\ Selects(q) \in Box(Origin, shape)
                    /\ ChunkOf(shape, Selects(q)) = k - 1
                    /\ p = [j \in Dims |-> Selects(q)[j] % ChunkShape[j]]
                    /\ sc'[k][p] = buf[q]
  BY <1>1, TurnTouches
<1>3. Sound /\ [Next]_vars =>
        [\A k \in 1..Len(sc) : \A p \in ChunkBox :
            sc'[k][p] # sc[k][p] =>
                \E q \in Box(Origin, Sizes(call.list)) :
                    /\ Selects(q) \in Box(Origin, shape)
                    /\ ChunkOf(shape, Selects(q)) = k - 1
                    /\ p = [j \in Dims |-> Selects(q)[j] % ChunkShape[j]]
                    /\ sc'[k][p] = buf[q]]_vars
  BY <1>2
<1> QED BY <1>3, AlwaysSound, PTL DEF Spec, TouchesOnlySelected
=============================================================================
