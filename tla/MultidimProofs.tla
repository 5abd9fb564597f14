--------------------------- MODULE MultidimProofs ---------------------------
(***************************************************************************)
(* Lemmas about the row-major numbering of module Multidim: the numbers of *)
(* a box and its coordinates are each other's inverse, and the numbers     *)
(* follow the lexicographic order of the coordinates.                      *)
(***************************************************************************)
EXTENDS Partition, WellFoundedInduction, TLAPS

-----------------------------------------------------------------------------
(* Induction and recursion, without operators as parameters. *)

\* Every non-empty set of naturals has a least element: what stands in for
\* induction in the proofs below.
LEMMA LeastElement ==
    ASSUME NEW S \in SUBSET Nat, S # {}
    PROVE  \E n \in S : \A m \in S : n <= m
<1>1. IsWellFoundedOn(OpToRel(<, Nat), Nat)
  BY NatLessThanWellFounded
<1>2. PICK n \in S : \A m \in S : ~ (<<m, n>> \in OpToRel(<, Nat))
  BY <1>1, WFMin, Zenon
<1>3. \A m \in S : ~ (m < n)
  BY <1>2 DEF OpToRel
<1> QED BY <1>3

\* A set of numbers that none exceeds has a greatest element.
LEMMA GreatestElement ==
    ASSUME NEW n \in Int, NEW S, S # {}, \A i \in S : i \in Int /\ i <= n
    PROVE  \E g \in S : \A i \in S : i <= g
<1> DEFINE R == {m \in Nat : n - m \in S}
<1>1. R \in SUBSET Nat /\ R # {}
  <2>1. PICK i \in S : TRUE
    OBVIOUS
  <2>2. n - i \in Nat /\ n - (n - i) = i
    BY <2>1
  <2> QED BY <2>1, <2>2
<1>2. PICK m \in R : \A k \in R : m <= k
  <2> HIDE DEF R
  <2> QED BY <1>1, LeastElement
<1> DEFINE g == n - m
<1>3. g \in S /\ m \in Nat
  BY <1>2
<1>4. ASSUME NEW i \in S PROVE i <= g
  <2>1. i \in Int /\ n - i \in Nat /\ n - (n - i) = i
    OBVIOUS
  <2>2. m <= n - i
    BY <1>2, <2>1
  <2> QED BY <1>3, <2>1, <2>2
<1> HIDE DEF g
<1> QED BY <1>3, <1>4

\* A set that contains 0, and with every number below n the next one, contains
\* all numbers up to n.
LEMMA CountingUp ==
    ASSUME NEW n \in Nat, NEW S,
           0 \in S,
           \A i \in 0..n - 1 : i \in S => i + 1 \in S
    PROVE  \A i \in 0..n : i \in S
<1> DEFINE Missing == {i \in 0..n : i \notin S}
<1>1. ASSUME NEW i \in Missing, \A m \in Missing : i <= m
      PROVE  FALSE
  <2>1. i \in 0..n /\ i # 0
    OBVIOUS
  <2>2. i - 1 \in 0..n - 1 /\ i - 1 \notin Missing
    <3>1. i - 1 \in 0..n - 1
      BY <2>1
    <3> HIDE DEF Missing
    <3> QED BY <3>1, <1>1, <2>1
  <2>3. (i - 1) + 1 = i
    BY <2>1
  <2> QED BY <2>2, <2>3
<1>2. Missing = {}
  <2>1. Missing \in SUBSET Nat
    OBVIOUS
  <2> HIDE DEF Missing
  <2> QED BY <1>1, <2>1, LeastElement
<1> QED BY <1>2

\* A set that contains n, and with every number from 1 to n the one before it,
\* contains all numbers down to 0.
LEMMA CountingDown ==
    ASSUME NEW n \in Nat, NEW S,
           n \in S,
           \A i \in 1..n : i \in S => i - 1 \in S
    PROVE  \A i \in 0..n : i \in S
<1> DEFINE R == {i \in 0..n : n - i \in S}
<1>1. 0 \in R
  OBVIOUS
<1>2. ASSUME NEW i \in 0..n - 1, i \in R
      PROVE  i + 1 \in R
  <2>1. n - i \in 1..n /\ n - i \in S
    BY <1>2
  <2>2. (n - i) - 1 = n - (i + 1) /\ i + 1 \in 0..n
    OBVIOUS
  <2> QED BY <2>1, <2>2
<1> HIDE DEF R
<1>3. \A i \in 0..n : i \in R
  BY <1>1, <1>2, CountingUp
<1>4. ASSUME NEW i \in 0..n
      PROVE  i \in S
  <2>1. n - i \in 0..n /\ n - (n - i) = i
    OBVIOUS
  <2> QED BY <2>1, <1>3 DEF R
<1> QED BY <1>4

\* f is the function on 0..n that is first at 0 and whose value at j follows, by
\* step, from the one before it.
Recurs(f, n, T, first, step) ==
    /\ f \in [0..n -> T]
    /\ f[0] = first
    /\ \A j \in 1..n : f[j] = step[<<j, f[j-1]>>]

\* There is such a function.
LEMMA RecursionExists ==
    ASSUME NEW n \in Nat, NEW T, NEW first \in T, NEW step \in [(1..n) \X T -> T]
    PROVE  \E f : Recurs(f, n, T, first, step)
<1> DEFINE Follows(f, m) == Recurs(f, m, T, first, step)
           S == {m \in 0..n : \E f : Follows(f, m)}
<1>1. 0 \in S
  <2> DEFINE f == [j \in 0..0 |-> first]
  <2>1. Follows(f, 0)
    BY DEF Recurs
  <2>2. 0 \in 0..n
    OBVIOUS
  <2> HIDE DEF f, Follows
  <2> QED BY <2>1, <2>2
<1>2. ASSUME NEW m \in 0..n - 1, m \in S
      PROVE  m + 1 \in S
  <2>1. PICK f : Follows(f, m)
    BY <1>2
  <2>0. /\ f \in [0..m -> T]
        /\ f[0] = first
        /\ \A j \in 1..m : f[j] = step[<<j, f[j-1]>>]
    BY <2>1 DEF Recurs
  <2> DEFINE g == [j \in 0..m + 1 |-> IF j = m + 1 THEN step[<<m + 1, f[m]>>] ELSE f[j]]
  <2>2. step[<<m + 1, f[m]>>] \in T
    <3>1. <<m + 1, f[m]>> \in (1..n) \X T
      BY <2>0
    <3> QED BY <3>1
  <2>3. g \in [0..m + 1 -> T]
    BY <2>0, <2>2
  <2>4. ASSUME NEW j \in 1..m + 1
        PROVE  g[j] = step[<<j, g[j-1]>>]
    <3>1. j - 1 \in 0..m /\ g[j-1] = f[j-1]
      BY <2>4
    <3>2. CASE j = m + 1
      <4>1. j - 1 = m /\ g[j] = step[<<m + 1, f[m]>>]
        BY <3>2
      <4> HIDE DEF g
      <4> QED BY <3>1, <3>2, <4>1
    <3>3. CASE j # m + 1
      <4>1. j \in 1..m
        BY <3>3
      <4>2. g[j] = f[j]
        BY <3>3
      <4> QED BY <4>1, <4>2, <3>1, <2>0
    <3> QED BY <3>2, <3>3
  <2>5. g[0] = first
    BY <2>0
  <2>6. m + 1 \in 0..n
    OBVIOUS
  <2>7. Follows(g, m + 1)
    <3> HIDE DEF g
    <3> QED BY <2>3, <2>4, <2>5 DEF Recurs
  <2> HIDE DEF g, Follows
  <2> QED BY <2>6, <2>7
<1>3. n \in S
  <2> HIDE DEF S
  <2>1. n \in 0..n
    OBVIOUS
  <2> QED BY <2>1, <1>1, <1>2, CountingUp
<1> QED BY <1>3

-----------------------------------------------------------------------------
(* What the recursive functions of Multidim compute, step by step. *)

\* The partial products behind Product.
LEMMA ProductEquations ==
    ASSUME NEW T, T = Nat \/ T = Nat \ {0},
           NEW dims \in [Dims -> T]
    PROVE  \E p \in [0..NDim -> T] :
              /\ p[0] = 1
              /\ \A j \in Dims : p[j] = p[j-1] * dims[j]
              /\ Product(dims) = p[NDim]
<1> USE NDimAssumption
<1> DEFINE Fix(p) == p = [j \in 0..NDim |-> IF j = 0 THEN 1 ELSE p[j-1] * dims[j]]
           p == CHOOSE q : Fix(q)
           step == [x \in (1..NDim) \X T |-> x[2] * dims[x[1]]]
<1>1. \A j \in 1..NDim, v \in T : step[<<j, v>>] = v * dims[j]
  BY DEF Dims
<1>2. step \in [(1..NDim) \X T -> T]
  <2>1. \A j \in 1..NDim, v \in T : v * dims[j] \in T
    BY DEF Dims
  <2> QED BY <2>1
<1>3. 1 \in T /\ NDim \in Nat
  OBVIOUS
<1> HIDE DEF step
<1>4. PICK f \in [0..NDim -> T] :
          f[0] = 1 /\ \A j \in 1..NDim : f[j] = step[<<j, f[j-1]>>]
  <2>1. \E f : Recurs(f, NDim, T, 1, step)
    BY <1>2, <1>3, RecursionExists
  <2> QED BY <2>1 DEF Recurs
<1>5. \A j \in 1..NDim : f[j] = f[j-1] * dims[j]
  <2> TAKE j \in 1..NDim
  <2>1. j - 1 \in 0..NDim
    OBVIOUS
  <2> QED BY <2>1, <1>1, <1>4
<1>6. Fix(f)
  <2>1. \A j \in 0..NDim : f[j] = IF j = 0 THEN 1 ELSE f[j-1] * dims[j]
    <3> TAKE j \in 0..NDim
    <3>1. j = 0 \/ j \in 1..NDim
      OBVIOUS
    <3> QED BY <3>1, <1>4, <1>5
  <2>2. f = [j \in 0..NDim |-> f[j]]
    OBVIOUS
  <2> QED BY <2>1, <2>2
<1>7. Fix(p)
  BY <1>6
<1>8. Product(dims) = p[NDim]
  BY DEF Product
<1> HIDE DEF p
<1>9. p[0] = 1 /\ \A j \in 1..NDim : p[j] = p[j-1] * dims[j]
  <2>1. \A j \in 0..NDim : p[j] = IF j = 0 THEN 1 ELSE p[j-1] * dims[j]
    BY <1>7
  <2> QED BY <2>1
<1>10. \A j \in 0..NDim : p[j] = f[j]
  <2> DEFINE S == {j \in 0..NDim : p[j] = f[j]}
  <2>1. 0 \in S
    <3>1. 0 \in 0..NDim
      OBVIOUS
    <3> QED BY <3>1, <1>4, <1>9
  <2>2. ASSUME NEW i \in 0..NDim - 1, i \in S
        PROVE  i + 1 \in S
    <3>1. i + 1 \in 1..NDim /\ (i + 1) - 1 = i
      OBVIOUS
    <3>2. p[i+1] = p[i] * dims[i+1] /\ f[i+1] = f[i] * dims[i+1]
      BY <3>1, <1>5, <1>9
    <3> QED BY <2>2, <3>1, <3>2
  <2> HIDE DEF S
  <2>3. \A j \in 0..NDim : j \in S
    BY <2>1, <2>2, CountingUp
  <2> QED BY <2>3 DEF S
<1>11. Product(dims) = f[NDim]
  BY <1>8, <1>10
<1> QED BY <1>4, <1>5, <1>11 DEF Dims

\* The strides: 1 in the last dimension, and in each other one the next stride
\* times the next extent.
LEMMA StridesEquations ==
    ASSUME NEW T, T = Nat \/ T = Nat \ {0},
           NEW dims \in [Dims -> T]
    PROVE  /\ Strides(dims) \in [Dims -> T]
           /\ Strides(dims)[NDim] = 1
           /\ \A j \in 1..NDim - 1 :
                 Strides(dims)[j] = Strides(dims)[j+1] * dims[j+1]
<1> USE NDimAssumption
<1> DEFINE Fix(s) == s = [j \in Dims |-> IF j = NDim THEN 1 ELSE s[j+1] * dims[j+1]]
           s == CHOOSE q : Fix(q)
           n == NDim - 1
           step == [x \in (1..n) \X T |-> x[2] * dims[NDim - x[1] + 1]]
<1>1. \A j \in 1..n, v \in T :
          step[<<j, v>>] = v * dims[NDim - j + 1] /\ v * dims[NDim - j + 1] \in T
  <2> TAKE j \in 1..n, v \in T
  <2>1. dims[NDim - j + 1] \in T
    <3>1. NDim - j + 1 \in Dims
      BY DEF Dims
    <3> QED BY <3>1
  <2>2. v * dims[NDim - j + 1] \in T
    BY <2>1
  <2> QED BY <2>2
<1>2. step \in [(1..n) \X T -> T]
  <2>1. \A x \in (1..n) \X T : x[2] * dims[NDim - x[1] + 1] \in T
    BY <1>1
  <2> QED BY <2>1
<1>3. 1 \in T /\ n \in Nat /\ NDim \in Nat
  OBVIOUS
<1> HIDE DEF step
<1>4. PICK f \in [0..n -> T] : f[0] = 1 /\ \A j \in 1..n : f[j] = step[<<j, f[j-1]>>]
  <2>1. \E f : Recurs(f, n, T, 1, step)
    <3> HIDE DEF n
    <3> QED BY <1>2, <1>3, RecursionExists
  <2> QED BY <2>1 DEF Recurs
<1> DEFINE g == [j \in Dims |-> f[NDim - j]]
<1>5. /\ g \in [Dims -> T]
      /\ g[NDim] = 1
      /\ \A j \in 1..n : g[j] = g[j+1] * dims[j+1]
  <2>1. g \in [Dims -> T] /\ g[NDim] = 1
    <3>1. \A j \in Dims : NDim - j \in 0..n
      BY DEF Dims
    <3>2. NDim \in Dims /\ NDim - NDim = 0
      BY DEF Dims
    <3> HIDE DEF n
    <3> QED BY <1>4, <3>1, <3>2
  <2>2. ASSUME NEW j \in 1..n
        PROVE  g[j] = g[j+1] * dims[j+1]
    <3>1. NDim - j \in 1..n /\ (NDim - j) - 1 \in 0..n
      OBVIOUS
    <3>2. /\ NDim - (NDim - j) + 1 = j + 1
          /\ (NDim - j) - 1 = NDim - (j + 1)
      OBVIOUS
    <3>3. f[(NDim - j) - 1] \in T
      BY <3>1
    <3>4. f[NDim - j] = f[(NDim - j) - 1] * dims[NDim - (NDim - j) + 1]
      BY <3>1, <3>3, <1>1, <1>4
    <3>5. g[j] = f[NDim - j] /\ g[j+1] = f[NDim - (j + 1)]
      BY DEF Dims
    <3> HIDE DEF g
    <3> QED BY <3>2, <3>4, <3>5
  <2> QED BY <2>1, <2>2
<1> HIDE DEF g
<1>6. Fix(g)
  <2>1. ASSUME NEW j \in Dims
        PROVE  g[j] = IF j = NDim THEN 1 ELSE g[j+1] * dims[j+1]
    <3>1. j = NDim \/ j \in 1..n
      BY DEF Dims
    <3> QED BY <3>1, <1>5
  <2>2. g = [j \in Dims |-> g[j]]
    BY <1>5
  <2> QED BY <2>1, <2>2
<1>7. Fix(s)
  BY <1>6
<1>8. Strides(dims) = s
  BY DEF Strides
<1> HIDE DEF s
<1>9. s[NDim] = 1 /\ \A j \in 1..n : s[j] = s[j+1] * dims[j+1]
  <2>1. \A j \in Dims : s[j] = IF j = NDim THEN 1 ELSE s[j+1] * dims[j+1]
    BY <1>7
  <2> QED BY <2>1 DEF Dims
<1>10. s \in [Dims -> T]
  <2> DEFINE S == {0} \cup {j \in Dims : s[j] \in T}
  <2>1. NDim \in S
    <3>1. NDim \in Dims
      BY DEF Dims
    <3> QED BY <3>1, <1>3, <1>9
  <2>2. ASSUME NEW i \in 1..NDim, i \in S
        PROVE  i - 1 \in S
    <3>1. CASE i = 1
      BY <3>1
    <3>2. CASE i # 1
      <4>1. i - 1 \in 1..n /\ (i - 1) + 1 = i
        BY <3>2
      <4>2. s[i-1] = s[i] * dims[i]
        BY <4>1, <1>9
      <4>3. s[i] \in T /\ dims[i] \in T
        BY <2>2 DEF Dims
      <4>4. s[i] * dims[i] \in T
        BY <4>3
      <4>5. i - 1 \in Dims
        BY <4>1 DEF Dims
      <4> QED BY <4>2, <4>4, <4>5
    <3> QED BY <3>1, <3>2
  <2> HIDE DEF S
  <2>3. \A j \in 0..NDim : j \in S
    BY <2>1, <2>2, <1>3, CountingDown
  <2>4. \A j \in Dims : s[j] \in T
    BY <2>3 DEF S, Dims
  <2>5. s = [j \in Dims |-> s[j]]
    BY <1>7
  <2> QED BY <2>4, <2>5
<1> QED BY <1>8, <1>9, <1>10

\* d[j] is what the first j dimensions contribute to the number of an index.
Sums(d, index, strides) ==
    /\ d \in [0..NDim -> Nat]
    /\ d[0] = 0
    /\ \A j \in Dims : d[j] = d[j-1] + index[j] * strides[j]

\* The partial sums behind MultidimToUnidim.
LEMMA NumberEquations ==
    ASSUME NEW index \in [Dims -> Nat], NEW strides \in [Dims -> Nat]
    PROVE  \E d : Sums(d, index, strides) /\ MultidimToUnidim(index, strides) = d[NDim]
<1> USE NDimAssumption
<1> DEFINE Fix(d) == d = [j \in 0..NDim |-> IF j = 0 THEN 0
                                           ELSE d[j-1] + index[j] * strides[j]]
           d == CHOOSE q : Fix(q)
           step == [x \in (1..NDim) \X Nat |-> x[2] + index[x[1]] * strides[x[1]]]
<1>1. \A j \in 1..NDim, v \in Nat :
          /\ step[<<j, v>>] = v + index[j] * strides[j]
          /\ v + index[j] * strides[j] \in Nat
  BY DEF Dims
<1>2. step \in [(1..NDim) \X Nat -> Nat]
  <2>1. \A x \in (1..NDim) \X Nat : x[2] + index[x[1]] * strides[x[1]] \in Nat
    BY <1>1
  <2> QED BY <2>1
<1>3. 0 \in Nat /\ NDim \in Nat
  OBVIOUS
<1> HIDE DEF step
<1>4. PICK f \in [0..NDim -> Nat] :
          f[0] = 0 /\ \A j \in 1..NDim : f[j] = step[<<j, f[j-1]>>]
  <2>1. \E f : Recurs(f, NDim, Nat, 0, step)
    BY <1>2, <1>3, RecursionExists
  <2> QED BY <2>1 DEF Recurs
<1>5. \A j \in 1..NDim : f[j] = f[j-1] + index[j] * strides[j]
  <2> TAKE j \in 1..NDim
  <2>1. j - 1 \in 0..NDim
    OBVIOUS
  <2> QED BY <2>1, <1>1, <1>4
<1>6. Fix(f)
  <2>1. \A j \in 0..NDim : f[j] = IF j = 0 THEN 0 ELSE f[j-1] + index[j] * strides[j]
    <3> TAKE j \in 0..NDim
    <3>1. j = 0 \/ j \in 1..NDim
      OBVIOUS
    <3> QED BY <3>1, <1>4, <1>5
  <2>2. f = [j \in 0..NDim |-> f[j]]
    OBVIOUS
  <2> QED BY <2>1, <2>2
<1>7. Fix(d)
  BY <1>6
<1>8. MultidimToUnidim(index, strides) = d[NDim]
  BY DEF MultidimToUnidim
<1> HIDE DEF d
<1>9. d[0] = 0 /\ \A j \in 1..NDim : d[j] = d[j-1] + index[j] * strides[j]
  <2>1. \A j \in 0..NDim : d[j] = IF j = 0 THEN 0 ELSE d[j-1] + index[j] * strides[j]
    BY <1>7
  <2> QED BY <2>1
<1>10. d \in [0..NDim -> Nat]
  <2> DEFINE S == {j \in 0..NDim : d[j] \in Nat}
  <2>1. 0 \in S
    <3>1. 0 \in 0..NDim
      OBVIOUS
    <3> QED BY <3>1, <1>9
  <2>2. ASSUME NEW i \in 0..NDim - 1, i \in S
        PROVE  i + 1 \in S
    <3>1. i + 1 \in 1..NDim /\ (i + 1) - 1 = i
      OBVIOUS
    <3>2. d[i+1] = d[i] + index[i+1] * strides[i+1]
      BY <3>1, <1>9
    <3>3. index[i+1] * strides[i+1] \in Nat
      BY <3>1 DEF Dims
    <3> QED BY <2>2, <3>1, <3>2, <3>3
  <2> HIDE DEF S
  <2>3. \A j \in 0..NDim : j \in S
    BY <2>1, <2>2, CountingUp
  <2>4. d = [j \in 0..NDim |-> d[j]]
    BY <1>7
  <2> QED BY <2>3, <2>4 DEF S
<1> QED BY <1>8, <1>9, <1>10 DEF Dims, Sums

-----------------------------------------------------------------------------
(* Numbers and coordinates. *)

\* The index c lies in a box of the given extents, none of which is negative.
InBox(c, dims) == c \in [Dims -> Nat] /\ \A j \in Dims : c[j] < dims[j]

\* Quotient and remainder of a number written as a multiple and a rest.
LEMMA DivMod ==
    ASSUME NEW s \in Nat \ {0}, NEW a \in Nat, NEW r \in 0..s - 1
    PROVE  (a * s + r) \div s = a /\ ((a * s + r) % s) = r
OBVIOUS

\* Every number is a multiple and a rest.
LEMMA QuotientRest ==
    ASSUME NEW s \in Nat \ {0}, NEW n \in Nat
    PROVE  n \div s \in Nat /\ (n % s) \in 0..s - 1 /\ n = (n \div s) * s + (n % s)
OBVIOUS

\* A coordinate, the chunk it is in and the place there.
LEMMA PlaceDim ==
    ASSUME NEW s \in Nat \ {0}, NEW h \in Nat, NEW x \in Nat
    PROVE  /\ x - h * s \in Nat /\ x - h * s < s <=> x \div s = h
           /\ x \div s = h => x - h * s = (x % s) /\ h * s + (x - h * s) = x
           /\ (x % s) \in Nat /\ (x % s) < s
           /\ s * (x \div s) <= x /\ x \div s \in Nat
<1> DEFINE q == x \div s
           r == (x % s)
<1>1. q \in Nat /\ r \in 0..s - 1 /\ x = q * s + r
  BY QuotientRest
<1>2. h * s \in Nat /\ q * s \in Nat /\ s * q = q * s
  BY <1>1
<1> HIDE DEF q, r
<1>3. ASSUME x - h * s \in Nat, x - h * s < s PROVE q = h
  <2>1. x = h * s + (x - h * s)
    BY <1>2
  <2>2. x - h * s \in 0..s - 1
    BY <1>3
  <2> HIDE DEF q
  <2>3. \A r0 \in 0..s - 1 : (h * s + r0) \div s = h
    BY DivMod
  <2>4. (h * s + (x - h * s)) \div s = h
    BY <2>2, <2>3
  <2> QED BY <2>1, <2>4 DEF q
<1>4. ASSUME q = h PROVE x - h * s = r /\ h * s + (x - h * s) = x
  BY <1>1, <1>2, <1>4
<1>5. r \in Nat /\ r < s /\ s * q <= x
  BY <1>1, <1>2
<1>6. q = h => x - h * s \in Nat /\ x - h * s < s
  BY <1>1, <1>4
<1> QED BY <1>1, <1>3, <1>4, <1>5, <1>6 DEF q, r

\* Dividing a multiple leaves no rest, and dividing 0 nothing.
LEMMA ExactQuotient ==
    ASSUME NEW s \in Nat \ {0}, NEW n \in Nat
    PROVE  /\ n \div s \in Nat
           /\ (n % s) = 0 => n = (n \div s) * s
           /\ n = 0 => n \div s = 0
<1>1. n \div s \in Nat /\ n = (n \div s) * s + (n % s)
  BY QuotientRest
<1>2. (n \div s) * s \in Nat
  BY <1>1
<1>3. 0 \div s = 0
  OBVIOUS
<1> QED BY <1>1, <1>2, <1>3

\* The product of the extents is the first extent times the first stride.
LEMMA ProductIsStride ==
    ASSUME NEW dims \in [Dims -> Nat]
    PROVE  Product(dims) = Strides(dims)[1] * dims[1]
<1> USE NDimAssumption
<1> DEFINE s == Strides(dims)
<1>1. PICK p \in [0..NDim -> Nat] :
          /\ p[0] = 1
          /\ \A j \in Dims : p[j] = p[j-1] * dims[j]
          /\ Product(dims) = p[NDim]
  BY ProductEquations
<1>2. /\ s \in [Dims -> Nat]
      /\ s[NDim] = 1
      /\ \A j \in 1..NDim - 1 : s[j] = s[j+1] * dims[j+1]
  BY StridesEquations
<1> HIDE DEF s
<1> DEFINE S == {j \in 0..NDim : j = 0 \/ p[j] * s[j] = p[NDim]}
<1>3. NDim \in S
  BY <1>2
<1>4. ASSUME NEW j \in 1..NDim, j \in S
      PROVE  j - 1 \in S
  <2>1. CASE j = 1
    BY <2>1
  <2>2. CASE j # 1
    <3>1. j - 1 \in 1..NDim - 1 /\ (j - 1) + 1 = j /\ j \in Dims
      BY <2>2 DEF Dims
    <3>2. p[j] = p[j-1] * dims[j] /\ s[j-1] = s[j] * dims[j]
      BY <3>1, <1>1, <1>2
    <3>3. p[j-1] \in Nat /\ dims[j] \in Nat /\ s[j] \in Nat
      BY <3>1, <1>2
    <3>4. \A a, b, c \in Nat : a * (c * b) = (a * b) * c
      OBVIOUS
    <3>5. p[j-1] * s[j-1] = p[j] * s[j]
      BY <3>2, <3>3, <3>4
    <3>6. p[j] * s[j] = p[NDim]
      BY <1>4
    <3> QED BY <3>1, <3>5, <3>6
  <2> QED BY <2>1, <2>2
<1> HIDE DEF S
<1>5. 1 \in S
  <2>1. \A j \in 0..NDim : j \in S
    <3>1. NDim \in Nat
      OBVIOUS
    <3> QED BY <3>1, <1>3, <1>4, CountingDown
  <2> QED BY <2>1
<1>6. 1 \in Dims /\ p[1] = dims[1]
  <2>1. 1 \in Dims /\ 1 - 1 = 0
    BY DEF Dims
  <2>2. p[1] = p[0] * dims[1]
    BY <1>1, <2>1
  <2> QED BY <2>1, <2>2, <1>1
<1>7. dims[1] * s[1] = p[NDim]
  BY <1>5, <1>6 DEF S
<1> QED BY <1>1, <1>2, <1>6, <1>7 DEF s

\* What the dimensions behind the j-th contribute to the number of an index in a box
\* is the rest of dividing the number by the j-th stride.
LEMMA NumberRests ==
    ASSUME NEW dims \in [Dims -> Nat \ {0}], NEW c, InBox(c, dims),
           NEW d, Sums(d, c, Strides(dims)),
           NEW j \in Dims
    PROVE  /\ d[NDim] - d[j] \in 0..Strides(dims)[j] - 1
           /\ (d[NDim] % Strides(dims)[j]) = d[NDim] - d[j]
<1> USE NDimAssumption
<1> DEFINE s == Strides(dims)
           n == d[NDim]
<1>1. /\ s \in [Dims -> Nat \ {0}]
      /\ s[NDim] = 1
      /\ \A i \in 1..NDim - 1 : s[i] = s[i+1] * dims[i+1]
  BY StridesEquations
<1>2. /\ d \in [0..NDim -> Nat]
      /\ d[0] = 0
      /\ \A i \in Dims : d[i] = d[i-1] + c[i] * s[i]
  BY DEF Sums
<1>3. c \in [Dims -> Nat] /\ \A i \in Dims : c[i] <= dims[i] - 1
  BY DEF InBox
<1> HIDE DEF s
<1>4. \A i \in Dims : n - d[i] \in 0..s[i] - 1
  <2> DEFINE S == {i \in 0..NDim : i = 0 \/ n - d[i] \in 0..s[i] - 1}
  <2>1. NDim \in S
    BY <1>1, <1>2
  <2>2. ASSUME NEW i \in 1..NDim, i \in S
        PROVE  i - 1 \in S
    <3>1. CASE i = 1
      BY <3>1
    <3>2. CASE i # 1
      <4>1. i - 1 \in 1..NDim - 1 /\ (i - 1) + 1 = i /\ i \in Dims
        BY <3>2 DEF Dims
      <4>2. d[i] = d[i-1] + c[i] * s[i] /\ s[i-1] = s[i] * dims[i]
        BY <4>1, <1>1, <1>2
      <4>3. n - d[i] \in 0..s[i] - 1
        BY <2>2
      <4>4. /\ d[i] \in Nat /\ d[i-1] \in Nat /\ n \in Nat
            /\ c[i] \in Nat /\ s[i] \in Nat /\ dims[i] \in Nat /\ c[i] <= dims[i] - 1
        BY <4>1, <1>1, <1>2, <1>3
      <4>5. c[i] * s[i] \in Nat /\ c[i] * s[i] <= (dims[i] - 1) * s[i]
        BY <4>4
      <4>6. (dims[i] - 1) * s[i] = s[i] * dims[i] - s[i]
        BY <4>4
      <4> HIDE DEF n
      <4>7. n - d[i-1] = (n - d[i]) + c[i] * s[i]
        BY <4>2, <4>4, <4>5
      <4>8. n - d[i-1] \in 0..s[i-1] - 1
        BY <4>2, <4>3, <4>4, <4>5, <4>6, <4>7
      <4> QED BY <4>1, <4>8
    <3> QED BY <3>1, <3>2
  <2> HIDE DEF S
  <2>3. \A i \in 0..NDim : i \in S
    <3>1. NDim \in Nat
      OBVIOUS
    <3> QED BY <3>1, <2>1, <2>2, CountingDown
  <2> QED BY <2>3 DEF S, Dims
<1>5. \A i \in Dims : \E q \in Nat : d[i] = q * s[i]
  <2> DEFINE S == {i \in 0..NDim : i = 0 \/ \E q \in Nat : d[i] = q * s[i]}
  <2>1. 0 \in S
    OBVIOUS
  <2>2. ASSUME NEW i \in 0..NDim - 1, i \in S
        PROVE  i + 1 \in S
    <3>1. i + 1 \in Dims /\ (i + 1) - 1 = i
      BY DEF Dims
    <3>2. d[i+1] = d[i] + c[i+1] * s[i+1]
      BY <3>1, <1>2
    <3>3. c[i+1] \in Nat /\ s[i+1] \in Nat /\ dims[i+1] \in Nat
      BY <3>1, <1>1, <1>3
    <3>4. CASE i = 0
      <4>1. d[i+1] = c[i+1] * s[i+1]
        BY <3>2, <3>3, <3>4, <1>2
      <4>2. \E q \in Nat : d[i+1] = q * s[i+1]
        BY <3>3, <4>1
      <4>3. i + 1 \in 0..NDim
        OBVIOUS
      <4> QED BY <4>2, <4>3
    <3>5. CASE i # 0
      <4>1. PICK q \in Nat : d[i] = q * s[i]
        BY <2>2, <3>5
      <4>2. s[i] = s[i+1] * dims[i+1]
        BY <3>5, <1>1
      <4>3. \A x, y, z, u \in Nat : x * (y * z) + u * y = (x * z + u) * y
        OBVIOUS
      <4>4. d[i+1] = (q * dims[i+1] + c[i+1]) * s[i+1]
        BY <3>2, <3>3, <4>1, <4>2, <4>3
      <4>5. q * dims[i+1] + c[i+1] \in Nat
        BY <3>3
      <4> QED BY <4>4, <4>5
    <3> QED BY <3>4, <3>5
  <2> HIDE DEF S
  <2>3. \A i \in 0..NDim : i \in S
    <3>1. NDim \in Nat
      OBVIOUS
    <3> QED BY <3>1, <2>1, <2>2, CountingUp
  <2> QED BY <2>3 DEF S, Dims
<1>6. PICK q \in Nat : d[j] = q * s[j]
  BY <1>5
<1>7. s[j] \in Nat \ {0} /\ n \in Nat /\ d[j] \in Nat
  BY <1>1, <1>2 DEF Dims
<1> DEFINE r == n - d[j]
<1>8. r \in 0..s[j] - 1
  BY <1>4
<1>9. n = q * s[j] + r
  BY <1>6, <1>7
<1> HIDE DEF r, n
<1>10. (n % s[j]) = r
  BY <1>7, <1>8, <1>9, DivMod
<1> QED BY <1>8, <1>10 DEF r, n, s

\* The number of an index lies below the number of indexes of the box, and its
\* coordinates are the index.
LEMMA NumberOfIndex ==
    ASSUME NEW dims \in [Dims -> Nat \ {0}], NEW c, InBox(c, dims)
    PROVE  /\ MultidimToUnidim(c, Strides(dims)) \in 0..Product(dims) - 1
           /\ UnidimToMultidim(dims, MultidimToUnidim(c, Strides(dims))) = c
<1> USE NDimAssumption
<1> DEFINE s == Strides(dims)
           n == MultidimToUnidim(c, s)
<1>1. /\ s \in [Dims -> Nat \ {0}]
      /\ s[NDim] = 1
      /\ \A i \in 1..NDim - 1 : s[i] = s[i+1] * dims[i+1]
  BY StridesEquations
<1>2. c \in [Dims -> Nat] /\ \A i \in Dims : c[i] <= dims[i] - 1
  BY DEF InBox
<1>3. PICK d : Sums(d, c, s) /\ n = d[NDim]
  <2>1. s \in [Dims -> Nat]
    BY <1>1
  <2> HIDE DEF s
  <2> QED BY <2>1, <1>2, NumberEquations
<1>4. /\ d \in [0..NDim -> Nat]
      /\ d[0] = 0
      /\ \A i \in Dims : d[i] = d[i-1] + c[i] * s[i]
  BY <1>3 DEF Sums
<1>5. \A i \in Dims : n - d[i] \in 0..s[i] - 1 /\ (n % s[i]) = n - d[i]
  BY <1>3, NumberRests
<1>6. Product(dims) = s[1] * dims[1]
  BY ProductIsStride
<1> HIDE DEF s, n
<1>7. n \in Nat
  BY <1>3, <1>4
<1>8. ASSUME NEW i \in Dims
      PROVE  /\ s[i] \in Nat \ {0} /\ c[i] \in Nat /\ d[i] \in Nat /\ d[i-1] \in Nat
             /\ d[i] = d[i-1] + c[i] * s[i]
             /\ n - d[i-1] = c[i] * s[i] + (n - d[i])
             /\ (n - d[i-1]) \div s[i] = c[i]
  <2>1. s[i] \in Nat \ {0} /\ c[i] \in Nat /\ d[i] \in Nat /\ d[i-1] \in Nat
    BY <1>1, <1>2, <1>4 DEF Dims
  <2>2. d[i] = d[i-1] + c[i] * s[i] /\ c[i] * s[i] \in Nat
    BY <2>1, <1>4
  <2>3. n - d[i-1] = c[i] * s[i] + (n - d[i])
    BY <2>1, <2>2, <1>7
  <2>4. n - d[i] \in 0..s[i] - 1
    BY <1>5
  <2>5. (c[i] * s[i] + (n - d[i])) \div s[i] = c[i]
    BY <2>1, <2>4, DivMod
  <2> QED BY <2>1, <2>2, <2>3, <2>5
<1>9. n \in 0..Product(dims) - 1
  <2>1. 1 \in Dims /\ 1 - 1 = 0
    BY DEF Dims
  <2>2. n = c[1] * s[1] + (n - d[1]) /\ s[1] \in Nat \ {0} /\ c[1] \in Nat
    BY <2>1, <1>4, <1>7, <1>8
  <2>3. dims[1] \in Nat /\ c[1] <= dims[1] - 1 /\ n - d[1] \in 0..s[1] - 1
    BY <2>1, <1>2, <1>5
  <2>4. c[1] * s[1] <= (dims[1] - 1) * s[1]
    BY <2>2, <2>3
  <2>5. (dims[1] - 1) * s[1] = s[1] * dims[1] - s[1]
    BY <2>2, <2>3
  <2>6. s[1] * dims[1] \in Nat /\ c[1] * s[1] \in Nat
    BY <2>2, <2>3
  <2> QED BY <2>2, <2>3, <2>4, <2>5, <2>6, <1>6, <1>7
<1>10. ASSUME NEW i \in Dims
       PROVE  c[i] = IF i = 1 THEN n \div s[1] ELSE (n % s[i-1]) \div s[i]
  <2>1. CASE i = 1
    <3>1. n - d[0] = n /\ i - 1 = 0
      BY <2>1, <1>4, <1>7
    <3> QED BY <2>1, <3>1, <1>8
  <2>2. CASE i # 1
    <3>1. i - 1 \in Dims
      BY <2>2 DEF Dims
    <3>2. (n % s[i-1]) = n - d[i-1]
      BY <3>1, <1>5
    <3> QED BY <2>2, <3>2, <1>8
  <2> QED BY <2>1, <2>2
<1>11. UnidimToMultidim(dims, n) = c
  <2>1. c = [i \in Dims |-> c[i]]
    BY <1>2
  <2>2. UnidimToMultidim(dims, n)
          = [i \in Dims |-> IF i = 1 THEN n \div s[1] ELSE (n % s[i-1]) \div s[i]]
    BY DEF UnidimToMultidim, s
  <2> QED BY <2>1, <2>2, <1>10
<1> QED BY <1>9, <1>11 DEF n, s

\* The coordinates of a number below the product of the extents lie in the box,
\* and their number is that number.
LEMMA IndexOfNumber ==
    ASSUME NEW dims \in [Dims -> Nat \ {0}], NEW k \in 0..Product(dims) - 1
    PROVE  /\ InBox(UnidimToMultidim(dims, k), dims)
           /\ MultidimToUnidim(UnidimToMultidim(dims, k), Strides(dims)) = k
<1> USE NDimAssumption
<1> DEFINE s == Strides(dims)
           c == UnidimToMultidim(dims, k)
           r == [i \in 0..NDim |-> IF i = 0 THEN k ELSE (k % s[i])]
<1>1. /\ s \in [Dims -> Nat \ {0}]
      /\ s[NDim] = 1
      /\ \A i \in 1..NDim - 1 : s[i] = s[i+1] * dims[i+1]
  BY StridesEquations
<1>2. Product(dims) = s[1] * dims[1]
  BY ProductIsStride
<1>3. c = [i \in Dims |-> IF i = 1 THEN k \div s[1] ELSE (k % s[i-1]) \div s[i]]
  BY DEF UnidimToMultidim
<1> HIDE DEF s, c
<1>4. k \in Nat
  <2>1. Product(dims) \in Nat
    <3>1. 1 \in Dims
      BY DEF Dims
    <3> QED BY <3>1, <1>1, <1>2
  <2> QED BY <2>1
<1>5. ASSUME NEW i \in Dims
      PROVE  c[i] = r[i-1] \div s[i]
  <2>1. CASE i = 1
    BY <2>1, <1>3
  <2>2. CASE i # 1
    <3>1. i - 1 \in 1..NDim
      BY <2>2 DEF Dims
    <3>2. r[i-1] = (k % s[i-1])
      BY <3>1
    <3> HIDE DEF r
    <3> QED BY <2>2, <3>2, <1>3
  <2> QED BY <2>1, <2>2
<1>6. ASSUME NEW i \in Dims
      PROVE  /\ r[i-1] \in 0..s[i] * dims[i] - 1
             /\ r[i] = (r[i-1] % s[i])
  <2>1. s[i] \in Nat \ {0} /\ dims[i] \in Nat \ {0}
    BY <1>1
  <2>2. CASE i = 1
    <3>1. r[0] = k /\ r[1] = (k % s[1])
      OBVIOUS
    <3> HIDE DEF r
    <3> QED BY <2>2, <3>1, <1>2, <1>4
  <2>3. CASE i # 1
    <3>1. i - 1 \in 1..NDim - 1 /\ (i - 1) + 1 = i /\ i - 1 \in Dims
      BY <2>3 DEF Dims
    <3> DEFINE m == s[i] * dims[i]
               t == (k % m)
               q == k \div m
               u == t \div s[i]
    <3>2. s[i-1] = m /\ m \in Nat \ {0}
      BY <2>1, <3>1, <1>1
    <3>3. r[i-1] = t /\ r[i] = (k % s[i])
      BY <3>1, <3>2 DEF Dims
    <3> HIDE DEF r, m
    <3>4. t \in 0..m - 1 /\ q \in Nat /\ k = q * m + t
      BY <3>2, <1>4
    <3> HIDE DEF t, q
    <3>5. u \in Nat /\ (t % s[i]) \in 0..s[i] - 1 /\ t = u * s[i] + (t % s[i])
      <4>1. t \in Nat
        BY <3>2, <3>4
      <4> QED BY <2>1, <4>1, QuotientRest
    <3> HIDE DEF u
    <3>6. k = (q * dims[i] + u) * s[i] + (t % s[i])
      <4>1. \A a, b, x, v \in Nat : a * (x * b) + v * x = (a * b + v) * x
        OBVIOUS
      <4>2. q * m + u * s[i] = (q * dims[i] + u) * s[i]
        BY <2>1, <3>4, <3>5, <4>1 DEF m
      <4>3. q * m \in Nat /\ u * s[i] \in Nat
        BY <2>1, <3>2, <3>4, <3>5
      <4> QED BY <3>4, <3>5, <4>2, <4>3
    <3>7. q * dims[i] + u \in Nat
      BY <2>1, <3>4, <3>5
    <3>8. (k % s[i]) = (t % s[i])
      BY <2>1, <3>5, <3>6, <3>7, DivMod
    <3> QED BY <3>3, <3>4, <3>8 DEF m
  <2> QED BY <2>2, <2>3
<1>7. ASSUME NEW i \in Dims
      PROVE  /\ c[i] \in Nat
             /\ c[i] < dims[i]
             /\ r[i-1] = c[i] * s[i] + r[i]
             /\ r[i-1] \in Nat /\ r[i] \in Nat
  <2>1. s[i] \in Nat \ {0} /\ dims[i] \in Nat \ {0}
    BY <1>1
  <2>2. r[i-1] \in 0..s[i] * dims[i] - 1 /\ r[i] = (r[i-1] % s[i]) /\ c[i] = r[i-1] \div s[i]
    BY <1>5, <1>6
  <2> DEFINE x == r[i-1]
  <2> HIDE DEF r
  <2>3. x \in Nat /\ x < dims[i] * s[i]
    BY <2>1, <2>2
  <2> HIDE DEF x
  <2>4. x \div s[i] \in Nat /\ x \div s[i] < dims[i]
    BY <2>1, <2>3
  <2>5. x = (x \div s[i]) * s[i] + (x % s[i]) /\ (x % s[i]) \in Nat
    BY <2>1, <2>3
  <2> QED BY <2>2, <2>3, <2>4, <2>5 DEF x
<1>8. c = [i \in Dims |-> c[i]]
  BY <1>3
<1>9. InBox(c, dims)
  BY <1>7, <1>8 DEF InBox
<1>10. PICK d : Sums(d, c, s) /\ MultidimToUnidim(c, s) = d[NDim]
  <2>1. s \in [Dims -> Nat] /\ c \in [Dims -> Nat]
    BY <1>1, <1>9 DEF InBox
  <2> QED BY <2>1, NumberEquations
<1>11. d[NDim] = k - r[NDim]
  <2> DEFINE S == {i \in 0..NDim : d[i] = k - r[i]}
  <2>1. 0 \in S
    <3>1. d[0] = 0 /\ r[0] = k /\ 0 \in 0..NDim
      BY <1>10 DEF Sums
    <3> HIDE DEF r
    <3> QED BY <3>1, <1>4
  <2>2. ASSUME NEW i \in 0..NDim - 1, i \in S
        PROVE  i + 1 \in S
    <3>1. i + 1 \in Dims /\ (i + 1) - 1 = i /\ i + 1 \in 0..NDim
      BY DEF Dims
    <3>2. d[i+1] = d[i] + c[i+1] * s[i+1]
      BY <3>1, <1>10 DEF Sums
    <3>3. r[i] = c[i+1] * s[i+1] + r[i+1] /\ r[i] \in Nat /\ r[i+1] \in Nat
      BY <3>1, <1>7
    <3>4. c[i+1] * s[i+1] \in Nat
      <4>1. c[i+1] \in Nat /\ s[i+1] \in Nat
        BY <3>1, <1>1, <1>7
      <4> QED BY <4>1
    <3>5. d[i] = k - r[i]
      BY <2>2
    <3> HIDE DEF r
    <3>6. d[i+1] = k - r[i+1]
      BY <3>2, <3>3, <3>4, <3>5, <1>4
    <3> QED BY <3>1, <3>6
  <2>3. NDim \in S
    <3>1. NDim \in Nat /\ NDim \in 0..NDim
      OBVIOUS
    <3> HIDE DEF S
    <3> QED BY <3>1, <2>1, <2>2, CountingUp
  <2> QED BY <2>3
<1>12. r[NDim] = 0
  <2>1. r[NDim] = (k % 1)
    BY <1>1
  <2> QED BY <2>1, <1>4
<1>13. MultidimToUnidim(c, s) = k
  BY <1>4, <1>10, <1>11, <1>12
<1> QED BY <1>9, <1>13 DEF c, s

\* Numbers follow the lexicographic order of the indexes.
LEMMA NumberOrder ==
    ASSUME NEW dims \in [Dims -> Nat \ {0}],
           NEW a, InBox(a, dims), NEW b, InBox(b, dims),
           NEW i \in Dims, a[i] < b[i], \A j \in 1..i - 1 : a[j] = b[j]
    PROVE  MultidimToUnidim(a, Strides(dims)) < MultidimToUnidim(b, Strides(dims))
<1> USE NDimAssumption
<1> DEFINE s == Strides(dims)
<1>1. s \in [Dims -> Nat \ {0}]
  BY StridesEquations
<1>2. s \in [Dims -> Nat] /\ a \in [Dims -> Nat] /\ b \in [Dims -> Nat]
  BY <1>1 DEF InBox
<1>3. PICK d : Sums(d, a, s) /\ MultidimToUnidim(a, s) = d[NDim]
  <2> HIDE DEF s
  <2> QED BY <1>2, NumberEquations
<1>4. PICK e : Sums(e, b, s) /\ MultidimToUnidim(b, s) = e[NDim]
  <2> HIDE DEF s
  <2> QED BY <1>2, NumberEquations
<1>5. /\ d[NDim] - d[i] \in 0..s[i] - 1
      /\ e[NDim] - e[i] \in 0..s[i] - 1
  BY <1>3, <1>4, NumberRests
<1> HIDE DEF s
<1>6. d[i-1] = e[i-1]
  <2> DEFINE S == {j \in 0..i - 1 : d[j] = e[j]}
  <2>1. 0 \in S
    BY <1>3, <1>4 DEF Sums, Dims
  <2>2. ASSUME NEW j \in 0..(i - 1) - 1, j \in S
        PROVE  j + 1 \in S
    <3>1. j + 1 \in Dims /\ (j + 1) - 1 = j /\ j + 1 \in 1..i - 1
      BY DEF Dims
    <3>2. d[j+1] = d[j] + a[j+1] * s[j+1] /\ e[j+1] = e[j] + b[j+1] * s[j+1]
      BY <3>1, <1>3, <1>4 DEF Sums
    <3>3. d[j] = e[j] /\ a[j+1] = b[j+1]
      BY <2>2, <3>1
    <3> QED BY <3>1, <3>2, <3>3
  <2>3. i - 1 \in Nat /\ i - 1 \in 0..i - 1
    BY DEF Dims
  <2> HIDE DEF S
  <2>4. i - 1 \in S
    BY <2>1, <2>2, <2>3, CountingUp
  <2> QED BY <2>4 DEF S
<1>7. /\ d[i] = d[i-1] + a[i] * s[i] /\ e[i] = e[i-1] + b[i] * s[i]
      /\ d[i-1] \in Nat /\ e[i-1] \in Nat /\ d[NDim] \in Nat /\ e[NDim] \in Nat
      /\ a[i] \in Nat /\ b[i] \in Nat /\ s[i] \in Nat \ {0}
  BY <1>1, <1>2, <1>3, <1>4 DEF Sums, Dims
<1>8. a[i] * s[i] \in Nat /\ b[i] * s[i] \in Nat
  BY <1>7
<1>9. a[i] * s[i] + s[i] <= b[i] * s[i]
  <2>1. (a[i] + 1) * s[i] <= b[i] * s[i]
    BY <1>7
  <2>2. (a[i] + 1) * s[i] = a[i] * s[i] + s[i]
    BY <1>7
  <2> QED BY <2>1, <2>2
<1>10. d[NDim] < e[NDim]
  BY <1>5, <1>6, <1>7, <1>8, <1>9
<1> QED BY <1>3, <1>4, <1>10 DEF s

\* Two indexes that differ do so first in some dimension.
LEMMA FirstDifference ==
    ASSUME NEW a \in [Dims -> Nat], NEW b \in [Dims -> Nat], a # b
    PROVE  \E i \in Dims : a[i] # b[i] /\ \A j \in 1..i - 1 : a[j] = b[j]
<1> DEFINE S == {j \in Dims : a[j] # b[j]}
<1>1. S \in SUBSET Nat /\ S # {}
  BY NDimAssumption DEF Dims
<1>2. PICK i \in S : \A m \in S : i <= m
  <2> HIDE DEF S
  <2> QED BY <1>1, LeastElement
<1>3. ASSUME NEW j \in 1..i - 1
      PROVE  a[j] = b[j]
  BY <1>2, NDimAssumption DEF Dims
<1> QED BY <1>2, <1>3

\* When going from the indexes a and b of one box to the indexes x and y of another keeps the order of
\* their coordinates in every dimension, it keeps the order of their numbers.
LEMMA OrderKept ==
    ASSUME NEW dims \in [Dims -> Nat \ {0}],
           NEW a, InBox(a, dims), NEW b, InBox(b, dims),
           NEW other \in [Dims -> Nat \ {0}],
           NEW x, InBox(x, other), NEW y, InBox(y, other),
           \A j \in Dims : /\ a[j] < b[j] => x[j] < y[j]
                           /\ a[j] = b[j] => x[j] = y[j]
                           /\ a[j] > b[j] => x[j] > y[j],
           MultidimToUnidim(a, Strides(dims)) < MultidimToUnidim(b, Strides(dims))
    PROVE  MultidimToUnidim(x, Strides(other)) < MultidimToUnidim(y, Strides(other))
<1> DEFINE na == MultidimToUnidim(a, Strides(dims))
           nb == MultidimToUnidim(b, Strides(dims))
<1>1. na \in Nat /\ nb \in Nat
  BY NumberOfIndex
<1>2. a \in [Dims -> Nat] /\ b \in [Dims -> Nat]
  BY DEF InBox
<1>3. a # b
  BY <1>1
<1>4. PICK i \in Dims : a[i] # b[i] /\ \A j \in 1..i - 1 : a[j] = b[j]
  BY <1>2, <1>3, FirstDifference
<1>5. ~ (a[i] > b[i])
  <2>1. SUFFICES ASSUME b[i] < a[i] PROVE FALSE
    BY <1>2
  <2>2. nb < na
    BY <2>1, <1>4, NumberOrder
  <2> QED BY <2>2, <1>1
<1>6. a[i] < b[i]
  BY <1>2, <1>4, <1>5
<1>7. \A j \in 1..i - 1 : x[j] = y[j]
  BY <1>4, NDimAssumption DEF Dims
<1> QED BY <1>6, <1>7, NumberOrder

-----------------------------------------------------------------------------
(* Products. *)

\* A box with an empty dimension has no index, and its product is 0.
LEMMA ProductZero ==
    ASSUME NEW dims \in [Dims -> Nat], NEW i \in Dims, dims[i] = 0
    PROVE  Product(dims) = 0
<1> USE NDimAssumption
<1>1. PICK p \in [0..NDim -> Nat] :
          /\ p[0] = 1
          /\ \A j \in Dims : p[j] = p[j-1] * dims[j]
          /\ Product(dims) = p[NDim]
  BY ProductEquations
<1> DEFINE S == {m \in 0..NDim - i : p[i+m] = 0}
           n == NDim - i
<1>2. 0 \in S
  <2>1. i - 1 \in 0..NDim /\ 0 \in 0..NDim - i /\ i + 0 = i
    BY DEF Dims
  <2>2. p[i] = 0
    BY <1>1, <2>1
  <2> QED BY <2>1, <2>2
<1>3. ASSUME NEW m \in 0..n - 1, m \in S
      PROVE  m + 1 \in S
  <2>1. i + m + 1 \in Dims /\ (i + m + 1) - 1 = i + m /\ m + 1 \in 0..NDim - i
    BY DEF Dims
  <2>2. p[i+m+1] = p[i+m] * dims[i+m+1] /\ dims[i+m+1] \in Nat /\ p[i+m] = 0
    BY <2>1, <1>1, <1>3
  <2>3. i + m + 1 = i + (m + 1)
    BY DEF Dims
  <2>4. p[i+m+1] = 0
    BY <2>2
  <2> QED BY <2>1, <2>3, <2>4
<1>4. n \in S
  <2>1. n \in Nat /\ n \in 0..n
    BY DEF Dims
  <2> HIDE DEF S, n
  <2> QED BY <2>1, <1>2, <1>3, CountingUp
<1>5. i + n = NDim
  BY DEF Dims
<1> QED BY <1>1, <1>4, <1>5

\* The product of two shapes' extents, dimension by dimension.
LEMMA ProductOfProducts ==
    ASSUME NEW a \in [Dims -> Nat], NEW b \in [Dims -> Nat]
    PROVE  Product([j \in Dims |-> a[j] * b[j]]) = Product(a) * Product(b)
<1> USE NDimAssumption
<1> DEFINE c == [j \in Dims |-> a[j] * b[j]]
<1>1. PICK p \in [0..NDim -> Nat] :
          /\ p[0] = 1
          /\ \A j \in Dims : p[j] = p[j-1] * a[j]
          /\ Product(a) = p[NDim]
  BY ProductEquations
<1>2. PICK q \in [0..NDim -> Nat] :
          /\ q[0] = 1
          /\ \A j \in Dims : q[j] = q[j-1] * b[j]
          /\ Product(b) = q[NDim]
  BY ProductEquations
<1>3. PICK r \in [0..NDim -> Nat] :
          /\ r[0] = 1
          /\ \A j \in Dims : r[j] = r[j-1] * c[j]
          /\ Product(c) = r[NDim]
  <2>1. c \in [Dims -> Nat]
    OBVIOUS
  <2> HIDE DEF c
  <2> QED BY <2>1, ProductEquations
<1> DEFINE S == {j \in 0..NDim : r[j] = p[j] * q[j]}
<1>4. 0 \in S
  BY <1>1, <1>2, <1>3
<1>5. ASSUME NEW j \in 0..NDim - 1, j \in S
      PROVE  j + 1 \in S
  <2>1. j + 1 \in Dims /\ (j + 1) - 1 = j /\ j + 1 \in 0..NDim
    BY DEF Dims
  <2>2. /\ p[j+1] = p[j] * a[j+1] /\ q[j+1] = q[j] * b[j+1]
        /\ r[j+1] = r[j] * c[j+1] /\ r[j] = p[j] * q[j]
        /\ c[j+1] = a[j+1] * b[j+1]
    BY <2>1, <1>1, <1>2, <1>3, <1>5
  <2>3. p[j] \in Nat /\ q[j] \in Nat /\ a[j+1] \in Nat /\ b[j+1] \in Nat
    BY <2>1
  <2>4. \A x, y, u, v \in Nat : (x * y) * (u * v) = (x * u) * (y * v)
    OBVIOUS
  <2>5. r[j+1] = p[j+1] * q[j+1]
    BY <2>2, <2>3, <2>4
  <2> QED BY <2>1, <2>5
<1>6. NDim \in S
  <2>1. NDim \in Nat /\ NDim \in 0..NDim
    OBVIOUS
  <2> HIDE DEF S
  <2> QED BY <2>1, <1>4, <1>5, CountingUp
<1> QED BY <1>1, <1>2, <1>3, <1>6

\* A product of naturals is a natural (nitems, extnitems), a product of positive
\* ones is positive (chunknitems, by which the code divides).
LEMMA ProductType ==
    ASSUME NEW T, T = Nat \/ T = Nat \ {0},
           NEW dims \in [Dims -> T]
    PROVE  Product(dims) \in T
<1>1. PICK p \in [0..NDim -> T] :
          /\ p[0] = 1
          /\ \A j \in Dims : p[j] = p[j-1] * dims[j]
          /\ Product(dims) = p[NDim]
  BY ProductEquations
<1> QED BY <1>1, NDimAssumption
-----------------------------------------------------------------------------
(* Boxes. *)

\* Of the extents of a box one is the least, and one the greatest.
LEMMA ExtremeExtents ==
    ASSUME NEW v \in [Dims -> Int]
    PROVE  /\ \E i \in Dims : \A j \in Dims : v[i] <= v[j]
           /\ \E i \in Dims : \A j \in Dims : v[i] >= v[j]
<1> USE NDimAssumption
<1> DEFINE Least(m) == \E i \in 1..m + 1 : \A j \in 1..m + 1 : v[i] <= v[j]
           Most(m)  == \E i \in 1..m + 1 : \A j \in 1..m + 1 : v[i] >= v[j]
           S == {m \in 0..NDim - 1 : Least(m) /\ Most(m)}
<1>1. 0 \in S
  <2>1. 1 \in Dims /\ v[1] \in Int
    BY DEF Dims
  <2>2. Least(0) /\ Most(0)
    BY <2>1
  <2> HIDE DEF Least, Most
  <2> QED BY <2>2
<1>2. ASSUME NEW m \in 0..(NDim - 1) - 1, m \in S
      PROVE  m + 1 \in S
  <2>1. \A j \in 1..m + 2 : v[j] \in Int
    BY DEF Dims
  <2>2. Least(m + 1)
    <3>1. PICK i \in 1..m + 1 : \A j \in 1..m + 1 : v[i] <= v[j]
      BY <1>2
    <3>2. CASE v[i] <= v[m + 2]
      <4>1. \A j \in 1..m + 2 : v[i] <= v[j]
        BY <2>1, <3>1, <3>2
      <4>2. i \in 1..(m + 1) + 1 /\ (m + 1) + 1 = m + 2
        OBVIOUS
      <4> QED BY <4>1, <4>2
    <3>3. CASE v[i] > v[m + 2]
      <4>1. \A j \in 1..m + 2 : v[m + 2] <= v[j]
        BY <2>1, <3>1, <3>3
      <4>2. m + 2 \in 1..(m + 1) + 1 /\ (m + 1) + 1 = m + 2
        OBVIOUS
      <4> QED BY <4>1, <4>2
    <3>4. v[i] \in Int /\ v[m + 2] \in Int
      BY <2>1
    <3> QED BY <3>2, <3>3, <3>4
  <2>3. Most(m + 1)
    <3>1. PICK i \in 1..m + 1 : \A j \in 1..m + 1 : v[i] >= v[j]
      BY <1>2
    <3>2. CASE v[i] >= v[m + 2]
      <4>1. \A j \in 1..m + 2 : v[i] >= v[j]
        BY <2>1, <3>1, <3>2
      <4>2. i \in 1..(m + 1) + 1 /\ (m + 1) + 1 = m + 2
        OBVIOUS
      <4> QED BY <4>1, <4>2
    <3>3. CASE v[i] < v[m + 2]
      <4>1. \A j \in 1..m + 2 : v[m + 2] >= v[j]
        BY <2>1, <3>1, <3>3
      <4>2. m + 2 \in 1..(m + 1) + 1 /\ (m + 1) + 1 = m + 2
        OBVIOUS
      <4> QED BY <4>1, <4>2
    <3>4. v[i] \in Int /\ v[m + 2] \in Int
      BY <2>1
    <3> QED BY <3>2, <3>3, <3>4
  <2> HIDE DEF Least, Most
  <2>4. m + 1 \in 0..NDim - 1
    BY <1>2
  <2> QED BY <2>2, <2>3, <2>4
<1>3. NDim - 1 \in Nat
  OBVIOUS
<1>4. NDim - 1 \in S
  <2> HIDE DEF S
  <2>1. \A i \in 0..NDim - 1 : i \in S
    BY <1>1, <1>2, <1>3, CountingUp
  <2> QED BY <1>3, <2>1
<1>5. (NDim - 1) + 1 = NDim
  OBVIOUS
<1> QED BY <1>4, <1>5 DEF Dims

\* What is in a box.
LEMMA BoxFacts ==
    ASSUME NEW lo \in [Dims -> Int], NEW hi \in [Dims -> Int], NEW c
    PROVE  c \in Box(lo, hi) <=>
              c \in [Dims -> Int] /\ \A j \in Dims : lo[j] <= c[j] /\ c[j] < hi[j]
<1> DEFINE Low(n)  == n \in {lo[j] : j \in Dims} /\ \A j \in Dims : n <= lo[j]
           High(n) == n \in {hi[j] : j \in Dims} /\ \A j \in Dims : n >= hi[j]
           low  == CHOOSE n : Low(n)
           high == CHOOSE n : High(n)
<1>1. Low(low) /\ High(high)
  <2>1. \E n : Low(n)
    BY ExtremeExtents
  <2>2. \E n : High(n)
    BY ExtremeExtents
  <2> HIDE DEF Low, High
  <2> QED BY <2>1, <2>2
<1>2. Box(lo, hi) = {d \in [Dims -> low..high - 1] :
                        \A j \in Dims : lo[j] <= d[j] /\ d[j] < hi[j]}
  BY DEF Box
<1>3. low \in Int /\ high \in Int
  BY <1>1
<1>4. \A j \in Dims : low <= lo[j] /\ hi[j] <= high
  BY <1>1
<1> HIDE DEF low, high
<1>5. ASSUME c \in [Dims -> Int], \A j \in Dims : lo[j] <= c[j] /\ c[j] < hi[j]
      PROVE  c \in [Dims -> low..high - 1]
  <2>1. ASSUME NEW j \in Dims PROVE c[j] \in low..high - 1
    <3>1. c[j] \in Int /\ lo[j] \in Int /\ hi[j] \in Int /\ lo[j] <= c[j] /\ c[j] < hi[j]
      BY <1>5
    <3>2. low <= lo[j] /\ hi[j] <= high
      BY <1>4
    <3> QED BY <1>3, <3>1, <3>2
  <2> QED BY <1>5, <2>1
<1>6. ASSUME c \in [Dims -> low..high - 1]
      PROVE  c \in [Dims -> Int]
  BY <1>3, <1>6
<1> QED BY <1>2, <1>5, <1>6

\* A box of naturals that begins at the origin.
LEMMA OriginBox ==
    ASSUME NEW hi \in [Dims -> Int], NEW c
    PROVE  c \in Box(Origin, hi) <=> c \in [Dims -> Nat] /\ \A j \in Dims : c[j] < hi[j]
<1>1. Origin \in [Dims -> Int] /\ \A j \in Dims : Origin[j] = 0
  BY DEF Origin
<1>2. c \in Box(Origin, hi) <=>
         c \in [Dims -> Int] /\ \A j \in Dims : Origin[j] <= c[j] /\ c[j] < hi[j]
  BY <1>1, BoxFacts
<1>3. c \in [Dims -> Nat] <=> c \in [Dims -> Int] /\ \A j \in Dims : 0 <= c[j]
  OBVIOUS
<1> QED BY <1>1, <1>2, <1>3

-----------------------------------------------------------------------------
(* Numbers of neighbours. *)

\* The number of a place is that of where a box begins and that of the place in the box.
LEMMA NumberOfSum ==
    ASSUME NEW a \in [Dims -> Nat], NEW b \in [Dims -> Nat], NEW s \in [Dims -> Nat]
    PROVE  /\ Plus(a, b) \in [Dims -> Nat]
           /\ MultidimToUnidim(Plus(a, b), s) = MultidimToUnidim(a, s) + MultidimToUnidim(b, s)
<1> USE NDimAssumption
<1> DEFINE c == Plus(a, b)
<1>1. c \in [Dims -> Nat] /\ \A j \in Dims : c[j] = a[j] + b[j]
  BY DEF Plus
<1> HIDE DEF c
<1>2. PICK p : Sums(p, a, s) /\ MultidimToUnidim(a, s) = p[NDim]
  BY NumberEquations
<1>3. PICK q : Sums(q, b, s) /\ MultidimToUnidim(b, s) = q[NDim]
  BY NumberEquations
<1>4. PICK r : Sums(r, c, s) /\ MultidimToUnidim(c, s) = r[NDim]
  BY <1>1, NumberEquations
<1> DEFINE S == {j \in 0..NDim : r[j] = p[j] + q[j]}
<1>5. 0 \in S
  BY <1>2, <1>3, <1>4 DEF Sums
<1>6. ASSUME NEW i \in 0..NDim - 1, i \in S
      PROVE  i + 1 \in S
  <2>1. i + 1 \in Dims /\ (i + 1) - 1 = i /\ i + 1 \in 0..NDim
    BY DEF Dims
  <2>2. /\ p[i+1] = p[i] + a[i+1] * s[i+1] /\ p[i] \in Nat
        /\ q[i+1] = q[i] + b[i+1] * s[i+1] /\ q[i] \in Nat
        /\ r[i+1] = r[i] + c[i+1] * s[i+1]
    <3>1. \A x, d : Sums(d, x, s) => d[i+1] = d[(i + 1) - 1] + x[i+1] * s[i+1] /\ d[i] \in Nat
      BY <2>1 DEF Sums
    <3>2. \A x, d : Sums(d, x, s) => d[i+1] = d[i] + x[i+1] * s[i+1] /\ d[i] \in Nat
      BY <2>1, <3>1
    <3> QED BY <3>2, <1>2, <1>3, <1>4
  <2>3. \A x, y, z \in Nat : (x + y) * z = x * z + y * z /\ x * z \in Nat
    OBVIOUS
  <2>4. c[i+1] * s[i+1] = a[i+1] * s[i+1] + b[i+1] * s[i+1]
    BY <2>1, <2>3, <1>1
  <2>5. a[i+1] * s[i+1] \in Nat /\ b[i+1] * s[i+1] \in Nat
    BY <2>1, <2>3
  <2> QED BY <1>6, <2>1, <2>2, <2>4, <2>5
<1>7. NDim \in S
  <2>1. NDim \in Nat /\ NDim \in 0..NDim
    OBVIOUS
  <2> HIDE DEF S
  <2> QED BY <2>1, <1>5, <1>6, CountingUp
<1> QED BY <1>1, <1>2, <1>3, <1>4, <1>7 DEF c

\* Along the last dimension, places follow each other.
LEMMA NumberInRow ==
    ASSUME NEW s \in [Dims -> Nat], s[NDim] = 1, NEW r \in Nat
    PROVE  MultidimToUnidim([j \in Dims |-> IF j = NDim THEN r ELSE 0], s) = r
<1> USE NDimAssumption
<1> DEFINE u == [j \in Dims |-> IF j = NDim THEN r ELSE 0]
<1>1. u \in [Dims -> Nat] /\ \A j \in Dims : u[j] = IF j = NDim THEN r ELSE 0
  OBVIOUS
<1> HIDE DEF u
<1>2. PICK d : Sums(d, u, s) /\ MultidimToUnidim(u, s) = d[NDim]
  BY <1>1, NumberEquations
<1> DEFINE S == {j \in 0..NDim - 1 : d[j] = 0}
<1>3. 0 \in S
  BY <1>2 DEF Sums
<1>4. ASSUME NEW i \in 0..(NDim - 1) - 1, i \in S
      PROVE  i + 1 \in S
  <2>1. i + 1 \in Dims /\ (i + 1) - 1 = i /\ i + 1 \in 0..NDim - 1 /\ i + 1 # NDim
    BY DEF Dims
  <2>2. d[i+1] = d[i] + u[i+1] * s[i+1] /\ u[i+1] = 0 /\ s[i+1] \in Nat
    BY <2>1, <1>1, <1>2 DEF Sums
  <2>3. u[i+1] * s[i+1] = 0
    BY <2>2
  <2> QED BY <1>4, <2>1, <2>2, <2>3
<1>5. NDim - 1 \in S
  <2>1. NDim - 1 \in Nat /\ NDim - 1 \in 0..NDim - 1
    OBVIOUS
  <2> HIDE DEF S
  <2> QED BY <2>1, <1>3, <1>4, CountingUp
<1>6. d[NDim] = d[NDim - 1] + u[NDim] * s[NDim] /\ u[NDim] = r
  BY <1>1, <1>2 DEF Sums, Dims
<1>7. d[NDim] = r
  BY <1>5, <1>6
<1> QED BY <1>2, <1>7 DEF u

\* The corner of a box where it begins has the number 0.
LEMMA FirstNumber ==
    ASSUME NEW dims \in [Dims -> Nat \ {0}]
    PROVE  MultidimToUnidim(Origin, Strides(dims)) = 0
<1>1. Strides(dims) \in [Dims -> Nat] /\ Strides(dims)[NDim] = 1
  BY StridesEquations
<1>2. Origin = [j \in Dims |-> IF j = NDim THEN 0 ELSE 0]
  BY DEF Origin
<1> QED BY <1>1, <1>2, NumberInRow

\* The opposite corner has the highest.
LEMMA LastNumber ==
    ASSUME NEW dims \in [Dims -> Nat \ {0}],
           NEW a, InBox(a, dims), \A j \in Dims : a[j] = dims[j] - 1
    PROVE  MultidimToUnidim(a, Strides(dims)) = Product(dims) - 1
<1> DEFINE n == MultidimToUnidim(a, Strides(dims))
           k == n + 1
           c == UnidimToMultidim(dims, k)
<1>1. n \in 0..Product(dims) - 1 /\ Product(dims) \in Nat
  BY NumberOfIndex, ProductType
<1>2. ASSUME n # Product(dims) - 1 PROVE FALSE
  <2>1. k \in 0..Product(dims) - 1 /\ n < k
    BY <1>1, <1>2
  <2> HIDE DEF k
  <2>2. InBox(c, dims) /\ MultidimToUnidim(c, Strides(dims)) = k
    BY <2>1, IndexOfNumber
  <2> HIDE DEF c
  <2>3. a # c
    BY <2>1, <2>2, <1>1
  <2>4. PICK i \in Dims : a[i] # c[i] /\ \A j \in 1..i - 1 : a[j] = c[j]
    BY <2>2, <2>3, FirstDifference DEF InBox
  <2>5. c[i] < a[i] /\ \A j \in 1..i - 1 : c[j] = a[j]
    BY <2>2, <2>4 DEF InBox
  <2>6. MultidimToUnidim(c, Strides(dims)) < n
    BY <2>2, <2>5, NumberOrder
  <2> QED BY <1>1, <2>1, <2>2, <2>6
<1> QED BY <1>1, <1>2

\* Counting up a dimension, with those behind it going from their ends to their beginnings,
\* is one step in row-major order: nothing lies between.
LEMMA NextNumber ==
    ASSUME NEW dims \in [Dims -> Nat \ {0}],
           NEW a, InBox(a, dims), NEW b, InBox(b, dims),
           NEW i \in Dims, b[i] = a[i] + 1,
           \A j \in 1..i - 1 : b[j] = a[j],
           \A j \in i + 1..NDim : a[j] = dims[j] - 1 /\ b[j] = 0
    PROVE  MultidimToUnidim(b, Strides(dims)) = MultidimToUnidim(a, Strides(dims)) + 1
<1> USE NDimAssumption
<1> DEFINE Num(x) == MultidimToUnidim(x, Strides(dims))
           n == Num(a)
           m == Num(b)
           k == n + 1
           c == UnidimToMultidim(dims, k)
<1>1. n \in 0..Product(dims) - 1 /\ m \in 0..Product(dims) - 1 /\ Product(dims) \in Nat
  BY NumberOfIndex, ProductType
<1>2. a[i] < b[i] /\ \A j \in 1..i - 1 : a[j] = b[j]
  BY DEF InBox
<1>3. n < m
  BY <1>2, NumberOrder
<1>4. ASSUME m # k PROVE FALSE
  <2>1. k \in 0..Product(dims) - 1 /\ n < k /\ k < m
    BY <1>1, <1>3, <1>4
  <2> HIDE DEF k
  <2>2. InBox(c, dims) /\ Num(c) = k
    BY <2>1, IndexOfNumber
  <2> HIDE DEF c
  <2>3. ASSUME NEW x, NEW y, InBox(x, dims), InBox(y, dims), Num(x) < Num(y)
        PROVE  \E h \in Dims : x[h] < y[h] /\ \A j \in 1..h - 1 : x[j] = y[j]
    <3>1. Num(x) \in Int /\ Num(y) \in Int
      BY <2>3, NumberOfIndex
    <3>2. x # y
      BY <2>3, <3>1
    <3>3. PICK h \in Dims : x[h] # y[h] /\ \A j \in 1..h - 1 : x[j] = y[j]
      BY <2>3, <3>2, FirstDifference DEF InBox
    <3>4. ASSUME y[h] < x[h] PROVE FALSE
      <4>1. Num(y) < Num(x)
        BY <2>3, <3>3, <3>4, NumberOrder
      <4> QED BY <2>3, <3>1, <4>1
    <3>5. x[h] \in Nat /\ y[h] \in Nat
      BY <2>3 DEF InBox
    <3> QED BY <3>3, <3>4, <3>5
  <2>4. PICK h \in Dims : a[h] < c[h] /\ \A j \in 1..h - 1 : a[j] = c[j]
    BY <2>1, <2>2, <2>3
  <2>5. PICK g \in Dims : c[g] < b[g] /\ \A j \in 1..g - 1 : c[j] = b[j]
    BY <2>1, <2>2, <2>3
  <2>6. /\ a \in [Dims -> Nat] /\ b \in [Dims -> Nat] /\ c \in [Dims -> Nat]
        /\ \A j \in Dims : c[j] < dims[j] /\ dims[j] \in Nat
    BY <2>2 DEF InBox
  <2>7. h \in 1..NDim /\ g \in 1..NDim /\ i \in 1..NDim
    BY DEF Dims
  <2>8. h <= i
    <3>1. ASSUME h > i PROVE FALSE
      <4>1. h \in i + 1..NDim
        BY <2>7, <3>1
      <4>2. a[h] = dims[h] - 1 /\ c[h] < dims[h] /\ dims[h] \in Nat /\ c[h] \in Nat
        BY <4>1, <2>6
      <4> QED BY <2>4, <4>2
    <3> QED BY <2>7, <3>1
  <2>9. g <= i
    <3>1. ASSUME g > i PROVE FALSE
      <4>1. g \in i + 1..NDim
        BY <2>7, <3>1
      <4>2. b[g] = 0 /\ c[g] \in Nat
        BY <4>1, <2>6
      <4> QED BY <2>5, <4>2
    <3> QED BY <2>7, <3>1
  <2>10. CASE h < i
    <3>1. h \in 1..i - 1
      BY <2>7, <2>10
    <3>2. b[h] = a[h]
      BY <3>1
    <3>3. g <= h
      <4>1. ASSUME g > h PROVE FALSE
        <5>1. h \in 1..g - 1
          BY <2>7, <4>1
        <5>2. c[h] = b[h] /\ a[h] < c[h] /\ a[h] \in Nat
          BY <5>1, <2>4, <2>5, <2>6
        <5> QED BY <3>2, <5>2
      <4> QED BY <2>7, <4>1
    <3>4. g \in 1..i - 1
      BY <2>7, <2>10, <3>3
    <3>5. b[g] = a[g] /\ a[g] <= c[g] /\ c[g] < b[g] /\ a[g] \in Nat /\ c[g] \in Nat
      <4>1. CASE g = h
        BY <3>4, <4>1, <2>4, <2>5, <2>6
      <4>2. CASE g # h
        <5>1. g \in 1..h - 1
          BY <2>7, <3>3, <4>2
        <5>2. a[g] = c[g]
          BY <5>1, <2>4
        <5> QED BY <3>4, <5>2, <2>5, <2>6
      <4> QED BY <4>1, <4>2
    <3> QED BY <3>5
  <2>11. CASE h = i
    <3>1. a[i] < c[i] /\ \A j \in 1..i - 1 : a[j] = c[j]
      BY <2>4, <2>11
    <3>2. CASE g = i
      <4>1. c[i] < b[i] /\ b[i] = a[i] + 1 /\ c[i] \in Nat /\ a[i] \in Nat
        BY <3>2, <2>5, <2>6
      <4> QED BY <3>1, <4>1
    <3>3. CASE g # i
      <4>1. g \in 1..i - 1
        BY <2>7, <2>9, <3>3
      <4>2. b[g] = a[g] /\ a[g] = c[g] /\ c[g] < b[g] /\ c[g] \in Nat
        BY <4>1, <3>1, <2>5, <2>6
      <4> QED BY <4>2
    <3> QED BY <3>2, <3>3
  <2> QED BY <2>7, <2>8, <2>10, <2>11
<1> QED BY <1>4

\* Rounding up to a multiple: never smaller, and less than one multiple larger.
LEMMA RoundUpBounds ==
    ASSUME NEW n \in Nat, NEW m \in Nat \ {0}
    PROVE  /\ RoundUp(n, m) \in Nat
           /\ n <= RoundUp(n, m)
           /\ RoundUp(n, m) < n + m
           /\ n = 0 => RoundUp(n, m) = 0
<1>1. n % m \in 0..m - 1
  OBVIOUS
<1>2. n = 0 => n % m = 0
  OBVIOUS
<1> QED BY <1>1, <1>2 DEF RoundUp

\* How many chunks a dimension has: as many as begin inside it.
LEMMA GridBound ==
    ASSUME NEW t \in Nat, NEW s \in Nat \ {0}, NEW c \in Nat
    PROVE  /\ RoundUp(t, s) \div s \in Nat
           /\ RoundUp(t, s) = (RoundUp(t, s) \div s) * s
           /\ c < RoundUp(t, s) \div s <=> s * c < t
<1> DEFINE q == t \div s
           r == (t % s)
<1>1. q \in Nat /\ r \in 0..s - 1 /\ t = q * s + r
  BY QuotientRest
<1>2. RoundUp(t, s) = IF r = 0 THEN t ELSE t + s - r
  BY DEF RoundUp
<1> HIDE DEF q, r
<1>3. q * s \in Nat /\ c * s \in Nat /\ s * c = c * s
  BY <1>1
<1>4. CASE r = 0
  <2>1. RoundUp(t, s) = q * s /\ t = q * s
    BY <1>1, <1>2, <1>3, <1>4
  <2>2. (q * s) \div s = q
    BY <1>1
  <2>3. c < q => c * s + s <= q * s
    <3>1. c < q => (c + 1) * s <= q * s
      BY <1>1
    <3>2. (c + 1) * s = c * s + s
      OBVIOUS
    <3> QED BY <3>1, <3>2
  <2>4. q <= c => q * s <= c * s
    BY <1>1
  <2>5. RoundUp(t, s) \div s = q
    BY <2>1, <2>2
  <2>6. c < q <=> s * c < t
    BY <1>1, <1>3, <2>1, <2>3, <2>4
  <2> QED BY <1>1, <2>1, <2>5, <2>6
<1>5. CASE r # 0
  <2>1. RoundUp(t, s) = (q + 1) * s
    <3>1. (q + 1) * s = q * s + s
      BY <1>1
    <3> QED BY <1>1, <1>2, <1>3, <1>5, <3>1
  <2>2. ((q + 1) * s) \div s = q + 1
    BY <1>1
  <2>3. c <= q => c * s <= q * s
    BY <1>1
  <2>4. q + 1 <= c => q * s + s <= c * s
    <3>1. q + 1 <= c => (q + 1) * s <= c * s
      BY <1>1
    <3>2. (q + 1) * s = q * s + s
      BY <1>1
    <3> QED BY <3>1, <3>2
  <2>5. RoundUp(t, s) \div s = q + 1
    BY <2>1, <2>2
  <2>6. c < q + 1 <=> s * c < t
    BY <1>1, <1>3, <1>5, <2>3, <2>4
  <2> QED BY <1>1, <2>1, <2>5, <2>6
<1> QED BY <1>4, <1>5, <1>1

\* The number of chunks of a shape is a natural number: the padded shape has
\* natural extents and a chunk at least one item.
LEMMA ChunkCountType ==
    ASSUME NEW s \in [Dims -> Nat], NEW chunk \in [Dims -> Nat \ {0}]
    PROVE  ChunkCount(s, chunk) \in Nat
<1>1. Padded(s, chunk) \in [Dims -> Nat]
  BY RoundUpBounds DEF Padded
<1>2. Product(Padded(s, chunk)) \in Nat
  BY <1>1, ProductType
<1>3. Product(chunk) \in Nat \ {0}
  BY ProductType
<1> QED BY <1>2, <1>3 DEF ChunkCount

\* The grid of an array: its extents are naturals, a chunk lies in it when it begins
\* inside the shape in every dimension.
LEMMA ChunkGridFacts ==
    ASSUME NEW s \in [Dims -> Nat], NEW chunk \in [Dims -> Nat \ {0}]
    PROVE  /\ ChunkGrid(s, chunk) \in [Dims -> Nat]
           /\ \A j \in Dims, c \in Nat : c < ChunkGrid(s, chunk)[j] <=> chunk[j] * c < s[j]
<1> DEFINE grid == ChunkGrid(s, chunk)
<1>1. ASSUME NEW j \in Dims, NEW c \in Nat
      PROVE  grid[j] \in Nat /\ (c < grid[j] <=> chunk[j] * c < s[j])
  <2>1. grid[j] = RoundUp(s[j], chunk[j]) \div chunk[j]
    BY DEF ChunkGrid, Padded
  <2>2. s[j] \in Nat /\ chunk[j] \in Nat \ {0}
    OBVIOUS
  <2> QED BY <2>1, <2>2, GridBound
<1>2. grid \in [Dims -> Nat]
  <2>1. grid = [j \in Dims |-> grid[j]]
    BY DEF ChunkGrid
  <2>2. 0 \in Nat
    OBVIOUS
  <2> HIDE DEF grid
  <2> QED BY <2>1, <2>2, <1>1
<1> QED BY <1>1, <1>2

\* The super-chunk of an array has as many chunks as its grid has places.
LEMMA ChunkCountIsProduct ==
    ASSUME NEW s \in [Dims -> Nat], NEW chunk \in [Dims -> Nat \ {0}]
    PROVE  ChunkCount(s, chunk) = Product(ChunkGrid(s, chunk))
<1> DEFINE grid == ChunkGrid(s, chunk)
           P == Product(grid)
           Q == Product(chunk)
<1>1. chunk \in [Dims -> Nat] /\ grid \in [Dims -> Nat]
  BY ChunkGridFacts
<1>2. Padded(s, chunk) = [j \in Dims |-> grid[j] * chunk[j]]
  <2>1. ASSUME NEW j \in Dims
        PROVE  Padded(s, chunk)[j] = grid[j] * chunk[j]
    <3>1. /\ grid[j] = RoundUp(s[j], chunk[j]) \div chunk[j]
          /\ Padded(s, chunk)[j] = RoundUp(s[j], chunk[j])
      BY DEF ChunkGrid, Padded
    <3>2. s[j] \in Nat /\ chunk[j] \in Nat \ {0} /\ 0 \in Nat
      OBVIOUS
    <3> HIDE DEF grid
    <3> QED BY <3>1, <3>2, GridBound
  <2>2. Padded(s, chunk) = [j \in Dims |-> Padded(s, chunk)[j]]
    BY DEF Padded
  <2> HIDE DEF grid
  <2> QED BY <2>1, <2>2
<1> HIDE DEF grid
<1>3. Product(Padded(s, chunk)) = P * Q
  BY <1>1, <1>2, ProductOfProducts
<1>4. P \in Nat /\ Q \in Nat \ {0}
  BY <1>1, ProductType
<1> HIDE DEF P, Q
<1>5. (P * Q) \div Q = P
  BY <1>4
<1> QED BY <1>3, <1>5 DEF ChunkCount, P, Q, grid

\* The coordinates of the chunk with an item.
ChunkCoords(chunk, c) == [j \in Dims |-> c[j] \div chunk[j]]

\* The chunk of an item lies in the grid: its coordinates are those of its number.
LEMMA HoldingFacts ==
    ASSUME NEW s \in [Dims -> Nat], NEW chunk \in [Dims -> Nat \ {0}],
           NEW c \in [Dims -> Nat], \A j \in Dims : c[j] < s[j]
    PROVE  /\ InBox(ChunkCoords(chunk, c), ChunkGrid(s, chunk))
           /\ ChunkHolding(s, chunk, c) \in 0..ChunkCount(s, chunk) - 1
           /\ UnidimToMultidim(ChunkGrid(s, chunk), ChunkHolding(s, chunk, c))
                = ChunkCoords(chunk, c)
<1> DEFINE grid == ChunkGrid(s, chunk)
           q == ChunkCoords(chunk, c)
<1>1. grid \in [Dims -> Nat] /\ ChunkCount(s, chunk) = Product(grid)
  BY ChunkGridFacts, ChunkCountIsProduct
<1>2. ASSUME NEW j \in Dims
      PROVE  q[j] \in Nat /\ q[j] < grid[j]
  <2>1. q[j] = c[j] \div chunk[j] /\ c[j] \in Nat /\ s[j] \in Nat /\ chunk[j] \in Nat \ {0} /\ c[j] < s[j]
    BY DEF ChunkCoords
  <2> HIDE DEF q
  <2>2. q[j] \in Nat /\ chunk[j] * q[j] <= c[j]
    <3> DEFINE y == c[j] \div chunk[j]
               r == (c[j] % chunk[j])
    <3>1. y \in Nat /\ r \in 0..chunk[j] - 1 /\ c[j] = y * chunk[j] + r
      BY <2>1, QuotientRest
    <3>2. q[j] = y
      BY <2>1
    <3> HIDE DEF y, r
    <3> QED BY <3>1, <3>2, <2>1
  <2>3. q[j] < grid[j] <=> chunk[j] * q[j] < s[j]
    <3> HIDE DEF grid
    <3>1. \A n \in Nat : n < grid[j] <=> chunk[j] * n < s[j]
      BY ChunkGridFacts DEF grid
    <3> QED BY <3>1, <2>2
  <2> DEFINE m == chunk[j] * q[j]
  <2>4. m \in Int /\ m <= c[j] /\ (q[j] < grid[j] <=> m < s[j]) /\ q[j] \in Nat
    BY <2>1, <2>2, <2>3
  <2> HIDE DEF m, grid
  <2> QED BY <2>1, <2>4
<1>3. InBox(q, grid)
  <2>1. q = [j \in Dims |-> q[j]]
    BY DEF ChunkCoords
  <2> HIDE DEF q, grid
  <2> QED BY <2>1, <1>1, <1>2 DEF InBox
<1>4. grid \in [Dims -> Nat \ {0}]
  <2> HIDE DEF q, grid
  <2>1. \A j \in Dims : grid[j] \in Nat \ {0}
    BY <1>1, <1>2
  <2> QED BY <2>1, <1>1
<1>5. ChunkHolding(s, chunk, c) = MultidimToUnidim(q, Strides(grid))
  BY DEF ChunkHolding, ChunkCoords
<1> HIDE DEF q, grid
<1>6. /\ MultidimToUnidim(q, Strides(grid)) \in 0..Product(grid) - 1
      /\ UnidimToMultidim(grid, MultidimToUnidim(q, Strides(grid))) = q
  BY <1>3, <1>4, NumberOfIndex
<1> QED BY <1>1, <1>3, <1>5, <1>6 DEF q, grid

\* Every number of a chunk is that of a place of the grid, at which a chunk begins
\* inside the shape.
LEMMA ChunkNumberFacts ==
    ASSUME NEW s \in [Dims -> Nat], NEW chunk \in [Dims -> Nat \ {0}],
           NEW k \in 0..ChunkCount(s, chunk) - 1
    PROVE  LET g == UnidimToMultidim(ChunkGrid(s, chunk), k)
           IN  /\ InBox(g, ChunkGrid(s, chunk))
               /\ MultidimToUnidim(g, Strides(ChunkGrid(s, chunk))) = k
               /\ \A j \in Dims : chunk[j] * g[j] < s[j]
<1> DEFINE grid == ChunkGrid(s, chunk)
           g == UnidimToMultidim(grid, k)
<1>1. /\ grid \in [Dims -> Nat] /\ ChunkCount(s, chunk) = Product(grid)
      /\ \A j \in Dims, c \in Nat : c < grid[j] <=> chunk[j] * c < s[j]
  BY ChunkGridFacts, ChunkCountIsProduct
<1> HIDE DEF grid
<1>2. grid \in [Dims -> Nat \ {0}]
  <2>1. \A j \in Dims : grid[j] # 0
    BY <1>1, ProductZero
  <2> QED BY <2>1, <1>1
<1>3. InBox(g, grid) /\ MultidimToUnidim(g, Strides(grid)) = k
  BY <1>1, <1>2, IndexOfNumber
<1> HIDE DEF g
<1>4. \A j \in Dims : g[j] \in Nat /\ g[j] < grid[j]
  BY <1>3 DEF InBox
<1>5. \A j \in Dims : chunk[j] * g[j] < s[j]
  BY <1>1, <1>4
<1> QED BY <1>3, <1>5 DEF g, grid

\* The places of a chunk padded to whole blocks: those of its items are among them.
LEMMA PaddedBox ==
    ASSUME NEW chunk \in [Dims -> Nat \ {0}], NEW block \in [Dims -> Nat \ {0}]
    PROVE  /\ \A p : p \in Box(Origin, Padded(chunk, block)) => p \in [Dims -> Nat]
           /\ \A p \in [Dims -> Nat] :
                (\A j \in Dims : p[j] < chunk[j]) => p \in Box(Origin, Padded(chunk, block))
<1> DEFINE ext == Padded(chunk, block)
<1>1. \A j \in Dims : chunk[j] \in Nat /\ ext[j] \in Nat /\ chunk[j] <= ext[j]
  <2>1. ASSUME NEW j \in Dims
        PROVE  chunk[j] \in Nat /\ ext[j] \in Nat /\ chunk[j] <= ext[j]
    <3>1. chunk[j] \in Nat /\ block[j] \in Nat \ {0}
      OBVIOUS
    <3> QED BY <3>1, RoundUpBounds DEF Padded
  <2> QED BY <2>1
<1>2. ext \in [Dims -> Int]
  BY <1>1 DEF Padded
<1> HIDE DEF ext
<1>3. \A p : p \in Box(Origin, ext) <=> p \in [Dims -> Nat] /\ \A j \in Dims : p[j] < ext[j]
  BY <1>2, OriginBox
<1> QED BY <1>1, <1>3 DEF ext
=============================================================================
