---------------------------- MODULE SqueezeProofs ----------------------------
(***************************************************************************)
(* Theorems about Squeeze: for every number of dimensions, all arrays and  *)
(* any sequence of squeezes, closings and openings, with and without       *)
(* failed writes, the bytes of the metalayer and the stored chunks go on   *)
(* describing the items that were written.                                 *)
(***************************************************************************)
EXTENDS Squeeze, MultidimProofs, SequenceTheorems

-----------------------------------------------------------------------------
(* Dimensions left out. *)

\* A way from 0 to n that takes a step, or none, at every dimension.
Way(f, n) ==
    /\ f \in [0..NDim -> 0..NDim]
    /\ n \in 0..NDim
    /\ f[0] = 0 /\ f[NDim] = n
    /\ \A i \in Dims : f[i] = f[i - 1] + 1 \/ f[i] = f[i - 1]

\* h has what g has in the dimensions where there is a step, one after the other; everything
\* else is one.
Along(f, n, g, h, one) ==
    /\ \A i \in Dims : f[i] # f[i - 1] => h[f[i]] = g[i]
    /\ \A i \in Dims : f[i] = f[i - 1] => g[i] = one
    /\ \A j \in Dims : j > n => h[j] = one

\* A step leads to a dimension.
LEMMA WayStep ==
    ASSUME NEW f, NEW n, Way(f, n), NEW i \in Dims
    PROVE  /\ i - 1 \in 0..NDim /\ i \in 0..NDim
           /\ f[i - 1] \in 0..NDim /\ f[i] \in 0..NDim
           /\ f[i] # f[i - 1] => f[i] = f[i - 1] + 1 /\ f[i] \in Dims
<1>1. i - 1 \in 0..NDim /\ i \in 0..NDim
  BY NDimAssumption DEF Dims
<1>2. f[i - 1] \in 0..NDim /\ f[i] \in 0..NDim
  BY <1>1 DEF Way
<1>3. f[i] # f[i - 1] => f[i] = f[i - 1] + 1
  BY DEF Way
<1>4. f[i] # f[i - 1] => f[i] \in Dims
  BY <1>2, <1>3, NDimAssumption DEF Dims
<1> QED BY <1>1, <1>2, <1>3, <1>4

\* Extents of 1 do not change a product.
LEMMA ProductAlong ==
    ASSUME NEW f, NEW n, Way(f, n),
           NEW g \in [Dims -> Nat], NEW h \in [Dims -> Nat], Along(f, n, g, h, 1)
    PROVE  Product(g) = Product(h)
<1> USE NDimAssumption
<1>1. PICK p \in [0..NDim -> Nat] :
          /\ p[0] = 1
          /\ \A j \in Dims : p[j] = p[j - 1] * g[j]
          /\ Product(g) = p[NDim]
  BY ProductEquations
<1>2. PICK q \in [0..NDim -> Nat] :
          /\ q[0] = 1
          /\ \A j \in Dims : q[j] = q[j - 1] * h[j]
          /\ Product(h) = q[NDim]
  BY ProductEquations
<1>3. NDim \in 0..NDim /\ n \in 0..NDim
  BY DEF Way
<1>4. p[NDim] = q[n]
  <2> DEFINE S == {i \in 0..NDim : p[i] = q[f[i]]}
  <2>1. 0 \in S
    BY <1>1, <1>2 DEF Way
  <2>2. ASSUME NEW i \in 0..NDim - 1, i \in S
        PROVE  i + 1 \in S
    <3> DEFINE k == i + 1
    <3>1. k \in Dims /\ k \in 0..NDim /\ k - 1 = i
      BY DEF Dims
    <3> HIDE DEF k
    <3>2. /\ f[k] \in 0..NDim /\ f[i] \in 0..NDim
          /\ f[k] # f[i] => f[k] = f[i] + 1 /\ f[k] \in Dims
      BY <3>1, WayStep
    <3>3. p[k] = p[i] * g[k] /\ p[i] = q[f[i]]
      BY <3>1, <2>2, <1>1
    <3>4. CASE f[k] = f[i]
      <4>1. g[k] = 1
        BY <3>1, <3>4 DEF Along
      <4>2. p[i] \in Nat
        BY <1>1, <2>2
      <4>3. p[k] = p[i]
        BY <3>3, <4>1, <4>2
      <4> QED BY <4>3, <3>4, <3>3, <3>1 DEF k
    <3>5. CASE f[k] # f[i]
      <4>1. h[f[k]] = g[k]
        BY <3>1, <3>5 DEF Along
      <4>2. f[k] \in Dims /\ f[k] - 1 = f[i]
        BY <3>2, <3>5
      <4>3. q[f[k]] = q[f[k] - 1] * h[f[k]]
        BY <4>2, <1>2
      <4>4. q[f[k]] = p[k]
        BY <4>1, <4>2, <4>3, <3>3
      <4> QED BY <4>4, <3>1 DEF k
    <3> QED BY <3>4, <3>5
  <2>3. \A i \in 0..NDim : i \in S
    <3> HIDE DEF S
    <3> QED BY <2>1, <2>2, CountingUp
  <2> QED BY <2>3, <1>3 DEF Way
<1>5. q[NDim] = q[n]
  <2> DEFINE S == {i \in 0..NDim : i >= n => q[i] = q[n]}
  <2>1. 0 \in S
    BY <1>3
  <2>2. ASSUME NEW i \in 0..NDim - 1, i \in S
        PROVE  i + 1 \in S
    <3> DEFINE k == i + 1
    <3>1. k \in Dims /\ k \in 0..NDim /\ k - 1 = i
      BY DEF Dims
    <3> HIDE DEF k
    <3>2. CASE k > n
      <4>1. h[k] = 1 /\ i >= n
        BY <3>1, <3>2, <1>3 DEF Along
      <4>2. q[k] = q[i] * h[k] /\ q[i] \in Nat /\ q[i] = q[n]
        BY <3>1, <1>2, <2>2, <4>1
      <4>3. q[k] = q[n]
        BY <4>1, <4>2
      <4> QED BY <4>3, <3>1 DEF k
    <3>3. CASE ~(k > n)
      <4>1. k >= n => k = n
        BY <3>3, <3>1, <1>3
      <4> QED BY <4>1, <3>1 DEF k
    <3> QED BY <3>2, <3>3
  <2>3. \A i \in 0..NDim : i \in S
    <3> HIDE DEF S
    <3> QED BY <2>1, <2>2, CountingUp
  <2> QED BY <2>3, <1>3
<1> QED BY <1>1, <1>2, <1>4, <1>5

\* Nor do they change the strides of the other dimensions,
LEMMA StridesAlong ==
    ASSUME NEW f, NEW n, Way(f, n),
           NEW g \in [Dims -> Nat], NEW h \in [Dims -> Nat], Along(f, n, g, h, 1),
           NEW i \in Dims, f[i] \in Dims
    PROVE  Strides(g)[i] = Strides(h)[f[i]]
<1> USE NDimAssumption
<1> DEFINE s == Strides(g)
           t == Strides(h)
<1>1. /\ s \in [Dims -> Nat] /\ s[NDim] = 1
      /\ \A j \in 1..NDim - 1 : s[j] = s[j + 1] * g[j + 1]
  BY StridesEquations
<1>2. /\ t \in [Dims -> Nat] /\ t[NDim] = 1
      /\ \A j \in 1..NDim - 1 : t[j] = t[j + 1] * h[j + 1]
  BY StridesEquations
<1> HIDE DEF s, t
<1>3. n \in 0..NDim /\ f[NDim] = n
  BY DEF Way
<1>4. \A j \in Dims : j >= n => t[j] = 1
  <2> DEFINE S == {j \in 0..NDim : j >= n /\ j \in Dims => t[j] = 1}
  <2>1. NDim \in S
    BY <1>2
  <2>2. ASSUME NEW j \in 1..NDim, j \in S
        PROVE  j - 1 \in S
    <3> DEFINE k == j - 1
    <3>1. k \in 0..NDim /\ k + 1 = j /\ j \in Dims
      BY DEF Dims
    <3> HIDE DEF k
    <3>2. ASSUME k >= n, k \in Dims
          PROVE  t[k] = 1
      <4>1. j > n /\ j >= n /\ k \in 1..NDim - 1
        BY <3>1, <3>2, <1>3 DEF Dims
      <4>2. h[j] = 1 /\ t[j] = 1
        BY <4>1, <3>1, <2>2 DEF Along
      <4>3. t[k] = t[j] * h[j]
        BY <4>1, <3>1, <1>2
      <4> QED BY <4>2, <4>3
    <3> QED BY <3>1, <3>2 DEF k
  <2>3. \A j \in 0..NDim : j \in S
    <3> HIDE DEF S
    <3> QED BY <2>1, <2>2, CountingDown
  <2> QED BY <2>3 DEF Dims
<1>5. \A j \in Dims : f[j] \in Dims => s[j] = t[f[j]]
  <2> DEFINE S == {j \in 0..NDim : j \in Dims /\ f[j] \in Dims => s[j] = t[f[j]]}
  <2>1. NDim \in S
    BY <1>1, <1>3, <1>4 DEF Dims
  <2>2. ASSUME NEW j \in 1..NDim, j \in S
        PROVE  j - 1 \in S
    <3> DEFINE k == j - 1
    <3>1. k \in 0..NDim /\ k + 1 = j /\ j \in Dims
      BY DEF Dims
    <3>2. /\ f[j] \in 0..NDim /\ f[k] \in 0..NDim
          /\ f[j] # f[k] => f[j] = f[k] + 1 /\ f[j] \in Dims
      BY <3>1, WayStep
    <3> HIDE DEF k
    <3>3. ASSUME k \in Dims, f[k] \in Dims
          PROVE  s[k] = t[f[k]]
      <4>1. k \in 1..NDim - 1 /\ j - 1 = k
        BY <3>1, <3>3 DEF Dims
      <4>2. s[k] = s[j] * g[j]
        BY <4>1, <3>1, <1>1
      <4>3. CASE f[j] = f[k]
        <5>1. g[j] = 1
          BY <4>1, <4>3, <3>1 DEF Along
        <5>2. s[j] = t[f[k]] /\ s[j] \in Nat
          BY <4>3, <3>3, <3>1, <2>2, <1>1
        <5> QED BY <4>2, <5>1, <5>2
      <4>4. CASE f[j] # f[k]
        <5>1. h[f[j]] = g[j] /\ f[j] = f[k] + 1 /\ f[j] \in Dims
          BY <4>1, <4>4, <3>1, <3>2 DEF Along
        <5>2. s[j] = t[f[j]]
          BY <5>1, <3>1, <2>2
        <5>3. f[k] \in 1..NDim - 1
          BY <5>1, <3>3 DEF Dims
        <5>4. t[f[k]] = t[f[k] + 1] * h[f[k] + 1]
          BY <5>3, <1>2
        <5> QED BY <4>2, <5>1, <5>2, <5>4
      <4> QED BY <4>3, <4>4
    <3> QED BY <3>1, <3>3 DEF k
  <2>3. \A j \in 0..NDim : j \in S
    <3> HIDE DEF S
    <3> QED BY <2>1, <2>2, CountingDown
  <2> QED BY <2>3 DEF Dims
<1> QED BY <1>5 DEF s, t

\* nor the number of an index that is 0 there.
LEMMA NumberAlong ==
    ASSUME NEW f, NEW n, Way(f, n),
           NEW g \in [Dims -> Nat], NEW h \in [Dims -> Nat], Along(f, n, g, h, 1),
           NEW x \in [Dims -> Nat], NEW y \in [Dims -> Nat], Along(f, n, x, y, 0)
    PROVE  MultidimToUnidim(x, Strides(g)) = MultidimToUnidim(y, Strides(h))
<1> USE NDimAssumption
<1> DEFINE s == Strides(g)
           t == Strides(h)
<1>1. s \in [Dims -> Nat] /\ t \in [Dims -> Nat]
  BY StridesEquations
<1>2. \A i \in Dims : f[i] \in Dims => s[i] = t[f[i]]
  BY StridesAlong
<1> HIDE DEF s, t
<1>3. PICK d : Sums(d, x, s) /\ MultidimToUnidim(x, s) = d[NDim]
  BY <1>1, NumberEquations
<1>4. PICK e : Sums(e, y, t) /\ MultidimToUnidim(y, t) = e[NDim]
  BY <1>1, NumberEquations
<1>5. /\ d \in [0..NDim -> Nat] /\ d[0] = 0
      /\ \A j \in Dims : d[j] = d[j - 1] + x[j] * s[j]
  BY <1>3 DEF Sums
<1>6. /\ e \in [0..NDim -> Nat] /\ e[0] = 0
      /\ \A j \in Dims : e[j] = e[j - 1] + y[j] * t[j]
  BY <1>4 DEF Sums
<1>7. NDim \in 0..NDim /\ n \in 0..NDim
  BY DEF Way
<1>8. d[NDim] = e[n]
  <2> DEFINE S == {i \in 0..NDim : d[i] = e[f[i]]}
  <2>1. 0 \in S
    BY <1>5, <1>6 DEF Way
  <2>2. ASSUME NEW i \in 0..NDim - 1, i \in S
        PROVE  i + 1 \in S
    <3> DEFINE k == i + 1
    <3>1. k \in Dims /\ k \in 0..NDim /\ k - 1 = i
      BY DEF Dims
    <3> HIDE DEF k
    <3>2. /\ f[k] \in 0..NDim /\ f[i] \in 0..NDim
          /\ f[k] # f[i] => f[k] = f[i] + 1 /\ f[k] \in Dims
      BY <3>1, WayStep
    <3>3. d[k] = d[i] + x[k] * s[k] /\ d[i] = e[f[i]] /\ d[i] \in Nat /\ s[k] \in Nat
      BY <3>1, <2>2, <1>5, <1>1
    <3>4. CASE f[k] = f[i]
      <4>1. x[k] = 0
        BY <3>1, <3>4 DEF Along
      <4>2. d[k] = d[i]
        BY <3>3, <4>1
      <4> QED BY <4>2, <3>4, <3>3, <3>1 DEF k
    <3>5. CASE f[k] # f[i]
      <4>1. y[f[k]] = x[k]
        BY <3>1, <3>5 DEF Along
      <4>2. f[k] \in Dims /\ f[k] - 1 = f[i]
        BY <3>2, <3>5
      <4>3. e[f[k]] = e[f[k] - 1] + y[f[k]] * t[f[k]] /\ s[k] = t[f[k]]
        BY <4>2, <3>1, <1>2, <1>6
      <4>4. e[f[k]] = d[k]
        BY <4>1, <4>2, <4>3, <3>3
      <4> QED BY <4>4, <3>1 DEF k
    <3> QED BY <3>4, <3>5
  <2>3. \A i \in 0..NDim : i \in S
    <3> HIDE DEF S
    <3> QED BY <2>1, <2>2, CountingUp
  <2> QED BY <2>3, <1>7 DEF Way
<1>9. e[NDim] = e[n]
  <2> DEFINE S == {i \in 0..NDim : i >= n => e[i] = e[n]}
  <2>1. 0 \in S
    BY <1>7
  <2>2. ASSUME NEW i \in 0..NDim - 1, i \in S
        PROVE  i + 1 \in S
    <3> DEFINE k == i + 1
    <3>1. k \in Dims /\ k \in 0..NDim /\ k - 1 = i
      BY DEF Dims
    <3> HIDE DEF k
    <3>2. CASE k > n
      <4>1. y[k] = 0 /\ i >= n
        BY <3>1, <3>2, <1>7 DEF Along
      <4>2. e[k] = e[i] + y[k] * t[k] /\ e[i] \in Nat /\ t[k] \in Nat /\ e[i] = e[n]
        BY <3>1, <1>6, <1>1, <2>2, <4>1
      <4>3. e[k] = e[n]
        BY <4>1, <4>2
      <4> QED BY <4>3, <3>1 DEF k
    <3>3. CASE ~(k > n)
      <4>1. k >= n => k = n
        BY <3>3, <3>1, <1>7
      <4> QED BY <4>1, <3>1 DEF k
    <3> QED BY <3>2, <3>3
  <2>3. \A i \in 0..NDim : i \in S
    <3> HIDE DEF S
    <3> QED BY <2>1, <2>2, CountingUp
  <2> QED BY <2>3, <1>7
<1> QED BY <1>3, <1>4, <1>8, <1>9 DEF s, t

\* Factors of a product that is 1.
LEMMA FactorsOfOne ==
    ASSUME NEW a \in Nat \ {0}, NEW b \in Nat \ {0}, a * b <= a
    PROVE  b = 1
<1> SUFFICES ASSUME b # 1 PROVE FALSE
  OBVIOUS
<1>1. PICK c \in Nat : b = c + 2
  <2>1. b - 2 \in Nat /\ b = (b - 2) + 2
    OBVIOUS
  <2> QED BY <2>1
<1>2. a * b = a * c + 2 * a /\ a * c \in Nat
  BY <1>1
<1> QED BY <1>2

LEMMA ExtentsOfOne ==
    ASSUME NEW k \in [Dims -> Nat \ {0}], Product(k) = 1
    PROVE  \A i \in Dims : k[i] = 1
<1> USE NDimAssumption
<1>1. PICK p \in [0..NDim -> Nat \ {0}] :
          /\ p[0] = 1
          /\ \A j \in Dims : p[j] = p[j - 1] * k[j]
          /\ Product(k) = p[NDim]
  BY ProductEquations
<1>2. ASSUME NEW i \in Dims, p[i] = 1
      PROVE  p[i - 1] = 1 /\ k[i] = 1
  <2>1. i - 1 \in 0..NDim
    BY DEF Dims
  <2>2. p[i - 1] \in Nat \ {0} /\ k[i] \in Nat \ {0} /\ p[i - 1] * k[i] = 1
    BY <2>1, <1>1, <1>2
  <2>3. ASSUME NEW a \in Nat \ {0}, NEW b \in Nat \ {0}, a * b = 1
        PROVE  a = 1 /\ b = 1
    <3>1. a * b <= a /\ b * a <= b
      BY <2>3
    <3>2. b = 1
      BY <3>1, FactorsOfOne
    <3>3. a = 1
      BY <3>1, FactorsOfOne
    <3> QED BY <3>2, <3>3
  <2> QED BY <2>2, <2>3
<1>3. \A i \in 0..NDim : p[i] = 1
  <2> DEFINE S == {i \in 0..NDim : p[i] = 1}
  <2>1. NDim \in S
    BY <1>1
  <2>2. ASSUME NEW i \in 1..NDim, i \in S
        PROVE  i - 1 \in S
    <3>1. i \in Dims /\ i - 1 \in 0..NDim /\ p[i] = 1
      BY <2>2 DEF Dims
    <3>2. p[i - 1] = 1
      BY <3>1, <1>2
    <3> QED BY <3>1, <3>2
  <2>3. \A i \in 0..NDim : i \in S
    <3> HIDE DEF S
    <3> QED BY <2>1, <2>2, CountingDown
  <2> QED BY <2>3
<1> QED BY <1>2, <1>3 DEF Dims

\* When a product is no larger without the extents left out, they are 1.
LEMMA DroppedAreOnes ==
    ASSUME NEW f, NEW n, Way(f, n),
           NEW g \in [Dims -> Nat \ {0}], NEW h \in [Dims -> Nat \ {0}],
           \A i \in Dims : f[i] # f[i - 1] => h[f[i]] = g[i],
           \A j \in Dims : j > n => h[j] = 1,
           Product(g) <= Product(h)
    PROVE  Along(f, n, g, h, 1)
<1> DEFINE kept == [i \in Dims |-> IF f[i] = f[i - 1] THEN 1 ELSE g[i]]
           rest == [i \in Dims |-> IF f[i] = f[i - 1] THEN g[i] ELSE 1]
<1>1. kept \in [Dims -> Nat \ {0}] /\ rest \in [Dims -> Nat \ {0}]
  OBVIOUS
<1>2. Along(f, n, kept, h, 1)
  BY DEF Along
<1>3. ASSUME NEW i \in Dims
      PROVE  kept[i] * rest[i] = g[i]
  <2>1. CASE f[i] = f[i - 1]
    BY <2>1
  <2>2. CASE f[i] # f[i - 1]
    BY <2>2
  <2> QED BY <2>1, <2>2
<1>4. \A i \in Dims : f[i] = f[i - 1] => rest[i] = g[i]
  OBVIOUS
<1> HIDE DEF kept, rest
<1>5. g = [i \in Dims |-> kept[i] * rest[i]]
  BY <1>3
<1>6. kept \in [Dims -> Nat] /\ rest \in [Dims -> Nat] /\ h \in [Dims -> Nat]
  BY <1>1
<1>7. Product(g) = Product(kept) * Product(rest)
  BY <1>5, <1>6, ProductOfProducts
<1>8. Product(kept) = Product(h)
  BY <1>2, <1>6, ProductAlong
<1>9. Product(kept) \in Nat \ {0} /\ Product(rest) \in Nat \ {0}
  BY <1>1, ProductType
<1>10. Product(rest) = 1
  <2> DEFINE a == Product(kept)
             b == Product(rest)
  <2>1. a \in Nat \ {0} /\ b \in Nat \ {0} /\ a * b <= a
    BY <1>7, <1>8, <1>9
  <2> HIDE DEF a, b
  <2>2. b = 1
    BY <2>1, FactorsOfOne
  <2> QED BY <2>2 DEF b
<1>11. \A i \in Dims : rest[i] = 1
  BY <1>1, <1>10, ExtentsOfOne
<1> QED BY <1>4, <1>11 DEF Along

-----------------------------------------------------------------------------
(* What a squeeze keeps. *)

\* The dimensions of a are those of w, but for some of extent 1; f[i] of them are among
\* the first i of w.
Drop(f, a, w) ==
    /\ Way(f, a.nd)
    /\ \A i \in w.nd..NDim : f[i] = a.nd
    /\ \A i \in Dims : f[i] # f[i - 1] => /\ a.shape[f[i]] = w.shape[i]
                                          /\ a.chunk[f[i]] = w.chunk[i]
                                          /\ a.block[f[i]] = w.block[i]
    /\ \A i \in Dims : f[i] = f[i - 1] => w.shape[i] = 1

LeftOf(a, w) == \E f : Drop(f, a, w)

\* What a description consists of.
LEMMA DescriptionType ==
    ASSUME NEW a, IsDescription(a)
    PROVE  /\ a.nd \in 0..NDim /\ a.nd \in Nat
           /\ a.shape \in [Dims -> Nat]
           /\ a.chunk \in [Dims -> Nat \ {0}] /\ a.block \in [Dims -> Nat \ {0}]
           /\ a.chunk \in [Dims -> Nat] /\ a.block \in [Dims -> Nat]
           /\ a = [nd |-> a.nd, shape |-> a.shape, chunk |-> a.chunk, block |-> a.block]
           /\ \A j \in Dims : j > a.nd => a.shape[j] = 1 /\ a.chunk[j] = 1 /\ a.block[j] = 1
           /\ \A j \in 1..a.nd : Fits(a.shape[j], 8) /\ Fits(a.chunk[j], 4) /\ Fits(a.block[j], 4)
BY NDimAssumption DEF IsDescription

\* At first nothing is left out.
LEMMA DropNone ==
    ASSUME NEW a, IsDescription(a)
    PROVE  LeftOf(a, a)
<1> USE NDimAssumption
<1> DEFINE f == [i \in 0..NDim |-> IF i <= a.nd THEN i ELSE a.nd]
<1>1. a.nd \in 0..NDim
  BY DescriptionType
<1>2. f \in [0..NDim -> 0..NDim] /\ f[0] = 0 /\ f[NDim] = a.nd
  BY <1>1
<1>3. ASSUME NEW i \in Dims
      PROVE  \/ i <= a.nd /\ f[i] = i /\ f[i - 1] = i - 1
             \/ i > a.nd /\ f[i] = a.nd /\ f[i - 1] = a.nd
  <2>1. i \in 0..NDim /\ i - 1 \in 0..NDim
    BY DEF Dims
  <2> QED BY <2>1, <1>1
<1>4. \A i \in a.nd..NDim : f[i] = a.nd
  BY <1>1
<1> HIDE DEF f
<1>5. Way(f, a.nd)
  <2>1. \A i \in Dims : f[i] = f[i - 1] + 1 \/ f[i] = f[i - 1]
    BY <1>3 DEF Dims
  <2> QED BY <2>1, <1>1, <1>2 DEF Way
<1>6. ASSUME NEW i \in Dims
      PROVE  /\ f[i] # f[i - 1] => f[i] = i
             /\ f[i] = f[i - 1] => i > a.nd
  BY <1>3 DEF Dims
<1>7. \A j \in Dims : j > a.nd => a.shape[j] = 1
  BY DescriptionType
<1>8. Drop(f, a, a)
  BY <1>4, <1>5, <1>6, <1>7 DEF Drop
<1> QED BY <1>8 DEF LeftOf

\* What is left of what was left.
LEMMA DropTwice ==
    ASSUME NEW w, IsDescription(w), NEW a, IsDescription(a), NEW b,
           LeftOf(a, w), LeftOf(b, a)
    PROVE  LeftOf(b, w)
<1> USE NDimAssumption
<1>1. PICK f : Drop(f, a, w)
  BY DEF LeftOf
<1>2. PICK g : Drop(g, b, a)
  BY DEF LeftOf
<1> DEFINE h == [i \in 0..NDim |-> g[f[i]]]
<1>3. Way(f, a.nd) /\ Way(g, b.nd) /\ a.nd \in 0..NDim
  BY <1>1, <1>2, DescriptionType DEF Drop
<1>4. /\ f \in [0..NDim -> 0..NDim] /\ f[0] = 0 /\ f[NDim] = a.nd
      /\ g \in [0..NDim -> 0..NDim] /\ g[0] = 0 /\ b.nd \in 0..NDim
  BY <1>3 DEF Way
<1>5. g[a.nd] = b.nd
  <2>1. a.nd \in a.nd..NDim
    BY <1>3
  <2> QED BY <2>1, <1>2 DEF Drop
<1>6. h \in [0..NDim -> 0..NDim] /\ h[0] = 0 /\ h[NDim] = b.nd
  <2>1. \A i \in 0..NDim : g[f[i]] \in 0..NDim
    BY <1>4
  <2>2. 0 \in 0..NDim /\ NDim \in 0..NDim
    OBVIOUS
  <2>3. h[0] = g[f[0]] /\ h[NDim] = g[f[NDim]]
    BY <2>2
  <2> QED BY <2>1, <2>3, <1>4, <1>5
<1>7. ASSUME NEW i \in Dims
      PROVE  /\ f[i] = f[i - 1] => h[i] = h[i - 1] /\ w.shape[i] = 1
             /\ f[i] # f[i - 1] =>
                   /\ f[i] \in Dims /\ f[i - 1] = f[i] - 1
                   /\ h[i] = g[f[i]] /\ h[i - 1] = g[f[i] - 1]
                   /\ a.shape[f[i]] = w.shape[i]
                   /\ a.chunk[f[i]] = w.chunk[i] /\ a.block[f[i]] = w.block[i]
  <2>1. /\ i \in 0..NDim /\ i - 1 \in 0..NDim
        /\ f[i - 1] \in 0..NDim
        /\ f[i] # f[i - 1] => f[i] = f[i - 1] + 1 /\ f[i] \in Dims
    BY <1>3, WayStep
  <2>2. h[i] = g[f[i]] /\ h[i - 1] = g[f[i - 1]]
    BY <2>1
  <2> HIDE DEF h
  <2>3. f[i] # f[i - 1] => f[i - 1] = f[i] - 1
    BY <2>1
  <2>4. /\ f[i] = f[i - 1] => w.shape[i] = 1
        /\ f[i] # f[i - 1] => /\ a.shape[f[i]] = w.shape[i]
                              /\ a.chunk[f[i]] = w.chunk[i] /\ a.block[f[i]] = w.block[i]
    BY <1>1 DEF Drop
  <2> QED BY <2>1, <2>2, <2>3, <2>4
<1>8. \A i \in w.nd..NDim : h[i] = b.nd
  <2> TAKE i \in w.nd..NDim
  <2>1. f[i] = a.nd
    BY <1>1 DEF Drop
  <2>2. i \in 0..NDim
    BY DescriptionType
  <2> QED BY <2>1, <2>2, <1>5
<1> HIDE DEF h
<1>9. ASSUME NEW i \in Dims
      PROVE  /\ h[i] = h[i - 1] + 1 \/ h[i] = h[i - 1]
             /\ h[i] # h[i - 1] => /\ b.shape[h[i]] = w.shape[i]
                                   /\ b.chunk[h[i]] = w.chunk[i]
                                   /\ b.block[h[i]] = w.block[i]
             /\ h[i] = h[i - 1] => w.shape[i] = 1
  <2>1. CASE f[i] = f[i - 1]
    BY <2>1, <1>7
  <2>2. CASE f[i] # f[i - 1]
    <3> DEFINE k == f[i]
    <3>1. /\ k \in Dims /\ h[i] = g[k] /\ h[i - 1] = g[k - 1]
          /\ a.shape[k] = w.shape[i]
          /\ a.chunk[k] = w.chunk[i] /\ a.block[k] = w.block[i]
      BY <2>2, <1>7
    <3> HIDE DEF k
    <3>2. /\ g[k] = g[k - 1] + 1 \/ g[k] = g[k - 1]
          /\ g[k] # g[k - 1] => /\ b.shape[g[k]] = a.shape[k]
                                /\ b.chunk[g[k]] = a.chunk[k]
                                /\ b.block[g[k]] = a.block[k]
          /\ g[k] = g[k - 1] => a.shape[k] = 1
      BY <3>1, <1>2, <1>3 DEF Drop, Way
    <3> QED BY <3>1, <3>2
  <2> QED BY <2>1, <2>2
<1>10. Way(h, b.nd)
  BY <1>4, <1>6, <1>9 DEF Way
<1>11. Drop(h, b, w)
  BY <1>8, <1>9, <1>10 DEF Drop
<1> QED BY <1>11 DEF LeftOf

\* The loop over the dimensions, turn by turn.
LEMMA KeptEquations ==
    ASSUME NEW n, n = handle.nd, n \in Nat, NEW index
    PROVE  \E k : /\ k \in [0..n -> Seq(1..n)]
                  /\ k[0] = << >>
                  /\ \A j \in 1..n : k[j] = IF index[j] THEN k[j - 1] ELSE Append(k[j - 1], j)
                  /\ Kept(index) = k[n]
<1> DEFINE T == Seq(1..n)
           Turn(s, j) == IF index[j] THEN s ELSE Append(s, j)
           Fix(k) == k = [j \in 0..n |-> IF j = 0 THEN << >> ELSE Turn(k[j - 1], j)]
           k == CHOOSE q : Fix(q)
           step == [x \in (1..n) \X T |-> Turn(x[2], x[1])]
<1>1. ASSUME NEW j \in 1..n, NEW s \in T
      PROVE  Turn(s, j) \in T
  <2>1. Append(s, j) \in Seq(1..n)
    OBVIOUS
  <2> QED BY <2>1
<1>2. Kept(index) = k[n]
  BY n = handle.nd DEF Kept
<1> HIDE DEF Turn
<1>3. << >> \in T /\ step \in [(1..n) \X T -> T]
  <2>1. \A x \in (1..n) \X T : Turn(x[2], x[1]) \in T
    BY <1>1
  <2> QED BY <2>1
<1>4. \A j \in 1..n, s \in T : step[<<j, s>>] = Turn(s, j)
  OBVIOUS
<1> HIDE DEF step, T
<1>5. PICK f \in [0..n -> T] :
          f[0] = << >> /\ \A j \in 1..n : f[j] = step[<<j, f[j - 1]>>]
  <2>1. \E f : Recurs(f, n, T, << >>, step)
    BY <1>3, RecursionExists
  <2> QED BY <2>1 DEF Recurs
<1>6. \A j \in 1..n : f[j] = Turn(f[j - 1], j)
  <2> TAKE j \in 1..n
  <2>1. j - 1 \in 0..n
    OBVIOUS
  <2> QED BY <2>1, <1>4, <1>5
<1>7. Fix(f)
  <2>1. \A j \in 0..n : f[j] = IF j = 0 THEN << >> ELSE Turn(f[j - 1], j)
    <3> TAKE j \in 0..n
    <3>1. j = 0 \/ j \in 1..n
      OBVIOUS
    <3> QED BY <3>1, <1>5, <1>6
  <2>2. f = [j \in 0..n |-> f[j]]
    OBVIOUS
  <2> QED BY <2>1, <2>2
<1>8. Fix(k)
  BY <1>7
<1> HIDE DEF k
<1>9. k[0] = << >> /\ \A j \in 1..n : k[j] = Turn(k[j - 1], j)
  <2>1. \A j \in 0..n : k[j] = IF j = 0 THEN << >> ELSE Turn(k[j - 1], j)
    BY <1>8
  <2> QED BY <2>1
<1>10. \A j \in 0..n : k[j] \in T
  <2> DEFINE S == {j \in 0..n : k[j] \in T}
  <2>1. 0 \in S
    BY <1>3, <1>9
  <2>2. ASSUME NEW i \in 0..n - 1, i \in S
        PROVE  i + 1 \in S
    <3>1. i + 1 \in 1..n /\ i + 1 \in 0..n /\ (i + 1) - 1 = i
      OBVIOUS
    <3>2. k[i + 1] = Turn(k[i], i + 1)
      BY <3>1, <1>9
    <3>3. Turn(k[i], i + 1) \in T
      BY <2>2, <3>1, <1>1
    <3> QED BY <3>1, <3>2, <3>3
  <2>3. \A j \in 0..n : j \in S
    <3> HIDE DEF S
    <3> QED BY <2>1, <2>2, CountingUp
  <2> QED BY <2>3
<1>11. k \in [0..n -> T]
  <2>1. k = [j \in 0..n |-> k[j]]
    BY <1>8
  <2> QED BY <2>1, <1>10
<1> QED BY <1>2, <1>9, <1>11 DEF T, Turn

\* Of the first j of n dimensions, f[j] are kept.
Counts(f, n, index) ==
    /\ f \in [0..n -> 0..n]
    /\ f[0] = 0 /\ f[n] = Len(Kept(index))
    /\ \A j \in 1..n : index[j] => f[j] = f[j - 1]
    /\ \A j \in 1..n : ~index[j] => f[j] = f[j - 1] + 1 /\ Kept(index)[f[j]] = j

\* Each dimension that is kept comes behind those kept before it.
LEMMA KeptPlaces ==
    ASSUME NEW n, n = handle.nd, n \in Nat, NEW index
    PROVE  \E f : Counts(f, n, index)
<1>1. PICK k \in [0..n -> Seq(1..n)] :
          /\ k[0] = << >>
          /\ \A j \in 1..n : k[j] = IF index[j] THEN k[j - 1] ELSE Append(k[j - 1], j)
          /\ Kept(index) = k[n]
  BY KeptEquations
<1> DEFINE f == [j \in 0..n |-> Len(k[j])]
<1>2. ASSUME NEW j \in 1..n
      PROVE  /\ j - 1 \in 0..n /\ j \in 0..n
             /\ k[j - 1] \in Seq(1..n)
             /\ Len(k[j - 1]) \in Nat
             /\ index[j] => k[j] = k[j - 1]
             /\ ~index[j] => /\ Len(k[j]) = Len(k[j - 1]) + 1
                             /\ k[j][Len(k[j])] = j
                             /\ \A l \in 1..Len(k[j - 1]) : k[j][l] = k[j - 1][l]
  <2>1. j - 1 \in 0..n /\ j \in 0..n /\ k[j - 1] \in Seq(1..n)
    <3>1. j - 1 \in 0..n /\ j \in 0..n
      OBVIOUS
    <3> QED BY <3>1
  <2>2. index[j] => k[j] = k[j - 1]
    BY <1>1
  <2>3. ~index[j] => k[j] = Append(k[j - 1], j)
    BY <1>1
  <2> DEFINE s == k[j - 1]
             t == Append(s, j)
  <2>4. s \in Seq(1..n) /\ j \in 1..n
    BY <2>1
  <2> HIDE DEF s
  <2>5. Len(s) \in Nat /\ Len(t) = Len(s) + 1 /\ t[Len(t)] = j /\ \A l \in 1..Len(s) : t[l] = s[l]
    BY <2>4
  <2> HIDE DEF t
  <2> QED BY <2>1, <2>2, <2>3, <2>5 DEF s, t
<1>3. \A j \in 0..n : Len(k[j]) \in 0..j
  <2> DEFINE S == {j \in 0..n : Len(k[j]) \in 0..j}
  <2>1. 0 \in S
    BY <1>1
  <2>2. ASSUME NEW i \in 0..n - 1, i \in S
        PROVE  i + 1 \in S
    <3> DEFINE j == i + 1
    <3>1. j \in 1..n /\ j - 1 = i
      OBVIOUS
    <3> HIDE DEF j
    <3>2. Len(k[j]) = Len(k[i]) \/ Len(k[j]) = Len(k[i]) + 1
      BY <3>1, <1>2
    <3>3. Len(k[j]) \in 0..j
      BY <3>1, <3>2, <2>2
    <3> QED BY <3>1, <3>3 DEF j
  <2>3. \A j \in 0..n : j \in S
    <3> HIDE DEF S
    <3> QED BY <2>1, <2>2, CountingUp
  <2> QED BY <2>3
<1>4. \A j \in 0..n : \A l \in 1..Len(k[j]) : k[n][l] = k[j][l]
  <2> DEFINE S == {j \in 0..n : \A l \in 1..Len(k[j]) : k[n][l] = k[j][l]}
  <2>1. n \in S
    OBVIOUS
  <2>2. ASSUME NEW j \in 1..n, j \in S
        PROVE  j - 1 \in S
    <3>1. ASSUME NEW l \in 1..Len(k[j - 1])
          PROVE  k[n][l] = k[j - 1][l]
      <4>1. CASE index[j]
        BY <4>1, <1>2, <2>2
      <4>2. CASE ~index[j]
        <5>1. l \in 1..Len(k[j]) /\ k[j][l] = k[j - 1][l]
          BY <4>2, <1>2
        <5> QED BY <5>1, <2>2
      <4> QED BY <4>1, <4>2
    <3>2. j - 1 \in 0..n
      BY <1>2
    <3> QED BY <3>1, <3>2
  <2>3. \A j \in 0..n : j \in S
    <3> HIDE DEF S
    <3> QED BY <2>1, <2>2, CountingDown
  <2> QED BY <2>3
<1>5. f \in [0..n -> 0..n]
  BY <1>3
<1>6. f[0] = 0 /\ f[n] = Len(Kept(index))
  BY <1>1
<1>7. ASSUME NEW j \in 1..n
      PROVE  /\ index[j] => f[j] = f[j - 1]
             /\ ~index[j] => f[j] = f[j - 1] + 1 /\ Kept(index)[f[j]] = j
  <2>1. f[j] = Len(k[j]) /\ f[j - 1] = Len(k[j - 1]) /\ j \in 0..n
    BY <1>2
  <2> HIDE DEF f
  <2>2. index[j] => f[j] = f[j - 1]
    BY <2>1, <1>2
  <2>3. ASSUME ~index[j]
        PROVE  f[j] = f[j - 1] + 1 /\ Kept(index)[f[j]] = j
    <3>1. Len(k[j]) = Len(k[j - 1]) + 1 /\ k[j][Len(k[j])] = j /\ Len(k[j - 1]) \in Nat
      BY <2>3, <1>2
    <3>2. Len(k[j]) \in 1..Len(k[j])
      BY <3>1
    <3>3. k[n][Len(k[j])] = k[j][Len(k[j])]
      BY <3>2, <2>1, <1>4
    <3> QED BY <3>1, <3>3, <2>1, <1>1
  <2> QED BY <2>2, <2>3
<1> HIDE DEF f
<1> QED BY <1>5, <1>6, <1>7 DEF Counts

\* A squeeze leaves the dimensions that are not dropped, when those that are have extent 1.
LEMMA SqueezedIsLeft ==
    ASSUME IsDescription(handle), NEW n, n = handle.nd, NEW index,
           \A j \in 1..n : index[j] => handle.shape[j] = 1
    PROVE  IsDescription(Squeezed(index)) /\ LeftOf(Squeezed(index), handle)
<1> USE NDimAssumption
<1> DEFINE kept == Kept(index)
           m == Len(kept)
           b == Squeezed(index)
<1>1. /\ n \in 0..NDim /\ n \in Nat
      /\ handle.shape \in [Dims -> Nat]
      /\ handle.chunk \in [Dims -> Nat \ {0}] /\ handle.block \in [Dims -> Nat \ {0}]
      /\ \A j \in Dims : j > n => handle.shape[j] = 1
      /\ \A j \in 1..n : /\ Fits(handle.shape[j], 8)
                         /\ Fits(handle.chunk[j], 4) /\ Fits(handle.block[j], 4)
  BY DescriptionType
<1>2. PICK f : /\ f \in [0..n -> 0..n]
               /\ f[0] = 0 /\ f[n] = m
               /\ \A j \in 1..n : index[j] => f[j] = f[j - 1]
               /\ \A j \in 1..n : ~index[j] => f[j] = f[j - 1] + 1 /\ kept[f[j]] = j
  <2>1. PICK f : Counts(f, n, index)
    BY <1>1, KeptPlaces
  <2> QED BY <2>1 DEF Counts
<1>3. kept \in Seq(1..n)
  <2>1. PICK k \in [0..n -> Seq(1..n)] : Kept(index) = k[n]
    BY <1>1, KeptEquations
  <2> QED BY <2>1, <1>1
<1>4. m \in 0..n /\ m \in 0..NDim
  BY <1>1, <1>2
<1>5. \A j \in 1..m : kept[j] \in 1..n /\ kept[j] \in Dims
  <2> HIDE DEF kept
  <2>1. \A j \in 1..m : kept[j] \in 1..n
    BY <1>3, ElementOfSeq
  <2> QED BY <2>1, <1>1 DEF Dims
<1>6. /\ b = [nd |-> b.nd, shape |-> b.shape, chunk |-> b.chunk, block |-> b.block]
      /\ b.nd = m
      /\ b.shape = [j \in Dims |-> IF j <= m THEN handle.shape[kept[j]] ELSE 1]
      /\ b.chunk = [j \in Dims |-> IF j <= m THEN handle.chunk[kept[j]] ELSE 1]
      /\ b.block = [j \in Dims |-> IF j <= m THEN handle.block[kept[j]] ELSE 1]
  BY DEF Squeezed
<1> HIDE DEF b, kept
<1>7. ASSUME NEW j \in Dims
      PROVE  /\ j <= m => /\ b.shape[j] = handle.shape[kept[j]]
                          /\ b.chunk[j] = handle.chunk[kept[j]]
                          /\ b.block[j] = handle.block[kept[j]]
                          /\ kept[j] \in 1..n /\ kept[j] \in Dims
             /\ j > m => b.shape[j] = 1 /\ b.chunk[j] = 1 /\ b.block[j] = 1
             /\ b.shape[j] \in Nat /\ b.chunk[j] \in Nat \ {0} /\ b.block[j] \in Nat \ {0}
  <2>1. CASE j <= m
    <3>1. j \in 1..m /\ ~(j > m)
      BY <2>1, <1>4 DEF Dims
    <3>2. kept[j] \in 1..n /\ kept[j] \in Dims
      BY <3>1, <1>5
    <3>3. /\ b.shape[j] = handle.shape[kept[j]]
          /\ b.chunk[j] = handle.chunk[kept[j]]
          /\ b.block[j] = handle.block[kept[j]]
      BY <2>1, <1>6
    <3> QED BY <3>1, <3>2, <3>3, <1>1
  <2>2. CASE ~(j <= m)
    <3>1. b.shape[j] = 1 /\ b.chunk[j] = 1 /\ b.block[j] = 1
      BY <2>2, <1>6
    <3> QED BY <3>1, <2>2
  <2> QED BY <2>1, <2>2
<1>8. IsDescription(b)
  <2>1. b.shape = [j \in Dims |-> b.shape[j]]
    BY <1>6
  <2>2. b.chunk = [j \in Dims |-> b.chunk[j]]
    BY <1>6
  <2>3. b.block = [j \in Dims |-> b.block[j]]
    BY <1>6
  <2>4. /\ b.shape \in [Dims -> Nat]
        /\ b.chunk \in [Dims -> Nat \ {0}] /\ b.block \in [Dims -> Nat \ {0}]
    BY <2>1, <2>2, <2>3, <1>7
  <2>5. b \in [nd : 0..NDim, shape : [Dims -> Nat],
               chunk : [Dims -> Nat \ {0}], block : [Dims -> Nat \ {0}]]
    <3> DEFINE s == b.shape
               c == b.chunk
               l == b.block
    <3>1. b = [nd |-> m, shape |-> s, chunk |-> c, block |-> l]
      BY <1>6
    <3>2. /\ s \in [Dims -> Nat] /\ c \in [Dims -> Nat \ {0}] /\ l \in [Dims -> Nat \ {0}]
      BY <2>4
    <3> HIDE DEF s, c, l, m
    <3> QED BY <3>1, <3>2, <1>4
  <2>6. \A j \in Dims : j > b.nd => b.shape[j] = 1 /\ b.chunk[j] = 1 /\ b.block[j] = 1
    BY <1>6, <1>7
  <2>7. ASSUME NEW j \in 1..b.nd
        PROVE  Fits(b.shape[j], 8) /\ Fits(b.chunk[j], 4) /\ Fits(b.block[j], 4)
    <3>1. j \in Dims /\ j <= m
      BY <1>4, <1>6 DEF Dims
    <3> QED BY <3>1, <1>1, <1>7
  <2> QED BY <2>5, <2>6, <2>7 DEF IsDescription
<1> DEFINE h == [i \in 0..NDim |-> IF i <= n THEN f[i] ELSE m]
<1>9. ASSUME NEW i \in Dims
      PROVE  /\ h[i] = h[i - 1] /\ handle.shape[i] = 1
             \/ /\ h[i] = h[i - 1] + 1
                /\ b.shape[h[i]] = handle.shape[i]
                /\ b.chunk[h[i]] = handle.chunk[i] /\ b.block[h[i]] = handle.block[i]
  <2>1. i \in 0..NDim /\ i - 1 \in 0..NDim
    BY DEF Dims
  <2>2. CASE i > n
    <3>1. h[i] = m /\ h[i - 1] = m
      BY <2>1, <2>2, <1>1, <1>2
    <3> QED BY <3>1, <2>2, <1>1
  <2>3. CASE ~(i > n)
    <3>1. i \in 1..n /\ i \in 0..n /\ i - 1 \in 0..n
      BY <2>3, <2>1, <1>1 DEF Dims
    <3>2. h[i] = f[i] /\ h[i - 1] = f[i - 1]
      BY <3>1, <2>1, <1>1
    <3> HIDE DEF h
    <3>3. CASE index[i]
      BY <3>1, <3>2, <3>3, <1>2
    <3>4. CASE ~index[i]
      <4>1. f[i] = f[i - 1] + 1 /\ kept[f[i]] = i
        BY <3>1, <3>4, <1>2
      <4>2. f[i] \in 0..m
        <5>1. f[i] \in 0..n /\ f[i - 1] \in 0..n
          BY <3>1, <1>2
        <5>2. \A j \in 0..n : f[j] <= m
          <6> DEFINE S == {j \in 0..n : f[j] <= m}
          <6>1. n \in S
            BY <1>1, <1>2, <1>4
          <6>2. ASSUME NEW j \in 1..n, j \in S
                PROVE  j - 1 \in S
            <7>1. j - 1 \in 0..n /\ f[j] <= m
              BY <6>2, <1>1
            <7>4. f[j - 1] \in 0..n
              BY <7>1, <1>2
            <7>2. f[j] = f[j - 1] \/ f[j] = f[j - 1] + 1
              BY <1>2
            <7>3. f[j - 1] <= m
              BY <7>1, <7>2, <7>4, <1>4
            <7> QED BY <7>1, <7>3
          <6>3. \A j \in 0..n : j \in S
            <7> HIDE DEF S
            <7> QED BY <6>1, <6>2, <1>1, CountingDown
          <6> QED BY <6>3
        <5> QED BY <5>1, <5>2, <3>1, <1>4
      <4>3. f[i] \in Dims /\ f[i] <= m
        <5>1. f[i - 1] \in 0..n
          BY <3>1, <1>2
        <5> QED BY <4>1, <4>2, <5>1, <1>4 DEF Dims
      <4> QED BY <4>1, <4>3, <3>2, <1>7
    <3> QED BY <3>3, <3>4
  <2> QED BY <2>2, <2>3
<1>10. \A i \in n..NDim : h[i] = b.nd
  <2> TAKE i \in n..NDim
  <2>1. i \in 0..NDim /\ (i <= n => i = n)
    BY <1>1
  <2> QED BY <2>1, <1>2, <1>6
<1>11. h \in [0..NDim -> 0..NDim] /\ h[0] = 0 /\ h[NDim] = b.nd
  <2>1. ASSUME NEW i \in 0..NDim
        PROVE  (IF i <= n THEN f[i] ELSE m) \in 0..NDim
    <3>1. CASE i <= n
      <4>1. i \in 0..n
        BY <3>1, <1>1
      <4>2. f[i] \in 0..n
        BY <4>1, <1>2
      <4> QED BY <3>1, <4>2, <1>1
    <3>2. CASE ~(i <= n)
      BY <3>2, <1>4
    <3> QED BY <3>1, <3>2
  <2>2. h[0] = f[0]
    BY <1>1
  <2>3. NDim \in n..NDim
    BY <1>1
  <2> QED BY <2>1, <2>2, <2>3, <1>2, <1>10
<1> HIDE DEF h
<1>12. Way(h, b.nd)
  <2>1. \A i \in Dims : h[i] = h[i - 1] + 1 \/ h[i] = h[i - 1]
    BY <1>9
  <2> QED BY <2>1, <1>4, <1>6, <1>11 DEF Way
<1>13. ASSUME NEW i \in Dims
       PROVE  /\ h[i] # h[i - 1] => /\ b.shape[h[i]] = handle.shape[i]
                                    /\ b.chunk[h[i]] = handle.chunk[i]
                                    /\ b.block[h[i]] = handle.block[i]
              /\ h[i] = h[i - 1] => handle.shape[i] = 1
  <2>1. h[i] \in 0..NDim /\ h[i - 1] \in 0..NDim
    BY <1>12, WayStep
  <2>2. h[i] = h[i - 1] => h[i] # h[i - 1] + 1
    BY <2>1
  <2> QED BY <2>2, <1>9
<1>14. Drop(h, b, handle)
  BY <1>10, <1>12, <1>13 DEF Drop
<1> QED BY <1>8, <1>14 DEF LeftOf, b

\* The loop behind Longer, dimension by dimension.
LEMMA LongerEquations ==
    ASSUME NEW a
    PROVE  \E l : /\ l[0] = << >>
                  /\ \A j \in Dims : a.shape[j] = 1 => l[j] = l[j - 1]
                  /\ \A j \in Dims : a.shape[j] # 1 =>
                        l[j] = Append(l[j - 1], <<a.shape[j], a.chunk[j], a.block[j]>>)
                  /\ Longer(a) = l[a.nd]
<1> USE NDimAssumption
<1> DEFINE Of(j) == <<a.shape[j], a.chunk[j], a.block[j]>>
           E == {Of(j) : j \in Dims}
           T == Seq(E)
           Turn(s, j) == IF a.shape[j] = 1 THEN s ELSE Append(s, Of(j))
           Fix(l) == l = [j \in 0..NDim |-> IF j = 0 THEN << >> ELSE Turn(l[j - 1], j)]
           l == CHOOSE q : Fix(q)
           step == [x \in (1..NDim) \X T |-> Turn(x[2], x[1])]
<1>1. Longer(a) = l[a.nd]
  BY DEF Longer
<1>2. ASSUME NEW j \in 1..NDim, NEW s \in T
      PROVE  Turn(s, j) \in T
  <2>1. Of(j) \in E
    BY DEF Dims
  <2> HIDE DEF Of, E
  <2>2. Append(s, Of(j)) \in Seq(E)
    BY <2>1
  <2> QED BY <2>2
<1> HIDE DEF Turn, Of, E
<1>3. << >> \in T /\ step \in [(1..NDim) \X T -> T]
  <2>1. \A x \in (1..NDim) \X T : Turn(x[2], x[1]) \in T
    BY <1>2
  <2> QED BY <2>1
<1>4. \A j \in 1..NDim, s \in T : step[<<j, s>>] = Turn(s, j)
  OBVIOUS
<1> HIDE DEF step, T
<1>5. PICK f \in [0..NDim -> T] :
          f[0] = << >> /\ \A j \in 1..NDim : f[j] = step[<<j, f[j - 1]>>]
  <2>1. NDim \in Nat
    OBVIOUS
  <2>2. \E f : Recurs(f, NDim, T, << >>, step)
    BY <2>1, <1>3, RecursionExists
  <2> QED BY <2>2 DEF Recurs
<1>6. \A j \in 1..NDim : f[j] = Turn(f[j - 1], j)
  <2> TAKE j \in 1..NDim
  <2>1. j - 1 \in 0..NDim
    OBVIOUS
  <2> QED BY <2>1, <1>4, <1>5
<1>7. Fix(f)
  <2>1. \A j \in 0..NDim : f[j] = IF j = 0 THEN << >> ELSE Turn(f[j - 1], j)
    <3> TAKE j \in 0..NDim
    <3>1. j = 0 \/ j \in 1..NDim
      OBVIOUS
    <3> QED BY <3>1, <1>5, <1>6
  <2>2. f = [j \in 0..NDim |-> f[j]]
    OBVIOUS
  <2> QED BY <2>1, <2>2
<1>8. Fix(l)
  BY <1>7
<1> HIDE DEF l
<1>9. l[0] = << >> /\ \A j \in Dims : l[j] = Turn(l[j - 1], j)
  <2>1. \A j \in 0..NDim : l[j] = IF j = 0 THEN << >> ELSE Turn(l[j - 1], j)
    BY <1>8
  <2> QED BY <2>1 DEF Dims
<1>10. ASSUME NEW j \in Dims
       PROVE  /\ a.shape[j] = 1 => l[j] = l[j - 1]
              /\ a.shape[j] # 1 => l[j] = Append(l[j - 1], Of(j))
  BY <1>9 DEF Turn
<1> QED BY <1>1, <1>9, <1>10 DEF Of

\* What has another extent than 1 is left, in its order.
LEMMA LongerAlong ==
    ASSUME NEW w, IsDescription(w), NEW a, IsDescription(a), LeftOf(a, w)
    PROVE  Longer(a) = Longer(w)
<1> USE NDimAssumption
<1>1. PICK f : Drop(f, a, w)
  BY DEF LeftOf
<1>2. PICK p : /\ p[0] = << >>
               /\ \A j \in Dims : a.shape[j] = 1 => p[j] = p[j - 1]
               /\ \A j \in Dims : a.shape[j] # 1 =>
                     p[j] = Append(p[j - 1], <<a.shape[j], a.chunk[j], a.block[j]>>)
               /\ Longer(a) = p[a.nd]
  BY LongerEquations
<1>3. PICK q : /\ q[0] = << >>
               /\ \A j \in Dims : w.shape[j] = 1 => q[j] = q[j - 1]
               /\ \A j \in Dims : w.shape[j] # 1 =>
                     q[j] = Append(q[j - 1], <<w.shape[j], w.chunk[j], w.block[j]>>)
               /\ Longer(w) = q[w.nd]
  BY LongerEquations
<1>4. Way(f, a.nd) /\ w.nd \in 0..NDim
  BY <1>1, DescriptionType DEF Drop
<1>5. \A i \in 0..NDim : q[i] = p[f[i]]
  <2> DEFINE S == {i \in 0..NDim : q[i] = p[f[i]]}
  <2>1. 0 \in S
    BY <1>2, <1>3, <1>4 DEF Way
  <2>2. ASSUME NEW i \in 0..NDim - 1, i \in S
        PROVE  i + 1 \in S
    <3> DEFINE k == i + 1
    <3>1. k \in Dims /\ k \in 0..NDim /\ k - 1 = i
      BY DEF Dims
    <3> HIDE DEF k
    <3>2. /\ f[k] \in 0..NDim /\ f[i] \in 0..NDim
          /\ f[k] # f[i] => f[k] = f[i] + 1 /\ f[k] \in Dims
      BY <3>1, <1>4, WayStep
    <3>3. q[i] = p[f[i]]
      BY <2>2
    <3>4. CASE f[k] = f[i]
      <4>1. w.shape[k] = 1
        BY <3>1, <3>4, <1>1 DEF Drop
      <4>2. q[k] = q[i]
        BY <3>1, <4>1, <1>3
      <4> QED BY <4>2, <3>4, <3>3, <3>1 DEF k
    <3>5. CASE f[k] # f[i]
      <4>1. /\ a.shape[f[k]] = w.shape[k]
            /\ a.chunk[f[k]] = w.chunk[k] /\ a.block[f[k]] = w.block[k]
        BY <3>1, <3>5, <1>1 DEF Drop
      <4>2. f[k] \in Dims /\ f[k] - 1 = f[i]
        BY <3>2, <3>5
      <4>3. q[k] = p[f[k]]
        <5>1. CASE w.shape[k] = 1
          <6>1. q[k] = q[i]
            BY <5>1, <3>1, <1>3
          <6>2. p[f[k]] = p[f[i]]
            BY <5>1, <4>1, <4>2, <1>2
          <6> QED BY <6>1, <6>2, <3>3
        <5>2. CASE w.shape[k] # 1
          <6>1. q[k] = Append(q[i], <<w.shape[k], w.chunk[k], w.block[k]>>)
            BY <5>2, <3>1, <1>3
          <6>2. p[f[k]] = Append(p[f[i]], <<a.shape[f[k]], a.chunk[f[k]], a.block[f[k]]>>)
            BY <5>2, <4>1, <4>2, <1>2
          <6> QED BY <6>1, <6>2, <3>3, <4>1
        <5> QED BY <5>1, <5>2
      <4> QED BY <4>3, <3>1 DEF k
    <3> QED BY <3>4, <3>5
  <2>3. \A i \in 0..NDim : i \in S
    <3> HIDE DEF S
    <3> QED BY <2>1, <2>2, CountingUp
  <2> QED BY <2>3
<1>6. f[w.nd] = a.nd
  <2>1. w.nd \in w.nd..NDim
    BY <1>4
  <2> QED BY <2>1, <1>1 DEF Drop
<1> QED BY <1>2, <1>3, <1>4, <1>5, <1>6

-----------------------------------------------------------------------------
(* Numbers in bytes. *)

\* A number, its quotient by 256 and the rest.
LEMMA ByteOfNumber ==
    ASSUME NEW x \in Nat
    PROVE  x \div 256 \in Nat /\ (x % 256) \in Nat /\ 256 * (x \div 256) + (x % 256) = x
OBVIOUS

\* The quotients, one after the other.
Divides(q, n, w) ==
    /\ q \in [0..w -> Nat]
    /\ q[0] = n
    /\ \A j \in 1..w : q[j] = q[j - 1] \div 256

LEMMA QuotientsEquations ==
    ASSUME NEW n \in Nat, NEW w \in Nat
    PROVE  Divides(Quotients(n, w), n, w)
<1> DEFINE Fix(q) == q = [j \in 0..w |-> IF j = 0 THEN n ELSE q[j - 1] \div 256]
           k == CHOOSE q : Fix(q)
           step == [x \in (1..w) \X Nat |-> x[2] \div 256]
<1>1. Quotients(n, w) = k
  BY DEF Quotients
<1>2. step \in [(1..w) \X Nat -> Nat] /\ \A j \in 1..w, v \in Nat : step[<<j, v>>] = v \div 256
  <2>1. \A x \in (1..w) \X Nat : x[2] \div 256 \in Nat
    <3> TAKE x \in (1..w) \X Nat
    <3>1. x[2] \in Nat
      OBVIOUS
    <3> QED BY <3>1, ByteOfNumber
  <2> QED BY <2>1
<1> HIDE DEF step
<1>3. PICK f \in [0..w -> Nat] : f[0] = n /\ \A j \in 1..w : f[j] = step[<<j, f[j - 1]>>]
  <2>1. \E f : Recurs(f, w, Nat, n, step)
    BY <1>2, RecursionExists
  <2> QED BY <2>1 DEF Recurs
<1>4. \A j \in 1..w : f[j] = f[j - 1] \div 256
  <2> TAKE j \in 1..w
  <2>1. j - 1 \in 0..w
    OBVIOUS
  <2>2. f[j - 1] \in Nat
    BY <2>1
  <2> QED BY <2>2, <1>2, <1>3
<1>5. Fix(f)
  <2>1. \A j \in 0..w : f[j] = IF j = 0 THEN n ELSE f[j - 1] \div 256
    <3> TAKE j \in 0..w
    <3>1. j = 0 \/ j \in 1..w
      OBVIOUS
    <3> QED BY <3>1, <1>3, <1>4
  <2>2. f = [j \in 0..w |-> f[j]]
    OBVIOUS
  <2> QED BY <2>1, <2>2
<1>6. Fix(k)
  BY <1>5
<1> HIDE DEF k
<1>7. k[0] = n /\ \A j \in 1..w : k[j] = k[j - 1] \div 256
  <2>1. \A j \in 0..w : k[j] = IF j = 0 THEN n ELSE k[j - 1] \div 256
    BY <1>6
  <2> QED BY <2>1
<1>8. \A j \in 0..w : k[j] \in Nat
  <2> DEFINE S == {j \in 0..w : k[j] \in Nat}
  <2>1. 0 \in S
    BY <1>7
  <2>2. ASSUME NEW i \in 0..w - 1, i \in S
        PROVE  i + 1 \in S
    <3>1. i + 1 \in 1..w /\ i + 1 \in 0..w /\ (i + 1) - 1 = i
      OBVIOUS
    <3>2. k[i + 1] = k[i] \div 256 /\ k[i] \in Nat
      BY <3>1, <2>2, <1>7
    <3>3. k[i] \div 256 \in Nat
      BY <3>2, ByteOfNumber
    <3> QED BY <3>1, <3>2, <3>3
  <2>3. \A j \in 0..w : j \in S
    <3> HIDE DEF S
    <3> QED BY <2>1, <2>2, CountingUp
  <2> QED BY <2>3
<1>9. k \in [0..w -> Nat]
  <2>1. k = [j \in 0..w |-> k[j]]
    BY <1>6
  <2> QED BY <2>1, <1>8
<1> QED BY <1>1, <1>7, <1>9 DEF Divides

\* The bytes of a number.
LEMMA BytesType ==
    ASSUME NEW n \in Nat, NEW w \in Nat
    PROVE  /\ Bytes(n, w) \in [1..w -> Nat]
           /\ \A i \in 1..w : Bytes(n, w)[i] = (Quotients(n, w)[w - i] % 256)
<1>1. ASSUME NEW i \in 1..w
      PROVE  (Quotients(n, w)[w - i] % 256) \in Nat
  <2>1. w - i \in 0..w
    OBVIOUS
  <2>2. Quotients(n, w)[w - i] \in Nat
    BY <2>1, QuotientsEquations DEF Divides
  <2> QED BY <2>2, ByteOfNumber
<1> QED BY <1>1 DEF Bytes

\* Reading bytes one after the other.
LEMMA FromBytesEquations ==
    ASSUME NEW b \in Seq(Nat)
    PROVE  \E v : /\ v[0] = 0
                  /\ \A j \in 1..Len(b) : v[j] = 256 * v[j - 1] + b[j]
                  /\ FromBytes(b) = v[Len(b)]
<1> DEFINE n == Len(b)
           Fix(v) == v = [j \in 0..Len(b) |-> IF j = 0 THEN 0 ELSE 256 * v[j - 1] + b[j]]
           k == CHOOSE v : Fix(v)
           step == [x \in (1..n) \X Nat |-> 256 * x[2] + b[x[1]]]
<1>1. FromBytes(b) = k[Len(b)]
  BY DEF FromBytes
<1>2. /\ step \in [(1..n) \X Nat -> Nat]
      /\ \A j \in 1..n, v \in Nat : step[<<j, v>>] = 256 * v + b[j]
  <2>1. \A x \in (1..n) \X Nat : 256 * x[2] + b[x[1]] \in Nat
    <3> TAKE x \in (1..n) \X Nat
    <3>1. x[2] \in Nat /\ b[x[1]] \in Nat
      BY ElementOfSeq
    <3> QED BY <3>1
  <2> QED BY <2>1
<1>3. n \in Nat
  BY LenProperties
<1> HIDE DEF step
<1>4. PICK f \in [0..n -> Nat] : f[0] = 0 /\ \A j \in 1..n : f[j] = step[<<j, f[j - 1]>>]
  <2>1. \E f : Recurs(f, n, Nat, 0, step)
    <3> HIDE DEF n
    <3> QED BY <1>2, <1>3, RecursionExists
  <2> QED BY <2>1 DEF Recurs
<1> HIDE DEF n
<1>5. \A j \in 1..n : f[j] = 256 * f[j - 1] + b[j]
  <2> TAKE j \in 1..n
  <2>1. j - 1 \in 0..n
    BY <1>3
  <2>2. f[j - 1] \in Nat
    BY <2>1
  <2> QED BY <2>2, <1>2, <1>4
<1>6. Fix(f)
  <2>1. \A j \in 0..n : f[j] = IF j = 0 THEN 0 ELSE 256 * f[j - 1] + b[j]
    <3> TAKE j \in 0..n
    <3>1. j = 0 \/ j \in 1..n
      BY <1>3
    <3> QED BY <3>1, <1>4, <1>5
  <2>2. f = [j \in 0..n |-> f[j]]
    OBVIOUS
  <2> QED BY <2>1, <2>2 DEF n
<1>7. Fix(k)
  BY <1>6
<1> HIDE DEF k
<1>8. k[0] = 0 /\ \A j \in 1..Len(b) : k[j] = 256 * k[j - 1] + b[j]
  <2>1. \A j \in 0..Len(b) : k[j] = IF j = 0 THEN 0 ELSE 256 * k[j - 1] + b[j]
    BY <1>7
  <2>2. Len(b) \in Nat
    BY <1>3 DEF n
  <2> QED BY <2>1, <2>2
<1> QED BY <1>1, <1>8

\* A number that goes into its bytes is read back from them.
LEMMA BytesReadBack ==
    ASSUME NEW n \in Nat, NEW w \in Nat, Fits(n, w),
           NEW b \in Seq(Nat), Len(b) = w, \A i \in 1..w : b[i] = Bytes(n, w)[i]
    PROVE  FromBytes(b) = n
<1> DEFINE q == Quotients(n, w)
<1>1. q \in [0..w -> Nat] /\ q[0] = n /\ \A j \in 1..w : q[j] = q[j - 1] \div 256
  <2>1. Divides(q, n, w)
    BY QuotientsEquations
  <2> QED BY <2>1 DEF Divides
<1>2. q[w] = 0
  BY DEF Fits
<1>3. \A i \in 1..w : b[i] = (q[w - i] % 256)
  BY BytesType
<1> HIDE DEF q
<1>4. PICK v : /\ v[0] = 0
               /\ \A j \in 1..Len(b) : v[j] = 256 * v[j - 1] + b[j]
               /\ FromBytes(b) = v[Len(b)]
  BY FromBytesEquations
<1> DEFINE S == {i \in 0..w : v[i] = q[w - i]}
<1>5. 0 \in S
  BY <1>2, <1>4
<1>6. ASSUME NEW i \in 0..w - 1, i \in S
      PROVE  i + 1 \in S
  <2> DEFINE k == w - (i + 1)
  <2>1. k \in 0..w /\ k + 1 \in 1..w /\ w - i = k + 1 /\ i + 1 \in 1..w /\ i + 1 \in 0..w
        /\ (i + 1) - 1 = i /\ (k + 1) - 1 = k
    OBVIOUS
  <2>2. v[i + 1] = 256 * v[i] + b[i + 1] /\ v[i] = q[k + 1] /\ b[i + 1] = (q[k] % 256)
    BY <2>1, <1>3, <1>4, <1>6
  <2>3. q[k + 1] = q[k] \div 256 /\ q[k] \in Nat
    BY <2>1, <1>1
  <2> HIDE DEF k
  <2>4. v[i + 1] = q[k]
    BY <2>2, <2>3, ByteOfNumber
  <2> QED BY <2>1, <2>4 DEF k
<1>7. \A i \in 0..w : i \in S
  <2> HIDE DEF S
  <2> QED BY <1>5, <1>6, CountingUp
<1>8. v[w] = q[0]
  <2>1. w \in 0..w /\ w - w = 0
    OBVIOUS
  <2> QED BY <2>1, <1>7
<1> QED BY <1>1, <1>4, <1>8

-----------------------------------------------------------------------------
(* The metalayer. *)

\* Where the bytes of a number are in a section.
LEMMA BytePlace ==
    ASSUME NEW w \in {4, 8}, NEW n \in Nat
    PROVE  /\ n * (1 + w) \in Nat
           /\ \A i \in 1..n * (1 + w) :
                 /\ 1 + (i - 1) \div (1 + w) \in 1..n
                 /\ i % (1 + w) # 1 => ((i - 1) % (1 + w)) \in 1..w
           /\ \A j \in 1..n, t \in 1..w :
                 LET i == 1 + (j - 1) * (1 + w) + t
                 IN  /\ i \in 1..n * (1 + w)
                     /\ i % (1 + w) # 1
                     /\ 1 + (i - 1) \div (1 + w) = j
                     /\ ((i - 1) % (1 + w)) = t
<1>1. CASE w = 4
  <2>1. n * 5 \in Nat
    OBVIOUS
  <2>2. \A i \in 1..n * 5 : /\ 1 + (i - 1) \div 5 \in 1..n
                            /\ i % 5 # 1 => ((i - 1) % 5) \in 1..4
    OBVIOUS
  <2>3. \A j \in 1..n, t \in 1..4 :
           LET i == 1 + (j - 1) * 5 + t
           IN  /\ i \in 1..n * 5
               /\ i % 5 # 1
               /\ 1 + (i - 1) \div 5 = j
               /\ ((i - 1) % 5) = t
    OBVIOUS
  <2>4. 1 + w = 5
    BY <1>1
  <2> QED BY <2>1, <2>2, <2>3, <2>4, <1>1
<1>2. CASE w = 8
  <2>1. n * 9 \in Nat
    OBVIOUS
  <2>2. \A i \in 1..n * 9 : /\ 1 + (i - 1) \div 9 \in 1..n
                            /\ i % 9 # 1 => ((i - 1) % 9) \in 1..8
    OBVIOUS
  <2>3. \A j \in 1..n, t \in 1..8 :
           LET i == 1 + (j - 1) * 9 + t
           IN  /\ i \in 1..n * 9
               /\ i % 9 # 1
               /\ 1 + (i - 1) \div 9 = j
               /\ ((i - 1) % 9) = t
    OBVIOUS
  <2>4. 1 + w = 9
    BY <1>2
  <2> QED BY <2>1, <2>2, <2>3, <2>4, <1>2
<1> QED BY <1>1, <1>2

\* A section has the bytes of its numbers one after the other, each behind its marker.
LEMMA SectionFacts ==
    ASSUME NEW w \in {4, 8}, NEW n \in 0..NDim, NEW dims \in [Dims -> Nat], NEW marker \in Nat
    PROVE  /\ Section(dims, n, marker, w) \in Seq(Nat)
           /\ Len(Section(dims, n, marker, w)) = 1 + n * (1 + w)
           /\ \A j \in 1..n, t \in 1..w :
                 Section(dims, n, marker, w)[2 + (j - 1) * (1 + w) + t] = Bytes(dims[j], w)[t]
<1> USE NDimAssumption
<1> DEFINE m == n * (1 + w)
           Byte(i) == IF i % (1 + w) = 1 THEN marker
                      ELSE Bytes(dims[1 + (i - 1) \div (1 + w)], w)[(i - 1) % (1 + w)]
           F == [i \in 1..m |-> Byte(i)]
           one == <<144 + n>>
<1>1. Section(dims, n, marker, w) = one \o F
  BY DEF Section
<1>2. n \in Nat /\ w \in Nat /\ m \in Nat
  <2>1. n \in Nat /\ w \in Nat
    OBVIOUS
  <2> QED BY <2>1, BytePlace
<1>3. \A i \in 1..m : Byte(i) \in Nat
  <2> TAKE i \in 1..m
  <2> DEFINE j == 1 + (i - 1) \div (1 + w)
             t == (i - 1) % (1 + w)
  <2>1. j \in 1..n /\ (i % (1 + w) # 1 => t \in 1..w)
    BY <1>2, BytePlace
  <2>2. CASE i % (1 + w) = 1
    BY <2>2
  <2>3. CASE i % (1 + w) # 1
    <3>1. Byte(i) = Bytes(dims[j], w)[t]
      BY <2>3
    <3>2. t \in 1..w
      BY <2>1, <2>3
    <3> HIDE DEF Byte, j, t
    <3>3. j \in Dims
      BY <2>1, <1>2 DEF Dims
    <3>4. dims[j] \in Nat
      BY <3>3
    <3>5. Bytes(dims[j], w) \in [1..w -> Nat]
      BY <3>4, <1>2, BytesType
    <3> QED BY <3>1, <3>2, <3>5
  <2> QED BY <2>2, <2>3
<1> HIDE DEF m
<1>4. F \in Seq(Nat) /\ Len(F) = m /\ \A i \in 1..m : F[i] = Byte(i)
  <2> HIDE DEF Byte
  <2>1. F \in [1..m -> Nat]
    BY <1>3
  <2>2. \A i \in 1..m : F[i] = Byte(i)
    OBVIOUS
  <2> HIDE DEF F
  <2> QED BY <2>1, <2>2, <1>2
<1>5. one \in Seq(Nat) /\ Len(one) = 1
  BY <1>2
<1> HIDE DEF F, one
<1>6. /\ one \o F \in Seq(Nat) /\ Len(one \o F) = 1 + m
      /\ \A i \in 1..m : (one \o F)[1 + i] = F[i]
  <2>1. /\ one \o F \in Seq(Nat) /\ Len(one \o F) = Len(one) + Len(F)
        /\ \A i \in 1..Len(one) + Len(F) :
              (one \o F)[i] = IF i <= Len(one) THEN one[i] ELSE F[i - Len(one)]
    BY <1>4, <1>5, ConcatProperties
  <2>2. \A i \in 1..m : (one \o F)[1 + i] = F[i]
    <3> TAKE i \in 1..m
    <3>1. 1 + i \in 1..1 + m /\ ~(1 + i <= 1) /\ (1 + i) - 1 = i
      BY <1>2
    <3> QED BY <3>1, <2>1, <1>4, <1>5
  <2> QED BY <2>1, <2>2, <1>4, <1>5
<1>7. ASSUME NEW j \in 1..n, NEW t \in 1..w
      PROVE  (one \o F)[2 + (j - 1) * (1 + w) + t] = Bytes(dims[j], w)[t]
  <2> DEFINE i == 1 + (j - 1) * (1 + w) + t
  <2>1. /\ i \in 1..m
        /\ i % (1 + w) # 1
        /\ 1 + (i - 1) \div (1 + w) = j
        /\ ((i - 1) % (1 + w)) = t
    BY <1>2, BytePlace DEF m
  <2>2. 2 + (j - 1) * (1 + w) + t = 1 + i
    BY <1>2
  <2> HIDE DEF i
  <2>3. Byte(i) = Bytes(dims[j], w)[t]
    BY <2>1
  <2> HIDE DEF Byte
  <2> QED BY <2>1, <2>2, <2>3, <1>4, <1>6
<1> QED BY <1>1, <1>6, <1>7 DEF m

\* b has s behind its first "at" bytes.
Has(b, at, s) == at + Len(s) <= Len(b) /\ \A i \in 1..Len(s) : b[at + i] = s[i]

\* What is appended to bytes is behind them, and moves none.
LEMMA HasAppended ==
    ASSUME NEW s \in Seq(Nat), NEW t \in Seq(Nat)
    PROVE  /\ s \o t \in Seq(Nat) /\ Len(s \o t) = Len(s) + Len(t)
           /\ Len(s) \in Nat /\ Len(t) \in Nat
           /\ Has(s \o t, Len(s), t)
           /\ \A at \in Nat, u \in Seq(Nat) : Has(s, at, u) => Has(s \o t, at, u)
<1> DEFINE b == s \o t
<1>1. /\ b \in Seq(Nat) /\ Len(b) = Len(s) + Len(t)
      /\ \A i \in 1..Len(s) + Len(t) : b[i] = IF i <= Len(s) THEN s[i] ELSE t[i - Len(s)]
  BY ConcatProperties
<1>2. Len(s) \in Nat /\ Len(t) \in Nat
  BY LenProperties
<1> HIDE DEF b
<1>3. Has(b, Len(s), t)
  <2>1. ASSUME NEW i \in 1..Len(t)
        PROVE  b[Len(s) + i] = t[i]
    <3>1. Len(s) + i \in 1..Len(s) + Len(t) /\ ~(Len(s) + i <= Len(s)) /\ (Len(s) + i) - Len(s) = i
      BY <1>2
    <3> QED BY <3>1, <1>1
  <2> QED BY <2>1, <1>1, <1>2 DEF Has
<1>4. ASSUME NEW at \in Nat, NEW u \in Seq(Nat), Has(s, at, u)
      PROVE  Has(b, at, u)
  <2>1. Len(u) \in Nat /\ at + Len(u) <= Len(s)
    BY <1>4, LenProperties DEF Has
  <2>2. ASSUME NEW i \in 1..Len(u)
        PROVE  b[at + i] = u[i]
    <3>1. at + i \in 1..Len(s) + Len(t) /\ at + i <= Len(s)
      BY <2>1, <1>2
    <3> QED BY <3>1, <1>1, <1>4 DEF Has
  <2> QED BY <2>1, <2>2, <1>1, <1>2 DEF Has
<1> QED BY <1>1, <1>2, <1>3, <1>4 DEF b

\* The first n of these extents go into w bytes, and the others are 1.
Writable(dims, n, w) ==
    /\ n \in 0..NDim /\ dims \in [Dims -> Nat]
    /\ \A j \in 1..n : Fits(dims[j], w)
    /\ \A j \in Dims : j > n => dims[j] = 1

\* The extents in a section are read back.
LEMMA ExtentsFacts ==
    ASSUME NEW w \in {4, 8}, NEW dims, NEW n, Writable(dims, n, w), NEW marker \in Nat,
           NEW b \in Seq(Nat), NEW at \in Nat, Has(b, at, Section(dims, n, marker, w))
    PROVE  Extents(b, at, n, w) = dims
<1> USE NDimAssumption
<1> DEFINE s == Section(dims, n, marker, w)
           place(j) == at + 2 + (j - 1) * (1 + w)
           part(j) == SubSeq(b, place(j) + 1, place(j) + w)
<1>0. /\ n \in 0..NDim /\ dims \in [Dims -> Nat]
      /\ \A j \in 1..n : Fits(dims[j], w)
      /\ \A j \in Dims : j > n => dims[j] = 1
  BY DEF Writable
<1>1. /\ s \in Seq(Nat) /\ Len(s) = 1 + n * (1 + w)
      /\ \A j \in 1..n, t \in 1..w : s[2 + (j - 1) * (1 + w) + t] = Bytes(dims[j], w)[t]
  BY <1>0, SectionFacts
<1>2. /\ at + Len(s) <= Len(b) /\ Len(b) \in Nat
      /\ \A i \in 1..Len(s) : b[at + i] = s[i]
  BY LenProperties DEF Has
<1> HIDE DEF s
<1>3. ASSUME NEW j \in 1..n
      PROVE  FromBytes(part(j)) = dims[j]
  <2>1. place(j) \in Nat /\ w \in Nat /\ place(j) = at + (2 + (j - 1) * (1 + w))
    <3>1. CASE w = 4
      BY <3>1, <1>0
    <3>2. CASE w = 8
      BY <3>2, <1>0
    <3> QED BY <3>1, <3>2
  <2>2. ASSUME NEW t \in 1..w
        PROVE  /\ place(j) + t \in 1..Len(b)
               /\ b[place(j) + t] = Bytes(dims[j], w)[t]
    <3> DEFINE i == 2 + (j - 1) * (1 + w) + t
    <3>1. i \in 1..1 + n * (1 + w) /\ place(j) + t = at + i
      <4>1. CASE w = 4
        BY <4>1, <1>0
      <4>2. CASE w = 8
        BY <4>2, <1>0
      <4> QED BY <4>1, <4>2
    <3>2. s[i] = Bytes(dims[j], w)[t]
      BY <1>1
    <3> HIDE DEF i, place
    <3>3. at + i \in 1..Len(b)
      BY <3>1, <1>1, <1>2
    <3> QED BY <3>1, <3>2, <3>3, <1>1, <1>2
  <2> HIDE DEF place
  <2>3. \A k \in place(j) + 1..place(j) + w : b[k] \in Nat
    <3> TAKE k \in place(j) + 1..place(j) + w
    <3> DEFINE t == k - place(j)
    <3>1. t \in 1..w /\ place(j) + t = k
      BY <2>1
    <3> HIDE DEF t
    <3>2. k \in 1..Len(b)
      BY <3>1, <2>2
    <3> QED BY <3>2, ElementOfSeq
  <2>4. /\ part(j) \in Seq(Nat) /\ Len(part(j)) = w
        /\ \A t \in 1..w : part(j)[t] = b[place(j) + t]
    <3>1. /\ place(j) + 1 \in Int /\ place(j) + w \in Int /\ place(j) + 1 <= place(j) + w
          /\ (place(j) + w) - (place(j) + 1) + 1 = w
      BY <2>1
    <3> DEFINE lo == place(j) + 1
               hi == place(j) + w
    <3>2. \A t \in 1..w : lo + t - 1 = place(j) + t
      BY <2>1
    <3>3. lo \in Int /\ hi \in Int /\ lo <= hi /\ hi - lo + 1 = w /\ \A k \in lo..hi : b[k] \in Nat
      BY <3>1, <2>3
    <3> HIDE DEF lo, hi
    <3>4. /\ SubSeq(b, lo, hi) \in Seq(Nat)
          /\ Len(SubSeq(b, lo, hi)) = IF lo <= hi THEN hi - lo + 1 ELSE 0
          /\ \A i \in 1..hi - lo + 1 : SubSeq(b, lo, hi)[i] = b[lo + i - 1]
      BY <3>3, SubSeqProperties
    <3>5. part(j) = SubSeq(b, lo, hi)
      BY DEF lo, hi
    <3> HIDE DEF part
    <3> QED BY <3>2, <3>3, <3>4, <3>5
  <2> HIDE DEF part
  <2>5. j \in Dims
    BY <1>0 DEF Dims
  <2>6. dims[j] \in Nat /\ Fits(dims[j], w)
    BY <2>5, <1>0
  <2>7. \A i \in 1..w : part(j)[i] = Bytes(dims[j], w)[i]
    BY <2>2, <2>4
  <2> QED BY <2>1, <2>4, <2>6, <2>7, BytesReadBack
<1>4. Extents(b, at, n, w) = [j \in Dims |-> IF j > n THEN 1 ELSE FromBytes(part(j))]
  BY DEF Extents
<1> HIDE DEF part
<1>5. ASSUME NEW j \in Dims
      PROVE  (IF j > n THEN 1 ELSE FromBytes(part(j))) = dims[j]
  <2>1. ~(j > n) => j \in 1..n
    BY <1>0 DEF Dims
  <2> QED BY <2>1, <1>0, <1>3
<1>6. [j \in Dims |-> IF j > n THEN 1 ELSE FromBytes(part(j))] = [j \in Dims |-> dims[j]]
  BY <1>5
<1> QED BY <1>0, <1>4, <1>6

\* What is written is read back, whatever is behind it.
LEMMA ReadsBack ==
    ASSUME NEW a, IsDescription(a), NEW rest \in Seq(Nat)
    PROVE  /\ Serialize(a) \in Seq(Nat)
           /\ Serialize(a) \o rest \in Seq(Nat)
           /\ Deserialize(Serialize(a) \o rest) = a
<1> DEFINE n == a.nd
           head == <<149, 0, n>>
           s1 == Section(a.shape, n, 211, 8)
           s2 == Section(a.chunk, n, 210, 4)
           s3 == Section(a.block, n, 210, 4)
           b1 == head \o s1
           b2 == b1 \o s2
           b3 == b2 \o s3
           b == b3 \o rest
<1>1. /\ n \in 0..NDim /\ n \in Nat
      /\ a.shape \in [Dims -> Nat] /\ a.chunk \in [Dims -> Nat] /\ a.block \in [Dims -> Nat]
      /\ a = [nd |-> n, shape |-> a.shape, chunk |-> a.chunk, block |-> a.block]
      /\ \A j \in Dims : j > n => a.shape[j] = 1 /\ a.chunk[j] = 1 /\ a.block[j] = 1
      /\ \A j \in 1..n : Fits(a.shape[j], 8) /\ Fits(a.chunk[j], 4) /\ Fits(a.block[j], 4)
  BY DescriptionType
<1>2. Serialize(a) = b3
  BY DEF Serialize
<1>3. head \in Seq(Nat) /\ Len(head) = 3 /\ head[3] = n
  BY <1>1
<1>4. 4 \in {4, 8} /\ 8 \in {4, 8} /\ 210 \in Nat /\ 211 \in Nat
  OBVIOUS
<1>5. s1 \in Seq(Nat) /\ Len(s1) = 1 + n * (1 + 8)
  BY <1>1, <1>4, SectionFacts
<1>6. s2 \in Seq(Nat) /\ Len(s2) = 1 + n * (1 + 4)
  BY <1>1, <1>4, SectionFacts
<1>7. s3 \in Seq(Nat)
  BY <1>1, <1>4, SectionFacts
<1> HIDE DEF head, s1, s2, s3
<1>8. /\ b1 \in Seq(Nat) /\ Len(b1) = 3 + Len(s1) /\ Has(b1, 3, s1)
      /\ Has(head, 0, head) => Has(b1, 0, head)
  BY <1>3, <1>5, HasAppended
<1> HIDE DEF b1
<1>9. /\ b2 \in Seq(Nat) /\ Len(b2) = Len(b1) + Len(s2) /\ Has(b2, Len(b1), s2)
      /\ Len(b1) \in Nat
      /\ \A at \in Nat, u \in Seq(Nat) : Has(b1, at, u) => Has(b2, at, u)
  BY <1>6, <1>8, HasAppended
<1> HIDE DEF b2
<1>10. /\ b3 \in Seq(Nat) /\ Has(b3, Len(b2), s3) /\ Len(b2) \in Nat
       /\ \A at \in Nat, u \in Seq(Nat) : Has(b2, at, u) => Has(b3, at, u)
  BY <1>7, <1>9, HasAppended
<1> HIDE DEF b3
<1>11. /\ b \in Seq(Nat)
       /\ \A at \in Nat, u \in Seq(Nat) : Has(b3, at, u) => Has(b, at, u)
  BY <1>10, HasAppended
<1> HIDE DEF b
<1>12. Has(head, 0, head)
  <2>1. \A i \in 1..3 : 0 + i = i
    OBVIOUS
  <2> QED BY <2>1, <1>3 DEF Has
<1>13. Has(b, 0, head) /\ Has(b, 3, s1) /\ Has(b, Len(b1), s2) /\ Has(b, Len(b2), s3)
  BY <1>3, <1>5, <1>6, <1>7, <1>8, <1>9, <1>10, <1>11, <1>12
<1>14. b[3] = n
  <2>1. 3 \in 1..Len(head) /\ 0 + 3 = 3
    BY <1>3
  <2>2. b[0 + 3] = head[3]
    BY <2>1, <1>13 DEF Has
  <2> QED BY <2>1, <2>2, <1>3
<1>15. Len(b1) = 3 + (1 + n * 9) /\ Len(b2) = 3 + (1 + n * 9) + 1 + n * 5
  BY <1>1, <1>5, <1>6, <1>8, <1>9
<1>16. Extents(b, 3, n, 8) = a.shape
  <2> DEFINE dims == a.shape
             at == 3
  <2>1. Has(b, at, Section(dims, n, 211, 8))
    BY <1>13 DEF s1
  <2>2. Writable(dims, n, 8)
    BY <1>1 DEF Writable
  <2>3. b \in Seq(Nat) /\ at \in Nat
    BY <1>11
  <2> HIDE DEF n, dims, at
  <2>4. Extents(b, at, n, 8) = dims
    BY <2>1, <2>2, <2>3, <1>4, ExtentsFacts
  <2> QED BY <2>4 DEF dims, at
<1>17. Extents(b, Len(b1), n, 4) = a.chunk
  <2> DEFINE dims == a.chunk
             at == Len(b1)
  <2>1. Has(b, at, Section(dims, n, 210, 4))
    BY <1>13 DEF s2
  <2>2. Writable(dims, n, 4)
    BY <1>1 DEF Writable
  <2>3. b \in Seq(Nat) /\ at \in Nat
    BY <1>11, <1>9
  <2> HIDE DEF n, dims, at
  <2>4. Extents(b, at, n, 4) = dims
    BY <2>1, <2>2, <2>3, <1>4, ExtentsFacts
  <2> QED BY <2>4 DEF dims, at
<1>18. Extents(b, Len(b2), n, 4) = a.block
  <2> DEFINE dims == a.block
             at == Len(b2)
  <2>1. Has(b, at, Section(dims, n, 210, 4))
    BY <1>13 DEF s3
  <2>2. Writable(dims, n, 4)
    BY <1>1 DEF Writable
  <2>3. b \in Seq(Nat) /\ at \in Nat
    BY <1>11, <1>10
  <2> HIDE DEF n, dims, at
  <2>4. Extents(b, at, n, 4) = dims
    BY <2>1, <2>2, <2>3, <1>4, ExtentsFacts
  <2> QED BY <2>4 DEF dims, at
<1>19. Deserialize(b) = [nd |-> n, shape |-> Extents(b, 3, n, 8),
                         chunk |-> Extents(b, 3 + (1 + n * 9), n, 4),
                         block |-> Extents(b, 3 + (1 + n * 9) + 1 + n * 5, n, 4)]
  BY <1>14 DEF Deserialize
<1>20. Deserialize(b) = a
  BY <1>1, <1>15, <1>16, <1>17, <1>18, <1>19
<1> QED BY <1>2, <1>10, <1>11, <1>20 DEF b

-----------------------------------------------------------------------------
(* The stored chunks. *)

\* A row of an array of rows ends before the next one begins.
LEMMA RowEnds ==
    ASSUME NEW c \in Nat, NEW k \in 0..c - 1, NEW m \in Nat \ {0}, NEW r \in 0..m - 1
    PROVE  k * m + r \in 0..c * m - 1
<1>1. PICK d \in Nat : c = k + 1 + d
  <2>1. c - k - 1 \in Nat /\ c = k + 1 + (c - k - 1)
    OBVIOUS
  <2> QED BY <2>1
<1>2. c * m = k * m + m + d * m /\ d * m \in Nat /\ k * m \in Nat
  BY <1>1
<1> QED BY <1>2

\* A padded chunk has as many items as its blocks.
LEMMA PaddedProduct ==
    ASSUME NEW s \in [Dims -> Nat], NEW part \in [Dims -> Nat \ {0}]
    PROVE  /\ Padded(s, part) \in [Dims -> Nat]
           /\ Product(Padded(s, part)) = ChunkCount(s, part) * Product(part)
<1> DEFINE grid == ChunkGrid(s, part)
           ext == Padded(s, part)
<1>1. ASSUME NEW j \in Dims
      PROVE  ext[j] \in Nat /\ ext[j] = grid[j] * part[j]
  <2>1. s[j] \in Nat /\ part[j] \in Nat \ {0} /\ 0 \in Nat
    OBVIOUS
  <2>2. /\ RoundUp(s[j], part[j]) = (RoundUp(s[j], part[j]) \div part[j]) * part[j]
        /\ RoundUp(s[j], part[j]) \in Nat
    <3> DEFINE t == s[j]
               m == part[j]
    <3>1. t \in Nat /\ m \in Nat \ {0} /\ 0 \in Nat
      BY <2>1
    <3> HIDE DEF t, m
    <3>2. RoundUp(t, m) = (RoundUp(t, m) \div m) * m /\ RoundUp(t, m) \in Nat
      BY <3>1, GridBound, RoundUpBounds
    <3> QED BY <3>2 DEF t, m
  <2>3. ext[j] = RoundUp(s[j], part[j]) /\ grid[j] = RoundUp(s[j], part[j]) \div part[j]
    BY DEF Padded, ChunkGrid
  <2> QED BY <2>2, <2>3
<1>2. grid \in [Dims -> Nat]
  BY ChunkGridFacts
<1>3. ext = [j \in Dims |-> ext[j]]
  BY DEF Padded
<1> HIDE DEF ext, grid
<1>4. ext = [j \in Dims |-> grid[j] * part[j]]
  BY <1>1, <1>3
<1>5. ext \in [Dims -> Nat]
  BY <1>1, <1>3
<1>6. part \in [Dims -> Nat]
  OBVIOUS
<1>7. Product(ext) = Product(grid) * Product(part)
  BY <1>2, <1>4, <1>6, ProductOfProducts
<1>8. Product(grid) = ChunkCount(s, part)
  BY ChunkCountIsProduct DEF grid
<1> QED BY <1>5, <1>7, <1>8 DEF ext

\* The place of an item in its chunk lies in the chunk, and what is there is that item.
LEMMA PlaceFacts ==
    ASSUME NEW a, IsDescription(a), NEW c \in [Dims -> Nat]
    PROVE  /\ Place(a, c) \in 0..ChunkItems(a) - 1
           /\ At(a, Place(a, c)) = [j \in Dims |-> c[j] % a.chunk[j]]
<1> DEFINE chunk == a.chunk
           block == a.block
           p == [j \in Dims |-> c[j] % chunk[j]]
           q == [j \in Dims |-> p[j] % block[j]]
           m == Product(block)
           k == ChunkHolding(chunk, block, p)
           r == MultidimToUnidim(q, Strides(block))
<1>1. /\ chunk \in [Dims -> Nat \ {0}] /\ chunk \in [Dims -> Nat]
      /\ block \in [Dims -> Nat \ {0}] /\ block \in [Dims -> Nat]
  BY DescriptionType
<1>2. Place(a, c) = k * m + r
  BY DEF Place
<1>3. ChunkItems(a) = Product(Padded(chunk, block)) /\ BlocksIn(a) = ChunkGrid(chunk, block)
  BY DEF ChunkItems, ExtChunkShape, BlocksIn
<1>4. At(a, Place(a, c)) =
        [j \in Dims |-> UnidimToMultidim(BlocksIn(a), Place(a, c) \div m)[j] * block[j]
                        + UnidimToMultidim(block, Place(a, c) % m)[j]]
  BY DEF At
<1> HIDE DEF chunk, block
<1>5. ASSUME NEW j \in Dims
      PROVE  /\ p[j] \in Nat /\ p[j] < chunk[j] /\ q[j] \in Nat /\ q[j] < block[j]
             /\ p[j] = (p[j] \div block[j]) * block[j] + q[j]
  <2>1. c[j] \in Nat /\ chunk[j] \in Nat \ {0} /\ block[j] \in Nat \ {0}
    BY <1>1
  <2>2. p[j] = (c[j] % chunk[j]) /\ q[j] = (p[j] % block[j])
    OBVIOUS
  <2> HIDE DEF p, q
  <2>3. (c[j] % chunk[j]) \in 0..chunk[j] - 1
    BY <2>1, QuotientRest
  <2>4. p[j] \in Nat /\ p[j] < chunk[j]
    BY <2>1, <2>2, <2>3
  <2>5. (p[j] % block[j]) \in 0..block[j] - 1
        /\ p[j] = (p[j] \div block[j]) * block[j] + (p[j] % block[j])
    BY <2>1, <2>4, QuotientRest
  <2> QED BY <2>1, <2>2, <2>4, <2>5
<1>6. p \in [Dims -> Nat] /\ q \in [Dims -> Nat]
  <2>1. \A j \in Dims : (c[j] % chunk[j]) \in Nat /\ (p[j] % block[j]) \in Nat
    BY <1>5
  <2> QED BY <2>1
<1> HIDE DEF p, q
<1>7. /\ k \in 0..ChunkCount(chunk, block) - 1
      /\ UnidimToMultidim(ChunkGrid(chunk, block), k) = ChunkCoords(block, p)
  BY <1>1, <1>5, <1>6, HoldingFacts
<1>8. r \in 0..m - 1 /\ UnidimToMultidim(block, r) = q
  <2>1. InBox(q, block)
    BY <1>5, <1>6 DEF InBox
  <2> QED BY <2>1, <1>1, NumberOfIndex
<1>9. m \in Nat \ {0}
  BY <1>1, ProductType
<1>10. ChunkCount(chunk, block) \in Nat /\ Product(Padded(chunk, block)) = ChunkCount(chunk, block) * m
  BY <1>1, ChunkCountType, PaddedProduct
<1> HIDE DEF k, r, m
<1>11. k \in Nat
  BY <1>7
<1>12. k * m + r \in 0..ChunkCount(chunk, block) * m - 1
  BY <1>7, <1>8, <1>9, <1>10, RowEnds
<1>13. (k * m + r) \div m = k /\ ((k * m + r) % m) = r
  BY <1>8, <1>9, <1>11, DivMod
<1>14. At(a, Place(a, c)) =
        [j \in Dims |-> UnidimToMultidim(BlocksIn(a), k)[j] * block[j]
                        + UnidimToMultidim(block, r)[j]]
  BY <1>2, <1>4, <1>13
<1>15. ASSUME NEW j \in Dims
       PROVE  UnidimToMultidim(BlocksIn(a), k)[j] * block[j] + UnidimToMultidim(block, r)[j] = p[j]
  <2>1. UnidimToMultidim(BlocksIn(a), k)[j] = p[j] \div block[j]
    BY <1>3, <1>7 DEF ChunkCoords
  <2> QED BY <2>1, <1>5, <1>8
<1>16. At(a, Place(a, c)) = [j \in Dims |-> p[j]]
  BY <1>14, <1>15
<1>17. p = [j \in Dims |-> p[j]]
  BY <1>6
<1>18. At(a, Place(a, c)) = p
  BY <1>16, <1>17
<1> QED BY <1>2, <1>3, <1>10, <1>12, <1>18 DEF p, chunk

\* An item lies where it is looked for.
LEMMA StoredItem ==
    ASSUME NEW a, IsDescription(a), NEW c, InBox(c, a.shape)
    PROVE  /\ 1 + ChunkHolding(a.shape, a.chunk, c) \in DOMAIN Stored(a)
           /\ Stored(a)[1 + ChunkHolding(a.shape, a.chunk, c)][1 + Place(a, c)]
                = 1 + MultidimToUnidim(c, Strides(a.shape))
<1> DEFINE shape == a.shape
           chunk == a.chunk
           k == ChunkHolding(shape, chunk, c)
           n == Place(a, c)
           p == [j \in Dims |-> c[j] % chunk[j]]
           first(i) == UnidimToMultidim(ChunkGrid(shape, chunk), i)
           Item(i, l) ==
               IF IsPaddingOf(shape, chunk, i, At(a, l)) THEN 0
               ELSE 1 + MultidimToUnidim([j \in Dims |-> first(i)[j] * chunk[j] + At(a, l)[j]],
                                         Strides(shape))
<1>1. shape \in [Dims -> Nat] /\ chunk \in [Dims -> Nat \ {0}]
  BY DescriptionType
<1>2. c \in [Dims -> Nat] /\ \A j \in Dims : c[j] < shape[j]
  BY DEF InBox
<1>3. k \in 0..ChunkCount(shape, chunk) - 1 /\ first(k) = ChunkCoords(chunk, c)
  <2> HIDE DEF shape, chunk
  <2> QED BY <1>1, <1>2, HoldingFacts
<1>4. n \in 0..ChunkItems(a) - 1 /\ At(a, n) = p
  BY <1>2, PlaceFacts
<1>5. Stored(a) = [i \in 1..ChunkCount(shape, chunk) |->
                      [l \in 1..ChunkItems(a) |-> Item(i - 1, l - 1)]]
  BY DEF Stored
<1>6. ChunkCount(shape, chunk) \in Nat
  BY <1>1, ChunkCountType
<1>7. ChunkItems(a) \in Int
  <2>1. /\ a.chunk \in [Dims -> Nat] /\ a.block \in [Dims -> Nat \ {0}]
    BY DescriptionType
  <2>2. Padded(a.chunk, a.block) \in [Dims -> Nat]
    BY <2>1, PaddedProduct
  <2>3. Product(Padded(a.chunk, a.block)) \in Nat
    BY <2>2, ProductType
  <2> QED BY <2>3 DEF ChunkItems, ExtChunkShape
<1> HIDE DEF shape, chunk, k, n, Item
<1>8. Stored(a)[1 + k][1 + n] = Item(k, n)
  <2>1. 1 + k \in 1..ChunkCount(shape, chunk) /\ (1 + k) - 1 = k
    BY <1>3, <1>6
  <2>2. 1 + n \in 1..ChunkItems(a) /\ (1 + n) - 1 = n
    BY <1>4, <1>7
  <2>3. Stored(a)[1 + k] = [l \in 1..ChunkItems(a) |-> Item((1 + k) - 1, l - 1)]
    BY <2>1, <1>5
  <2> QED BY <2>1, <2>2, <2>3
<1>9. ASSUME NEW j \in Dims
      PROVE  /\ p[j] < chunk[j] /\ p[j] \in Nat
             /\ first(k)[j] * chunk[j] + p[j] = c[j]
             /\ c[j] < shape[j] /\ c[j] \in Nat /\ shape[j] \in Nat /\ chunk[j] \in Nat
  <2>1. c[j] \in Nat /\ chunk[j] \in Nat \ {0} /\ shape[j] \in Nat /\ c[j] < shape[j]
    BY <1>1, <1>2
  <2>2. first(k)[j] = c[j] \div chunk[j]
    BY <1>3 DEF ChunkCoords
  <2>3. p[j] = (c[j] % chunk[j])
    OBVIOUS
  <2> HIDE DEF p, first
  <2>4. (c[j] % chunk[j]) \in 0..chunk[j] - 1 /\ c[j] = (c[j] \div chunk[j]) * chunk[j] + (c[j] % chunk[j])
    BY <2>1, QuotientRest
  <2> QED BY <2>1, <2>2, <2>3, <2>4
<1> HIDE DEF p
<1>10. ~IsPaddingOf(shape, chunk, k, p)
  <2> DEFINE g == first(k)
  <2>1. IsPaddingOf(shape, chunk, k, p)
          <=> \E j \in Dims : p[j] >= chunk[j] \/ g[j] * chunk[j] + p[j] >= shape[j]
    BY DEF IsPaddingOf
  <2>2. ASSUME NEW j \in Dims
        PROVE  ~(p[j] >= chunk[j] \/ g[j] * chunk[j] + p[j] >= shape[j])
    <3>1. /\ p[j] < chunk[j] /\ p[j] \in Nat
          /\ g[j] * chunk[j] + p[j] = c[j]
          /\ c[j] < shape[j] /\ c[j] \in Nat /\ shape[j] \in Nat /\ chunk[j] \in Nat
      BY <1>9
    <3> HIDE DEF g
    <3> QED BY <3>1
  <2> QED BY <2>1, <2>2
<1>11. [j \in Dims |-> first(k)[j] * chunk[j] + p[j]] = c
  <2>1. [j \in Dims |-> first(k)[j] * chunk[j] + p[j]] = [j \in Dims |-> c[j]]
    BY <1>9
  <2> QED BY <2>1, <1>2
<1>12. Item(k, n) = 1 + MultidimToUnidim(c, Strides(shape))
  BY <1>4, <1>10, <1>11 DEF Item
<1>13. 1 + k \in DOMAIN Stored(a)
  BY <1>3, <1>5, <1>6
<1> QED BY <1>8, <1>12, <1>13 DEF k, n, shape, chunk

-----------------------------------------------------------------------------
(* What is read through a description that leaves dimensions out. *)

\* Where everything left out is one chunk, the chunk of an item has the same number,
LEMMA HoldingAlong ==
    ASSUME NEW f, NEW n, Way(f, n),
           NEW s \in [Dims -> Nat], NEW t \in [Dims -> Nat], Along(f, n, s, t, 1),
           NEW g \in [Dims -> Nat \ {0}], NEW h \in [Dims -> Nat \ {0}], Along(f, n, g, h, 1),
           NEW x \in [Dims -> Nat], NEW y \in [Dims -> Nat], Along(f, n, x, y, 0)
    PROVE  ChunkHolding(s, g, x) = ChunkHolding(t, h, y)
<1> DEFINE gs == ChunkGrid(s, g)
           gt == ChunkGrid(t, h)
           cx == [j \in Dims |-> x[j] \div g[j]]
           cy == [j \in Dims |-> y[j] \div h[j]]
<1>1. gs \in [Dims -> Nat] /\ gt \in [Dims -> Nat]
  BY ChunkGridFacts
<1>2. ASSUME NEW j \in Dims
      PROVE  /\ gs[j] = RoundUp(s[j], g[j]) \div g[j]
             /\ gt[j] = RoundUp(t[j], h[j]) \div h[j]
  BY DEF ChunkGrid, Padded
<1>3. RoundUp(1, 1) \div 1 = 1 /\ 0 \div 1 = 0
  BY DEF RoundUp
<1>4. ASSUME NEW j \in Dims
      PROVE  cx[j] = x[j] \div g[j] /\ cy[j] = y[j] \div h[j]
  OBVIOUS
<1>5. cx \in [Dims -> Nat] /\ cy \in [Dims -> Nat]
  <2>1. ASSUME NEW j \in Dims
        PROVE  x[j] \div g[j] \in Nat /\ y[j] \div h[j] \in Nat
    BY QuotientRest
  <2> QED BY <2>1
<1>6. ChunkHolding(s, g, x) = MultidimToUnidim(cx, Strides(gs))
  BY DEF ChunkHolding
<1>7. ChunkHolding(t, h, y) = MultidimToUnidim(cy, Strides(gt))
  BY DEF ChunkHolding
<1> HIDE DEF gs, gt, cx, cy
<1>8. Along(f, n, gs, gt, 1)
  <2>1. ASSUME NEW i \in Dims, f[i] # f[i - 1]
        PROVE  gt[f[i]] = gs[i]
    <3>1. f[i] \in Dims
      BY <2>1, WayStep
    <3>2. t[f[i]] = s[i] /\ h[f[i]] = g[i]
      BY <2>1 DEF Along
    <3> QED BY <3>1, <3>2, <1>2
  <2>2. ASSUME NEW i \in Dims, f[i] = f[i - 1]
        PROVE  gs[i] = 1
    <3>1. s[i] = 1 /\ g[i] = 1
      BY <2>2 DEF Along
    <3> QED BY <3>1, <1>2, <1>3
  <2>3. ASSUME NEW j \in Dims, j > n
        PROVE  gt[j] = 1
    <3>1. t[j] = 1 /\ h[j] = 1
      BY <2>3 DEF Along
    <3> QED BY <3>1, <1>2, <1>3
  <2> QED BY <2>1, <2>2, <2>3 DEF Along
<1>9. Along(f, n, cx, cy, 0)
  <2>1. ASSUME NEW i \in Dims, f[i] # f[i - 1]
        PROVE  cy[f[i]] = cx[i]
    <3>1. f[i] \in Dims
      BY <2>1, WayStep
    <3>2. y[f[i]] = x[i] /\ h[f[i]] = g[i]
      BY <2>1 DEF Along
    <3> QED BY <3>1, <3>2, <1>4
  <2>2. ASSUME NEW i \in Dims, f[i] = f[i - 1]
        PROVE  cx[i] = 0
    <3>1. x[i] = 0 /\ g[i] = 1
      BY <2>2 DEF Along
    <3> QED BY <3>1, <1>3, <1>4
  <2>3. ASSUME NEW j \in Dims, j > n
        PROVE  cy[j] = 0
    <3>1. y[j] = 0 /\ h[j] = 1
      BY <2>3 DEF Along
    <3> QED BY <3>1, <1>3, <1>4
  <2> QED BY <2>1, <2>2, <2>3 DEF Along
<1> QED BY <1>1, <1>5, <1>6, <1>7, <1>8, <1>9, NumberAlong

\* and the item has the same coordinates there.
LEMMA RestAlong ==
    ASSUME NEW f, NEW n, Way(f, n),
           NEW g \in [Dims -> Nat \ {0}], NEW h \in [Dims -> Nat \ {0}], Along(f, n, g, h, 1),
           NEW x \in [Dims -> Nat], NEW y \in [Dims -> Nat], Along(f, n, x, y, 0)
    PROVE  /\ [j \in Dims |-> x[j] % g[j]] \in [Dims -> Nat]
           /\ [j \in Dims |-> y[j] % h[j]] \in [Dims -> Nat]
           /\ Along(f, n, [j \in Dims |-> x[j] % g[j]], [j \in Dims |-> y[j] % h[j]], 0)
<1> DEFINE p == [j \in Dims |-> x[j] % g[j]]
           q == [j \in Dims |-> y[j] % h[j]]
<1>1. ASSUME NEW j \in Dims
      PROVE  p[j] = (x[j] % g[j]) /\ q[j] = (y[j] % h[j])
  OBVIOUS
<1>2. p \in [Dims -> Nat] /\ q \in [Dims -> Nat]
  <2>1. ASSUME NEW j \in Dims
        PROVE  (x[j] % g[j]) \in Nat /\ (y[j] % h[j]) \in Nat
    BY QuotientRest
  <2> QED BY <2>1
<1>3. (0 % 1) = 0
  OBVIOUS
<1> HIDE DEF p, q
<1>4. ASSUME NEW i \in Dims, f[i] # f[i - 1]
      PROVE  q[f[i]] = p[i]
  <2>1. f[i] \in Dims
    BY <1>4, WayStep
  <2>2. y[f[i]] = x[i] /\ h[f[i]] = g[i]
    BY <1>4 DEF Along
  <2> QED BY <2>1, <2>2, <1>1
<1>5. ASSUME NEW i \in Dims, f[i] = f[i - 1]
      PROVE  p[i] = 0
  <2>1. x[i] = 0 /\ g[i] = 1
    BY <1>5 DEF Along
  <2> QED BY <2>1, <1>1, <1>3
<1>6. ASSUME NEW j \in Dims, j > n
      PROVE  q[j] = 0
  <2>1. y[j] = 0 /\ h[j] = 1
    BY <1>6 DEF Along
  <2> QED BY <2>1, <1>1, <1>3
<1>7. Along(f, n, p, q, 0)
  BY <1>4, <1>5, <1>6 DEF Along
<1> QED BY <1>2, <1>7 DEF p, q

\* So is its place.
LEMMA PlaceAlong ==
    ASSUME NEW f, NEW w, IsDescription(w), NEW a, IsDescription(a), Way(f, a.nd),
           Along(f, a.nd, w.chunk, a.chunk, 1), Along(f, a.nd, w.block, a.block, 1),
           NEW x \in [Dims -> Nat], NEW y \in [Dims -> Nat], Along(f, a.nd, x, y, 0)
    PROVE  Place(w, x) = Place(a, y)
<1> DEFINE n == a.nd
           wc == w.chunk
           wb == w.block
           ac == a.chunk
           ab == a.block
           p == [j \in Dims |-> x[j] % wc[j]]
           q == [j \in Dims |-> y[j] % ac[j]]
           r == [j \in Dims |-> p[j] % wb[j]]
           s == [j \in Dims |-> q[j] % ab[j]]
<1>1. /\ wc \in [Dims -> Nat \ {0}] /\ wb \in [Dims -> Nat \ {0}]
      /\ wc \in [Dims -> Nat] /\ wb \in [Dims -> Nat]
      /\ ac \in [Dims -> Nat \ {0}] /\ ab \in [Dims -> Nat \ {0}]
      /\ ac \in [Dims -> Nat] /\ ab \in [Dims -> Nat]
  BY DescriptionType
<1>2. Way(f, n) /\ Along(f, n, wc, ac, 1) /\ Along(f, n, wb, ab, 1) /\ Along(f, n, x, y, 0)
  OBVIOUS
<1>3. Place(w, x) = ChunkHolding(wc, wb, p) * Product(wb) + MultidimToUnidim(r, Strides(wb))
  BY DEF Place
<1>4. Place(a, y) = ChunkHolding(ac, ab, q) * Product(ab) + MultidimToUnidim(s, Strides(ab))
  BY DEF Place
<1> HIDE DEF n, wc, wb, ac, ab
<1>5. p \in [Dims -> Nat] /\ q \in [Dims -> Nat] /\ Along(f, n, p, q, 0)
  BY <1>1, <1>2, RestAlong
<1> HIDE DEF p, q
<1>6. r \in [Dims -> Nat] /\ s \in [Dims -> Nat] /\ Along(f, n, r, s, 0)
  BY <1>1, <1>2, <1>5, RestAlong
<1> HIDE DEF r, s
<1>7. ChunkHolding(wc, wb, p) = ChunkHolding(ac, ab, q)
  BY <1>1, <1>2, <1>5, HoldingAlong
<1>8. Product(wb) = Product(ab)
  BY <1>1, <1>2, ProductAlong
<1>9. MultidimToUnidim(r, Strides(wb)) = MultidimToUnidim(s, Strides(ab))
  BY <1>1, <1>2, <1>6, NumberAlong
<1> QED BY <1>3, <1>4, <1>7, <1>8, <1>9

\* The shape, and the padded chunks, of an array that dimensions are left out of.
LEMMA ExtType ==
    ASSUME NEW a, IsDescription(a)
    PROVE  /\ ExtChunkShape(a) \in [Dims -> Nat \ {0}]
           /\ \A j \in Dims : ExtChunkShape(a)[j] = RoundUp(a.chunk[j], a.block[j])
           /\ \A j \in Dims : ExtChunkShape(a)[j] = 1 => a.chunk[j] = 1 /\ a.block[j] = 1
<1> DEFINE e == ExtChunkShape(a)
<1>1. e = [j \in Dims |-> RoundUp(a.chunk[j], a.block[j])]
  BY DEF ExtChunkShape, Padded
<1>2. a.chunk \in [Dims -> Nat \ {0}] /\ a.block \in [Dims -> Nat \ {0}]
  BY DescriptionType
<1>3. ASSUME NEW c \in Nat \ {0}, NEW b \in Nat \ {0}
      PROVE  /\ RoundUp(c, b) \in Nat \ {0}
             /\ RoundUp(c, b) = 1 => c = 1 /\ b = 1
  <2>1. RoundUp(c, b) \in Nat /\ c <= RoundUp(c, b)
    BY RoundUpBounds
  <2>2. ASSUME RoundUp(c, b) = 1
        PROVE  c = 1 /\ b = 1
    <3>1. c = 1
      BY <2>1, <2>2
    <3>2. CASE (c % b) = 0
      <4>1. c \div b \in Nat /\ c = (c \div b) * b + (c % b)
        BY QuotientRest
      <4>2. (c \div b) * b = 1
        BY <3>1, <3>2, <4>1
      <4> DEFINE d == c \div b
      <4>3. d \in Nat /\ d * b = 1
        BY <4>1, <4>2
      <4> HIDE DEF d
      <4>4. d \in Nat \ {0} /\ d * b <= d
        BY <4>3
      <4>5. b = 1
        BY <4>4, FactorsOfOne
      <4> QED BY <3>1, <4>5
    <3>3. CASE (c % b) # 0
      <4>1. (c % b) \in 0..b - 1 /\ c \div b \in Nat /\ c = (c \div b) * b + (c % b)
        BY QuotientRest
      <4>2. 1 + b - (c % b) = 1
        BY <2>2, <3>1, <3>3 DEF RoundUp
      <4> QED BY <4>1, <4>2
    <3> QED BY <3>2, <3>3
  <2> QED BY <2>1, <2>2
<1>4. ASSUME NEW j \in Dims
      PROVE  /\ RoundUp(a.chunk[j], a.block[j]) \in Nat \ {0}
             /\ RoundUp(a.chunk[j], a.block[j]) = 1 => a.chunk[j] = 1 /\ a.block[j] = 1
  <2>1. a.chunk[j] \in Nat \ {0} /\ a.block[j] \in Nat \ {0}
    BY <1>2
  <2> QED BY <2>1, <1>3
<1> QED BY <1>1, <1>4

LEMMA DropAlong ==
    ASSUME NEW w, IsDescription(w), NEW a, IsDescription(a), NEW f, Drop(f, a, w)
    PROVE  /\ Way(f, a.nd)
           /\ Along(f, a.nd, w.shape, a.shape, 1)
           /\ \A i \in Dims : f[i] # f[i - 1] => ExtChunkShape(a)[f[i]] = ExtChunkShape(w)[i]
           /\ \A j \in Dims : j > a.nd => ExtChunkShape(a)[j] = 1
           /\ Along(f, a.nd, ExtChunkShape(w), ExtChunkShape(a), 1)
                => Along(f, a.nd, w.chunk, a.chunk, 1) /\ Along(f, a.nd, w.block, a.block, 1)
<1>1. Way(f, a.nd)
  BY DEF Drop
<1>2. ASSUME NEW j \in Dims, j > a.nd
      PROVE  a.shape[j] = 1 /\ a.chunk[j] = 1 /\ a.block[j] = 1 /\ ExtChunkShape(a)[j] = 1
  <2>1. a.shape[j] = 1 /\ a.chunk[j] = 1 /\ a.block[j] = 1
    BY <1>2, DescriptionType
  <2>2. RoundUp(1, 1) = 1
    BY DEF RoundUp
  <2> QED BY <2>1, <2>2, ExtType
<1>3. ASSUME NEW i \in Dims, f[i] # f[i - 1]
      PROVE  /\ a.shape[f[i]] = w.shape[i]
             /\ a.chunk[f[i]] = w.chunk[i] /\ a.block[f[i]] = w.block[i]
             /\ ExtChunkShape(a)[f[i]] = ExtChunkShape(w)[i]
  <2>1. /\ a.shape[f[i]] = w.shape[i]
        /\ a.chunk[f[i]] = w.chunk[i] /\ a.block[f[i]] = w.block[i]
    BY <1>3 DEF Drop
  <2>2. f[i] \in Dims
    BY <1>1, <1>3, WayStep
  <2> QED BY <2>1, <2>2, ExtType
<1>4. Along(f, a.nd, w.shape, a.shape, 1)
  <2>1. \A i \in Dims : f[i] = f[i - 1] => w.shape[i] = 1
    BY DEF Drop
  <2> QED BY <2>1, <1>2, <1>3 DEF Along
<1>5. ASSUME Along(f, a.nd, ExtChunkShape(w), ExtChunkShape(a), 1)
      PROVE  Along(f, a.nd, w.chunk, a.chunk, 1) /\ Along(f, a.nd, w.block, a.block, 1)
  <2>1. ASSUME NEW i \in Dims, f[i] = f[i - 1]
        PROVE  w.chunk[i] = 1 /\ w.block[i] = 1
    <3>1. ExtChunkShape(w)[i] = 1
      BY <1>5, <2>1 DEF Along
    <3> QED BY <3>1, ExtType
  <2> QED BY <2>1, <1>2, <1>3 DEF Along
<1> QED BY <1>1, <1>2, <1>3, <1>4, <1>5

\* A stored chunk has the items of a padded one.
LEMMA StoredLength ==
    ASSUME NEW a, IsDescription(a), NEW k \in DOMAIN Stored(a)
    PROVE  Len(Stored(a)[k]) = ChunkItems(a)
<1> DEFINE Item(i, l) ==
               IF IsPaddingOf(a.shape, a.chunk, i, At(a, l)) THEN 0
               ELSE 1 + MultidimToUnidim([j \in Dims |->
                            UnidimToMultidim(ChunkGrid(a.shape, a.chunk), i)[j] * a.chunk[j]
                            + At(a, l)[j]], Strides(a.shape))
           n == ChunkItems(a)
<1>1. Stored(a) = [i \in 1..ChunkCount(a.shape, a.chunk) |-> [l \in 1..n |-> Item(i - 1, l - 1)]]
  BY DEF Stored
<1>2. n \in Nat
  <2>1. ExtChunkShape(a) \in [Dims -> Nat]
    BY ExtType
  <2>2. Product(ExtChunkShape(a)) \in Nat
    BY <2>1, ProductType
  <2> QED BY <2>2 DEF ChunkItems
<1> HIDE DEF Item, n
<1>3. Stored(a)[k] = [l \in 1..n |-> Item(k - 1, l - 1)]
  BY <1>1
<1>4. Len([l \in 1..n |-> Item(k - 1, l - 1)]) = n
  BY <1>2
<1> QED BY <1>3, <1>4 DEF n

\* When the dimensions left out have chunks of one item, the chunks go into the buffers.
LEMMA FlatReads ==
    ASSUME NEW w, IsDescription(w), NEW a, IsDescription(a), LeftOf(a, w),
           \A j \in Dims : w.shape[j] = 1 => ExtChunkShape(w)[j] = 1
    PROVE  \A k \in DOMAIN Stored(w) : ~(Len(Stored(w)[k]) > ChunkItems(a))
<1>1. PICK f : Drop(f, a, w)
  BY DEF LeftOf
<1>2. /\ Way(f, a.nd) /\ Along(f, a.nd, w.shape, a.shape, 1)
      /\ \A i \in Dims : f[i] # f[i - 1] => ExtChunkShape(a)[f[i]] = ExtChunkShape(w)[i]
      /\ \A j \in Dims : j > a.nd => ExtChunkShape(a)[j] = 1
  BY <1>1, DropAlong
<1>3. Along(f, a.nd, ExtChunkShape(w), ExtChunkShape(a), 1)
  <2>1. \A i \in Dims : f[i] = f[i - 1] => ExtChunkShape(w)[i] = 1
    BY <1>2 DEF Along
  <2> QED BY <2>1, <1>2 DEF Along
<1>4. ExtChunkShape(w) \in [Dims -> Nat] /\ ExtChunkShape(a) \in [Dims -> Nat]
  BY ExtType
<1>5. Product(ExtChunkShape(w)) = Product(ExtChunkShape(a)) /\ Product(ExtChunkShape(a)) \in Nat
  BY <1>2, <1>3, <1>4, ProductAlong, ProductType
<1>6. ASSUME NEW k \in DOMAIN Stored(w)
      PROVE  ~(Len(Stored(w)[k]) > ChunkItems(a))
  <2>1. Len(Stored(w)[k]) = ChunkItems(w)
    BY StoredLength
  <2> QED BY <2>1, <1>5 DEF ChunkItems
<1> QED BY <1>6

\* Shape, chunks and blocks of a are those of w without the dimensions left out, which are 1.
LeavesOut(f, w, a) ==
    /\ IsDescription(w) /\ IsDescription(a)
    /\ Way(f, a.nd)
    /\ Along(f, a.nd, w.shape, a.shape, 1)
    /\ Along(f, a.nd, w.chunk, a.chunk, 1)
    /\ Along(f, a.nd, w.block, a.block, 1)

\* An item is in the chunk and at the place it had, and it has the number it had.
LEMMA ItemAlong ==
    ASSUME NEW f, NEW w, NEW a, LeavesOut(f, w, a),
           NEW x \in [Dims -> Nat], NEW y \in [Dims -> Nat], Along(f, a.nd, x, y, 0)
    PROVE  /\ ChunkHolding(w.shape, w.chunk, x) = ChunkHolding(a.shape, a.chunk, y)
           /\ Place(w, x) = Place(a, y)
           /\ MultidimToUnidim(x, Strides(w.shape)) = MultidimToUnidim(y, Strides(a.shape))
<1>0. /\ IsDescription(w) /\ IsDescription(a) /\ Way(f, a.nd)
      /\ Along(f, a.nd, w.shape, a.shape, 1)
      /\ Along(f, a.nd, w.chunk, a.chunk, 1) /\ Along(f, a.nd, w.block, a.block, 1)
  BY DEF LeavesOut
<1>1. Place(w, x) = Place(a, y)
  BY <1>0, PlaceAlong
<1> DEFINE n == a.nd
           sw == w.shape
           cw == w.chunk
           sa == a.shape
           ca == a.chunk
           u == x
           v == y
<1>2. /\ sw \in [Dims -> Nat] /\ sa \in [Dims -> Nat]
      /\ cw \in [Dims -> Nat \ {0}] /\ ca \in [Dims -> Nat \ {0}]
      /\ u \in [Dims -> Nat] /\ v \in [Dims -> Nat]
  BY <1>0, DescriptionType
<1>3. Way(f, n) /\ Along(f, n, sw, sa, 1) /\ Along(f, n, cw, ca, 1) /\ Along(f, n, u, v, 0)
  BY <1>0
<1> HIDE DEF n, sw, cw, sa, ca, u, v
<1>4. ChunkHolding(sw, cw, u) = ChunkHolding(sa, ca, v)
  BY <1>2, <1>3, HoldingAlong
<1>5. MultidimToUnidim(u, Strides(sw)) = MultidimToUnidim(v, Strides(sa))
  BY <1>2, <1>3, NumberAlong
<1> QED BY <1>1, <1>4, <1>5 DEF sw, cw, sa, ca, u, v

\* When the chunks go into the buffers, the items are those that were stored, in their order.
LEMMA ReadsItems ==
    ASSUME NEW w, IsDescription(w), NEW a, IsDescription(a), LeftOf(a, w),
           chunks = Stored(w),
           \A k \in DOMAIN Stored(w) : ~(Len(Stored(w)[k]) > ChunkItems(a))
    PROVE  ItemsOf(a) = [n \in 1..Product(a.shape) |-> n]
<1> DEFINE Item(n) ==
               LET c == UnidimToMultidim(a.shape, n - 1)
               IN  chunks[1 + ChunkHolding(a.shape, a.chunk, c)][1 + Place(a, c)]
<1>1. ItemsOf(a) = [n \in 1..Product(a.shape) |-> Item(n)]
  BY DEF ItemsOf
<1>2. PICK f : Drop(f, a, w)
  BY DEF LeftOf
<1>3. /\ Way(f, a.nd) /\ Along(f, a.nd, w.shape, a.shape, 1)
      /\ \A i \in Dims : f[i] # f[i - 1] => ExtChunkShape(a)[f[i]] = ExtChunkShape(w)[i]
      /\ \A j \in Dims : j > a.nd => ExtChunkShape(a)[j] = 1
      /\ Along(f, a.nd, ExtChunkShape(w), ExtChunkShape(a), 1)
           => Along(f, a.nd, w.chunk, a.chunk, 1) /\ Along(f, a.nd, w.block, a.block, 1)
  BY <1>2, DropAlong
<1>4. /\ w.shape \in [Dims -> Nat] /\ a.shape \in [Dims -> Nat]
      /\ w.chunk \in [Dims -> Nat \ {0}] /\ a.chunk \in [Dims -> Nat \ {0}]
  BY DescriptionType
<1>5. /\ ExtChunkShape(w) \in [Dims -> Nat \ {0}]
      /\ ExtChunkShape(a) \in [Dims -> Nat \ {0}]
  BY ExtType
<1>6. Product(a.shape) \in Nat
  BY <1>4, ProductType
<1>7. ASSUME NEW n \in 1..Product(a.shape)
      PROVE  Item(n) = n
  <2> DEFINE c == UnidimToMultidim(a.shape, n - 1)
             x == [i \in Dims |-> IF f[i] = f[i - 1] THEN 0 ELSE c[f[i]]]
  <2>1. a.shape \in [Dims -> Nat \ {0}]
    <3>1. \A j \in Dims : a.shape[j] # 0
      BY <1>4, ProductZero
    <3> QED BY <3>1, <1>4
  <2>2. n - 1 \in 0..Product(a.shape) - 1
    BY <1>6
  <2>3. InBox(c, a.shape) /\ MultidimToUnidim(c, Strides(a.shape)) = n - 1
    BY <2>1, <2>2, IndexOfNumber
  <2>4. c \in [Dims -> Nat] /\ \A j \in Dims : c[j] < a.shape[j]
    BY <2>3 DEF InBox
  <2>5. Item(n) = chunks[1 + ChunkHolding(a.shape, a.chunk, c)][1 + Place(a, c)]
    OBVIOUS
  <2> HIDE DEF c, Item
  <2>6. ASSUME NEW i \in Dims
        PROVE  x[i] \in Nat /\ x[i] < w.shape[i]
    <3>1. CASE f[i] = f[i - 1]
      <4>1. w.shape[i] = 1
        BY <3>1, <1>3 DEF Along
      <4>2. x[i] = 0
        BY <3>1
      <4> QED BY <4>1, <4>2
    <3>2. CASE f[i] # f[i - 1]
      <4>1. f[i] \in Dims
        BY <3>2, <1>3, WayStep
      <4>2. a.shape[f[i]] = w.shape[i]
        BY <3>2, <1>3 DEF Along
      <4>3. x[i] = c[f[i]]
        BY <3>2
      <4> QED BY <4>1, <4>2, <4>3, <2>4
    <3> QED BY <3>1, <3>2
  <2>7. x = [i \in Dims |-> x[i]]
    OBVIOUS
  <2>8. Along(f, a.nd, x, c, 0)
    <3>1. ASSUME NEW j \in Dims, j > a.nd
          PROVE  c[j] = 0
      <4>1. a.shape[j] = 1
        BY <3>1, <1>3 DEF Along
      <4>2. c[j] \in Nat /\ c[j] < 1
        BY <4>1, <2>4
      <4> QED BY <4>2
    <3>2. \A i \in Dims : f[i] # f[i - 1] => c[f[i]] = x[i]
      OBVIOUS
    <3>3. \A i \in Dims : f[i] = f[i - 1] => x[i] = 0
      OBVIOUS
    <3> QED BY <3>1, <3>2, <3>3 DEF Along
  <2> HIDE DEF x
  <2>9. x \in [Dims -> Nat] /\ InBox(x, w.shape)
    BY <2>6, <2>7 DEF InBox
  <2>10. /\ 1 + ChunkHolding(w.shape, w.chunk, x) \in DOMAIN Stored(w)
         /\ Stored(w)[1 + ChunkHolding(w.shape, w.chunk, x)][1 + Place(w, x)]
              = 1 + MultidimToUnidim(x, Strides(w.shape))
    BY <2>9, StoredItem
  <2>11. Product(ExtChunkShape(w)) <= Product(ExtChunkShape(a))
    <3>1. PICK k \in DOMAIN Stored(w) : TRUE
      BY <2>10
    <3>2. Len(Stored(w)[k]) = Product(ExtChunkShape(w))
      BY StoredLength DEF ChunkItems
    <3>3. /\ Product(ExtChunkShape(w)) \in Nat /\ Product(ExtChunkShape(a)) \in Nat
      <4>1. ExtChunkShape(w) \in [Dims -> Nat] /\ ExtChunkShape(a) \in [Dims -> Nat]
        BY <1>5
      <4> QED BY <4>1, ProductType
    <3>4. ~(Product(ExtChunkShape(w)) > Product(ExtChunkShape(a)))
      BY <3>2 DEF ChunkItems
    <3> QED BY <3>3, <3>4
  <2>12. Along(f, a.nd, ExtChunkShape(w), ExtChunkShape(a), 1)
    BY <2>11, <1>3, <1>5, DroppedAreOnes
  <2>13. Along(f, a.nd, w.chunk, a.chunk, 1) /\ Along(f, a.nd, w.block, a.block, 1)
    BY <2>12, <1>3
  <2>14. LeavesOut(f, w, a)
    BY <2>13, <1>3 DEF LeavesOut
  <2>15. c \in [Dims -> Nat] /\ x \in [Dims -> Nat]
    BY <2>4, <2>9
  <2>16. /\ ChunkHolding(w.shape, w.chunk, x) = ChunkHolding(a.shape, a.chunk, c)
         /\ Place(w, x) = Place(a, c)
         /\ MultidimToUnidim(x, Strides(w.shape)) = MultidimToUnidim(c, Strides(a.shape))
    BY <2>8, <2>14, <2>15, ItemAlong
  <2>17. Item(n) = 1 + (n - 1)
    BY <2>3, <2>5, <2>10, <2>16
  <2> QED BY <2>17
<1> HIDE DEF Item
<1>8. [n \in 1..Product(a.shape) |-> Item(n)] = [n \in 1..Product(a.shape) |-> n]
  BY <1>7
<1> QED BY <1>1, <1>8

-----------------------------------------------------------------------------
(* The invariant, and the theorems. *)

\* The chunks are those the array was created with; both the metalayer and an open handle
\* describe it without some of its dimensions of extent 1, but not always the same ones: a
\* squeeze whose write of the metalayer failed has changed the handle only.
Described ==
    /\ was \in Arrays
    /\ chunks = Stored(was)
    /\ meta \in Seq(Nat)
    /\ IsDescription(Deserialize(meta))
    /\ LeftOf(Deserialize(meta), was)
    /\ handle # Closed => IsDescription(handle) /\ LeftOf(handle, was)

Whole == Described /\ MetaReadsBack /\ SqueezeKeepsItems /\ FlatStaysReadable

\* The metalayer holds numbers, and begins with those that were written last.
LEMMA UpdatedReadsBack ==
    ASSUME NEW a, IsDescription(a), NEW old \in Seq(Nat)
    PROVE  Updated(old, Serialize(a)) \in Seq(Nat) /\ Deserialize(Updated(old, Serialize(a))) = a
<1>1. Serialize(a) \in Seq(Nat)
  BY EmptySeq, ReadsBack
<1> DEFINE m == Len(Serialize(a)) + 1
           n == Len(old)
           rest == SubSeq(old, m, n)
<1>2. m \in Nat /\ m >= 1 /\ n \in Nat
  BY <1>1, LenProperties
<1>3. \A i \in m..n : old[i] \in Nat
  BY <1>2, ElementOfSeq
<1>4. Updated(old, Serialize(a)) = Serialize(a) \o rest
  BY DEF Updated
<1>5. rest \in Seq(Nat)
  <2>1. m \in Int /\ n \in Int
    BY <1>2
  <2> HIDE DEF m, n
  <2> QED BY <1>3, <2>1, SubSeqProperties
<1> HIDE DEF rest
<1> QED BY <1>4, <1>5, ReadsBack

\* A new array is described by its metalayer and by its handle.
LEMMA InitWhole == Init => Whole
<1> SUFFICES ASSUME Init PROVE Whole
  OBVIOUS
<1>1. PICK a \in Arrays : /\ handle = a /\ was = a
                          /\ meta = Serialize(a) /\ chunks = Stored(a)
  BY DEF Init
<1>2. IsDescription(a)
  BY ArraysAssumption
<1>3. Serialize(a) \in Seq(Nat) /\ Deserialize(Serialize(a)) = a
  <2>1. Serialize(a) \in Seq(Nat) /\ Deserialize(Serialize(a) \o << >>) = a
    BY <1>2, EmptySeq, ReadsBack
  <2>2. Serialize(a) \o << >> = Serialize(a)
    BY <2>1, ConcatEmptySeq
  <2> QED BY <2>1, <2>2
<1>4. LeftOf(a, a)
  BY <1>2, DropNone
<1>5. Described
  BY <1>1, <1>2, <1>3, <1>4 DEF Described
<1>6. op = "create"
  BY DEF Init
<1> QED BY <1>1, <1>3, <1>5, <1>6
        DEF Whole, MetaReadsBack, SqueezeKeepsItems, FlatStaysReadable

\* A squeeze: if it is refused nothing changes, and otherwise the handle is left dimensions
\* out of, and the metalayer too, unless it could not be written.
LEMMA SqueezeByWhole ==
    ASSUME Whole, NEW index, SqueezeBy(index), handle # Closed,
           op' = "squeeze", UNCHANGED <<chunks, was>>
    PROVE  Whole'
<1>1. Described /\ IsDescription(was)
  BY ArraysAssumption DEF Whole, Described
<1>2. IsDescription(handle) /\ LeftOf(handle, was) /\ meta \in Seq(Nat)
  BY <1>1 DEF Described
<1>3. SqueezeKeepsItems' /\ FlatStaysReadable'
  BY DEF SqueezeKeepsItems, FlatStaysReadable
<1>4. Described' /\ MetaReadsBack'
  <2>1. CASE \E j \in 1..handle.nd : index[j] /\ handle.shape[j] # 1
    <3>1. ret' = "INVALID_INDEX" /\ UNCHANGED <<handle, meta>>
      BY <2>1 DEF SqueezeBy
    <3> QED BY <1>1, <3>1 DEF Described, MetaReadsBack
  <2>2. CASE ~ \E j \in 1..handle.nd : index[j] /\ handle.shape[j] # 1
    <3> DEFINE b == Squeezed(index)
    <3>1. UpdateShape(b)
      BY <2>2 DEF SqueezeBy
    <3>2. IsDescription(b) /\ LeftOf(b, handle)
      BY <1>2, <2>2, SqueezedIsLeft
    <3> HIDE DEF b
    <3>3. LeftOf(b, was)
      BY <1>1, <1>2, <3>2, DropTwice
    <3>4. handle' = b
      BY <3>1 DEF UpdateShape
    <3>5. CASE meta' = Updated(meta, Serialize(b))
      <4>1. meta' \in Seq(Nat) /\ Deserialize(meta') = b
        BY <1>2, <3>2, <3>5, UpdatedReadsBack
      <4> QED BY <1>1, <3>2, <3>3, <3>4, <4>1 DEF Described, MetaReadsBack
    <3>6. CASE meta' = meta /\ ret' = "BLOSC_FAILED"
      BY <1>1, <3>2, <3>3, <3>4, <3>6 DEF Described, MetaReadsBack
    <3> QED BY <3>1, <3>5, <3>6 DEF UpdateShape
  <2> QED BY <2>1, <2>2
<1> QED BY <1>3, <1>4 DEF Whole

\* Whatever is read is what was stored, and what has flat chunks is read.
LEMMA ReadWhole ==
    ASSUME Whole, Read
    PROVE  Whole'
<1>1. Described /\ IsDescription(was)
  BY ArraysAssumption DEF Whole, Described
<1>2. UNCHANGED <<handle, meta, chunks, was>> /\ op' = "read" /\ handle # Closed
  BY DEF Read, Called
<1>3. IsDescription(handle) /\ LeftOf(handle, was) /\ chunks = Stored(was)
  BY <1>1, <1>2 DEF Described
<1>4. Described'
  BY <1>1, <1>2 DEF Described
<1>5. MetaReadsBack'
  BY <1>2 DEF MetaReadsBack
<1>6. SqueezeKeepsItems'
  <2> SUFFICES ASSUME ret' = "SUCCEED"
               PROVE  got' = [n \in 1..Product(handle.shape) |-> n]
    BY <1>2 DEF SqueezeKeepsItems
  <2>1. /\ ~ \E k \in DOMAIN chunks : Len(chunks[k]) > ChunkItems(handle)
        /\ got' = ItemsOf(handle)
    BY DEF Read
  <2>2. \A k \in DOMAIN Stored(was) : ~(Len(Stored(was)[k]) > ChunkItems(handle))
    BY <1>3, <2>1
  <2> QED BY <1>1, <1>3, <2>1, <2>2, ReadsItems
<1>7. FlatStaysReadable'
  <2> SUFFICES ASSUME \A j \in Dims : was.shape[j] = 1 => ExtChunkShape(was)[j] = 1
               PROVE  ret' = "SUCCEED"
    BY <1>2 DEF FlatStaysReadable
  <2>1. \A k \in DOMAIN Stored(was) : ~(Len(Stored(was)[k]) > ChunkItems(handle))
    BY <1>1, <1>3, FlatReads
  <2>2. ~ \E k \in DOMAIN chunks : Len(chunks[k]) > ChunkItems(handle)
    BY <1>3, <2>1
  <2> QED BY <2>2 DEF Read
<1> QED BY <1>4, <1>5, <1>6, <1>7 DEF Whole

\* Every call keeps the invariant.
LEMMA NextWhole == Whole /\ [Next]_vars => Whole'
<1> SUFFICES ASSUME Whole, [Next]_vars
             PROVE  Whole'
  OBVIOUS
<1>1. CASE SqueezeIndex
  <2>1. PICK index \in [1..handle.nd -> BOOLEAN] : SqueezeBy(index)
    BY <1>1 DEF SqueezeIndex
  <2>2. handle # Closed /\ op' = "squeeze" /\ UNCHANGED <<chunks, was>>
    BY <1>1 DEF SqueezeIndex, Called
  <2> QED BY <2>1, <2>2, SqueezeByWhole
<1>2. CASE Squeeze
  <2> DEFINE index == [j \in 1..handle.nd |-> handle.shape[j] = 1]
  <2>1. SqueezeBy(index)
    BY <1>2 DEF Squeeze
  <2>2. handle # Closed /\ op' = "squeeze" /\ UNCHANGED <<chunks, was>>
    BY <1>2 DEF Squeeze, Called
  <2> HIDE DEF index
  <2> QED BY <2>1, <2>2, SqueezeByWhole
<1>3. CASE Read
  BY <1>3, ReadWhole
<1>4. CASE Close
  <2>1. handle' = Closed /\ UNCHANGED <<meta, chunks, was>> /\ op' = "close"
    BY <1>4 DEF Close, Called
  <2> QED BY <2>1 DEF Whole, Described, MetaReadsBack, SqueezeKeepsItems, FlatStaysReadable
<1>5. CASE Open
  <2>1. handle' = Deserialize(meta) /\ UNCHANGED <<meta, chunks, was>> /\ op' = "open"
    BY <1>5 DEF Open, Called
  <2>2. Described'
    BY <2>1 DEF Whole, Described
  <2> QED BY <2>1, <2>2 DEF Whole, MetaReadsBack, SqueezeKeepsItems, FlatStaysReadable
<1>6. CASE UNCHANGED vars
  BY <1>6 DEF vars, Whole, Described, MetaReadsBack, SqueezeKeepsItems, FlatStaysReadable
<1> QED BY <1>1, <1>2, <1>3, <1>4, <1>5, <1>6 DEF Next

\* The invariant holds always.
LEMMA AlwaysWhole == Spec => []Whole
BY InitWhole, NextWhole, PTL DEF Spec

\* The metalayer that is written by a squeeze describes the squeezed array, whatever longer
\* contents it is written over, and an array is opened as the metalayer describes it.
THEOREM MetalayerReadsBack == Spec => []MetaReadsBack
<1>1. Whole => MetaReadsBack
  BY DEF Whole
<1> QED BY <1>1, AlwaysWhole, PTL

\* An array that can be read has all of its items in their order, however it was squeezed,
\* and also when the handle and the file disagree.
THEOREM ItemsAreKept == Spec => []SqueezeKeepsItems
<1>1. Whole => SqueezeKeepsItems
  BY DEF Whole
<1> QED BY <1>1, AlwaysWhole, PTL

\* Squeezes, failed or not, and opening keep the extents other than 1 in their order.
THEOREM ExtentsAreKept == Spec => []SqueezeKeepsExtents
<1>1. Whole => SqueezeKeepsExtents
  <2> SUFFICES ASSUME Whole, handle # Closed
               PROVE  Longer(handle) = Longer(was)
    BY DEF SqueezeKeepsExtents
  <2>1. IsDescription(was) /\ IsDescription(handle) /\ LeftOf(handle, was)
    BY ArraysAssumption DEF Whole, Described
  <2> QED BY <2>1, LongerAlong
<1> QED BY <1>1, AlwaysWhole, PTL

\* What has chunks of one item in every dimension of extent 1 can be read after every squeeze.
THEOREM FlatArraysAreRead == Spec => []FlatStaysReadable
<1>1. Whole => FlatStaysReadable
  BY DEF Whole
<1> QED BY <1>1, AlwaysWhole, PTL
=============================================================================
