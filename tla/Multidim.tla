------------------------------ MODULE Multidim ------------------------------
(***************************************************************************)
(* Boxes of NDim dimensions and the row-major numbering of what is in them.*)
(*                                                                         *)
(* Dimensions are numbered from 1 (the code numbers them from 0); a shape, *)
(* and an index, is a function from dimensions to naturals.                *)
(***************************************************************************)
EXTENDS Integers

CONSTANT NDim   \* number of dimensions (ndim); the 0-dim case is apart

ASSUME NDimAssumption == NDim \in Nat \ {0}

Dims == 1..NDim

\* The product of a shape's extents (nitems, extnitems, ... of the code).
Product(dims) ==
    LET p[j \in 0..NDim] == IF j = 0 THEN 1 ELSE p[j-1] * dims[j]
    IN  p[NDim]

\* Row-major strides of a box of the given extents: the last dimension varies
\* fastest.  (Those in front of an empty dimension are 0, too; the code keeps six arrays
\* of strides, and nothing uses those of an empty array.)
Strides(dims) ==
    LET s[j \in Dims] == IF j = NDim THEN 1 ELSE s[j+1] * dims[j+1]
    IN  s

\* blosc2_unidim_to_multidim: the coordinates of the k-th element of a box.
UnidimToMultidim(dims, k) ==
    LET s == Strides(dims)
    IN  [j \in Dims |-> IF j = 1 THEN k \div s[1] ELSE (k % s[j-1]) \div s[j]]

\* blosc2_multidim_to_unidim: the position of an index under given strides.
MultidimToUnidim(index, strides) ==
    LET d[j \in 0..NDim] == IF j = 0 THEN 0 ELSE d[j-1] + index[j] * strides[j]
    IN  d[NDim]

\* The coordinates from lo on, and below hi, in every dimension.
Box(lo, hi) ==
    LET lowest  == CHOOSE n \in {lo[j] : j \in Dims} : \A j \in Dims : n <= lo[j]
        highest == CHOOSE n \in {hi[j] : j \in Dims} : \A j \in Dims : n >= hi[j]
    IN  {c \in [Dims -> lowest..highest - 1] : \A j \in Dims : lo[j] <= c[j] /\ c[j] < hi[j]}

Origin == [j \in Dims |-> 0]
Plus(a, b)  == [j \in Dims |-> a[j] + b[j]]
Minus(a, b) == [j \in Dims |-> a[j] - b[j]]
Lesser(a, b) == [j \in Dims |-> IF a[j] <= b[j] THEN a[j] ELSE b[j]]
=============================================================================
