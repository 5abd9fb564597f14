-------------------------- MODULE CopyBufferProofs --------------------------
(***************************************************************************)
(* Theorems about CopyBuffer: for every number of dimensions, all padded   *)
(* shapes and every box, the nested loops copy the rows of the box in the  *)
(* order of their numbers, each once, and nothing else.                    *)
(***************************************************************************)
EXTENDS CopyBuffer, MultidimProofs

-----------------------------------------------------------------------------
(* Arguments. *)

\* What the arguments of a call are: a box of the source, with a place in the destination.
ArgsFit ==
    /\ args.srcShape \in [Dims -> Nat \ {0}]
    /\ args.dstShape \in [Dims -> Nat \ {0}]
    /\ args.srcStart \in [Dims -> Nat]
    /\ args.dstStart \in [Dims -> Nat]
    /\ CopyShape \in [Dims -> Nat]
    /\ \A j \in Dims : /\ args.srcStart[j] + CopyShape[j] <= args.srcShape[j]
                       /\ args.dstStart[j] + CopyShape[j] <= args.dstShape[j]

\* The corners of boxes.
LEMMA CornersFacts ==
    ASSUME NEW shape \in [Dims -> Int], NEW c \in Corners(shape)
    PROVE  c \in [Dims -> Nat] /\ \A j \in Dims : c[j] <= shape[j]
<1> DEFINE hi == [j \in Dims |-> shape[j] + 1]
<1>1. hi \in [Dims -> Int] /\ \A j \in Dims : hi[j] = shape[j] + 1
  OBVIOUS
<1>2. c \in Box(Origin, hi)
  BY DEF Corners
<1> HIDE DEF hi
<1>3. c \in [Dims -> Nat] /\ \A j \in Dims : c[j] < hi[j]
  BY <1>1, <1>2, OriginBox
<1>4. ASSUME NEW j \in Dims PROVE c[j] <= shape[j]
  BY <1>1, <1>3
<1> QED BY <1>3, <1>4

\* Callers pass arguments that fit.
LEMMA CallersFit ==
    ASSUME Init
    PROVE  ArgsFit
<1>1. PICK s \in SrcShapes, d \in DstShapes :
       \E stop \in Corners(s) : \E start \in Corners(stop) :
       \E place \in Corners(Minus(d, Minus(stop, start))) :
        args = [srcShape |-> s, srcStart |-> start, srcStop |-> stop,
                dstShape |-> d, dstStart |-> place]
  BY DEF Init
<1>2. PICK stop \in Corners(s) : \E start \in Corners(stop) :
       \E place \in Corners(Minus(d, Minus(stop, start))) :
        args = [srcShape |-> s, srcStart |-> start, srcStop |-> stop,
                dstShape |-> d, dstStart |-> place]
  BY <1>1
<1>3. PICK start \in Corners(stop) :
       \E place \in Corners(Minus(d, Minus(stop, start))) :
        args = [srcShape |-> s, srcStart |-> start, srcStop |-> stop,
                dstShape |-> d, dstStart |-> place]
  BY <1>2
<1>4. PICK place \in Corners(Minus(d, Minus(stop, start))) :
        args = [srcShape |-> s, srcStart |-> start, srcStop |-> stop,
                dstShape |-> d, dstStart |-> place]
  BY <1>3
<1>5. s \in [Dims -> Nat \ {0}] /\ d \in [Dims -> Nat \ {0}]
  BY ShapesAssumption
<1>6. stop \in [Dims -> Nat] /\ \A j \in Dims : stop[j] <= s[j]
  BY <1>5, CornersFacts
<1>7. start \in [Dims -> Nat] /\ \A j \in Dims : start[j] <= stop[j]
  BY <1>6, CornersFacts
<1> DEFINE size == Minus(stop, start)
           room == Minus(d, size)
<1>8. size \in [Dims -> Nat] /\ \A j \in Dims : size[j] = stop[j] - start[j]
  BY <1>6, <1>7 DEF Minus
<1> HIDE DEF size
<1>9. room \in [Dims -> Int] /\ \A j \in Dims : room[j] = d[j] - size[j]
  BY <1>5, <1>8 DEF Minus
<1>10. place \in Corners(room)
  BY <1>4 DEF size
<1> HIDE DEF room
<1>11. place \in [Dims -> Nat] /\ \A j \in Dims : place[j] <= room[j]
  BY <1>9, <1>10, CornersFacts
<1>12. CopyShape = size
  BY <1>4 DEF CopyShape, size
<1>13. ASSUME NEW j \in Dims
       PROVE  start[j] + size[j] <= s[j] /\ place[j] + size[j] <= d[j]
  <2>1. /\ start[j] \in Nat /\ stop[j] \in Nat /\ s[j] \in Nat /\ d[j] \in Nat
        /\ place[j] \in Nat /\ size[j] = stop[j] - start[j] /\ stop[j] <= s[j]
        /\ room[j] = d[j] - size[j] /\ place[j] <= room[j]
    BY <1>5, <1>6, <1>7, <1>8, <1>9, <1>11
  <2> QED BY <2>1
<1> QED BY <1>4, <1>5, <1>7, <1>8, <1>11, <1>12, <1>13 DEF ArgsFit

\* The rows of a box that is not empty.
LEMMA RowsFacts ==
    ASSUME ArgsFit, ~NothingToCopy
    PROVE  /\ Rows \in [Dims -> Nat \ {0}]
           /\ Rows[NDim] = 1
           /\ \A j \in 1..NDim - 1 : Rows[j] = CopyShape[j]
           /\ \A j \in Dims : Rows[j] <= CopyShape[j]
           /\ InBox(Origin, Rows)
<1> USE NDimAssumption
<1>1. CopyShape \in [Dims -> Nat \ {0}] /\ NDim \in Dims
  BY DEF ArgsFit, NothingToCopy, Dims
<1>2. Rows = [CopyShape EXCEPT ![NDim] = 1]
  BY DEF Rows
<1> HIDE DEF Rows
<1>3. /\ Rows \in [Dims -> Nat \ {0}] /\ Rows[NDim] = 1
      /\ \A j \in Dims : j # NDim => Rows[j] = CopyShape[j]
  BY <1>1, <1>2
<1>4. \A j \in 1..NDim - 1 : Rows[j] = CopyShape[j]
  BY <1>3 DEF Dims
<1>5. ASSUME NEW j \in Dims PROVE Rows[j] <= CopyShape[j]
  <2>1. CopyShape[j] \in Nat \ {0}
    BY <1>1
  <2> QED BY <1>3, <2>1
<1>6. InBox(Origin, Rows)
  <2>1. Origin \in [Dims -> Nat] /\ \A j \in Dims : Origin[j] = 0
    BY DEF Origin
  <2>2. \A j \in Dims : Rows[j] \in Nat \ {0}
    BY <1>3
  <2> QED BY <2>1, <2>2 DEF InBox
<1> QED BY <1>3, <1>4, <1>5, <1>6

-----------------------------------------------------------------------------
(* The order of the rows. *)

\* The number of the row the loops are at.
RowNumber(row) == MultidimToUnidim(row, Strides(Rows))

\* Between two rows, the counters are those of a row.
AtRow == pc = "copying" => ~NothingToCopy /\ InBox(at, Rows)

\* The innermost loop that is not at its end.
LEMMA LastUnfinished ==
    ASSUME Unfinished # {}
    PROVE  /\ Max(Unfinished) \in Unfinished
           /\ \A j \in Unfinished : j <= Max(Unfinished)
<1>1. \A j \in Unfinished : j \in Int /\ j <= NDim - 1
  BY NDimAssumption DEF Unfinished
<1>2. PICK g \in Unfinished : \A j \in Unfinished : j <= g
  <2> HIDE DEF Unfinished
  <2> QED BY <1>1, NDimAssumption, GreatestElement
<1>3. \A j \in Unfinished : g >= j
  BY <1>1, <1>2
<1> DEFINE M == Max(Unfinished)
<1>4. M \in Unfinished /\ \A j \in Unfinished : M >= j
  BY <1>3 DEF Max
<1> QED BY <1>1, <1>4

\* The loops go to the row with the next number.
LEMMA NextRow ==
    ASSUME ArgsFit, ~NothingToCopy, InBox(at, Rows), Unfinished # {}
    PROVE  InBox(Advance, Rows) /\ RowNumber(Advance) = RowNumber(at) + 1
<1> USE NDimAssumption
<1> DEFINE d == Max(Unfinished)
           b == Advance
<1>1. /\ Rows \in [Dims -> Nat \ {0}] /\ Rows[NDim] = 1
      /\ \A j \in 1..NDim - 1 : Rows[j] = CopyShape[j]
  BY RowsFacts
<1>2. d \in Unfinished /\ \A j \in Unfinished : j <= d
  BY LastUnfinished
<1>3. at \in [Dims -> Nat] /\ \A j \in Dims : at[j] < Rows[j]
  BY DEF InBox
<1>4. b = [j \in Dims |-> IF j < d THEN at[j] ELSE IF j = d THEN at[d] + 1 ELSE 0]
  BY DEF Advance
<1> HIDE DEF d, b
<1>5. d \in 1..NDim - 1 /\ d \in Dims /\ at[d] + 1 < Rows[d]
  BY <1>1, <1>2 DEF Unfinished, Dims
<1>6. /\ b[d] = at[d] + 1
      /\ \A j \in 1..d - 1 : b[j] = at[j]
      /\ \A j \in d + 1..NDim : b[j] = 0
  <2>1. b[d] = at[d] + 1
    BY <1>4, <1>5
  <2>2. ASSUME NEW j \in 1..d - 1 PROVE b[j] = at[j]
    <3>1. j \in Dims /\ j < d
      BY <1>5 DEF Dims
    <3> QED BY <1>4, <3>1
  <2>3. ASSUME NEW j \in d + 1..NDim PROVE b[j] = 0
    <3>1. j \in Dims /\ ~(j < d) /\ j # d
      BY <1>5 DEF Dims
    <3> QED BY <1>4, <3>1
  <2> QED BY <2>1, <2>2, <2>3
<1>7. b \in [Dims -> Nat]
  BY <1>3, <1>4, <1>5
<1>8. InBox(b, Rows)
  <2>1. ASSUME NEW j \in Dims PROVE b[j] < Rows[j]
    <3>1. j \in 1..NDim /\ Rows[j] \in Nat \ {0} /\ at[j] < Rows[j]
      BY <1>1, <1>3 DEF Dims
    <3>2. CASE j < d
      BY <1>4, <3>1, <3>2
    <3>3. CASE j = d
      BY <1>5, <1>6, <3>3
    <3>4. CASE j > d
      BY <1>4, <1>5, <3>1, <3>4
    <3> QED BY <1>5, <3>1, <3>2, <3>3, <3>4
  <2> QED BY <1>7, <2>1 DEF InBox
<1>9. ASSUME NEW j \in d + 1..NDim PROVE at[j] = Rows[j] - 1
  <2>1. j \in Dims /\ j > d
    BY <1>5 DEF Dims
  <2>2. at[j] \in Nat /\ Rows[j] \in Nat /\ at[j] < Rows[j]
    BY <1>1, <1>3, <2>1
  <2>3. CASE j = NDim
    BY <1>1, <2>2, <2>3
  <2>4. CASE j # NDim
    <3>1. j \in 1..NDim - 1 /\ j \notin Unfinished
      BY <1>2, <1>5, <2>1, <2>4 DEF Dims
    <3>2. ~(at[j] + 1 < Rows[j])
      BY <1>1, <3>1 DEF Unfinished
    <3> QED BY <2>2, <3>2
  <2> QED BY <2>3, <2>4
<1>10. RowNumber(b) = RowNumber(at) + 1
  BY <1>1, <1>5, <1>6, <1>8, <1>9, NextNumber DEF RowNumber
<1> QED BY <1>8, <1>10 DEF b

\* They end at the last row.
LEMMA LastRow ==
    ASSUME ArgsFit, ~NothingToCopy, InBox(at, Rows), Unfinished = {}
    PROVE  RowNumber(at) + 1 = Product(Rows)
<1> USE NDimAssumption
<1>1. /\ Rows \in [Dims -> Nat \ {0}] /\ Rows[NDim] = 1
      /\ \A j \in 1..NDim - 1 : Rows[j] = CopyShape[j]
  BY RowsFacts
<1>2. ASSUME NEW j \in Dims PROVE at[j] = Rows[j] - 1
  <2>1. at[j] \in Nat /\ Rows[j] \in Nat /\ at[j] < Rows[j]
    BY <1>1 DEF InBox
  <2>2. CASE j = NDim
    BY <1>1, <2>1, <2>2
  <2>3. CASE j # NDim
    <3>1. j \in 1..NDim - 1
      BY <2>3 DEF Dims
    <3>2. ~(at[j] + 1 < Rows[j])
      BY <1>1, <3>1 DEF Unfinished
    <3> QED BY <2>1, <3>2
  <2> QED BY <2>2, <2>3
<1>3. RowNumber(at) = Product(Rows) - 1 /\ Product(Rows) \in Nat
  BY <1>1, <1>2, LastNumber, ProductType DEF RowNumber
<1> QED BY <1>3
-----------------------------------------------------------------------------
(* The refinement of copy_ndim_fallback. *)

\* What is true between any two steps: the arguments fit, the destination is as long as its
\* shape says, and the counters are those of a row.
CountersFit ==
    /\ ArgsFit
    /\ AtRow
    /\ pc \in {"called", "copying", "done"}
    /\ pc = "called" => at = Origin
    /\ DOMAIN dst = 0..Product(args.dstShape) - 1

\* It is so when a copy is called.
LEMMA CountersFitInit ==
    ASSUME Init
    PROVE  CountersFit
<1>1. ArgsFit
  BY CallersFit
<1>2. /\ pc = "called" /\ at = Origin
      /\ DOMAIN dst = 0..Product(args.dstShape) - 1
  BY DEF Init
<1> QED BY <1>1, <1>2 DEF CountersFit, AtRow

\* What a copied row does to the state, and to the number of rows copied.
LEMMA CopyRowFacts ==
    ASSUME CountersFit, CopyRow
    PROVE  /\ ~NothingToCopy /\ InBox(at, Rows)
           /\ RowsCopied = RowNumber(at)
           /\ RowsCopied' = RowNumber(at) + 1
           /\ RowsCopied < Product(Rows)
           /\ UnidimToMultidim(Rows, RowsCopied) = at
           /\ CountersFit'
<1>1. ~NothingToCopy /\ InBox(at, Rows) /\ ArgsFit /\ pc = "copying"
  BY DEF CountersFit, AtRow, CopyRow
<1>2. RowsCopied = RowNumber(at)
  BY <1>1 DEF RowsCopied, RowNumber
<1>3. UNCHANGED <<args, src>> /\ DOMAIN dst' = DOMAIN dst
  BY DEF CopyRow, RowCopied
<1>4. CopyShape' = CopyShape /\ Rows' = Rows /\ (NothingToCopy' <=> NothingToCopy) /\ ArgsFit'
  BY <1>1, <1>3 DEF CopyShape, Rows, NothingToCopy, ArgsFit
<1>5. DOMAIN dst' = 0..Product(args'.dstShape) - 1
  BY <1>3 DEF CountersFit
<1>6. /\ RowsCopied' = RowNumber(at) + 1
      /\ CountersFit'
  <2>1. CASE Unfinished = {}
    <3>1. pc' = "done" /\ RowNumber(at) + 1 = Product(Rows)
      BY <1>1, <2>1, LastRow DEF CopyRow
    <3> QED BY <1>1, <1>4, <1>5, <3>1 DEF RowsCopied, RowNumber, CountersFit, AtRow
  <2>2. CASE Unfinished # {}
    <3>1. pc' = "copying" /\ at' = Advance
      BY <1>1, <2>2 DEF CopyRow
    <3>2. InBox(Advance, Rows) /\ RowNumber(Advance) = RowNumber(at) + 1
      BY <1>1, <2>2, NextRow
    <3>3. InBox(at', Rows') /\ RowNumber(at)' = RowNumber(at) + 1
      BY <1>4, <3>1, <3>2 DEF RowNumber
    <3> QED BY <1>1, <1>4, <1>5, <3>1, <3>3 DEF RowsCopied, RowNumber, CountersFit, AtRow
  <2> QED BY <2>1, <2>2
<1>7. Rows \in [Dims -> Nat \ {0}]
  BY <1>1, RowsFacts
<1>8. /\ RowNumber(at) \in 0..Product(Rows) - 1
      /\ UnidimToMultidim(Rows, RowNumber(at)) = at
  BY <1>1, <1>7, NumberOfIndex DEF RowNumber
<1>9. Product(Rows) \in Nat
  BY <1>7, ProductType
<1>10. RowNumber(at) < Product(Rows)
  BY <1>8, <1>9
<1> QED BY <1>1, <1>2, <1>6, <1>8, <1>10

\* Entering the loops, or going past them, copies nothing.
LEMMA EnterFacts ==
    ASSUME CountersFit, Enter
    PROVE  /\ RowsCopied = 0 /\ RowsCopied' = 0
           /\ UNCHANGED <<args, src, dst>>
           /\ CountersFit'
<1>1. ArgsFit /\ pc = "called" /\ at = Origin /\ UNCHANGED <<args, src, dst, at>>
  BY DEF CountersFit, Enter
<1>2. RowsCopied = 0
  BY <1>1 DEF RowsCopied, RowNumber
<1>3. CopyShape' = CopyShape /\ Rows' = Rows /\ (NothingToCopy' <=> NothingToCopy) /\ ArgsFit'
  BY <1>1 DEF CopyShape, Rows, NothingToCopy, ArgsFit
<1>4. DOMAIN dst' = 0..Product(args'.dstShape) - 1
  BY <1>1 DEF CountersFit
<1>5. CASE NothingToCopy
  <2>1. pc' = "done"
    BY <1>5 DEF Enter
  <2> QED BY <1>1, <1>2, <1>3, <1>4, <1>5, <2>1 DEF RowsCopied, RowNumber, CountersFit, AtRow
<1>6. CASE ~NothingToCopy
  <2>1. pc' = "copying" /\ at' = Origin
    BY <1>1, <1>6 DEF Enter
  <2>2. Rows \in [Dims -> Nat \ {0}] /\ InBox(Origin, Rows)
    BY <1>1, <1>6, RowsFacts
  <2>3. RowNumber(Origin) = 0
    BY <2>2, FirstNumber DEF RowNumber
  <2>4. InBox(at', Rows') /\ RowNumber(at)' = 0
    BY <1>3, <2>1, <2>2, <2>3 DEF RowNumber
  <2> QED BY <1>1, <1>2, <1>3, <1>4, <1>6, <2>1, <2>4 DEF RowsCopied, RowNumber, CountersFit, AtRow
<1> QED BY <1>5, <1>6

\* The counters stay in their ranges.
LEMMA CountersFitStep ==
    ASSUME CountersFit, [Next]_vars
    PROVE  CountersFit'
<1>1. CASE Enter
  BY <1>1, EnterFacts
<1>2. CASE CopyRow
  BY <1>2, CopyRowFacts
<1>3. CASE UNCHANGED vars
  BY <1>3 DEF vars, CountersFit, ArgsFit, AtRow, InBox, Rows, CopyShape, NothingToCopy
<1> QED BY <1>1, <1>2, <1>3 DEF Next

\* In every state, the arguments fit and the counters are those of a row.
LEMMA CountersAlwaysFit == Spec => []CountersFit
<1> QED BY CountersFitInit, CountersFitStep, PTL DEF Spec

\* The definitions that the specialised loops and the fallback share are the same.
LEMMA SharedDefinitions ==
    /\ Generic!NothingToCopy <=> NothingToCopy
    /\ Generic!Rows = Rows
    /\ Generic!Product(Rows) = Product(Rows)
    /\ \A n : Generic!UnidimToMultidim(Rows, n) = UnidimToMultidim(Rows, n)
    /\ \A row : Generic!RowCopied(row) = RowCopied(row)
<1>1. Generic!CopyShape = CopyShape
  BY DEF Generic!CopyShape, CopyShape, Generic!Minus, Minus, Generic!Dims, Dims
<1>2. Generic!NothingToCopy <=> NothingToCopy
  BY <1>1 DEF Generic!NothingToCopy, NothingToCopy, Generic!Dims, Dims
<1>3. Generic!Rows = Rows
  BY <1>1 DEF Generic!Rows, Rows
<1>4. Generic!Product(Rows) = Product(Rows)
  BY DEF Generic!Product, Product
<1>5. \A dims : Generic!Strides(dims) = Strides(dims)
  BY DEF Generic!Strides, Strides, Generic!Dims, Dims
<1>6. \A n : Generic!UnidimToMultidim(Rows, n) = UnidimToMultidim(Rows, n)
  BY <1>5 DEF Generic!UnidimToMultidim, UnidimToMultidim, Generic!Dims, Dims
<1>7. \A index, strides : Generic!MultidimToUnidim(index, strides)
                            = MultidimToUnidim(index, strides)
  BY DEF Generic!MultidimToUnidim, MultidimToUnidim
<1>8. \A row, start, padShape : Generic!Offset(row, start, padShape)
                                  = Offset(row, start, padShape)
  BY <1>5, <1>7 DEF Generic!Offset, Offset
<1>9. \A row : Generic!RowCopied(row) = RowCopied(row)
  BY <1>1, <1>8 DEF Generic!RowCopied, RowCopied
<1> QED BY <1>2, <1>3, <1>4, <1>6, <1>9

\* The nested loops of copy2dim to copy8dim copy the rows that copy_ndim_fallback copies,
\* in its order: for any number of dimensions, which in the code is written out seven times.
THEOREM FallbackCorrect == Spec => IsFallback
<1>1. Init => Generic!Init
  BY DEF Init, Generic!Init, RowsCopied
<1>2. ASSUME CountersFit, [Next]_vars
      PROVE  [Generic!CopyRow]_<<args, src, dst, RowsCopied>>
  <2>1. CASE Enter
    BY <1>2, <2>1, EnterFacts
  <2>2. CASE CopyRow
    <3>1. /\ ~NothingToCopy
          /\ RowsCopied < Product(Rows)
          /\ UnidimToMultidim(Rows, RowsCopied) = at
          /\ RowsCopied' = RowsCopied + 1
      BY <1>2, <2>2, CopyRowFacts
    <3>2. dst' = RowCopied(at) /\ UNCHANGED <<args, src>>
      BY <2>2 DEF CopyRow
    <3>3. /\ ~Generic!NothingToCopy
          /\ RowsCopied < Generic!Product(Generic!Rows)
          /\ dst' = Generic!RowCopied(Generic!UnidimToMultidim(Generic!Rows, RowsCopied))
      BY <3>1, <3>2, SharedDefinitions
    <3> QED BY <3>1, <3>2, <3>3 DEF Generic!CopyRow
  <2>3. CASE UNCHANGED vars
    BY <2>3 DEF vars, RowsCopied, Rows, CopyShape, NothingToCopy
  <2> QED BY <1>2, <2>1, <2>2, <2>3 DEF Next
<1> QED BY <1>1, <1>2, CountersAlwaysFit, PTL DEF Spec, IsFallback, Generic!Spec

-----------------------------------------------------------------------------
(* What is copied. *)

\* The row of the box that a place of it is in.
RowOf(b) == [b EXCEPT ![NDim] = 0]

\* The number of a place in the destination, and in the source.
DstNumber(c) == MultidimToUnidim(c, Strides(args.dstShape))
SrcNumber(c) == MultidimToUnidim(c, Strides(args.srcShape))

\* The place of the box that comes to a place of the destination is in a row with a number
\* below n.
Reached(c, n) ==
    LET b == Minus(c, args.dstStart)
    IN  b \in Box(Origin, CopyShape) /\ RowNumber(RowOf(b)) < n

\* What the same place of the box holds in the source.
SourceOf(c) == src[SrcNumber(Plus(args.srcStart, Minus(c, args.dstStart)))]

\* The destination holds the rows copied so far, and everywhere else what it held.
CopiedSoFar ==
    \A c \in Box(Origin, args.dstShape) :
        dst[DstNumber(c)] = IF Reached(c, RowsCopied) THEN SourceOf(c) ELSE Old

\* Places of the destination.
LEMMA DstPlaces ==
    ASSUME ArgsFit, NEW c \in Box(Origin, args.dstShape)
    PROVE  /\ InBox(c, args.dstShape)
           /\ DstNumber(c) \in 0..Product(args.dstShape) - 1
           /\ UnidimToMultidim(args.dstShape, DstNumber(c)) = c
<1>1. args.dstShape \in [Dims -> Nat \ {0}]
  BY DEF ArgsFit
<1>2. args.dstShape \in [Dims -> Int]
  BY <1>1
<1>3. InBox(c, args.dstShape)
  BY <1>2, OriginBox DEF InBox
<1> QED BY <1>1, <1>3, NumberOfIndex DEF DstNumber

\* Where a place of the box is in a buffer: behind the place where its row begins.
LEMMA PlaceInBuffer ==
    ASSUME NEW shape \in [Dims -> Nat \ {0}], NEW start \in [Dims -> Nat],
           NEW b \in [Dims -> Nat]
    PROVE  /\ Plus(start, b) \in [Dims -> Nat]
           /\ Offset(RowOf(b), start, shape) \in Nat
           /\ MultidimToUnidim(Plus(start, b), Strides(shape))
                = Offset(RowOf(b), start, shape) + b[NDim]
<1> USE NDimAssumption
<1> DEFINE s == Strides(shape)
           row == RowOf(b)
           Num(x) == MultidimToUnidim(x, s)
           last == [j \in Dims |-> IF j = NDim THEN b[NDim] ELSE 0]
<1>1. s \in [Dims -> Nat] /\ s[NDim] = 1
  BY StridesEquations
<1> HIDE DEF s
<1>2. NDim \in Dims /\ b[NDim] \in Nat
  BY DEF Dims
<1>0. row \in [Dims -> Nat] /\ row = [b EXCEPT ![NDim] = 0]
  BY DEF RowOf
<1> HIDE DEF row
<1>3. last \in [Dims -> Nat] /\ Num(last) = b[NDim]
  BY <1>1, <1>2, NumberInRow
<1>4. b = Plus(row, last)
  <2>2. ASSUME NEW j \in Dims PROVE b[j] = row[j] + last[j]
    <3>1. CASE j = NDim
      BY <3>1, <1>0, <1>2
    <3>2. CASE j # NDim
      <4>1. row[j] = b[j] /\ b[j] \in Nat
        BY <1>0, <3>2
      <4> QED BY <3>2, <4>1
    <3> QED BY <3>1, <3>2
  <2>3. Plus(row, last) = [j \in Dims |-> row[j] + last[j]]
    BY DEF Plus
  <2>4. b = [j \in Dims |-> b[j]]
    OBVIOUS
  <2> HIDE DEF last
  <2> QED BY <2>2, <2>3, <2>4
<1> HIDE DEF last
<1>5. Num(b) = Num(row) + b[NDim]
  <2>1. row \in [Dims -> Nat]
    BY <1>0
  <2>2. Num(Plus(row, last)) = Num(row) + Num(last)
    BY <1>1, <1>3, <2>1, NumberOfSum
  <2> QED BY <1>3, <1>4, <2>2
<1>6. Plus(start, b) \in [Dims -> Nat] /\ Num(Plus(start, b)) = Num(start) + Num(b)
  BY <1>1, NumberOfSum
<1>7. \A x \in [Dims -> Nat] : Num(x) \in Nat
  <2> SUFFICES ASSUME NEW x \in [Dims -> Nat] PROVE Num(x) \in Nat
    OBVIOUS
  <2>1. PICK d : Sums(d, x, s) /\ MultidimToUnidim(x, s) = d[NDim]
    BY <1>1, NumberEquations
  <2>2. d \in [0..NDim -> Nat] /\ NDim \in 0..NDim
    BY <2>1 DEF Sums
  <2> QED BY <2>1, <2>2
<1>8. Offset(row, start, shape) = Num(start) + Num(row)
  BY DEF Offset, s
<1>9. Num(start) \in Nat /\ Num(row) \in Nat
  BY <1>0, <1>7
<1>10. Num(Plus(start, b)) = Offset(row, start, shape) + b[NDim]
  BY <1>2, <1>5, <1>6, <1>8, <1>9
<1> QED BY <1>6, <1>8, <1>9, <1>10 DEF s, row

\* Which places of the destination one row reaches, and what comes there.
LEMMA RowReaches ==
    ASSUME ArgsFit, ~NothingToCopy, InBox(at, Rows),
           DOMAIN dst = 0..Product(args.dstShape) - 1,
           NEW c \in Box(Origin, args.dstShape)
    PROVE  LET b == Minus(c, args.dstStart)
           IN  RowCopied(at)[DstNumber(c)] =
                   IF b \in Box(Origin, CopyShape) /\ RowOf(b) = at THEN SourceOf(c)
                   ELSE dst[DstNumber(c)]
<1> USE NDimAssumption
<1> DEFINE b == Minus(c, args.dstStart)
           n == DstNumber(c)
           from == Offset(at, args.srcStart, args.srcShape)
           to   == Offset(at, args.dstStart, args.dstShape)
           len == CopyShape[NDim]
<1>1. /\ args.srcShape \in [Dims -> Nat \ {0}] /\ args.dstShape \in [Dims -> Nat \ {0}]
      /\ args.srcStart \in [Dims -> Nat] /\ args.dstStart \in [Dims -> Nat]
      /\ CopyShape \in [Dims -> Nat]
      /\ \A j \in Dims : args.dstStart[j] + CopyShape[j] <= args.dstShape[j]
  BY DEF ArgsFit
<1>2. /\ Rows[NDim] = 1 /\ NDim \in Dims /\ len \in Nat
      /\ \A j \in Dims : Rows[j] <= CopyShape[j] /\ Rows[j] \in Nat
      /\ \A j \in Dims : j # NDim => Rows[j] = CopyShape[j]
  BY <1>1, RowsFacts DEF Dims
<1>3. at \in [Dims -> Nat] /\ at[NDim] = 0 /\ \A j \in Dims : at[j] < Rows[j]
  <2>1. at \in [Dims -> Nat] /\ \A j \in Dims : at[j] < Rows[j]
    BY DEF InBox
  <2>2. at[NDim] \in Nat /\ at[NDim] < 1
    BY <1>2, <2>1
  <2> QED BY <2>1, <2>2
<1>4. /\ InBox(c, args.dstShape)
      /\ n \in 0..Product(args.dstShape) - 1
      /\ UnidimToMultidim(args.dstShape, n) = c
  BY DstPlaces
<1>5. RowCopied(at)[n] = IF n \in to..to + len - 1 THEN src[from + n - to] ELSE dst[n]
  BY <1>4 DEF RowCopied
<1>6. ASSUME b \in Box(Origin, CopyShape), RowOf(b) = at
      PROVE  RowCopied(at)[n] = SourceOf(c)
  <2>1. b \in [Dims -> Nat] /\ b[NDim] \in Nat /\ b[NDim] < len
    <3>1. CopyShape \in [Dims -> Int]
      BY <1>1
    <3>2. b \in [Dims -> Nat] /\ \A j \in Dims : b[j] < CopyShape[j]
      BY <3>1, <1>6, OriginBox
    <3> QED BY <1>2, <3>2
  <2>2. c = Plus(args.dstStart, b)
    <3>1. c \in [Dims -> Nat]
      BY <1>4 DEF InBox
    <3>2. \A j \in Dims : args.dstStart[j] + (c[j] - args.dstStart[j]) = c[j]
      BY <1>1, <3>1
    <3> QED BY <3>1, <3>2 DEF Plus, Minus
  <2> HIDE DEF b
  <2>0. \A shape \in [Dims -> Nat \ {0}], start \in [Dims -> Nat] :
           /\ Offset(at, start, shape) \in Nat
           /\ MultidimToUnidim(Plus(start, b), Strides(shape))
                = Offset(at, start, shape) + b[NDim]
    BY <1>3, <1>6, <2>1, PlaceInBuffer
  <2>3. to \in Nat /\ n = to + b[NDim]
    BY <1>1, <2>0, <2>2 DEF DstNumber
  <2>4. from \in Nat /\ SrcNumber(Plus(args.srcStart, b)) = from + b[NDim]
    BY <1>1, <2>0 DEF SrcNumber
  <2> HIDE DEF n, to, from
  <2>5. n \in to..to + len - 1 /\ from + n - to = from + b[NDim]
    BY <1>2, <2>1, <2>3, <2>4
  <2>6. RowCopied(at)[n] = src[SrcNumber(Plus(args.srcStart, b))]
    BY <1>5, <2>4, <2>5
  <2> QED BY <2>6 DEF SourceOf, b
<1>7. ASSUME n \in to..to + len - 1
      PROVE  b \in Box(Origin, CopyShape) /\ RowOf(b) = at
  <2> DEFINE r == n - to
             a == [at EXCEPT ![NDim] = r]
  <2>1. to \in Nat
    <3>1. at = [at EXCEPT ![NDim] = 0]
      BY <1>2, <1>3
    <3>2. RowOf(at) = at
      BY <3>1 DEF RowOf
    <3> QED BY <1>1, <1>3, <3>2, PlaceInBuffer
  <2>2. r \in Nat /\ r < len /\ n = to + r
    <3> HIDE DEF n, to
    <3> QED BY <1>2, <1>7, <2>1
  <2> HIDE DEF r
  <2>3. a \in [Dims -> Nat] /\ RowOf(a) = at /\ a[NDim] = r
    <3>1. a \in [Dims -> Nat] /\ a[NDim] = r /\ \A j \in Dims : j # NDim => a[j] = at[j]
      BY <1>2, <1>3, <2>2
    <3>2. RowOf(a) = [j \in Dims |-> IF j = NDim THEN 0 ELSE a[j]]
      BY <1>2, <3>1 DEF RowOf
    <3>3. at = [j \in Dims |-> at[j]]
      BY <1>3
    <3>4. \A j \in Dims : at[j] = IF j = NDim THEN 0 ELSE a[j]
      BY <1>3, <3>1
    <3> HIDE DEF a
    <3> QED BY <3>1, <3>2, <3>3, <3>4
  <2>4. \A j \in Dims : a[j] < CopyShape[j]
    <3> SUFFICES ASSUME NEW j \in Dims PROVE a[j] < CopyShape[j]
      OBVIOUS
    <3>1. CASE j = NDim
      BY <3>1, <2>2, <2>3
    <3>2. CASE j # NDim
      BY <3>2, <1>2, <1>3
    <3> QED BY <3>1, <3>2
  <2> HIDE DEF a
  <2> DEFINE e == Plus(args.dstStart, a)
  <2>5. e \in [Dims -> Nat] /\ DstNumber(e) = to + r
    <3>1. \A shape \in [Dims -> Nat \ {0}], start \in [Dims -> Nat] :
             /\ Plus(start, a) \in [Dims -> Nat]
             /\ MultidimToUnidim(Plus(start, a), Strides(shape))
                  = Offset(at, start, shape) + a[NDim]
      BY <1>3, <2>3, PlaceInBuffer
    <3> QED BY <1>1, <2>3, <3>1 DEF DstNumber
  <2>6. \A j \in Dims : e[j] = args.dstStart[j] + a[j]
    BY DEF Plus
  <2> HIDE DEF e
  <2>7. InBox(e, args.dstShape)
    <3>1. ASSUME NEW j \in Dims PROVE e[j] < args.dstShape[j]
      <4>1. /\ args.dstStart[j] \in Nat /\ a[j] \in Nat /\ CopyShape[j] \in Nat
            /\ args.dstShape[j] \in Nat /\ a[j] < CopyShape[j]
            /\ args.dstStart[j] + CopyShape[j] <= args.dstShape[j]
        BY <1>1, <2>3, <2>4
      <4> QED BY <4>1, <2>6
    <3> QED BY <2>5, <3>1 DEF InBox
  <2>8. e = c
    <3>1. UnidimToMultidim(args.dstShape, DstNumber(e)) = e
      BY <1>1, <2>7, NumberOfIndex DEF DstNumber
    <3>2. DstNumber(e) = n
      BY <2>2, <2>5
    <3> QED BY <1>4, <3>1, <3>2
  <2>9. b = a
    <3>1. b = [j \in Dims |-> e[j] - args.dstStart[j]]
      BY <2>8 DEF Minus
    <3>2. \A j \in Dims : e[j] - args.dstStart[j] = a[j]
      <4> SUFFICES ASSUME NEW j \in Dims PROVE e[j] - args.dstStart[j] = a[j]
        OBVIOUS
      <4>1. args.dstStart[j] \in Nat /\ a[j] \in Nat
        BY <1>1, <2>3
      <4> QED BY <4>1, <2>6
    <3>3. a = [j \in Dims |-> a[j]]
      BY <2>3
    <3> HIDE DEF b
    <3> QED BY <3>1, <3>2, <3>3
  <2>10. a \in Box(Origin, CopyShape)
    <3>1. CopyShape \in [Dims -> Int]
      BY <1>1
    <3> QED BY <3>1, <2>3, <2>4, OriginBox
  <2> HIDE DEF b
  <2> QED BY <2>3, <2>9, <2>10
<1> HIDE DEF to, from, len
<1>8. CASE b \in Box(Origin, CopyShape) /\ RowOf(b) = at
  BY <1>6, <1>8
<1>9. CASE ~(b \in Box(Origin, CopyShape) /\ RowOf(b) = at)
  BY <1>5, <1>7, <1>9
<1> QED BY <1>8, <1>9

\* The row of a place of the box, and its number.
LEMMA RowOfPlace ==
    ASSUME ArgsFit, NEW b \in Box(Origin, CopyShape)
    PROVE  /\ ~NothingToCopy
           /\ InBox(RowOf(b), Rows)
           /\ RowNumber(RowOf(b)) \in 0..Product(Rows) - 1
           /\ Product(Rows) \in Nat
<1> USE NDimAssumption
<1>1. CopyShape \in [Dims -> Nat] /\ CopyShape \in [Dims -> Int]
  BY DEF ArgsFit
<1>2. b \in [Dims -> Nat] /\ \A j \in Dims : b[j] < CopyShape[j]
  BY <1>1, OriginBox
<1>3. ~NothingToCopy
  <2> SUFFICES ASSUME NEW j \in Dims PROVE CopyShape[j] # 0
    BY DEF NothingToCopy
  <2>1. b[j] \in Nat /\ b[j] < CopyShape[j]
    BY <1>2
  <2> QED BY <2>1
<1>4. /\ Rows \in [Dims -> Nat \ {0}] /\ Rows[NDim] = 1
      /\ \A j \in 1..NDim - 1 : Rows[j] = CopyShape[j]
  BY <1>3, RowsFacts
<1>5. RowOf(b) \in [Dims -> Nat]
  BY <1>2 DEF RowOf
<1>6. ASSUME NEW j \in Dims PROVE RowOf(b)[j] < Rows[j]
  <2>1. CASE j = NDim
    <3>1. RowOf(b)[j] = 0
      BY <1>2, <2>1 DEF RowOf
    <3> QED BY <1>4, <2>1, <3>1
  <2>2. CASE j # NDim
    <3>1. RowOf(b)[j] = b[j] /\ j \in 1..NDim - 1
      BY <1>2, <2>2 DEF RowOf, Dims
    <3> QED BY <1>2, <1>4, <3>1
  <2> QED BY <2>1, <2>2
<1>7. InBox(RowOf(b), Rows)
  BY <1>5, <1>6 DEF InBox
<1>8. RowNumber(RowOf(b)) \in 0..Product(Rows) - 1
  BY <1>4, <1>7, NumberOfIndex DEF RowNumber
<1> QED BY <1>3, <1>4, <1>7, <1>8, ProductType

\* One more row is reached when it is copied.
LEMMA ReachedNext ==
    ASSUME ArgsFit, InBox(at, Rows), NEW c
    PROVE  LET b == Minus(c, args.dstStart)
           IN  Reached(c, RowNumber(at) + 1) <=>
                  \/ Reached(c, RowNumber(at))
                  \/ b \in Box(Origin, CopyShape) /\ RowOf(b) = at
<1> DEFINE b == Minus(c, args.dstStart)
<1>1. CASE b \notin Box(Origin, CopyShape)
  BY <1>1 DEF Reached
<1>2. CASE b \in Box(Origin, CopyShape)
  <2>1. /\ ~NothingToCopy /\ InBox(RowOf(b), Rows)
        /\ RowNumber(RowOf(b)) \in 0..Product(Rows) - 1
        /\ Product(Rows) \in Nat
    BY <1>2, RowOfPlace
  <2> HIDE DEF b
  <2>2. Rows \in [Dims -> Nat \ {0}]
    BY <2>1, RowsFacts
  <2>3. \A x : InBox(x, Rows) => /\ RowNumber(x) \in 0..Product(Rows) - 1
                                 /\ UnidimToMultidim(Rows, RowNumber(x)) = x
    BY <2>2, NumberOfIndex DEF RowNumber
  <2>4. RowNumber(at) \in Int
    BY <2>3
  <2>5. RowNumber(RowOf(b)) = RowNumber(at) <=> RowOf(b) = at
    BY <2>1, <2>3
  <2>6. RowNumber(RowOf(b)) < RowNumber(at) + 1 <=>
           RowNumber(RowOf(b)) < RowNumber(at) \/ RowNumber(RowOf(b)) = RowNumber(at)
    BY <2>1, <2>4
  <2> QED BY <1>2, <2>5, <2>6 DEF Reached, b
<1> QED BY <1>1, <1>2

\* At the beginning no row is copied.
LEMMA CopiedInit ==
    ASSUME Init
    PROVE  CopiedSoFar
<1> SUFFICES ASSUME NEW c \in Box(Origin, args.dstShape)
             PROVE  dst[DstNumber(c)] = IF Reached(c, RowsCopied) THEN SourceOf(c) ELSE Old
  BY DEF CopiedSoFar
<1>1. ArgsFit
  BY CallersFit
<1>2. RowsCopied = 0
  BY DEF Init, RowsCopied
<1>3. DstNumber(c) \in 0..Product(args.dstShape) - 1
  BY <1>1, DstPlaces
<1>4. dst[DstNumber(c)] = Old
  BY <1>3 DEF Init
<1>5. ~Reached(c, 0)
  <2> DEFINE b == Minus(c, args.dstStart)
  <2>1. b \in Box(Origin, CopyShape) => RowNumber(RowOf(b)) \in 0..Product(Rows) - 1
    BY <1>1, RowOfPlace
  <2>2. b \in Box(Origin, CopyShape) => ~(RowNumber(RowOf(b)) < 0)
    BY <2>1
  <2> QED BY <2>2 DEF Reached
<1> QED BY <1>2, <1>4, <1>5

\* What depends on the arguments and the source stays as it is.
LEMMA SameArguments ==
    ASSUME UNCHANGED <<args, src>>
    PROVE  /\ Box(Origin, args.dstShape)' = Box(Origin, args.dstShape)
           /\ \A c : /\ DstNumber(c)' = DstNumber(c)
                     /\ SourceOf(c)' = SourceOf(c)
           /\ \A c, n : Reached(c, n)' = Reached(c, n)
<1>1. CopyShape' = CopyShape /\ Rows' = Rows
  BY DEF CopyShape, Rows
<1>2. \A b : RowNumber(b)' = RowNumber(b)
  BY <1>1 DEF RowNumber
<1>3. \A c, n : Reached(c, n)' = Reached(c, n)
  BY <1>1, <1>2 DEF Reached
<1> QED BY <1>3 DEF DstNumber, SourceOf, SrcNumber

\* A row that is copied is added to those copied, and nothing else changes.
LEMMA CopiedStep ==
    ASSUME CountersFit, CopiedSoFar, [Next]_vars
    PROVE  CopiedSoFar'
<1>1. CASE Enter
  <2>1. RowsCopied = 0 /\ RowsCopied' = 0 /\ UNCHANGED <<args, src, dst>>
    BY <1>1, EnterFacts
  <2>2. ASSUME NEW c \in Box(Origin, args.dstShape)'
        PROVE  (dst[DstNumber(c)] = IF Reached(c, RowsCopied) THEN SourceOf(c) ELSE Old)'
    <3>1. dst[DstNumber(c)] = IF Reached(c, RowsCopied) THEN SourceOf(c) ELSE Old
      BY <2>1, SameArguments DEF CopiedSoFar
    <3>2. Reached(c, RowsCopied)' = Reached(c, RowsCopied)
      BY <2>1 DEF Reached, RowNumber, CopyShape, Rows
    <3> QED BY <2>1, <3>1, <3>2, SameArguments
  <2> QED BY <2>2 DEF CopiedSoFar
<1>2. CASE CopyRow
  <2>1. /\ ~NothingToCopy /\ InBox(at, Rows)
        /\ RowsCopied = RowNumber(at) /\ RowsCopied' = RowNumber(at) + 1
    BY <1>2, CopyRowFacts
  <2>2. dst' = RowCopied(at) /\ UNCHANGED <<args, src>>
    BY <1>2 DEF CopyRow
  <2>3. ArgsFit /\ DOMAIN dst = 0..Product(args.dstShape) - 1
    BY DEF CountersFit
  <2>4. ASSUME NEW c \in Box(Origin, args.dstShape)'
        PROVE  (dst[DstNumber(c)] = IF Reached(c, RowsCopied) THEN SourceOf(c) ELSE Old)'
    <3> DEFINE b == Minus(c, args.dstStart)
               Here == b \in Box(Origin, CopyShape) /\ RowOf(b) = at
    <3>1. c \in Box(Origin, args.dstShape)
      BY <2>2, SameArguments
    <3>2. RowCopied(at)[DstNumber(c)] = IF Here THEN SourceOf(c) ELSE dst[DstNumber(c)]
      BY <2>1, <2>3, <3>1, RowReaches
    <3>3. Reached(c, RowNumber(at) + 1) <=> Reached(c, RowNumber(at)) \/ Here
      BY <2>1, <2>3, ReachedNext
    <3>4. dst[DstNumber(c)] = IF Reached(c, RowNumber(at)) THEN SourceOf(c) ELSE Old
      BY <2>1, <3>1 DEF CopiedSoFar
    <3> HIDE DEF Here
    <3>5. dst'[DstNumber(c)] =
             IF Reached(c, RowNumber(at) + 1) THEN SourceOf(c) ELSE Old
      BY <2>2, <3>2, <3>3, <3>4
    <3>6. Reached(c, RowsCopied)' <=> Reached(c, RowNumber(at) + 1)
      BY <2>1, <2>2 DEF Reached, RowNumber, CopyShape, Rows
    <3>7. DstNumber(c)' = DstNumber(c) /\ SourceOf(c)' = SourceOf(c)
      BY <2>2, SameArguments
    <3> QED BY <3>5, <3>6, <3>7
  <2> QED BY <2>4 DEF CopiedSoFar
<1>3. CASE UNCHANGED vars
  BY <1>3 DEF vars, CopiedSoFar, DstNumber, Reached, RowNumber, Rows, CopyShape, SourceOf,
              SrcNumber, RowsCopied, NothingToCopy
<1> QED BY <1>1, <1>2, <1>3 DEF Next

\* When all rows are copied, the box is.
LEMMA CopiedMeaning ==
    ASSUME CountersFit, CopiedSoFar
    PROVE  CopiesBox
<1> SUFFICES ASSUME pc = "done", NEW c \in Box(Origin, args.dstShape)
             PROVE  LET b == Minus(c, args.dstStart)
                        s == Plus(args.srcStart, b)
                    IN  dst[MultidimToUnidim(c, Strides(args.dstShape))] =
                            IF b \in Box(Origin, CopyShape)
                            THEN src[MultidimToUnidim(s, Strides(args.srcShape))]
                            ELSE Old
  BY DEF CopiesBox
<1> DEFINE b == Minus(c, args.dstStart)
<1>1. dst[DstNumber(c)] = IF Reached(c, RowsCopied) THEN SourceOf(c) ELSE Old
  BY DEF CopiedSoFar
<1>2. Reached(c, RowsCopied) <=> b \in Box(Origin, CopyShape)
  <2>1. ASSUME b \in Box(Origin, CopyShape) PROVE RowNumber(RowOf(b)) < RowsCopied
    <3>1. /\ ~NothingToCopy
          /\ RowNumber(RowOf(b)) \in 0..Product(Rows) - 1 /\ Product(Rows) \in Nat
      BY <2>1, RowOfPlace DEF CountersFit
    <3>2. RowsCopied = Product(Rows)
      BY <3>1 DEF RowsCopied
    <3> QED BY <3>1, <3>2
  <2> QED BY <2>1 DEF Reached
<1> QED BY <1>1, <1>2 DEF DstNumber, SourceOf, SrcNumber

\* A copy puts every item of the box where it belongs in the destination, and touches
\* nothing else: for any number of dimensions, paddings and box.
THEOREM CopyCorrect == Spec => []CopiesBox
<1>1. Init => CopiedSoFar
  BY CopiedInit
<1>2. CountersFit /\ CopiedSoFar /\ [Next]_vars => CopiedSoFar'
  BY CopiedStep
<1>3. CountersFit /\ CopiedSoFar => CopiesBox
  BY CopiedMeaning
<1> QED BY <1>1, <1>2, <1>3, CountersAlwaysFit, PTL DEF Spec
=============================================================================
