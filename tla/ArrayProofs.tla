----------------------------- MODULE ArrayProofs -----------------------------
(***************************************************************************)
(* Theorems about Slice and Array, for every number of dimensions, every   *)
(* partition, every shape and every sequence of calls: a read returns the  *)
(* items of its slice and a write replaces them and nothing else, chunk by *)
(* chunk; insert, append, delete and resize move the items as they say.    *)
(***************************************************************************)
EXTENDS Array, GeometryProofs

-----------------------------------------------------------------------------
(* The chunks a call goes through. *)

\* The arguments of a call are well formed, and its loop has not ended.
WellFormed ==
    /\ shape \in [Dims -> Nat]
    /\ call.start \in [Dims -> Nat]
    /\ call.stop \in [Dims -> Nat]
    /\ cur \in Nat

AtTurn == WellFormed /\ cur < Product(ChunkSpan)

\* The chunk an item is in, and its place there.
ChunkAt(c) == [j \in Dims |-> c[j] \div ChunkShape[j]]
RestAt(c)  == [j \in Dims |-> c[j] % ChunkShape[j]]

\* Division keeps the order.
LEMMA DivOrder ==
    ASSUME NEW s \in Nat \ {0}, NEW a \in Nat, NEW x \in Nat, a <= x
    PROVE  a \div s <= x \div s
<1> DEFINE p == a \div s
           q == x \div s
<1>1. /\ p \in Nat /\ (a % s) \in 0..s - 1 /\ a = p * s + (a % s)
      /\ q \in Nat /\ (x % s) \in 0..s - 1 /\ x = q * s + (x % s)
  BY QuotientRest
<1> HIDE DEF p, q
<1>2. SUFFICES ASSUME q + 1 <= p PROVE FALSE
  BY <1>1 DEF p, q
<1>3. (q + 1) * s <= p * s
  BY <1>1, <1>2
<1>4. (q + 1) * s = q * s + s /\ q * s \in Nat /\ p * s \in Nat
  BY <1>1
<1> QED BY <1>1, <1>3, <1>4

\* A slice lies in the chunks from its first to its last.
LEMMA SpanDim ==
    ASSUME NEW s \in Nat \ {0}, NEW a \in Nat, NEW z \in Nat, NEW x \in Nat,
           a <= x, x < z
    PROVE  (x \div s) - (a \div s) \in 0..(RoundUp(z, s) \div s - (a \div s)) - 1
<1>1. x \div s \in Nat /\ a \div s \in Nat /\ a \div s <= x \div s
  BY DivOrder, QuotientRest
<1>2. RoundUp(z, s) \div s \in Nat
  BY GridBound
<1>3. s * (x \div s) <= x
  <2>1. x \div s \in Nat /\ (x % s) \in 0..s - 1 /\ x = (x \div s) * s + (x % s)
    BY QuotientRest
  <2>2. \A q \in Nat : s * q = q * s /\ q * s \in Nat
    OBVIOUS
  <2> HIDE DEF RoundUp
  <2> QED BY <2>1, <2>2
<1>4. s * (x \div s) < z
  <2>1. s * (x \div s) \in Nat
    BY <1>1
  <2> QED BY <1>3, <2>1
<1>5. x \div s < RoundUp(z, s) \div s
  BY <1>1, <1>4, GridBound
<1> QED BY <1>1, <1>2, <1>5

\* Every item of the slice is in one of the chunks the loop goes through.
LEMMA SpanFacts ==
    ASSUME WellFormed
    PROVE  /\ FirstChunk \in [Dims -> Nat]
           /\ ChunkSpan \in [Dims -> Nat \ {0}]
           /\ Product(ChunkSpan) \in Nat \ {0}
           /\ \A c \in [Dims -> Nat] :
                 InSlice(c) => InBox([j \in Dims |-> c[j] \div ChunkShape[j] - FirstChunk[j]],
                                     ChunkSpan)
<1>1. ASSUME NEW j \in Dims
      PROVE  /\ ChunkShape[j] \in Nat \ {0} /\ call.start[j] \in Nat /\ call.stop[j] \in Nat
             /\ FirstChunk[j] = call.start[j] \div ChunkShape[j]
             /\ FirstChunk[j] \in Nat
  BY ChunkShapeAssumption, QuotientRest DEF WellFormed, FirstChunk
<1>2. FirstChunk \in [Dims -> Nat]
  BY <1>1 DEF FirstChunk
<1>3. ASSUME NEW j \in Dims
      PROVE  LET n == RoundUp(call.stop[j], ChunkShape[j]) \div ChunkShape[j] - FirstChunk[j]
             IN  n \in Int /\ ChunkSpan[j] = IF n > 1 THEN n ELSE 1
  <2>1. RoundUp(call.stop[j], ChunkShape[j]) \div ChunkShape[j] \in Nat
    BY <1>1, GridBound
  <2> QED BY <1>1, <2>1 DEF ChunkSpan
<1>4. ChunkSpan \in [Dims -> Nat \ {0}]
  <2>1. \A j \in Dims : ChunkSpan[j] \in Nat \ {0}
    BY <1>3
  <2>2. ChunkSpan = [j \in Dims |-> ChunkSpan[j]]
    BY DEF ChunkSpan
  <2> QED BY <2>1, <2>2
<1>5. ASSUME NEW c \in [Dims -> Nat], InSlice(c)
      PROVE  InBox([j \in Dims |-> c[j] \div ChunkShape[j] - FirstChunk[j]], ChunkSpan)
  <2> DEFINE d == [j \in Dims |-> c[j] \div ChunkShape[j] - FirstChunk[j]]
  <2>1. ASSUME NEW j \in Dims
        PROVE  d[j] \in 0..ChunkSpan[j] - 1
    <3>1. call.start[j] <= c[j] /\ c[j] < call.stop[j] /\ c[j] \in Nat
      BY <1>5 DEF InSlice
    <3>2. (c[j] \div ChunkShape[j]) - (call.start[j] \div ChunkShape[j])
            \in 0..(RoundUp(call.stop[j], ChunkShape[j]) \div ChunkShape[j]
                      - (call.start[j] \div ChunkShape[j])) - 1
      BY <1>1, <3>1, SpanDim
    <3>3. d[j] = (c[j] \div ChunkShape[j]) - FirstChunk[j]
      OBVIOUS
    <3> HIDE DEF d
    <3> QED BY <1>1, <1>3, <3>2, <3>3
  <2>2. ChunkSpan \in [Dims -> Nat]
    BY <1>4
  <2>3. d = [j \in Dims |-> d[j]]
    OBVIOUS
  <2> HIDE DEF d
  <2>4. InBox(d, ChunkSpan)
    BY <2>1, <2>2, <2>3 DEF InBox
  <2> QED BY <2>4 DEF d
<1>6. Product(ChunkSpan) \in Nat \ {0}
  BY <1>4, ProductType
<1> QED BY <1>2, <1>4, <1>5, <1>6

\* The chunk the loop is at.
LEMMA HereFacts ==
    ASSUME AtTurn
    PROVE  /\ Here \in [Dims -> Nat]
           /\ Here = Plus(FirstChunk, UnidimToMultidim(ChunkSpan, cur))
           /\ InBox(UnidimToMultidim(ChunkSpan, cur), ChunkSpan)
           /\ MultidimToUnidim(UnidimToMultidim(ChunkSpan, cur), Strides(ChunkSpan)) = cur
<1>1. /\ FirstChunk \in [Dims -> Nat] /\ ChunkSpan \in [Dims -> Nat \ {0}]
      /\ Product(ChunkSpan) \in Nat
  BY SpanFacts DEF AtTurn
<1>2. cur \in 0..Product(ChunkSpan) - 1
  BY <1>1 DEF AtTurn, WellFormed
<1>3. /\ InBox(UnidimToMultidim(ChunkSpan, cur), ChunkSpan)
      /\ MultidimToUnidim(UnidimToMultidim(ChunkSpan, cur), Strides(ChunkSpan)) = cur
  BY <1>1, <1>2, IndexOfNumber
<1>4. Here \in [Dims -> Nat]
  <2>1. UnidimToMultidim(ChunkSpan, cur) \in [Dims -> Nat]
    BY <1>3 DEF InBox
  <2> QED BY <1>1, <2>1 DEF Here, Plus
<1> QED BY <1>3, <1>4 DEF Here

\* The loop comes to the chunk an item of the slice is in at one turn, and no other.
LEMMA TurnFacts ==
    ASSUME WellFormed, NEW c \in [Dims -> Nat], InSlice(c)
    PROVE  /\ Turn(c) \in 0..Product(ChunkSpan) - 1
           /\ AtTurn => (Turn(c) = cur <=> ChunkAt(c) = Here)
<1> DEFINE d == [j \in Dims |-> c[j] \div ChunkShape[j] - FirstChunk[j]]
           u == UnidimToMultidim(ChunkSpan, cur)
<1>1. /\ FirstChunk \in [Dims -> Nat] /\ ChunkSpan \in [Dims -> Nat \ {0}]
      /\ InBox(d, ChunkSpan)
  BY SpanFacts
<1>2. Turn(c) = MultidimToUnidim(d, Strides(ChunkSpan))
  BY DEF Turn
<1>3. ChunkAt(c) = Plus(FirstChunk, d)
  <2>1. ASSUME NEW j \in Dims PROVE c[j] \div ChunkShape[j] = FirstChunk[j] + d[j]
    <3>1. c[j] \in Nat /\ ChunkShape[j] \in Nat \ {0} /\ FirstChunk[j] \in Nat
      BY <1>1, ChunkShapeAssumption
    <3>2. c[j] \div ChunkShape[j] \in Nat
      BY <3>1, QuotientRest
    <3> QED BY <3>1, <3>2
  <2> HIDE DEF d
  <2> QED BY <2>1 DEF ChunkAt, Plus
<1> HIDE DEF d, u
<1>4. /\ Turn(c) \in 0..Product(ChunkSpan) - 1
      /\ UnidimToMultidim(ChunkSpan, Turn(c)) = d
  BY <1>1, <1>2, NumberOfIndex
<1>5. ASSUME AtTurn PROVE Turn(c) = cur <=> ChunkAt(c) = Here
  <2>1. /\ Here = Plus(FirstChunk, u) /\ InBox(u, ChunkSpan)
        /\ MultidimToUnidim(u, Strides(ChunkSpan)) = cur
    BY <1>5, HereFacts DEF u
  <2>2. d = u <=> ChunkAt(c) = Here
    <3>1. ASSUME Plus(FirstChunk, d) = Plus(FirstChunk, u) PROVE d = u
      <4>1. d \in [Dims -> Nat] /\ u \in [Dims -> Nat]
        BY <1>1, <2>1 DEF InBox
      <4>2. ASSUME NEW j \in Dims PROVE d[j] = u[j]
        <5>1. FirstChunk[j] + d[j] = FirstChunk[j] + u[j]
          <6>1. /\ Plus(FirstChunk, d)[j] = FirstChunk[j] + d[j]
                /\ Plus(FirstChunk, u)[j] = FirstChunk[j] + u[j]
            BY DEF Plus
          <6> QED BY <3>1, <6>1
        <5> QED BY <1>1, <4>1, <5>1
      <4> QED BY <4>1, <4>2
    <3> QED BY <1>3, <2>1, <3>1
  <2>3. d = u <=> Turn(c) = cur
    BY <1>2, <1>4, <2>1 DEF u
  <2> QED BY <2>2, <2>3
<1> QED BY <1>4, <1>5

-----------------------------------------------------------------------------
(* What is copied of a chunk. *)

\* In one dimension: block p \div b of the chunk that begins at h * s, clipped to
\* the chunk, which is clipped to the shape f, holds the item h * s + p just when that
\* is an item of the chunk.
BlockFrom(s, b, h, f, p) ==
    IF h * s + (p \div b) * b <= (IF h * s + s <= f THEN h * s + s ELSE f)
    THEN h * s + (p \div b) * b ELSE IF h * s + s <= f THEN h * s + s ELSE f
BlockTo(s, b, h, f, p) ==
    IF h * s + ((p \div b) + 1) * b <= (IF h * s + s <= f THEN h * s + s ELSE f)
    THEN h * s + ((p \div b) + 1) * b ELSE IF h * s + s <= f THEN h * s + s ELSE f

LEMMA BlockDim ==
    ASSUME NEW s \in Nat \ {0}, NEW b \in Nat \ {0}, NEW h \in Nat, NEW f \in Nat,
           NEW p \in Nat
    PROVE  /\ BlockFrom(s, b, h, f, p) \in Int /\ BlockTo(s, b, h, f, p) \in Int
           /\ BlockFrom(s, b, h, f, p) <= h * s + p /\ h * s + p < BlockTo(s, b, h, f, p)
                <=> p < s /\ h * s + p < f
<1> DEFINE m == h * s
           n == (p \div b) * b
           k == ((p \div b) + 1) * b
<1>1. m \in Nat /\ n \in Nat /\ k = n + b /\ n <= p /\ p < n + b
  <2>1. p \div b \in Nat /\ (p % b) \in 0..b - 1 /\ p = (p \div b) * b + (p % b)
    BY QuotientRest
  <2>2. \A q \in Nat : (q + 1) * b = q * b + b /\ q * b \in Nat
    OBVIOUS
  <2>3. h * s \in Nat
    OBVIOUS
  <2> QED BY <2>1, <2>2, <2>3
<1>2. /\ BlockFrom(s, b, h, f, p) =
           IF m + n <= (IF m + s <= f THEN m + s ELSE f) THEN m + n
           ELSE IF m + s <= f THEN m + s ELSE f
      /\ BlockTo(s, b, h, f, p) =
           IF m + k <= (IF m + s <= f THEN m + s ELSE f) THEN m + k
           ELSE IF m + s <= f THEN m + s ELSE f
      /\ h * s + p = m + p
  BY DEF BlockFrom, BlockTo
<1> HIDE DEF m, n, k
<1> QED BY <1>1, <1>2

\* The item at a place of the chunk is copied if it is in the slice and in the array,
\* and the place no padding of the chunk.
LEMMA CopiedFacts ==
    ASSUME AtTurn, NEW p \in [Dims -> Nat]
    PROVE  /\ ItemAt(p) \in [Dims -> Nat]
           /\ Copied(p) <=> /\ InSlice(ItemAt(p))
                            /\ \A j \in Dims : p[j] < ChunkShape[j]
                                               /\ ItemAt(p)[j] < shape[j]
           /\ Copied(p) => ~MaskedOut(BlockOf(p))
<1> DEFINE b == BlockOf(p)
<1>1. Here \in [Dims -> Nat] /\ shape \in [Dims -> Nat]
  BY HereFacts DEF AtTurn, WellFormed
<1>2. ASSUME NEW j \in Dims
      PROVE  /\ ItemAt(p)[j] \in Nat
             /\ ItemAt(p)[j] = Here[j] * ChunkShape[j] + p[j]
             /\ BlockStart(b)[j]
                  = BlockFrom(ChunkShape[j], BlockShape[j], Here[j], shape[j], p[j])
             /\ BlockStop(b)[j]
                  = BlockTo(ChunkShape[j], BlockShape[j], Here[j], shape[j], p[j])
  <2>1. ItemAt(p)[j] = Here[j] * ChunkShape[j] + p[j]
    BY DEF ItemAt, Plus, ChunkStart
  <2>2. ChunkStop[j] = IF Here[j] * ChunkShape[j] + ChunkShape[j] <= shape[j]
                       THEN Here[j] * ChunkShape[j] + ChunkShape[j] ELSE shape[j]
    BY DEF ChunkStop, Lesser, Plus, ChunkStart
  <2>3. ChunkStart[j] = Here[j] * ChunkShape[j] /\ b[j] = p[j] \div BlockShape[j]
    BY DEF ChunkStart, BlockOf
  <2> HIDE DEF b
  <2>4. /\ BlockStart(b)[j] = IF ChunkStart[j] + b[j] * BlockShape[j] <= ChunkStop[j]
                              THEN ChunkStart[j] + b[j] * BlockShape[j] ELSE ChunkStop[j]
        /\ BlockStop(b)[j] = IF ChunkStart[j] + (b[j] + 1) * BlockShape[j] <= ChunkStop[j]
                             THEN ChunkStart[j] + (b[j] + 1) * BlockShape[j]
                             ELSE ChunkStop[j]
    BY DEF BlockStart, BlockStop, Lesser
  <2>5. Here[j] * ChunkShape[j] + p[j] \in Nat
    BY <1>1, ChunkShapeAssumption
  <2> QED BY <2>1, <2>2, <2>3, <2>4, <2>5 DEF BlockFrom, BlockTo
<1>3. ASSUME NEW j \in Dims
      PROVE  /\ BlockStart(b)[j] \in Int /\ BlockStop(b)[j] \in Int
             /\ BlockStart(b)[j] <= ItemAt(p)[j] /\ ItemAt(p)[j] < BlockStop(b)[j]
                  <=> p[j] < ChunkShape[j] /\ ItemAt(p)[j] < shape[j]
  <2>1. /\ ChunkShape[j] \in Nat \ {0} /\ BlockShape[j] \in Nat \ {0}
        /\ Here[j] \in Nat /\ shape[j] \in Nat /\ p[j] \in Nat
    BY <1>1, ChunkShapeAssumption, BlockShapeAssumption
  <2> DEFINE from == BlockFrom(ChunkShape[j], BlockShape[j], Here[j], shape[j], p[j])
             to == BlockTo(ChunkShape[j], BlockShape[j], Here[j], shape[j], p[j])
             x == Here[j] * ChunkShape[j] + p[j]
  <2>2. /\ from \in Int /\ to \in Int
        /\ from <= x /\ x < to <=> p[j] < ChunkShape[j] /\ x < shape[j]
    BY <2>1, BlockDim
  <2>3. ItemAt(p)[j] = x /\ BlockStart(b)[j] = from /\ BlockStop(b)[j] = to
    BY <1>2
  <2> HIDE DEF b, from, to, x
  <2> QED BY <2>2, <2>3
<1>4. ItemAt(p) \in [Dims -> Nat]
  BY <1>2 DEF ItemAt, Plus
<1>5. Copied(p) <=> /\ ~Misses(BlockStart(b), BlockStop(b))
                    /\ \A j \in Dims : /\ BlockStart(b)[j] <= ItemAt(p)[j]
                                       /\ ItemAt(p)[j] < BlockStop(b)[j]
                                       /\ call.start[j] <= ItemAt(p)[j]
                                       /\ ItemAt(p)[j] < call.stop[j]
  BY DEF Copied
<1> HIDE DEF b
<1>6. ASSUME InSlice(ItemAt(p)),
             \A j \in Dims : BlockStart(b)[j] <= ItemAt(p)[j] /\ ItemAt(p)[j] < BlockStop(b)[j]
      PROVE  ~Misses(BlockStart(b), BlockStop(b))
  <2>1. ASSUME NEW j \in Dims
        PROVE  ~ (BlockStop(b)[j] <= call.start[j] \/ BlockStart(b)[j] >= call.stop[j])
    <3>1. /\ call.start[j] \in Nat /\ call.stop[j] \in Nat
          /\ call.start[j] <= ItemAt(p)[j] /\ ItemAt(p)[j] < call.stop[j]
      BY <1>6 DEF AtTurn, WellFormed, InSlice
    <3> QED BY <1>2, <1>3, <1>6, <3>1
  <2> QED BY <2>1 DEF Misses
<1>7. Copied(p) <=> /\ InSlice(ItemAt(p))
                    /\ \A j \in Dims : p[j] < ChunkShape[j] /\ ItemAt(p)[j] < shape[j]
  BY <1>3, <1>5, <1>6 DEF InSlice
<1>8. Copied(p) => ~MaskedOut(BlockOf(p))
  BY <1>5 DEF MaskedOut, b
<1> QED BY <1>4, <1>7, <1>8

\* The places of a chunk that is padded to whole blocks.
LEMMA ChunkBoxFacts ==
    /\ \A p : p \in ChunkBox => p \in [Dims -> Nat]
    /\ \A p \in [Dims -> Nat] : (\A j \in Dims : p[j] < ChunkShape[j]) => p \in ChunkBox
BY ChunkShapeAssumption, BlockShapeAssumption, PaddedBox DEF ChunkBox, ExtChunkShape

\* The items copied at a turn of the loop are those of the slice and the array whose
\* turn it is, each from or to its own place.
LEMMA CopiedItems ==
    ASSUME AtTurn, NEW c \in [Dims -> Nat]
    PROVE  LET p == Minus(c, ChunkStart)
           IN  /\ p \in ChunkBox /\ Copied(p)
                    <=> /\ InSlice(c) /\ \A j \in Dims : c[j] < shape[j]
                        /\ Turn(c) = cur
               /\ ChunkAt(c) = Here => p = RestAt(c) /\ p \in ChunkBox /\ ItemAt(p) = c
               /\ p \in ChunkBox /\ Copied(p) => ChunkAt(c) = Here
<1> DEFINE p == Minus(c, ChunkStart)
<1>1. Here \in [Dims -> Nat] /\ ChunkShape \in [Dims -> Nat \ {0}]
  BY HereFacts, ChunkShapeAssumption
<1>2. ASSUME NEW j \in Dims
      PROVE  /\ p[j] = c[j] - Here[j] * ChunkShape[j]
             /\ p[j] \in Int
             /\ p[j] \in Nat /\ p[j] < ChunkShape[j] <=> c[j] \div ChunkShape[j] = Here[j]
             /\ c[j] \div ChunkShape[j] = Here[j] =>
                  /\ p[j] = (c[j] % ChunkShape[j])
                  /\ Here[j] * ChunkShape[j] + p[j] = c[j]
  <2>1. p[j] = c[j] - Here[j] * ChunkShape[j]
    BY DEF Minus, ChunkStart
  <2>2. ChunkShape[j] \in Nat \ {0} /\ Here[j] \in Nat /\ c[j] \in Nat
    BY <1>1
  <2>3. p[j] \in Int
    BY <2>1, <2>2
  <2>4. /\ c[j] - Here[j] * ChunkShape[j] \in Nat /\ c[j] - Here[j] * ChunkShape[j] < ChunkShape[j]
             <=> c[j] \div ChunkShape[j] = Here[j]
        /\ c[j] \div ChunkShape[j] = Here[j] =>
             /\ c[j] - Here[j] * ChunkShape[j] = (c[j] % ChunkShape[j])
             /\ Here[j] * ChunkShape[j] + (c[j] - Here[j] * ChunkShape[j]) = c[j]
    <3> DEFINE s == ChunkShape[j]
               h == Here[j]
               x == c[j]
    <3>1. s \in Nat \ {0} /\ h \in Nat /\ x \in Nat
      BY <2>2
    <3> HIDE DEF s, h, x
    <3>2. /\ x - h * s \in Nat /\ x - h * s < s <=> x \div s = h
          /\ x \div s = h => x - h * s = (x % s) /\ h * s + (x - h * s) = x
      BY <3>1, PlaceDim
    <3> QED BY <3>2 DEF s, h, x
  <2> HIDE DEF p
  <2> QED BY <2>1, <2>3, <2>4, Zenon
<1>3. p = [j \in Dims |-> p[j]]
  BY DEF Minus
<1> HIDE DEF p
<1>4. ASSUME ChunkAt(c) = Here
      PROVE  p \in [Dims -> Nat] /\ p = RestAt(c) /\ p \in ChunkBox /\ ItemAt(p) = c
  <2>1. \A j \in Dims : c[j] \div ChunkShape[j] = Here[j]
    BY <1>4 DEF ChunkAt
  <2>2. p = RestAt(c)
    BY <1>2, <1>3, <2>1 DEF RestAt
  <2>3. p \in [Dims -> Nat] /\ p \in ChunkBox
    <3>1. \A j \in Dims : p[j] \in Nat /\ p[j] < ChunkShape[j]
      BY <1>2, <2>1
    <3>2. p \in [Dims -> Nat]
      BY <1>3, <3>1
    <3> QED BY <3>1, <3>2, ChunkBoxFacts
  <2>4. ItemAt(p) = c
    <3>1. \A j \in Dims : Here[j] * ChunkShape[j] + p[j] = c[j]
      BY <1>2, <2>1
    <3>2. ItemAt(p) = [j \in Dims |-> Here[j] * ChunkShape[j] + p[j]]
      BY DEF ItemAt, Plus, ChunkStart
    <3> QED BY <3>1, <3>2
  <2> QED BY <2>2, <2>3, <2>4
<1>5. ASSUME p \in ChunkBox, Copied(p)
      PROVE  ChunkAt(c) = Here
  <2>1. p \in [Dims -> Nat]
    BY <1>5, ChunkBoxFacts
  <2>2. \A j \in Dims : p[j] < ChunkShape[j]
    BY <1>5, <2>1, CopiedFacts
  <2>3. \A j \in Dims : c[j] \div ChunkShape[j] = Here[j]
    BY <1>2, <2>1, <2>2
  <2> QED BY <1>1, <2>3 DEF ChunkAt
<1>6. ASSUME ChunkAt(c) = Here
      PROVE  Copied(p) <=> InSlice(c) /\ \A j \in Dims : c[j] < shape[j]
  <2>1. \A j \in Dims : p[j] < ChunkShape[j]
    BY <1>2, <1>6 DEF ChunkAt
  <2> QED BY <1>4, <1>6, <2>1, CopiedFacts
<1>7. InSlice(c) => (Turn(c) = cur <=> ChunkAt(c) = Here)
  BY TurnFacts DEF AtTurn
<1> QED BY <1>4, <1>5, <1>6, <1>7 DEF p

-----------------------------------------------------------------------------
(* Items and the chunks they are stored in. *)

\* The super-chunk has a chunk for each place of the grid.
Stored == /\ shape \in [Dims -> Nat]
          /\ sc \in Seq(ChunkData)
          /\ Len(sc) = NumChunks(shape)

\* The chunks of a list.
LEMMA ChunkFacts ==
    ASSUME Stored, NEW k \in 0..NumChunks(shape) - 1
    PROVE  /\ k + 1 \in 1..Len(sc) /\ k + 1 \in DOMAIN sc
           /\ sc[k + 1] \in ChunkData
           /\ HasChunk(k)
<1>1. NumChunks(shape) \in Nat /\ Len(sc) = NumChunks(shape) /\ sc \in Seq(ChunkData)
  BY NumChunksType DEF Stored
<1>2. k + 1 \in 1..Len(sc) /\ k \in 0..Len(sc) - 1
  BY <1>1
<1> HIDE DEF ChunkData
<1>3. DOMAIN sc = 1..Len(sc) /\ sc[k + 1] \in ChunkData
  BY <1>1, <1>2
<1> QED BY <1>2, <1>3 DEF HasChunk

\* An item of an array of shape z is at a place of its own in a chunk of the grid.
LEMMA ItemPlace ==
    ASSUME NEW z \in [Dims -> Nat], NEW c \in [Dims -> Nat], \A j \in Dims : c[j] < z[j]
    PROVE  /\ ChunkAt(c) \in GridCoords(z)
           /\ ChunkOf(z, c) = NumberIn(z, ChunkAt(c))
           /\ ChunkOf(z, c) \in 0..NumChunks(z) - 1
           /\ RestAt(c) \in ChunkBox
           /\ \A l : ItemIn(z, l, c) = l[ChunkOf(z, c) + 1][RestAt(c)]
<1>1. ASSUME NEW j \in Dims
      PROVE  /\ c[j] \div ChunkShape[j] \in Nat
             /\ ChunkShape[j] * (c[j] \div ChunkShape[j]) < z[j]
             /\ (c[j] % ChunkShape[j]) \in Nat
             /\ (c[j] % ChunkShape[j]) < ChunkShape[j]
  <2> DEFINE s == ChunkShape[j]
             x == c[j]
             f == z[j]
  <2>1. s \in Nat \ {0} /\ x \in Nat /\ f \in Nat /\ x < f
    BY ChunkShapeAssumption
  <2> HIDE DEF s, x, f
  <2>2. x \div s \in Nat /\ s * (x \div s) <= x /\ (x % s) \in Nat /\ (x % s) < s
    BY <2>1, PlaceDim
  <2>3. s * (x \div s) \in Nat
    BY <2>1, <2>2
  <2>4. s * (x \div s) < f
    BY <2>1, <2>2, <2>3
  <2> QED BY <2>2, <2>4 DEF s, x, f
<1>2. ChunkAt(c) \in [Dims -> Nat] /\ RestAt(c) \in [Dims -> Nat]
  BY <1>1 DEF ChunkAt, RestAt
<1>3. ChunkAt(c) \in GridCoords(z)
  <2>1. ASSUME NEW j \in Dims
        PROVE  ChunkAt(c)[j] < ChunksInArray(z)[j]
    <3>1. ChunkAt(c)[j] \in Nat /\ ChunkShape[j] * ChunkAt(c)[j] < z[j]
      BY <1>1 DEF ChunkAt
    <3> QED BY <3>1, GridFacts
  <2> QED BY <1>2, <2>1, GridFacts DEF InBox
<1>4. ChunkOf(z, c) = NumberIn(z, ChunkAt(c))
  BY DEF ChunkOf, NumberIn, ChunkAt, ChunkHolding, ChunksInArray
<1>5. ChunkOf(z, c) \in 0..NumChunks(z) - 1
  BY <1>3, <1>4, Numbering
<1>6. RestAt(c) \in ChunkBox
  BY <1>1, <1>2, ChunkBoxFacts DEF RestAt
<1>7. \A l : ItemIn(z, l, c) = l[ChunkOf(z, c) + 1][RestAt(c)]
  BY DEF ItemIn, RestAt, ItemHeld, ChunkOf
<1> QED BY <1>3, <1>4, <1>5, <1>6, <1>7

\* So it is in the array.
LEMMA ItemFacts ==
    ASSUME Stored, NEW c \in [Dims -> Nat], \A j \in Dims : c[j] < shape[j]
    PROVE  /\ ChunkAt(c) \in GridCoords(shape)
           /\ ChunkOf(shape, c) = NumberIn(shape, ChunkAt(c))
           /\ ChunkOf(shape, c) \in 0..NumChunks(shape) - 1
           /\ RestAt(c) \in ChunkBox
           /\ Item(c) = sc[ChunkOf(shape, c) + 1][RestAt(c)]
           /\ Item(c) \in Values
<1>1. /\ ChunkAt(c) \in GridCoords(shape)
      /\ ChunkOf(shape, c) = NumberIn(shape, ChunkAt(c))
      /\ ChunkOf(shape, c) \in 0..NumChunks(shape) - 1
      /\ RestAt(c) \in ChunkBox
      /\ Item(c) = sc[ChunkOf(shape, c) + 1][RestAt(c)]
  BY ItemPlace DEF Stored, Item
<1>2. sc[ChunkOf(shape, c) + 1] \in [ChunkBox -> Values]
  BY <1>1, ChunkFacts DEF ChunkData
<1> QED BY <1>1, <1>2

\* Writing the chunk the loop is at changes no item of another one.
LEMMA ChunkOfHere ==
    ASSUME Stored, AtTurn, NEW c \in [Dims -> Nat], \A j \in Dims : c[j] < shape[j]
    PROVE  /\ ChunkAt(c) = Here => ChunkOf(shape, c) = NChunk
           /\ Here \in GridCoords(shape) /\ ChunkOf(shape, c) = NChunk => ChunkAt(c) = Here
<1>1. NChunk = NumberIn(shape, Here)
  BY DEF NChunk, NumberIn
<1>2. /\ ChunkAt(c) \in GridCoords(shape)
      /\ ChunkOf(shape, c) = NumberIn(shape, ChunkAt(c))
  BY ItemFacts
<1>3. \A d \in GridCoords(shape) : PlaceIn(shape, NumberIn(shape, d)) = d
  BY Numbering DEF Stored
<1> QED BY <1>1, <1>2, <1>3

\* A chunk that a write does not skip is in the grid.
LEMMA WrittenChunk ==
    ASSUME Stored, AtTurn, ~SkipsChunk, \A j \in Dims : call.stop[j] <= shape[j]
    PROVE  /\ Here \in GridCoords(shape)
           /\ NChunk \in 0..NumChunks(shape) - 1
           /\ PlaceIn(shape, NChunk) = Here
<1>1. Here \in [Dims -> Nat] /\ shape \in [Dims -> Nat] /\ call.stop \in [Dims -> Nat]
  BY HereFacts DEF Stored, AtTurn, WellFormed
<1>2. ASSUME NEW j \in Dims
      PROVE  Here[j] < ChunksInArray(shape)[j]
  <2>1. ~ (ChunkStart[j] >= call.stop[j])
    BY DEF SkipsChunk, Misses
  <2>2. ChunkStart[j] = Here[j] * ChunkShape[j]
    BY DEF ChunkStart
  <2> DEFINE x == Here[j] * ChunkShape[j]
  <2>3. x \in Nat /\ x = ChunkShape[j] * Here[j]
    BY <1>1, ChunkShapeAssumption
  <2>4. call.stop[j] \in Nat /\ shape[j] \in Nat /\ call.stop[j] <= shape[j]
    BY <1>1
  <2>5. x < shape[j]
    <3> HIDE DEF x
    <3>1. ChunkStart[j] = x
      BY <2>2 DEF x
    <3> QED BY <2>1, <2>3, <2>4, <3>1
  <2>6. ChunkShape[j] * Here[j] < shape[j] /\ Here[j] \in Nat
    BY <1>1, <2>3, <2>5
  <2> QED BY <1>1, <2>6, GridFacts
<1>3. Here \in GridCoords(shape)
  BY <1>1, <1>2, GridFacts DEF InBox
<1>4. NChunk = NumberIn(shape, Here)
  BY DEF NChunk, NumberIn
<1> QED BY <1>1, <1>3, <1>4, Numbering

-----------------------------------------------------------------------------
(* Entering a call. *)

\* The slice a call is given: where it ends, and where it begins.
LEMMA SliceArguments ==
    ASSUME shape \in [Dims -> Nat], NEW over \in Nat,
           NEW stop \in StopsWithin(over), NEW start \in StartsBefore(stop)
    PROVE  /\ stop \in [Dims -> Nat] /\ \A j \in Dims : stop[j] <= shape[j] + over
           /\ start \in [Dims -> Nat] /\ \A j \in Dims : start[j] <= stop[j]
<1> DEFINE last == [j \in Dims |-> shape[j] + over + 1]
           next == [j \in Dims |-> stop[j] + 1]
<1>1. last \in [Dims -> Int] /\ \A j \in Dims : last[j] = shape[j] + over + 1
  OBVIOUS
<1>2. stop \in [Dims -> Nat] /\ \A j \in Dims : stop[j] < last[j]
  <2>1. stop \in Box(Origin, last)
    BY DEF StopsWithin
  <2> HIDE DEF last
  <2> QED BY <1>1, <2>1, OriginBox
<1>3. next \in [Dims -> Int] /\ \A j \in Dims : next[j] = stop[j] + 1
  BY <1>2
<1>4. start \in [Dims -> Nat] /\ \A j \in Dims : start[j] < next[j]
  <2>1. start \in Box(Origin, next)
    BY DEF StartsBefore
  <2> HIDE DEF next
  <2> QED BY <1>3, <2>1, OriginBox
<1> HIDE DEF last, next
<1>5. \A j \in Dims : stop[j] \in Nat /\ start[j] \in Nat /\ shape[j] \in Nat
  BY <1>2, <1>4
<1> QED BY <1>1, <1>2, <1>3, <1>4, <1>5

\* The places of a buffer.
LEMMA BufferFacts ==
    ASSUME NEW start \in [Dims -> Nat], NEW stop \in [Dims -> Nat], NEW pad \in Int, NEW q
    PROVE  q \in BufferBox(start, stop, pad) <=>
              q \in [Dims -> Nat] /\ \A j \in Dims : q[j] < stop[j] - start[j] + pad
<1> DEFINE hi == [j \in Dims |-> stop[j] - start[j] + pad]
<1>1. hi \in [Dims -> Int] /\ \A j \in Dims : hi[j] = stop[j] - start[j] + pad
  OBVIOUS
<1>2. BufferBox(start, stop, pad) = Box(Origin, hi)
  BY DEF BufferBox
<1> HIDE DEF hi
<1> QED BY <1>1, <1>2, OriginBox

\* What entering a call does, with and without an answer at once.
LEMMA EnterFacts ==
    ASSUME NEW op \in {"get", "set"}, NEW start, NEW stop,
           NEW answer \in {"none", "SUCCEED", "INVALID_ARGUMENT"},
           Enter(op, start, stop, answer)
    PROVE  /\ call' = [op |-> op, start |-> start, stop |-> stop]
           /\ cur' = 0 /\ data' = Unread
           /\ answer = "none" => /\ pc' = IF op = "set" THEN "setting" ELSE "getting"
                                 /\ ret' = ret
           /\ answer # "none" => pc' = "idle" /\ ret' = answer
BY DEF Enter

\* A call that writes the slice from start to stop.
SetWith(start, stop) ==
    /\ start \in [Dims -> Nat] /\ stop \in [Dims -> Nat]
    /\ \A j \in Dims : stop[j] <= shape'[j]
    /\ call' = [op |-> "set", start |-> start, stop |-> stop]
    /\ \A q \in DOMAIN buf' : buf'[q] \in Values
    /\ \A q \in [Dims -> Nat] : (\A j \in Dims : q[j] < stop[j] - start[j]) => q \in DOMAIN buf'
    /\ \/ pc' = "setting" /\ ret' = ret
       \/ pc' = "idle" /\ ret' \in {"SUCCEED", "INVALID_ARGUMENT"}

\* One that reads it.
GetWith(start, stop) ==
    /\ start \in [Dims -> Nat] /\ stop \in [Dims -> Nat]
    /\ call' = [op |-> "get", start |-> start, stop |-> stop]
    /\ DOMAIN buf' \subseteq [Dims -> Nat]
    /\ \A q \in DOMAIN buf' : buf'[q] = Garbage
    /\ \/ pc' = "getting" /\ ret' = ret
       \/ pc' = "idle" /\ ret' = "INVALID_ARGUMENT"
       \/ pc' = "idle" /\ ret' = "SUCCEED" /\ IsEmpty(shape)

\* What both leave alone, and reset.
Entered ==
    /\ pc = "idle" /\ left > 0 /\ left' = left - 1
    /\ cur' = 0 /\ data' = Unread
    /\ UNCHANGED <<shape, sc>>

\* caterva_set_slice_buffer is such a call: its buffer covers the slice.
LEMMA SetSliceFacts ==
    ASSUME TypeOK, SetSlice
    PROVE  Entered /\ \E start, stop : SetWith(start, stop)
<1>0. shape \in Shapes /\ shape \in [Dims -> Nat]
  BY ShapesAssumption DEF TypeOK
<1>a. PICK stop \in StopsWithin(0) : \E start \in StartsBefore(stop) :
        \E f \in Buffers, pad \in 0..MaxPad, enough \in BOOLEAN :
          /\ buf' = [q \in BufferBox(start, stop, pad) |-> f[q]]
          /\ EnterSet(shape, start, stop, enough)
  BY DEF SetSlice
<1>1. PICK start \in StartsBefore(stop), f \in Buffers, pad \in 0..MaxPad, enough \in BOOLEAN :
        /\ buf' = [q \in BufferBox(start, stop, pad) |-> f[q]]
        /\ EnterSet(shape, start, stop, enough)
  BY <1>a
<1>2. /\ pc = "idle" /\ left > 0 /\ left' = left - 1
      /\ UNCHANGED <<shape, sc>>
  BY DEF SetSlice, Called
<1>3. /\ stop \in [Dims -> Nat] /\ \A j \in Dims : stop[j] <= shape[j] + 0
      /\ start \in [Dims -> Nat] /\ \A j \in Dims : start[j] <= stop[j]
  BY <1>0, SliceArguments
<1>4. \A j \in Dims : stop[j] <= shape[j]
  BY <1>0, <1>3
<1>5. ASSUME NEW q \in BufferBox(start, stop, pad)
      PROVE  f[q] \in Values
  <2>1. f \in [Box(Origin, BufferShape) -> Values]
    BY BuffersAssumption
  <2>2. q \in [Dims -> Nat] /\ \A j \in Dims : q[j] < stop[j] - start[j] + pad
    BY <1>3, BufferFacts
  <2>3. ASSUME NEW j \in Dims PROVE q[j] < BufferShape[j]
    <3>1. /\ q[j] \in Nat /\ stop[j] \in Nat /\ start[j] \in Nat /\ shape[j] \in Nat
          /\ pad \in Nat /\ pad <= MaxPad /\ MaxPad \in Nat /\ BufferShape[j] \in Nat
      BY <1>0, <1>3, <2>2, MaxPadAssumption, BufferShapeAssumption
    <3>2. shape[j] + MaxPad <= BufferShape[j] /\ stop[j] <= shape[j]
      BY <1>0, <1>4, BufferShapeAssumption
    <3> QED BY <2>2, <3>1, <3>2
  <2>4. BufferShape \in [Dims -> Int]
    BY BufferShapeAssumption
  <2>5. q \in Box(Origin, BufferShape)
    BY <2>2, <2>3, <2>4, OriginBox
  <2> QED BY <2>1, <2>5
<1>6. DOMAIN buf' = BufferBox(start, stop, pad) /\ \A q \in DOMAIN buf' : buf'[q] \in Values
  BY <1>1, <1>5
<1>7. ASSUME NEW q \in [Dims -> Nat], \A j \in Dims : q[j] < stop[j] - start[j]
      PROVE  q \in DOMAIN buf'
  <2>1. \A j \in Dims : q[j] < stop[j] - start[j] + pad
    BY <1>3, <1>7
  <2> QED BY <1>3, <1>6, <2>1, BufferFacts
<1> DEFINE answer == IF ~enough THEN "INVALID_ARGUMENT"
                     ELSE IF IsEmpty(shape) THEN "SUCCEED" ELSE "none"
<1>8. Enter("set", start, stop, answer)
  BY <1>1 DEF EnterSet
<1>9. answer \in {"none", "SUCCEED", "INVALID_ARGUMENT"}
  OBVIOUS
<1> HIDE DEF answer
<1>10. /\ call' = [op |-> "set", start |-> start, stop |-> stop]
       /\ cur' = 0 /\ data' = Unread
       /\ \/ pc' = "setting" /\ ret' = ret
          \/ pc' = "idle" /\ ret' \in {"SUCCEED", "INVALID_ARGUMENT"}
  BY <1>8, <1>9, EnterFacts
<1>11. SetWith(start, stop)
  BY <1>2, <1>3, <1>4, <1>6, <1>7, <1>10 DEF SetWith
<1> QED BY <1>2, <1>10, <1>11 DEF Entered

\* So is caterva_get_slice_buffer: its buffer is as the caller left it.
LEMMA GetSliceFacts ==
    ASSUME TypeOK, GetSlice
    PROVE  Entered /\ \E start, stop : GetWith(start, stop)
<1>0. shape \in Shapes /\ shape \in [Dims -> Nat]
  BY ShapesAssumption DEF TypeOK
<1>a. PICK stop \in StopsWithin(Overhang) : \E start \in StartsBefore(stop) :
        \E pad \in -MaxPad..MaxPad, enough \in BOOLEAN :
          /\ buf' = [q \in BufferBox(start, stop, pad) |-> Garbage]
          /\ EnterGet(start, stop, [j \in Dims |-> stop[j] - start[j] + pad], enough)
  BY DEF GetSlice
<1>1. PICK start \in StartsBefore(stop), pad \in -MaxPad..MaxPad, enough \in BOOLEAN :
        /\ buf' = [q \in BufferBox(start, stop, pad) |-> Garbage]
        /\ EnterGet(start, stop, [j \in Dims |-> stop[j] - start[j] + pad], enough)
  BY <1>a
<1>2. /\ pc = "idle" /\ left > 0 /\ left' = left - 1
      /\ UNCHANGED <<shape, sc>>
  BY DEF GetSlice, Called
<1>3. stop \in [Dims -> Nat] /\ start \in [Dims -> Nat]
  BY <1>0, SliceArguments, OverhangAssumption
<1>4. DOMAIN buf' \subseteq [Dims -> Nat] /\ \A q \in DOMAIN buf' : buf'[q] = Garbage
  <2>1. pad \in Int
    BY MaxPadAssumption
  <2>2. BufferBox(start, stop, pad) \subseteq [Dims -> Nat]
    BY <1>3, <2>1, BufferFacts
  <2> QED BY <1>1, <2>2
<1> DEFINE bshape == [j \in Dims |-> stop[j] - start[j] + pad]
           answer == IF \E j \in Dims : stop[j] - start[j] > bshape[j]
                     THEN "INVALID_ARGUMENT"
                     ELSE IF IsEmpty(shape) THEN "SUCCEED"
                     ELSE IF enough THEN "none" ELSE "INVALID_ARGUMENT"
<1>8. Enter("get", start, stop, answer)
  BY <1>1 DEF EnterGet
<1>9. answer \in {"none", "SUCCEED", "INVALID_ARGUMENT"} /\ (answer = "SUCCEED" => IsEmpty(shape))
  OBVIOUS
<1> HIDE DEF answer
<1>10. /\ call' = [op |-> "get", start |-> start, stop |-> stop]
       /\ cur' = 0 /\ data' = Unread
       /\ \/ pc' = "getting" /\ ret' = ret
          \/ pc' = "idle" /\ ret' = "INVALID_ARGUMENT"
          \/ pc' = "idle" /\ ret' = "SUCCEED" /\ IsEmpty(shape)
  BY <1>8, <1>9, EnterFacts
<1>11. GetWith(start, stop)
  BY <1>3, <1>4, <1>10 DEF GetWith
<1> QED BY <1>2, <1>10, <1>11 DEF Entered

-----------------------------------------------------------------------------
(* Types, and what the entry of a call guarantees to its loop. *)

\* A buffer to be written from covers the slice.
Covering ==
    \A c \in [Dims -> Nat] : InSlice(c) =>
        /\ Minus(c, call.start) \in DOMAIN buf
        /\ buf[Minus(c, call.start)] \in Values

Prepared ==
    /\ Len(sc) = NumChunks(shape)
    /\ pc = "setting" => /\ call.op = "set" /\ Covering
                         /\ \A j \in Dims : call.stop[j] <= shape[j]
    /\ pc = "getting" => call.op = "get"

Sound == TypeOK /\ Prepared

\* The hypotheses of the lemmas above.
LEMMA SoundFacts ==
    ASSUME Sound
    PROVE  WellFormed /\ Stored /\ (More => AtTurn)
BY ShapesAssumption DEF Sound, TypeOK, Prepared, WellFormed, Stored, AtTurn, More

\* A buffer that covers the slice does so after the entry of the call.
LEMMA CoveringEntry ==
    ASSUME NEW start, NEW stop, SetWith(start, stop)
    PROVE  Covering'
<1> SUFFICES ASSUME NEW c \in [Dims -> Nat], InSlice(c)'
             PROVE  /\ Minus(c, call'.start) \in DOMAIN buf'
                    /\ buf'[Minus(c, call'.start)] \in Values
  BY DEF Covering
<1>1. /\ start \in [Dims -> Nat] /\ stop \in [Dims -> Nat]
      /\ call'.start = start /\ call'.stop = stop
  BY DEF SetWith
<1>2. \A j \in Dims : start[j] <= c[j] /\ c[j] < stop[j]
  BY <1>1 DEF InSlice
<1> DEFINE q == Minus(c, start)
<1>3. \A j \in Dims : q[j] \in Nat /\ q[j] < stop[j] - start[j]
  BY <1>1, <1>2 DEF Minus
<1>4. q \in [Dims -> Nat]
  BY <1>3 DEF Minus
<1> HIDE DEF q
<1>5. q \in DOMAIN buf' /\ buf'[q] \in Values
  BY <1>3, <1>4 DEF SetWith
<1> QED BY <1>1, <1>5 DEF q

\* What a write stores: items of the buffer where the slice is, elsewhere what was
\* there, or zero.
LEMMA OverwrittenFacts ==
    ASSUME Sound, pc = "setting", More, ~SkipsChunk
    PROVE  /\ AtTurn /\ Stored
           /\ Here \in GridCoords(shape)
           /\ NChunk \in 0..NumChunks(shape) - 1
           /\ Overwritten \in ChunkData
           /\ \A p \in ChunkBox :
                 /\ Copied(p) => Overwritten[p] = buf[Minus(ItemAt(p), call.start)]
                 /\ ~Copied(p) => Overwritten[p] \in {sc[NChunk + 1][p], Zero}
<1>1. AtTurn /\ Stored
  BY SoundFacts
<1>2. Covering /\ \A j \in Dims : call.stop[j] <= shape[j]
  BY DEF Sound, Prepared
<1>3. Here \in GridCoords(shape) /\ NChunk \in 0..NumChunks(shape) - 1
  BY <1>1, <1>2, WrittenChunk
<1>4. sc[NChunk + 1] \in [ChunkBox -> Values]
  BY <1>1, <1>3, ChunkFacts DEF ChunkData
<1>5. ASSUME NEW p \in ChunkBox
      PROVE  /\ Copied(p) => /\ Overwritten[p] = buf[Minus(ItemAt(p), call.start)]
                             /\ buf[Minus(ItemAt(p), call.start)] \in Values
             /\ ~Copied(p) => Overwritten[p] \in {sc[NChunk + 1][p], Zero}
  <2>1. Overwritten[p] = IF Copied(p) THEN buf[Minus(ItemAt(p), call.start)]
                         ELSE Underneath[p]
    BY DEF Overwritten
  <2>2. Underneath[p] \in {sc[NChunk + 1][p], Zero}
    BY DEF Underneath
  <2>3. ASSUME Copied(p) PROVE buf[Minus(ItemAt(p), call.start)] \in Values
    <3>1. p \in [Dims -> Nat]
      BY ChunkBoxFacts
    <3>2. ItemAt(p) \in [Dims -> Nat] /\ InSlice(ItemAt(p))
      BY <1>1, <2>3, <3>1, CopiedFacts
    <3> QED BY <1>2, <3>2 DEF Covering
  <2> QED BY <2>1, <2>2, <2>3
<1>6. Overwritten \in ChunkData
  <2>1. \A p \in ChunkBox : Overwritten[p] \in Values
    BY <1>4, <1>5, ZeroAssumption
  <2>2. Overwritten = [p \in ChunkBox |-> Overwritten[p]]
    BY DEF Overwritten
  <2> QED BY <2>1, <2>2 DEF ChunkData
<1> QED BY <1>1, <1>3, <1>5, <1>6

\* Replacing an element of a list.
LEMMA ReplaceFacts ==
    ASSUME NEW S, NEW s \in Seq(S), NEW i \in 1..Len(s), NEW e \in S
    PROVE  /\ [s EXCEPT ![i] = e] \in Seq(S)
           /\ Len([s EXCEPT ![i] = e]) = Len(s)
           /\ \A k \in 1..Len(s) : [s EXCEPT ![i] = e][k] = IF k = i THEN e ELSE s[k]
OBVIOUS

\* One chunk written.
LEMMA SetChunkFacts ==
    ASSUME Sound, SetChunk
    PROVE  /\ AtTurn /\ Stored
           /\ pc = "setting" /\ cur' = cur + 1
           /\ Here \in GridCoords(shape)
           /\ NChunk \in 0..NumChunks(shape) - 1
           /\ sc' \in Seq(ChunkData) /\ Len(sc') = Len(sc)
           /\ \A k \in 1..Len(sc) : sc'[k] = IF k = NChunk + 1 THEN Overwritten ELSE sc[k]
           /\ Overwritten \in ChunkData
           /\ data' \in ChunkData
<1>1. /\ pc = "setting" /\ More /\ ~SkipsChunk /\ cur' = cur + 1
      /\ data' = Overwritten
      /\ sc' = [sc EXCEPT ![NChunk + 1] = Overwritten]
  BY DEF SetChunk
<1>2. /\ AtTurn /\ Stored /\ Here \in GridCoords(shape)
      /\ NChunk \in 0..NumChunks(shape) - 1 /\ Overwritten \in ChunkData
  BY <1>1, OverwrittenFacts
<1>3. NChunk + 1 \in 1..Len(sc) /\ sc \in Seq(ChunkData)
  BY <1>2, ChunkFacts DEF Stored
<1> HIDE DEF ChunkData
<1>4. /\ sc' \in Seq(ChunkData) /\ Len(sc') = Len(sc)
      /\ \A k \in 1..Len(sc) : sc'[k] = IF k = NChunk + 1 THEN Overwritten ELSE sc[k]
  BY <1>1, <1>2, <1>3, ReplaceFacts
<1> QED BY <1>1, <1>2, <1>4

\* A new array.
LEMMA SoundInit == Init => Sound
<1> SUFFICES ASSUME Init PROVE Sound
  OBVIOUS
<1>1. shape \in Shapes /\ shape \in [Dims -> Nat]
  BY ShapesAssumption DEF Init
<1>2. sc \in [1..NumChunks(shape) -> ChunkData] /\ NumChunks(shape) \in Nat
  BY <1>1, NumChunksType DEF Init
<1> HIDE DEF ChunkData
<1>3. sc \in Seq(ChunkData) /\ Len(sc) = NumChunks(shape)
  BY <1>2
<1>4. call \in [op : {"none", "get", "set"}, start : [Dims -> Nat], stop : [Dims -> Nat]]
  BY DEF Init, NoCall, Origin
<1>5. \A q \in DOMAIN buf : buf[q] \in Values \cup {Garbage}
  <2>1. buf = << >>
    BY DEF Init
  <2> QED BY <2>1
<1>6. data \in [ChunkBox -> Values \cup {Garbage}]
  BY DEF Init, Unread
<1>7. pc = "idle" /\ cur = 0 /\ ret = "SUCCEED" /\ left = MaxCalls
  BY DEF Init
<1>8. left \in 0..MaxCalls
  BY <1>7, MaxCallsAssumption
<1> QED BY <1>1, <1>3, <1>4, <1>5, <1>6, <1>7, <1>8 DEF Sound, TypeOK, Prepared

\* Every step keeps the types, and the buffer of a running write as large as its slice.
LEMMA SoundStep == Sound /\ [Next]_vars => Sound'
<1> SUFFICES ASSUME Sound, [Next]_vars PROVE Sound'
  OBVIOUS
<1> USE DEF Sound
<1>0. /\ Unread \in [ChunkBox -> Values \cup {Garbage}]
      /\ ChunkData \subseteq [ChunkBox -> Values \cup {Garbage}]
  BY DEF Unread, ChunkData
<1> HIDE DEF ChunkData
<1>1. ASSUME Entered PROVE /\ shape' \in Shapes /\ sc' \in Seq(ChunkData) /\ cur' \in Nat
                           /\ data' \in [ChunkBox -> Values \cup {Garbage}]
                           /\ left' \in 0..MaxCalls
                           /\ Len(sc') = NumChunks(shape')
  BY <1>0, <1>1, MaxCallsAssumption DEF Entered, TypeOK, Prepared
<1>2. CASE SetSlice
  <2>1. Entered /\ \E start, stop : SetWith(start, stop)
    BY <1>2, SetSliceFacts
  <2>2. PICK start, stop : SetWith(start, stop)
    BY <2>1
  <2>3. Covering'
    BY <2>2, CoveringEntry
  <2>4. /\ start \in [Dims -> Nat] /\ stop \in [Dims -> Nat]
        /\ call' = [op |-> "set", start |-> start, stop |-> stop]
        /\ \A q \in DOMAIN buf' : buf'[q] \in Values
        /\ pc' \in {"setting", "idle"} /\ (pc' = "setting" => ret' = ret)
        /\ pc' = "idle" => ret' \in {"SUCCEED", "INVALID_ARGUMENT"}
        /\ \A j \in Dims : stop[j] <= shape'[j]
    BY <2>2 DEF SetWith
  <2>5. shape' = shape
    BY <2>1 DEF Entered
  <2>6. TypeOK'
    BY <1>1, <2>1, <2>4 DEF TypeOK
  <2>7. Prepared'
    BY <1>1, <2>1, <2>3, <2>4, <2>5 DEF Prepared
  <2> QED BY <2>6, <2>7
<1>3. CASE GetSlice
  <2>1. Entered /\ \E start, stop : GetWith(start, stop)
    BY <1>3, GetSliceFacts
  <2>2. PICK start, stop : GetWith(start, stop)
    BY <2>1
  <2>3. /\ start \in [Dims -> Nat] /\ stop \in [Dims -> Nat]
        /\ call' = [op |-> "get", start |-> start, stop |-> stop]
        /\ \A q \in DOMAIN buf' : buf'[q] = Garbage
        /\ pc' \in {"getting", "idle"} /\ (pc' = "getting" => ret' = ret)
        /\ pc' = "idle" => ret' \in {"SUCCEED", "INVALID_ARGUMENT"}
    BY <2>2 DEF GetWith
  <2>4. TypeOK'
    BY <1>1, <2>1, <2>3 DEF TypeOK
  <2>5. Prepared'
    BY <1>1, <2>1, <2>3 DEF Prepared
  <2> QED BY <2>4, <2>5
<1>4. CASE SkipChunk
  <2>1. cur' \in Nat /\ UNCHANGED <<shape, sc, pc, call, buf, data, ret, left>>
    BY <1>4 DEF SkipChunk, TypeOK
  <2>2. Covering' <=> Covering
    BY <2>1 DEF Covering, InSlice
  <2> QED BY <2>1, <2>2 DEF TypeOK, Prepared
<1>5. CASE SetChunk
  <2>1. UNCHANGED <<shape, pc, call, buf, ret, left>>
    BY <1>5 DEF SetChunk
  <2>2. /\ sc' \in Seq(ChunkData) /\ Len(sc') = Len(sc)
        /\ data' \in ChunkData /\ cur' = cur + 1
    BY <1>5, SetChunkFacts
  <2>3. Covering' <=> Covering
    BY <2>1 DEF Covering, InSlice
  <2>4. TypeOK'
    BY <1>0, <2>1, <2>2 DEF TypeOK
  <2> QED BY <2>1, <2>2, <2>3, <2>4 DEF Prepared
<1>6. CASE GetChunk
  <2>1. /\ UNCHANGED <<shape, sc, pc, call, ret, left>> /\ cur' = cur + 1
        /\ pc = "getting" /\ HasChunk(NChunk) /\ data' = Decompressed
        /\ buf' = [q \in DOMAIN buf |->
                     LET p == Minus(Plus(call.start, q), ChunkStart)
                     IN  IF p \in ChunkBox /\ Copied(p) THEN data'[p] ELSE buf[q]]
    BY <1>6 DEF GetChunk
  <2>2. sc[NChunk + 1] \in [ChunkBox -> Values]
    <3>1. NChunk \in 0..Len(sc) - 1 /\ sc \in Seq(ChunkData)
      BY <2>1 DEF HasChunk, TypeOK
    <3>2. NChunk + 1 \in 1..Len(sc)
      BY <3>1
    <3> QED BY <3>1, <3>2 DEF ChunkData
  <2>3. data' \in [ChunkBox -> Values \cup {Garbage}]
    BY <2>1, <2>2 DEF Decompressed, TypeOK
  <2>4. ASSUME NEW q \in DOMAIN buf PROVE buf'[q] \in Values \cup {Garbage}
    <3> DEFINE p == Minus(Plus(call.start, q), ChunkStart)
    <3>1. buf'[q] = IF p \in ChunkBox /\ Copied(p) THEN data'[p] ELSE buf[q]
      BY <2>1
    <3> HIDE DEF p
    <3>2. buf[q] \in Values \cup {Garbage}
      BY DEF TypeOK
    <3> QED BY <2>3, <3>1, <3>2
  <2>5. DOMAIN buf' = DOMAIN buf
    BY <2>1
  <2> QED BY <2>1, <2>3, <2>4, <2>5 DEF TypeOK, Prepared
<1>7. CASE SliceEnd \/ ChunkFails
  <2>1. /\ pc' = "idle" /\ ret' \in {"SUCCEED", "BLOSC_FAILED"} /\ cur' = 0 /\ data' = Unread
        /\ UNCHANGED <<shape, sc, call, buf, left>>
    BY <1>7 DEF SliceEnd, ChunkFails, Leave
  <2> QED BY <1>0, <2>1 DEF TypeOK, Prepared
<1>8. CASE UNCHANGED vars
  <2>1. Covering' <=> Covering
    BY <1>8 DEF vars, Covering, InSlice
  <2> QED BY <1>8, <2>1 DEF vars, TypeOK, Prepared
<1> QED BY <1>2, <1>3, <1>4, <1>5, <1>6, <1>7, <1>8 DEF Next, SliceStep

\* It is an invariant.
LEMMA AlwaysSound == Spec => []Sound
BY SoundInit, SoundStep, PTL DEF Spec

\* The type invariant: in particular a chunk that is stored holds no byte that nobody
\* wrote, although the buffer it was made in is never cleared as a whole.
THEOREM SliceTypeCorrect == Spec => []TypeOK
<1>1. Sound => TypeOK
  BY DEF Sound
<1> QED BY <1>1, AlwaysSound, PTL

\* No write leaves in the padding of a chunk what was meant for another chunk, or for
\* a place outside the array (caterva.c:532-597).
THEOREM PaddingCorrect == Spec => PaddingIsOwn
<1>1. ASSUME Sound, [Next]_vars,
             NEW k \in 1..Len(sc), NEW p \in ChunkBox, IsPaddingIn(shape, k - 1, p)
      PROVE  sc'[k][p] \in {sc[k][p], Zero}
  <2>1. CASE SetChunk
    <3>1. /\ AtTurn /\ Stored /\ pc = "setting" /\ More /\ ~SkipsChunk
          /\ \A i \in 1..Len(sc) : sc'[i] = IF i = NChunk + 1 THEN Overwritten ELSE sc[i]
          /\ NChunk \in 0..NumChunks(shape) - 1
      BY <1>1, <2>1, SetChunkFacts DEF SetChunk
    <3>2. CASE k = NChunk + 1
      <4>1. PlaceIn(shape, NChunk) = Here
        BY <1>1, <3>1, WrittenChunk DEF Sound, Prepared
      <4>2. k - 1 = NChunk
        BY <3>1, <3>2
      <4>3. ~Copied(p)
        <5>1. PICK j \in Dims : p[j] >= ChunkShape[j]
                                \/ Here[j] * ChunkShape[j] + p[j] >= shape[j]
          BY <1>1, <4>1, <4>2 DEF IsPaddingIn, PlaceIn, IsPaddingOf, ChunksInArray
        <5>2. p \in [Dims -> Nat]
          BY ChunkBoxFacts
        <5>3. ItemAt(p)[j] = Here[j] * ChunkShape[j] + p[j]
          BY DEF ItemAt, Plus, ChunkStart
        <5>4. /\ p[j] \in Nat /\ ChunkShape[j] \in Nat /\ ItemAt(p)[j] \in Nat
              /\ shape[j] \in Nat
          BY <3>1, <5>2, CopiedFacts, ChunkShapeAssumption DEF Stored
        <5>5. ~ (p[j] < ChunkShape[j] /\ ItemAt(p)[j] < shape[j])
          <6> DEFINE x == Here[j] * ChunkShape[j] + p[j]
          <6>1. p[j] >= ChunkShape[j] \/ x >= shape[j]
            BY <5>1
          <6>2. ItemAt(p)[j] = x
            BY <5>3
          <6> HIDE DEF x
          <6> QED BY <5>4, <6>1, <6>2
        <5> QED BY <3>1, <5>2, <5>5, CopiedFacts
      <4>4. Overwritten[p] \in {sc[NChunk + 1][p], Zero}
        BY <1>1, <3>1, <4>3, OverwrittenFacts
      <4> QED BY <3>1, <3>2, <4>4
    <3>3. CASE k # NChunk + 1
      BY <3>1, <3>3
    <3> QED BY <3>2, <3>3
  <2>2. CASE sc' = sc
    BY <2>2
  <2>3. SetChunk \/ sc' = sc
    BY <1>1 DEF Next, SliceStep, SetSlice, GetSlice, SkipChunk, GetChunk, SliceEnd,
                ChunkFails, vars
  <2> QED BY <2>1, <2>2, <2>3
<1>2. Sound /\ [Next]_vars =>
        [\A k \in 1..Len(sc) : \A p \in ChunkBox :
           IsPaddingIn(shape, k - 1, p) => sc'[k][p] \in {sc[k][p], Zero}]_vars
  BY <1>1
<1> QED BY <1>2, AlwaysSound, PTL DEF Spec, PaddingIsOwn

-----------------------------------------------------------------------------
(* Reading. *)

\* The items of the array.
LEMMA ArrayBox ==
    ASSUME WellFormed, NEW c \in [Dims -> Nat]
    PROVE  c \in Box(Origin, shape) <=> \A j \in Dims : c[j] < shape[j]
<1>1. shape \in [Dims -> Int]
  BY DEF WellFormed
<1> QED BY <1>1, OriginBox

\* A chunk that is skipped has no item of the slice.
LEMMA SkippedFacts ==
    ASSUME AtTurn, SkipsChunk,
           NEW c \in [Dims -> Nat], InSlice(c), \A j \in Dims : c[j] < shape[j]
    PROVE  Turn(c) # cur
<1>1. SUFFICES ASSUME Turn(c) = cur PROVE FALSE
  OBVIOUS
<1>2. ChunkAt(c) = Here
  BY <1>1, TurnFacts DEF AtTurn
<1>3. PICK j \in Dims : ChunkStop[j] <= call.start[j] \/ ChunkStart[j] >= call.stop[j]
  BY DEF SkipsChunk, Misses
<1> DEFINE s == ChunkShape[j]
           h == Here[j]
           x == c[j]
           f == shape[j]
           m == h * s
<1>4. s \in Nat \ {0} /\ h \in Nat /\ x \in Nat /\ f \in Nat
  BY HereFacts, ChunkShapeAssumption DEF AtTurn, WellFormed
<1>5. x \div s = h
  BY <1>2 DEF ChunkAt
<1>6. ChunkStart[j] = m /\ ChunkStop[j] = IF m + s <= f THEN m + s ELSE f
  BY DEF ChunkStart, ChunkStop, Lesser, Plus
<1>7. call.start[j] \in Nat /\ call.stop[j] \in Nat /\ call.start[j] <= x /\ x < call.stop[j]
      /\ x < f
  BY DEF InSlice, AtTurn, WellFormed
<1>8. m \in Nat /\ x - m \in Nat /\ x - m < s
  <2> HIDE DEF s, h, x
  <2> QED BY <1>4, <1>5, PlaceDim DEF m
<1> HIDE DEF s, h, x, f, m
<1> QED BY <1>3, <1>4, <1>6, <1>7, <1>8

\* What has come to place q of the buffer when the loop is at its turn.
Received(q) ==
    LET c == Plus(call.start, q)
    IN  buf[q] = IF InSlice(c) /\ c \in Box(Origin, shape) /\ Turn(c) \in 0..cur - 1
                 THEN Item(c) ELSE Garbage

\* The inductive form of GetReturnsItems.
GetPass ==
    /\ call.op = "get" => DOMAIN buf \subseteq [Dims -> Nat]
    /\ pc = "getting" => \A q \in DOMAIN buf : Received(q)
    /\ GetReturnsItems

\* What came to its place before the step is there after it, if the step says so.
LEMMA ReceivedNext ==
    ASSUME UNCHANGED <<shape, sc, call>>, NEW q,
           LET c == Plus(call.start, q)
           IN  buf'[q] = IF InSlice(c) /\ c \in Box(Origin, shape) /\ Turn(c) \in 0..cur' - 1
                         THEN Item(c) ELSE Garbage
    PROVE  Received(q)'
<1>1. shape' = shape /\ sc' = sc /\ call' = call
  OBVIOUS
<1> QED BY <1>1 DEF Received, InSlice, Turn, FirstChunk, ChunkSpan, Item

\* A turn of the loop puts the items of its chunk in their places.
LEMMA GetChunkFacts ==
    ASSUME Sound, GetChunk, NEW q \in DOMAIN buf, q \in [Dims -> Nat], Received(q)
    PROVE  Received(q)'
<1> DEFINE c == Plus(call.start, q)
           p == Minus(c, ChunkStart)
           mine == InSlice(c) /\ c \in Box(Origin, shape) /\ Turn(c) = cur
<1>1. /\ UNCHANGED <<shape, sc, call>> /\ cur' = cur + 1 /\ More
      /\ HasChunk(NChunk) /\ data' = Decompressed
      /\ buf'[q] = IF p \in ChunkBox /\ Copied(p) THEN data'[p] ELSE buf[q]
  BY DEF GetChunk
<1>2. AtTurn /\ Stored /\ WellFormed
  BY <1>1, SoundFacts
<1>3. c \in [Dims -> Nat]
  BY <1>2 DEF WellFormed, Plus
<1>4. c \in Box(Origin, shape) <=> \A j \in Dims : c[j] < shape[j]
  BY <1>2, <1>3, ArrayBox
<1>5. /\ p \in ChunkBox /\ Copied(p) <=> mine
      /\ ChunkAt(c) = Here => p = RestAt(c) /\ p \in ChunkBox /\ ItemAt(p) = c
      /\ p \in ChunkBox /\ Copied(p) => ChunkAt(c) = Here
  BY <1>2, <1>3, <1>4, CopiedItems
<1> HIDE DEF c, p
<1>8. buf'[q] = IF mine THEN Item(c) ELSE buf[q]
  <2>1. ASSUME mine PROVE data'[p] = Item(c)
    <3>1. p \in ChunkBox /\ Copied(p) /\ ChunkAt(c) = Here /\ p = RestAt(c)
      BY <1>5, <2>1
    <3>2. ~MaskedOut(BlockOf(p))
      BY <1>2, <3>1, ChunkBoxFacts, CopiedFacts
    <3>3. data'[p] = sc[NChunk + 1][p]
      BY <1>1, <3>1, <3>2 DEF Decompressed
    <3>4. ChunkOf(shape, c) = NChunk
      BY <1>2, <1>3, <1>4, <2>1, <3>1, ChunkOfHere
    <3>5. Item(c) = sc[ChunkOf(shape, c) + 1][RestAt(c)]
      BY <1>2, <1>3, <1>4, <2>1, ItemFacts
    <3> QED BY <3>1, <3>3, <3>4, <3>5
  <2> QED BY <1>1, <1>5, <2>1
<1>9. buf[q] = IF InSlice(c) /\ c \in Box(Origin, shape) /\ Turn(c) \in 0..cur - 1
               THEN Item(c) ELSE Garbage
  BY DEF Received, c
<1>10. cur \in Nat /\ cur' - 1 = cur
  BY <1>1, <1>2 DEF WellFormed
<1>11. Turn(c) \in 0..cur <=> Turn(c) \in 0..cur - 1 \/ Turn(c) = cur
  BY <1>10
<1>12. buf'[q] = IF InSlice(c) /\ c \in Box(Origin, shape) /\ Turn(c) \in 0..cur
                 THEN Item(c) ELSE Garbage
  BY <1>8, <1>9, <1>11
<1> QED BY <1>1, <1>10, <1>12, ReceivedNext DEF c

\* Nothing is received yet when a call to read begins.
LEMMA GetEntry ==
    ASSUME Sound, Entered, NEW start, NEW stop, GetWith(start, stop)
    PROVE  GetPass'
<1>1. /\ DOMAIN buf' \subseteq [Dims -> Nat] /\ \A q \in DOMAIN buf' : buf'[q] = Garbage
      /\ cur' = 0 /\ shape' = shape
      /\ \/ pc' = "getting"
         \/ pc' = "idle" /\ ret' = "INVALID_ARGUMENT"
         \/ pc' = "idle" /\ ret' = "SUCCEED" /\ IsEmpty(shape)
  BY DEF Entered, GetWith
<1>2. ASSUME NEW q \in DOMAIN buf' PROVE Received(q)'
  <2>1. 0..cur' - 1 = {}
    BY <1>1
  <2> QED BY <1>1, <2>1 DEF Received
<1>3. ASSUME pc' = "idle", ret' = "SUCCEED" PROVE GetReturnsItems'
  <2>1. IsEmpty(shape) /\ shape \in [Dims -> Nat]
    BY <1>1, <1>3, SoundFacts DEF WellFormed
  <2>2. \A c : c \notin Box(Origin, shape)
    <3>1. PICK j \in Dims : shape[j] = 0
      BY <2>1 DEF IsEmpty
    <3>2. shape \in [Dims -> Int]
      BY <2>1
    <3>3. ASSUME NEW c, c \in Box(Origin, shape) PROVE FALSE
      <4>1. c[j] \in Nat /\ c[j] < shape[j]
        BY <3>2, <3>3, OriginBox
      <4> QED BY <3>1, <4>1
    <3> QED BY <3>3
  <2>3. \A c : c \notin Box(Origin, shape)'
    BY <1>1, <2>2
  <2> QED BY <1>1, <2>3 DEF GetReturnsItems
<1>4. GetReturnsItems'
  BY <1>1, <1>3 DEF GetReturnsItems
<1> QED BY <1>1, <1>2, <1>4 DEF GetPass

\* No step takes GetPass away.
LEMMA GetPassStep == Sound /\ GetPass /\ [Next]_vars => GetPass'
<1> SUFFICES ASSUME Sound, GetPass, [Next]_vars PROVE GetPass'
  OBVIOUS
<1>1. CASE SetSlice
  <2>1. PICK start, stop : SetWith(start, stop)
    BY <1>1, SetSliceFacts DEF Sound
  <2>2. call'.op = "set" /\ pc' # "getting"
    BY <2>1 DEF SetWith
  <2> QED BY <2>2 DEF GetPass, GetReturnsItems
<1>2. CASE GetSlice
  <2>1. Entered /\ \E start, stop : GetWith(start, stop)
    BY <1>2, GetSliceFacts DEF Sound
  <2> QED BY <2>1, GetEntry
<1>3. CASE SkipChunk
  <2>1. /\ pc \in {"getting", "setting"} /\ More /\ SkipsChunk /\ cur' = cur + 1
        /\ UNCHANGED <<shape, sc, pc, call, buf>>
    BY <1>3 DEF SkipChunk
  <2>2. ASSUME pc = "getting", NEW q \in DOMAIN buf PROVE Received(q)'
    <3> DEFINE c == Plus(call.start, q)
    <3>1. q \in [Dims -> Nat] /\ Received(q)
      BY <2>2 DEF GetPass, Sound, Prepared
    <3>2. AtTurn /\ WellFormed
      BY <2>1, SoundFacts
    <3>3. c \in [Dims -> Nat]
      BY <3>1, <3>2 DEF WellFormed, Plus
    <3>4. InSlice(c) /\ c \in Box(Origin, shape) => Turn(c) # cur
      BY <2>1, <3>2, <3>3, ArrayBox, SkippedFacts
    <3> HIDE DEF c
    <3>7. buf[q] = IF InSlice(c) /\ c \in Box(Origin, shape) /\ Turn(c) \in 0..cur - 1
                   THEN Item(c) ELSE Garbage
      BY <3>1 DEF Received, c
    <3>8. cur \in Nat /\ cur' - 1 = cur
      BY <2>1, <3>2 DEF WellFormed
    <3>9. Turn(c) \in 0..cur <=> Turn(c) \in 0..cur - 1 \/ Turn(c) = cur
      BY <3>8
    <3>10. buf'[q] = IF InSlice(c) /\ c \in Box(Origin, shape) /\ Turn(c) \in 0..cur
                     THEN Item(c) ELSE Garbage
      BY <2>1, <3>4, <3>7, <3>9
    <3> QED BY <2>1, <3>8, <3>10, ReceivedNext DEF c
  <2> QED BY <2>1, <2>2 DEF GetPass, GetReturnsItems
<1>4. CASE SetChunk
  <2>1. pc = "setting" /\ UNCHANGED <<pc, call, buf>>
    BY <1>4 DEF SetChunk
  <2> QED BY <2>1 DEF GetPass, GetReturnsItems
<1>5. CASE GetChunk
  <2>1. pc = "getting" /\ UNCHANGED <<pc, call>> /\ DOMAIN buf' = DOMAIN buf
    BY <1>5 DEF GetChunk
  <2>2. ASSUME NEW q \in DOMAIN buf PROVE Received(q)'
    BY <1>5, <2>1, GetChunkFacts DEF GetPass, Sound, Prepared
  <2> QED BY <2>1, <2>2 DEF GetPass, GetReturnsItems
<1>6. CASE SliceEnd
  <2>1. /\ pc \in {"getting", "setting"} /\ ~More /\ pc' = "idle"
        /\ UNCHANGED <<shape, sc, call, buf>>
    BY <1>6 DEF SliceEnd, Leave
  <2>2. ASSUME call.op = "get", NEW q \in DOMAIN buf
        PROVE  LET c == Plus(call.start, q)
               IN  buf[q] = IF InSlice(c) /\ c \in Box(Origin, shape) THEN Item(c) ELSE Garbage
    <3> DEFINE c == Plus(call.start, q)
    <3>1. pc = "getting"
      BY <2>1, <2>2 DEF Sound, Prepared
    <3>2. q \in [Dims -> Nat] /\ Received(q)
      BY <2>2, <3>1 DEF GetPass
    <3>3. WellFormed
      BY SoundFacts
    <3>4. c \in [Dims -> Nat]
      BY <3>2, <3>3 DEF WellFormed, Plus
    <3>5. InSlice(c) => Turn(c) \in 0..cur - 1
      <4>1. InSlice(c) => Turn(c) \in 0..Product(ChunkSpan) - 1
        BY <3>3, <3>4, TurnFacts
      <4>2. Product(ChunkSpan) \in Nat /\ cur \in Nat /\ cur >= Product(ChunkSpan)
        BY <2>1, <3>3, SpanFacts DEF More, WellFormed
      <4> QED BY <4>1, <4>2
    <3> QED BY <3>2, <3>5 DEF Received
  <2>3. GetReturnsItems'
    <3>1. ASSUME call.op = "get", NEW q \in DOMAIN buf'
          PROVE  (LET c == Plus(call.start, q)
                  IN  buf[q] = IF InSlice(c) /\ c \in Box(Origin, shape) THEN Item(c)
                               ELSE Garbage)'
      <4>1. q \in DOMAIN buf
        BY <2>1, <3>1
      <4> QED BY <2>1, <2>2, <3>1, <4>1 DEF InSlice, Item
    <3> QED BY <2>1, <3>1 DEF GetReturnsItems
  <2> QED BY <2>1, <2>3 DEF GetPass
<1>7. CASE ChunkFails
  <2>1. pc' = "idle" /\ ret' = "BLOSC_FAILED" /\ UNCHANGED <<call, buf>>
    BY <1>7 DEF ChunkFails, Leave
  <2> QED BY <2>1 DEF GetPass, GetReturnsItems
<1>8. CASE UNCHANGED vars
  <2>1. \A q : Received(q)' <=> Received(q)
    BY <1>8 DEF vars, Received, Turn, FirstChunk, ChunkSpan, InSlice, Item
  <2>2. GetReturnsItems' <=> GetReturnsItems
    BY <1>8 DEF vars, GetReturnsItems, InSlice, Item
  <2> QED BY <1>8, <2>1, <2>2 DEF vars, GetPass
<1> QED BY <1>1, <1>2, <1>3, <1>4, <1>5, <1>6, <1>7, <1>8 DEF Next, SliceStep

\* A read that succeeds returns the items of the slice, each in its place, and leaves
\* the rest of the buffer alone (caterva.c:598-672).
THEOREM ReadCorrect == Spec => []GetReturnsItems
<1>1. Init => GetPass
  BY DEF Init, NoCall, GetPass, GetReturnsItems
<1>2. GetPass => GetReturnsItems
  BY DEF GetPass
<1> QED BY <1>1, <1>2, AlwaysSound, GetPassStep, PTL DEF Spec

-----------------------------------------------------------------------------
(* Slices as reads and writes of an array of items. *)

\* The items that make up the array.
LEMMA ItemsFacts ==
    ASSUME Stored, WellFormed
    PROVE  /\ DOMAIN Items = Box(Origin, shape)
           /\ \A c \in DOMAIN Items : Items[c] = Item(c) /\ Items[c] \in Values
<1>1. DOMAIN Items = Box(Origin, shape) /\ \A c \in DOMAIN Items : Items[c] = Item(c)
  BY DEF Items, ItemsIn, Item
<1>2. ASSUME NEW c \in Box(Origin, shape) PROVE Item(c) \in Values
  <2>1. shape \in [Dims -> Int]
    BY DEF WellFormed
  <2>2. c \in [Dims -> Nat] /\ \A j \in Dims : c[j] < shape[j]
    BY <1>2, <2>1, OriginBox
  <2> QED BY <2>2, ItemFacts
<1> QED BY <1>1, <1>2

\* The box of a slice.
LEMMA SliceBox ==
    ASSUME WellFormed, NEW c
    PROVE  c \in Box(call.start, call.stop) <=> c \in [Dims -> Nat] /\ InSlice(c)
<1>1. /\ call.start \in [Dims -> Int] /\ call.stop \in [Dims -> Int]
      /\ call.start \in [Dims -> Nat] /\ call.stop \in [Dims -> Nat]
  BY DEF WellFormed
<1>2. c \in Box(call.start, call.stop) <=> c \in [Dims -> Int] /\ InSlice(c)
  BY <1>1, BoxFacts DEF InSlice
<1>3. c \in [Dims -> Int] /\ InSlice(c) => c \in [Dims -> Nat]
  BY <1>1 DEF InSlice
<1> QED BY <1>2, <1>3

\* What is left to write: the items of the slice whose turn has not come.
LEMMA PendingFacts ==
    Sound /\ pc = "setting" =>
        /\ \A c : c \in DOMAIN Pending <=>
                    c \in [Dims -> Nat] /\ InSlice(c) /\ Turn(c) >= cur
        /\ \A c \in DOMAIN Pending : /\ Pending[c] = buf[Minus(c, call.start)]
                                     /\ Pending[c] \in Values
                                     /\ c \in DOMAIN Items
        /\ Pending = [c \in DOMAIN Pending |-> Pending[c]]
<1> SUFFICES ASSUME Sound, pc = "setting"
             PROVE  /\ \A c : c \in DOMAIN Pending <=>
                                c \in [Dims -> Nat] /\ InSlice(c) /\ Turn(c) >= cur
                    /\ \A c \in DOMAIN Pending : /\ Pending[c] = buf[Minus(c, call.start)]
                                                 /\ Pending[c] \in Values
                                                 /\ c \in DOMAIN Items
                    /\ Pending = [c \in DOMAIN Pending |-> Pending[c]]
  OBVIOUS
<1>1. WellFormed /\ Stored
  BY SoundFacts
<1>2. /\ DOMAIN Pending = {c \in Box(call.start, call.stop) : Turn(c) >= cur}
      /\ \A c \in DOMAIN Pending : Pending[c] = buf[Minus(c, call.start)]
      /\ Pending = [c \in DOMAIN Pending |-> Pending[c]]
  BY DEF Pending
<1>3. \A c : c \in DOMAIN Pending <=> c \in [Dims -> Nat] /\ InSlice(c) /\ Turn(c) >= cur
  BY <1>1, <1>2, SliceBox
<1>4. Covering /\ \A j \in Dims : call.stop[j] <= shape[j]
  BY DEF Sound, Prepared
<1>5. ASSUME NEW c \in [Dims -> Nat], InSlice(c)
      PROVE  buf[Minus(c, call.start)] \in Values /\ c \in DOMAIN Items
  <2>1. buf[Minus(c, call.start)] \in Values
    BY <1>4, <1>5 DEF Covering
  <2>2. \A j \in Dims : c[j] < shape[j]
    BY <1>1, <1>4, <1>5 DEF InSlice, WellFormed
  <2>3. c \in Box(Origin, shape)
    BY <1>1, <1>5, <2>2, ArrayBox
  <2> QED BY <1>1, <2>1, <2>3, ItemsFacts
<1> QED BY <1>2, <1>3, <1>5

\* Nothing is left to write when the loop ends.
LEMMA NothingPending ==
    ASSUME Sound, pc = "setting" => ~More
    PROVE  Pending = << >>
<1>1. CASE pc # "setting"
  BY <1>1 DEF Pending
<1>2. CASE pc = "setting"
  <2>1. WellFormed /\ cur >= Product(ChunkSpan) /\ cur \in Nat /\ Product(ChunkSpan) \in Nat
    BY <1>2, SoundFacts, SpanFacts DEF More, WellFormed
  <2>2. ASSUME NEW c \in [Dims -> Nat], InSlice(c) PROVE ~(Turn(c) >= cur)
    <3>1. Turn(c) \in 0..Product(ChunkSpan) - 1
      BY <2>1, <2>2, TurnFacts
    <3> QED BY <2>1, <3>1
  <2>3. DOMAIN Pending = {}
    BY <1>2, <2>2, PendingFacts
  <2>4. Pending = [c \in DOMAIN Pending |-> Pending[c]]
    BY <1>2, PendingFacts
  <2> HIDE DEF Pending
  <2> QED BY <2>3, <2>4
<1> QED BY <1>1, <1>2

\* An item of the chunk the loop is at that the slice leaves out is what it was.
LEMMA KeptItem ==
    ASSUME AtTurn, NEW c \in [Dims -> Nat], \A j \in Dims : c[j] < shape[j],
           ChunkAt(c) = Here, ~InSlice(c)
    PROVE  CoveredInPart
<1>1. PICK j \in Dims : ~(call.start[j] <= c[j] /\ c[j] < call.stop[j])
  BY DEF InSlice
<1> DEFINE s == ChunkShape[j]
           h == Here[j]
           x == c[j]
           f == shape[j]
           m == h * s
<1>2. s \in Nat \ {0} /\ h \in Nat /\ x \in Nat /\ f \in Nat
  BY HereFacts, ChunkShapeAssumption DEF AtTurn, WellFormed
<1>3. x \div s = h
  BY DEF ChunkAt
<1>4. ChunkStart[j] = m /\ ChunkStop[j] = IF m + s <= f THEN m + s ELSE f
  BY DEF ChunkStart, ChunkStop, Lesser, Plus
<1>5. call.start[j] \in Nat /\ call.stop[j] \in Nat
      /\ ~(call.start[j] <= x /\ x < call.stop[j]) /\ x < f
  BY <1>1 DEF AtTurn, WellFormed
<1>6. m \in Nat /\ x - m \in Nat /\ x - m < s
  <2> HIDE DEF s, h, x
  <2> QED BY <1>2, <1>3, PlaceDim DEF m
<1> HIDE DEF s, h, x, f, m
<1>7. ChunkStart[j] < call.start[j] \/ ChunkStop[j] > call.stop[j]
  BY <1>2, <1>4, <1>5, <1>6
<1> QED BY <1>7 DEF CoveredInPart

\* One turn of a write: the items whose turn it is are replaced, the others stay.
LEMMA WrittenItem ==
    ASSUME Sound, SetChunk, NEW c \in DOMAIN Items
    PROVE  Item(c)' = IF InSlice(c) /\ Turn(c) = cur THEN buf[Minus(c, call.start)]
                      ELSE Item(c)
<1> DEFINE p == RestAt(c)
           k == ChunkOf(shape, c)
<1>1. /\ AtTurn /\ Stored /\ WellFormed
      /\ pc = "setting" /\ cur' = cur + 1 /\ shape' = shape
      /\ Here \in GridCoords(shape)
      /\ NChunk \in 0..NumChunks(shape) - 1
      /\ \A i \in 1..Len(sc) : sc'[i] = IF i = NChunk + 1 THEN Overwritten ELSE sc[i]
  BY SetChunkFacts, SoundFacts DEF SetChunk
<1>2. c \in [Dims -> Nat] /\ \A j \in Dims : c[j] < shape[j]
  <2>1. shape \in [Dims -> Int] /\ c \in Box(Origin, shape)
    BY <1>1, ItemsFacts DEF WellFormed
  <2> QED BY <2>1, OriginBox
<1>3. /\ k \in 0..NumChunks(shape) - 1 /\ p \in ChunkBox
      /\ Item(c) = sc[k + 1][p]
  BY <1>1, <1>2, ItemFacts
<1>4. k + 1 \in 1..Len(sc) /\ k \in Int /\ NChunk \in Int
  BY <1>1, <1>3, ChunkFacts
<1>5. Item(c)' = sc'[k + 1][p]
  BY <1>1 DEF Item, ItemIn, RestAt, ItemHeld, ChunkOf
<1>6. CASE ChunkAt(c) = Here
  <2>1. k = NChunk
    BY <1>1, <1>2, <1>6, ChunkOfHere
  <2>2. Item(c)' = Overwritten[p]
    BY <1>1, <1>4, <1>5, <2>1
  <2>3. p = Minus(c, ChunkStart) /\ ItemAt(p) = c
    BY <1>1, <1>2, <1>6, CopiedItems
  <2>4. InSlice(c) => Turn(c) = cur
    BY <1>1, <1>2, <1>6, TurnFacts
  <2>5. Copied(p) <=> InSlice(c)
    BY <1>1, <1>2, <1>3, <2>3, <2>4, CopiedItems
  <2>6. Overwritten[p] = IF Copied(p) THEN buf[Minus(ItemAt(p), call.start)]
                         ELSE Underneath[p]
    BY <1>3 DEF Overwritten
  <2>7. ASSUME ~InSlice(c) PROVE Underneath[p] = Item(c)
    <3>1. CoveredInPart
      BY <1>1, <1>2, <1>6, <2>7, KeptItem
    <3> QED BY <1>3, <2>1, <3>1 DEF Underneath
  <2> HIDE DEF p, k
  <2> QED BY <2>2, <2>3, <2>4, <2>5, <2>6, <2>7
<1>7. CASE ChunkAt(c) # Here
  <2>1. k # NChunk
    BY <1>1, <1>2, <1>7, ChunkOfHere
  <2>2. Item(c)' = Item(c)
    BY <1>1, <1>3, <1>4, <1>5, <2>1
  <2>3. InSlice(c) => Turn(c) # cur
    BY <1>1, <1>2, <1>7, TurnFacts
  <2> QED BY <2>2, <2>3
<1> QED BY <1>6, <1>7

\* It is a step of the abstract write.
LEMMA StoreHappens ==
    ASSUME Sound, Sound', SetChunk
    PROVE  Ideal!Store
<1>1. /\ AtTurn /\ Stored /\ WellFormed /\ pc = "setting" /\ cur' = cur + 1 /\ cur \in Nat
      /\ UNCHANGED <<shape, pc, call, buf, ret>>
  BY SetChunkFacts, SoundFacts DEF SetChunk, WellFormed
<1>2. \A c : Turn(c)' = Turn(c) /\ InSlice(c)' = InSlice(c)
  BY <1>1 DEF Turn, FirstChunk, ChunkSpan, InSlice
<1>3. (Sound /\ pc = "setting" =>
        /\ \A c : c \in DOMAIN Pending <=>
                    c \in [Dims -> Nat] /\ InSlice(c) /\ Turn(c) >= cur
        /\ \A c \in DOMAIN Pending : /\ Pending[c] = buf[Minus(c, call.start)]
                                     /\ Pending[c] \in Values
                                     /\ c \in DOMAIN Items
        /\ Pending = [c \in DOMAIN Pending |-> Pending[c]])'
  BY PendingFacts, PTL
<1>4. /\ \A c : c \in DOMAIN Pending' <=>
                  c \in [Dims -> Nat] /\ InSlice(c) /\ Turn(c) >= cur + 1
      /\ \A c \in DOMAIN Pending' : Pending'[c] = buf[Minus(c, call.start)]
      /\ Pending' = [c \in DOMAIN Pending' |-> Pending'[c]]
  BY <1>1, <1>2, <1>3
<1>5. /\ \A c : c \in DOMAIN Pending <=>
                  c \in [Dims -> Nat] /\ InSlice(c) /\ Turn(c) >= cur
      /\ \A c \in DOMAIN Pending : Pending[c] = buf[Minus(c, call.start)]
  BY <1>1, PendingFacts
<1>6. \A c \in [Dims -> Nat] : InSlice(c) => Turn(c) \in Nat
  <2>1. Product(ChunkSpan) \in Nat
    BY <1>1, SpanFacts
  <2>2. ASSUME NEW c \in [Dims -> Nat], InSlice(c) PROVE Turn(c) \in Nat
    <3>1. Turn(c) \in 0..Product(ChunkSpan) - 1
      BY <1>1, <2>2, TurnFacts
    <3> QED BY <2>1, <3>1
  <2> QED BY <2>2
<1> HIDE DEF Pending
<1>7. DOMAIN Pending' \subseteq DOMAIN Pending
  BY <1>1, <1>4, <1>5, <1>6
<1>8. Pending' = [c \in DOMAIN Pending' |-> Pending[c]]
  BY <1>4, <1>5, <1>7
<1>9. \A c : c \in DOMAIN Pending \ DOMAIN Pending' <=>
               c \in [Dims -> Nat] /\ InSlice(c) /\ Turn(c) = cur
  BY <1>1, <1>4, <1>5, <1>6
<1>10. Items' = [c \in DOMAIN Items |->
                   IF c \in DOMAIN Pending \ DOMAIN Pending' THEN Pending[c] ELSE Items[c]]
  <2>1. Items' = [c \in DOMAIN Items |-> Item(c)']
    BY <1>1 DEF Items, ItemsIn, Item
  <2>2. ASSUME NEW c \in DOMAIN Items
        PROVE  Item(c)' = IF c \in DOMAIN Pending \ DOMAIN Pending' THEN Pending[c]
                          ELSE Items[c]
    <3>1. Item(c)' = IF InSlice(c) /\ Turn(c) = cur THEN buf[Minus(c, call.start)]
                     ELSE Item(c)
      BY WrittenItem
    <3>2. c \in [Dims -> Nat] /\ Items[c] = Item(c)
      <4>1. shape \in [Dims -> Int] /\ c \in Box(Origin, shape) /\ Items[c] = Item(c)
        BY <1>1, ItemsFacts DEF WellFormed
      <4> QED BY <4>1, OriginBox
    <3> QED BY <1>5, <1>9, <3>1, <3>2
  <2> HIDE DEF Items, Item
  <2> QED BY <2>1, <2>2
<1> QED BY <1>1, <1>7, <1>8, <1>10 DEF Ideal!Store

\* The steps that leave the array alone.
LEMMA SameItems ==
    ASSUME UNCHANGED <<shape, sc>>
    PROVE  Items' = Items
BY DEF Items

\* Slice implements NdArray: whatever slices are written and read, in pieces as large
\* as the chunks cut them, and wherever a call fails, what a caller sees is an array of
\* items in which writes replace the items of their slice and no others.
THEOREM ImplementsNdArray == Spec => IsArrayOfItems
<1>1. Init => Ideal!Init
  <2> SUFFICES ASSUME Init PROVE Ideal!Init
    OBVIOUS
  <2>1. Sound /\ pc = "idle" /\ ret = "SUCCEED"
    BY SoundInit DEF Init
  <2>2. \A c \in DOMAIN Items : Items[c] \in Values
    BY <2>1, SoundFacts, ItemsFacts
  <2>3. Pending = << >>
    BY <2>1 DEF Pending
  <2> QED BY <2>1, <2>2, <2>3 DEF Ideal!Init
<1>2. Sound /\ Sound' /\ [Next]_vars => [Ideal!Next]_(Ideal!vars)
  <2> SUFFICES ASSUME Sound, Sound', [Next]_vars PROVE [Ideal!Next]_(Ideal!vars)
    OBVIOUS
  <2>1. ret # "running" /\ ret' # "running"
    BY DEF Sound, TypeOK
  <2>2. CASE SetSlice
    <3>1. Entered /\ \E start, stop : SetWith(start, stop)
      BY <2>2, SetSliceFacts DEF Sound
    <3>2. /\ pc = "idle" /\ Items' = Items
          /\ \/ pc' = "setting"
             \/ pc' = "idle" /\ ret' \in {"SUCCEED", "INVALID_ARGUMENT"}
      BY <3>1, SameItems DEF Entered, SetWith
    <3>3. CASE pc' = "setting"
      <4>1. (Sound /\ pc = "setting" =>
              /\ \A c : c \in DOMAIN Pending <=>
                          c \in [Dims -> Nat] /\ InSlice(c) /\ Turn(c) >= cur
              /\ \A c \in DOMAIN Pending : /\ Pending[c] = buf[Minus(c, call.start)]
                                           /\ Pending[c] \in Values
                                           /\ c \in DOMAIN Items
              /\ Pending = [c \in DOMAIN Pending |-> Pending[c]])'
        BY PendingFacts, PTL
      <4>2. \A c \in DOMAIN Pending' : Pending'[c] \in Values /\ c \in DOMAIN Items
        BY <3>2, <3>3, <4>1
      <4>3. Ideal!Begin
        BY <2>1, <3>2, <3>3, <4>2 DEF Ideal!Begin, Ideal!Idle
      <4> QED BY <4>3 DEF Ideal!Next
    <3>4. CASE pc' = "idle"
      <4>1. Pending = << >> /\ Pending' = << >>
        BY <3>2, <3>4 DEF Pending
      <4>2. Ideal!Answer
        BY <2>1, <3>2, <3>4, <4>1 DEF Ideal!Answer, Ideal!Idle
      <4> QED BY <4>2 DEF Ideal!Next
    <3> QED BY <3>2, <3>3, <3>4
  <2>3. CASE GetSlice
    <3>1. Entered /\ \E start, stop : GetWith(start, stop)
      BY <2>3, GetSliceFacts DEF Sound
    <3>2. /\ pc = "idle" /\ Items' = Items
          /\ \/ pc' = "getting"
             \/ pc' = "idle" /\ ret' \in {"SUCCEED", "INVALID_ARGUMENT"}
      BY <3>1, SameItems DEF Entered, GetWith
    <3>3. Pending = << >> /\ Pending' = << >>
      BY <3>2 DEF Pending
    <3>4. CASE pc' = "getting"
      <4>1. DOMAIN Pending' = {}
        BY <3>3
      <4>2. Ideal!Begin
        BY <2>1, <3>2, <3>4, <4>1 DEF Ideal!Begin, Ideal!Idle
      <4> QED BY <4>2 DEF Ideal!Next
    <3>5. CASE pc' = "idle"
      <4>1. Ideal!Answer
        BY <2>1, <3>2, <3>3, <3>5 DEF Ideal!Answer, Ideal!Idle
      <4> QED BY <4>1 DEF Ideal!Next
    <3> QED BY <3>2, <3>4, <3>5
  <2>4. CASE SkipChunk
    <3>1. /\ More /\ SkipsChunk /\ cur' = cur + 1 /\ pc \in {"getting", "setting"}
          /\ UNCHANGED <<shape, sc, pc, call, buf, ret>>
      BY <2>4 DEF SkipChunk
    <3>2. Items' = Items
      BY <3>1, SameItems
    <3>3. Pending' = Pending
      <4>1. CASE pc # "setting"
        BY <3>1, <4>1 DEF Pending
      <4>2. CASE pc = "setting"
        <5>1. /\ AtTurn /\ WellFormed /\ cur \in Nat
              /\ \A j \in Dims : call.stop[j] <= shape[j]
          BY <3>1, <4>2, SoundFacts DEF Sound, Prepared, WellFormed
        <5>2. ASSUME NEW c \in Box(call.start, call.stop)
              PROVE  Turn(c) >= cur <=> Turn(c) >= cur + 1
          <6>1. c \in [Dims -> Nat] /\ InSlice(c)
            BY <5>1, <5>2, SliceBox
          <6>2. \A j \in Dims : c[j] < shape[j]
            BY <5>1, <6>1 DEF InSlice, WellFormed
          <6>3. Turn(c) # cur
            BY <3>1, <5>1, <6>1, <6>2, SkippedFacts
          <6>4. Turn(c) \in 0..Product(ChunkSpan) - 1 /\ Product(ChunkSpan) \in Nat
            BY <5>1, <6>1, TurnFacts, SpanFacts
          <6> QED BY <5>1, <6>3, <6>4
        <5>3. {c \in Box(call.start, call.stop) : Turn(c) >= cur}
                = {c \in Box(call.start, call.stop) : Turn(c) >= cur + 1}
          BY <5>2
        <5>4. \A c : Turn(c)' = Turn(c)
          BY <3>1 DEF Turn, FirstChunk, ChunkSpan
        <5>5. Pending' = [c \in {c \in Box(call.start, call.stop) : Turn(c) >= cur + 1} |->
                            buf[Minus(c, call.start)]]
          BY <3>1, <4>2, <5>4 DEF Pending
        <5> QED BY <4>2, <5>3, <5>5 DEF Pending
      <4> QED BY <4>1, <4>2
    <3> QED BY <3>1, <3>2, <3>3 DEF Ideal!vars
  <2>5. CASE SetChunk
    <3>1. Ideal!Store
      BY <2>5, StoreHappens
    <3> QED BY <3>1 DEF Ideal!Next
  <2>6. CASE GetChunk
    <3>1. pc = "getting" /\ UNCHANGED <<shape, sc, pc, ret>>
      BY <2>6 DEF GetChunk
    <3>2. Items' = Items /\ Pending' = Pending
      BY <3>1, SameItems DEF Pending
    <3> QED BY <3>1, <3>2 DEF Ideal!vars
  <2>7. CASE SliceEnd
    <3>1. /\ pc \in {"getting", "setting"} /\ ~More /\ pc' = "idle" /\ ret' = "SUCCEED"
          /\ UNCHANGED <<shape, sc>>
      BY <2>7 DEF SliceEnd, Leave
    <3>2. Pending = << >> /\ Pending' = << >> /\ Items' = Items
      <4>1. Pending = << >>
        BY <3>1, NothingPending
      <4> QED BY <3>1, <4>1, SameItems DEF Pending
    <3>3. Ideal!Finish
      BY <3>1, <3>2 DEF Ideal!Finish
    <3> QED BY <3>3 DEF Ideal!Next
  <2>8. CASE ChunkFails
    <3>1. /\ pc \in {"getting", "setting"} /\ pc' = "idle" /\ ret' = "BLOSC_FAILED"
          /\ UNCHANGED <<shape, sc>>
      BY <2>8 DEF ChunkFails, Leave
    <3>2. Pending' = << >> /\ Items' = Items
      BY <3>1, SameItems DEF Pending
    <3>3. Ideal!Fail
      BY <3>1, <3>2 DEF Ideal!Fail
    <3> QED BY <3>3 DEF Ideal!Next
  <2>9. CASE UNCHANGED vars
    BY <2>9 DEF vars, Ideal!vars, Items, Pending, Turn, FirstChunk, ChunkSpan
  <2> QED BY <2>2, <2>3, <2>4, <2>5, <2>6, <2>7, <2>8, <2>9 DEF Next, SliceStep
<1> QED BY <1>1, <1>2, AlwaysSound, PTL DEF Spec, IsArrayOfItems, Ideal!Spec

-----------------------------------------------------------------------------
(* The chunks of a resized array. *)

\* Chunks by their coordinates.
LEMMA CellsType ==
    ASSUME Stored
    PROVE  /\ Cells \in [GridCoords(shape) -> ChunkData]
           /\ \A d \in GridCoords(shape) : Cells[d] = sc[NumberIn(shape, d) + 1]
<1>1. ASSUME NEW d \in GridCoords(shape)
      PROVE  Cells[d] = sc[NumberIn(shape, d) + 1] /\ Cells[d] \in ChunkData
  <2>1. Cells[d] = sc[NumberIn(shape, d) + 1]
    BY DEF Cells, NumberIn
  <2>2. NumberIn(shape, d) \in 0..NumChunks(shape) - 1
    BY Numbering DEF Stored
  <2> QED BY <2>1, <2>2, ChunkFacts
<1>2. Cells = [d \in GridCoords(shape) |-> Cells[d]]
  BY DEF Cells
<1> QED BY <1>1, <1>2

\* And by their numbers.
LEMMA ListFacts ==
    ASSUME NEW z \in [Dims -> Nat], NEW cells \in [GridCoords(z) -> ChunkData]
    PROVE  /\ List(cells, z) \in Seq(ChunkData)
           /\ Len(List(cells, z)) = NumChunks(z)
           /\ \A d \in GridCoords(z) : List(cells, z)[NumberIn(z, d) + 1] = cells[d]
<1>1. NumChunks(z) \in Nat
  BY NumChunksType
<1>2. ASSUME NEW k \in 1..NumChunks(z)
      PROVE  List(cells, z)[k] = cells[PlaceIn(z, k - 1)] /\ List(cells, z)[k] \in ChunkData
  <2>1. List(cells, z)[k] = cells[PlaceIn(z, k - 1)]
    BY DEF List, PlaceIn
  <2>2. k - 1 \in 0..NumChunks(z) - 1
    BY <1>1
  <2>3. PlaceIn(z, k - 1) \in GridCoords(z)
    BY <2>2, Numbering
  <2> QED BY <2>1, <2>3
<1>3. List(cells, z) = [k \in 1..NumChunks(z) |-> List(cells, z)[k]]
  BY DEF List
<1>4. ASSUME NEW d \in GridCoords(z) PROVE List(cells, z)[NumberIn(z, d) + 1] = cells[d]
  <2>1. NumberIn(z, d) \in 0..NumChunks(z) - 1 /\ PlaceIn(z, NumberIn(z, d)) = d
    BY Numbering
  <2>2. NumberIn(z, d) + 1 \in 1..NumChunks(z) /\ (NumberIn(z, d) + 1) - 1 = NumberIn(z, d)
    BY <1>1, <2>1
  <2> QED BY <1>2, <2>1, <2>2
<1> HIDE DEF List, ChunkData
<1>5. List(cells, z) \in Seq(ChunkData) /\ Len(List(cells, z)) = NumChunks(z)
  <2> DEFINE n == NumChunks(z)
             l == List(cells, z)
  <2>1. n \in Nat /\ l = [k \in 1..n |-> l[k]] /\ \A k \in 1..n : l[k] \in ChunkData
    BY <1>1, <1>2, <1>3
  <2> HIDE DEF n, l
  <2>2. l \in [1..n -> ChunkData]
    BY <2>1
  <2>3. l \in Seq(ChunkData) /\ Len(l) = n
    BY <2>1, <2>2
  <2> QED BY <2>3 DEF n, l
<1> QED BY <1>4, <1>5

\* A chunk of zeros.
LEMMA ZeroChunkFacts == ZeroChunk \in ChunkData /\ \A p \in ChunkBox : ZeroChunk[p] = Zero
BY ZeroAssumption DEF ZeroChunk, ChunkData

\* The arguments of a resize that changes the array: what it cuts out or puts in lies
\* in the array, in whole chunks or at the end.
CanResize(new, start) ==
    /\ new \in [Dims -> Nat] /\ start \in [Dims -> Nat]
    /\ Accepted(new, start)
    /\ \A j \in Dims : new[j] < shape[j] => start[j] <= new[j]

\* Both halves of it cut or add ranges that fit.
LEMMA ResizeFits ==
    ASSUME shape \in [Dims -> Nat], NEW new, NEW start, CanResize(new, start)
    PROVE  /\ IsCutOf(shape, Lesser(new, shape), start)
           /\ IsCutOf(new, Lesser(new, shape), start)
<1> DEFINE low == Lesser(new, shape)
<1>1. /\ new \in [Dims -> Nat] /\ start \in [Dims -> Nat] /\ low \in [Dims -> Nat]
      /\ \A j \in Dims : low[j] = IF new[j] <= shape[j] THEN new[j] ELSE shape[j]
  BY DEF CanResize, Lesser
<1>2. /\ Aligned(shape, new, start)
      /\ \A j \in Dims : start[j] <= shape[j]
      /\ \A j \in Dims : new[j] < shape[j] => start[j] <= new[j]
  BY DEF CanResize, Accepted
<1> HIDE DEF low
<1>3. ASSUME NEW j \in Dims
      PROVE  /\ low[j] <= shape[j] /\ low[j] <= new[j]
             /\ FitsDim(ChunkShape[j], shape[j], low[j], start[j])
             /\ FitsDim(ChunkShape[j], new[j], low[j], start[j])
  <2> DEFINE s == ChunkShape[j]
             f == shape[j]
             n == new[j]
             t == low[j]
             a == start[j]
  <2>1. s \in Nat \ {0} /\ f \in Nat /\ n \in Nat /\ t \in Nat /\ a \in Nat
    BY <1>1, ChunkShapeAssumption
  <2>2. t = IF n <= f THEN n ELSE f
    BY <1>1
  <2>3. /\ \/ n = f
           \/ n > f /\ a = f
           \/ n < f /\ a + f - n = f
           \/ (a % s) = 0 /\ ((n - f) % s) = 0
        /\ a <= f
        /\ n < f => a <= n
    BY <1>2 DEF Aligned
  <2>4. ((n - f) % s) = 0 => ((f - n) % s) = 0
    <3>1. n - f \in Int /\ f - n \in Int /\ f - n = -(n - f)
      BY <2>1
    <3> QED BY <2>1, <3>1, NegativeRest
  <2> HIDE DEF s, f, n, t, a
  <2>5. t <= f /\ t <= n /\ FitsDim(s, f, t, a) /\ FitsDim(s, n, t, a)
    <3>1. CASE n < f
      BY <2>1, <2>2, <2>3, <2>4, <3>1 DEF FitsDim
    <3>2. CASE n = f
      BY <2>1, <2>2, <3>2 DEF FitsDim
    <3>3. CASE n > f
      BY <2>1, <2>2, <2>3, <3>3 DEF FitsDim
    <3> QED BY <2>1, <3>1, <3>2, <3>3
  <2> QED BY <2>5 DEF s, f, n, t, a
<1>4. ASSUME NEW big \in [Dims -> Nat],
             \A j \in Dims : low[j] <= big[j]
                             /\ FitsDim(ChunkShape[j], big[j], low[j], start[j])
      PROVE  IsCutOf(big, low, start)
  BY <1>1, <1>4 DEF IsCutOf, Fits, FitsDim, Length
<1>5. IsCutOf(shape, low, start) /\ IsCutOf(new, low, start)
  BY <1>1, <1>3, <1>4
<1> QED BY <1>5 DEF low

\* The chunk at d is new, or it is the one that stood where both halves, undone, lead.
LEMMA ResizedCells ==
    ASSUME Stored, NEW new, NEW start, CanResize(new, start)
    PROVE  LET low   == Lesser(new, shape)
               rest  == CutCells(Cells, shape, low, start)
               grown == GrownCells(rest, low, new, start, ZeroChunk)
           IN  /\ grown \in [GridCoords(new) -> ChunkData]
               /\ \A d \in GridCoords(new) :
                    grown[d] = IF Covers(start, Length(new, low), d) THEN ZeroChunk
                               ELSE Cells[DownFrom(shape, low, start, UpFrom(new, low, start, d))]
<1> DEFINE low   == Lesser(new, shape)
           rest  == CutCells(Cells, shape, low, start)
           grown == GrownCells(rest, low, new, start, ZeroChunk)
<1>1. IsCutOf(shape, low, start) /\ IsCutOf(new, low, start)
  BY ResizeFits DEF Stored
<1>2. Cells \in [GridCoords(shape) -> ChunkData]
  BY CellsType
<1>3. rest = [c \in GridCoords(low) |-> Cells[DownFrom(shape, low, start, c)]]
  BY DEF CutCells, DownFrom, Length
<1>4. grown = [c \in GridCoords(new) |-> IF Covers(start, Length(new, low), c) THEN ZeroChunk
                                         ELSE rest[UpFrom(new, low, start, c)]]
  BY DEF GrownCells, UpFrom, Length
<1> HIDE DEF low, rest, grown, ChunkData
<1>5. \A c \in GridCoords(low) : DownFrom(shape, low, start, c) \in GridCoords(shape)
  BY <1>1, DownFromFacts
<1>6. \A d \in GridCoords(new) : ~Covers(start, Length(new, low), d)
                                   => UpFrom(new, low, start, d) \in GridCoords(low)
  BY <1>1, UpFromFacts
<1>7. ASSUME NEW d \in GridCoords(new)
      PROVE  /\ grown[d] = IF Covers(start, Length(new, low), d) THEN ZeroChunk
                           ELSE Cells[DownFrom(shape, low, start, UpFrom(new, low, start, d))]
             /\ grown[d] \in ChunkData
  <2>1. CASE Covers(start, Length(new, low), d)
    BY <1>4, <2>1, ZeroChunkFacts
  <2>2. CASE ~Covers(start, Length(new, low), d)
    <3>1. UpFrom(new, low, start, d) \in GridCoords(low)
      BY <1>6, <2>2
    <3>2. grown[d] = rest[UpFrom(new, low, start, d)]
      BY <1>4, <2>2
    <3>3. rest[UpFrom(new, low, start, d)]
            = Cells[DownFrom(shape, low, start, UpFrom(new, low, start, d))]
      BY <1>3, <3>1
    <3>4. Cells[DownFrom(shape, low, start, UpFrom(new, low, start, d))] \in ChunkData
      BY <1>2, <1>5, <3>1
    <3> QED BY <2>2, <3>2, <3>3, <3>4
  <2> QED BY <2>1, <2>2
<1>8. grown \in [GridCoords(new) -> ChunkData]
  BY <1>4, <1>7
<1> QED BY <1>7, <1>8 DEF low, rest, grown

\* The list of chunks after a resize to a shape with items.
LEMMA ResizedChunks ==
    ASSUME Stored, NEW new, NEW start, CanResize(new, start),
           ~IsEmpty(shape), ~IsEmpty(Lesser(new, shape))
    PROVE  /\ ShapeAfter(new, start) = new
           /\ ChunksAfter(new, start) \in Seq(ChunkData)
           /\ Len(ChunksAfter(new, start)) = NumChunks(new)
           /\ \A d \in GridCoords(new) :
                ChunksAfter(new, start)[NumberIn(new, d) + 1]
                  = IF Covers(start, Length(new, Lesser(new, shape)), d) THEN ZeroChunk
                    ELSE Cells[DownFrom(shape, Lesser(new, shape), start,
                                        UpFrom(new, Lesser(new, shape), start, d))]
<1> DEFINE low   == Lesser(new, shape)
           rest  == CutCells(Cells, shape, low, start)
           grown == GrownCells(rest, low, new, start, ZeroChunk)
<1>1. Accepted(new, start) /\ new \in [Dims -> Nat]
  BY DEF CanResize
<1>2. ChunksAfter(new, start) = List(grown, new) /\ ShapeAfter(new, start) = new
  BY <1>1 DEF ChunksAfter, ShapeAfter
<1>3. /\ grown \in [GridCoords(new) -> ChunkData]
      /\ \A d \in GridCoords(new) :
           grown[d] = IF Covers(start, Length(new, low), d) THEN ZeroChunk
                      ELSE Cells[DownFrom(shape, low, start, UpFrom(new, low, start, d))]
  BY ResizedCells
<1> HIDE DEF low, grown, ChunkData
<1>4. /\ List(grown, new) \in Seq(ChunkData) /\ Len(List(grown, new)) = NumChunks(new)
      /\ \A d \in GridCoords(new) : List(grown, new)[NumberIn(new, d) + 1] = grown[d]
  BY <1>1, <1>3, ListFacts
<1> QED BY <1>2, <1>3, <1>4 DEF low

\* An array without items has no chunks.
LEMMA NoChunks ==
    ASSUME NEW z \in [Dims -> Nat], IsEmpty(z)
    PROVE  NumChunks(z) = 0
<1>1. PICK j \in Dims : z[j] = 0
  BY DEF IsEmpty
<1> DEFINE g == ChunksInArray(z)
<1>2. g \in [Dims -> Nat] /\ (0 < g[j] <=> ChunkShape[j] * 0 < z[j])
  BY GridFacts
<1>3. ChunkShape[j] * 0 = 0 /\ g[j] \in Nat
  BY <1>2, ChunkShapeAssumption
<1>4. g[j] = 0
  BY <1>1, <1>2, <1>3
<1> HIDE DEF g
<1>5. Product(g) = 0
  BY <1>2, <1>4, ProductZero
<1> QED BY <1>5, NumChunksIsProduct DEF g

\* Whatever a resize is asked for, it leaves as many chunks as its shape needs.
LEMMA ResizeType ==
    ASSUME Stored, shape \in Shapes, NEW new \in Shapes, NEW start,
           Accepted(new, start) => CanResize(new, start)
    PROVE  /\ ShapeAfter(new, start) \in Shapes
           /\ ChunksAfter(new, start) \in Seq(ChunkData)
           /\ Len(ChunksAfter(new, start)) = NumChunks(ShapeAfter(new, start))
<1> HIDE DEF ChunkData
<1>1. CASE ~Accepted(new, start) \/ IsEmpty(shape)
  BY <1>1 DEF ShapeAfter, ChunksAfter, Stored
<1>2. CASE Accepted(new, start) /\ ~IsEmpty(shape) /\ IsEmpty(Lesser(new, shape))
  <2>1. ShapeAfter(new, start) = Lesser(new, shape) /\ ChunksAfter(new, start) = << >>
    BY <1>2 DEF ShapeAfter, ChunksAfter
  <2>2. Lesser(new, shape) \in Shapes
    BY ClosedAssumption
  <2>3. NumChunks(Lesser(new, shape)) = 0
    BY <1>2, <2>2, NoChunks, ShapesAssumption
  <2> QED BY <2>1, <2>2, <2>3
<1>3. CASE Accepted(new, start) /\ ~IsEmpty(shape) /\ ~IsEmpty(Lesser(new, shape))
  BY <1>3, ResizedChunks
<1> QED BY <1>1, <1>2, <1>3

-----------------------------------------------------------------------------
(* The items of a resized array. *)

\* In a dimension of f items in chunks of s, resized to n items by a range at a, what is
\* at x was at y.
MovedDim(s, f, n, a, x, y) ==
    LET t == IF n <= f THEN n ELSE f
        h == x \div s
    IN  /\ ~(s * h >= a /\ s * h < a + (n - t))
        /\ DownBy(s, f - t, a, UpBy(s, n - t, a, h)) = y \div s
        /\ (x % s) = (y % s)

\* Items before the range stay.
LEMMA BeforeDim ==
    ASSUME NEW s \in Nat \ {0}, NEW f \in Nat, NEW n \in Nat, NEW a \in Nat, NEW x \in Nat,
           x < a
    PROVE  MovedDim(s, f, n, a, x, x)
<1> DEFINE h == x \div s
           m == s * h
<1>1. h \in Nat /\ m <= x /\ m \in Nat
  BY PlaceDim
<1>2. m < a
  <2> HIDE DEF m, h
  <2> QED BY <1>1
<1> HIDE DEF m
<1>3. s * h = m
  BY DEF m
<1> HIDE DEF h
<1>4. \A l : UpBy(s, l, a, h) = h /\ DownBy(s, l, a, h) = h
  BY <1>2, <1>3 DEF UpBy, DownBy
<1>5. ~(s * h >= a)
  BY <1>1, <1>2, <1>3
<1> QED BY <1>4, <1>5 DEF MovedDim, h

\* Without a range all do.
LEMMA SameDim ==
    ASSUME NEW s \in Nat \ {0}, NEW f \in Nat, NEW a \in Nat, NEW x \in Nat
    PROVE  MovedDim(s, f, f, a, x, x)
<1> DEFINE h == x \div s
           m == s * h
<1>1. h \in Nat /\ m \in Nat /\ 0 \div s = 0
  BY PlaceDim
<1> HIDE DEF h
<1>2. f - f = 0 /\ h + 0 = h /\ h - 0 = h
  BY <1>1
<1>3. UpBy(s, 0, a, h) = h /\ DownBy(s, 0, a, h) = h
  BY <1>1, <1>2 DEF UpBy, DownBy
<1>4. ~(m >= a /\ m < a + 0)
  <2> HIDE DEF m
  <2> QED BY <1>1
<1> QED BY <1>2, <1>3, <1>4 DEF MovedDim, h

\* A length in whole chunks.
InChunks(s, l) == (l % s) = 0

MovesInChunks(s, a, l, y) ==
    /\ y \div s \in Nat /\ l \div s \in Nat
    /\ (y + l) \div s = (y \div s) + (l \div s)
    /\ ((y + l) % s) = (y % s)
    /\ s * (y \div s) \in Nat /\ s * (y \div s) >= a
    /\ s * ((y + l) \div s) = s * (y \div s) + l

\* Items l behind others, with whole chunks between them, are in the same places of chunks
\* that far behind, and those chunks begin behind the range where those of the others do.
LEMMA WholeChunks ==
    ASSUME NEW s \in Nat \ {0}, NEW a \in Nat, NEW l \in Nat, NEW y \in Nat, y >= a,
           InChunks(s, a), InChunks(s, l)
    PROVE  MovesInChunks(s, a, l, y)
<1> DEFINE q == y \div s
           r == (y % s)
           v == l \div s
           u == a \div s
<1>1. q \in Nat /\ r \in 0..s - 1 /\ y = q * s + r /\ r \in Nat
  <2>1. q \in Nat /\ r \in 0..s - 1 /\ y = q * s + r
    BY QuotientRest
  <2> HIDE DEF q, r
  <2> QED BY <2>1
<1>2. v \in Nat /\ l = v * s
  BY ExactQuotient DEF InChunks
<1>3. u \in Nat /\ a = u * s /\ u <= q
  <2>1. u \in Nat /\ a = u * s
    BY ExactQuotient DEF InChunks
  <2>2. u <= q
    BY DivOrder
  <2> QED BY <2>1, <2>2
<1> HIDE DEF q, r, v, u
<1>4. y + l = (q + v) * s + r /\ q + v \in Nat
  BY <1>1, <1>2
<1>5. (y + l) \div s = q + v /\ ((y + l) % s) = r
  <2> DEFINE e == q + v
             z == y + l
  <2>1. e \in Nat /\ r \in 0..s - 1 /\ z = e * s + r
    BY <1>1, <1>4
  <2> HIDE DEF e, z
  <2>2. (e * s + r) \div s = e /\ ((e * s + r) % s) = r
    BY <2>1, DivMod
  <2>3. z \div s = e /\ (z % s) = r
    BY <2>1, <2>2
  <2> QED BY <2>3 DEF e, z
<1>6. s * q \in Nat /\ s * q >= a
  <2>1. PICK w \in Nat : q = u + w
    <3>1. q - u \in Nat /\ q = u + (q - u)
      BY <1>1, <1>3
    <3> QED BY <3>1
  <2>2. s * q = u * s + w * s /\ w * s \in Nat /\ u * s \in Nat
    BY <1>1, <1>3, <2>1
  <2> DEFINE b == u * s
             d == w * s
  <2> HIDE DEF b, d
  <2>3. b \in Nat /\ d \in Nat /\ s * q = b + d /\ a = b
    BY <1>3, <2>2 DEF b, d
  <2> QED BY <2>3
<1>7. s * (q + v) = s * q + l
  BY <1>1, <1>2
<1>8. s * ((y + l) \div s) = s * q + l
  BY <1>5, <1>7
<1>9. /\ q \in Nat /\ v \in Nat /\ (y + l) \div s = q + v /\ ((y + l) % s) = r
      /\ s * q \in Nat /\ s * q >= a /\ s * ((y + l) \div s) = s * q + l
  BY ONLY <1>1, <1>2, <1>5, <1>6, <1>8
<1> QED BY ONLY <1>9 DEF q, r, v, MovesInChunks

\* Items behind a range that is put in move with their chunks.
LEMMA BehindInsertion ==
    ASSUME NEW s \in Nat \ {0}, NEW f \in Nat, NEW a \in Nat, NEW l \in Nat,
           NEW y \in Nat, y >= a, InChunks(s, a), InChunks(s, l)
    PROVE  MovedDim(s, f, f + l, a, y + l, y)
<1> DEFINE h == (y + l) \div s
           g == y \div s
           v == l \div s
           m == s * g
           k == s * h
<1>1. /\ g \in Nat /\ v \in Nat /\ h = g + v /\ ((y + l) % s) = (y % s)
      /\ m \in Nat /\ m >= a /\ k = m + l
  <2>1. MovesInChunks(s, a, l, y)
    BY WholeChunks
  <2> QED BY ONLY <2>1 DEF MovesInChunks
<1>2. /\ (f + l) - f = l /\ f - f = 0 /\ (IF f + l <= f THEN f + l ELSE f) = f
      /\ 0 \div s = 0
  BY PlaceDim
<1>3. k >= a /\ ~(k < a + l)
  <2> HIDE DEF m, k
  <2> QED BY <1>1
<1>4. UpBy(s, l, a, h) = g
  <2>1. ~(s * h < a)
    <3> HIDE DEF m, h
    <3>1. k \in Nat
      BY <1>1
    <3> HIDE DEF k
    <3>2. ~(k < a)
      BY <1>3, <3>1
    <3> QED BY <3>2 DEF k
  <2>2. UpBy(s, l, a, h) = h - v
    BY <2>1 DEF UpBy
  <2> HIDE DEF h, g, v
  <2> QED BY <1>1, <2>2
<1>5. DownBy(s, 0, a, g) = g
  <2> HIDE DEF g
  <2> QED BY <1>1, <1>2 DEF DownBy
<1> QED BY <1>1, <1>2, <1>3, <1>4, <1>5 DEF MovedDim

\* So do those behind a range that is cut out.
LEMMA BehindDeletion ==
    ASSUME NEW s \in Nat \ {0}, NEW n \in Nat, NEW a \in Nat, NEW l \in Nat,
           NEW x \in Nat, x >= a, InChunks(s, a), InChunks(s, l)
    PROVE  MovedDim(s, n + l, n, a, x, x + l)
<1> DEFINE h == (x + l) \div s
           g == x \div s
           v == l \div s
           m == s * g
<1>1. /\ g \in Nat /\ v \in Nat /\ h = g + v /\ ((x + l) % s) = (x % s)
      /\ m \in Nat /\ m >= a
  <2>1. MovesInChunks(s, a, l, x)
    BY WholeChunks
  <2> QED BY ONLY <2>1 DEF MovesInChunks
<1>2. /\ (n + l) - n = l /\ n - n = 0 /\ (IF n <= n + l THEN n ELSE n + l) = n
      /\ 0 \div s = 0
  BY PlaceDim
<1>3. ~(m >= a /\ m < a + 0) /\ ~(m < a)
  <2> HIDE DEF m
  <2> QED BY <1>1
<1>4. UpBy(s, 0, a, g) = g
  <2> HIDE DEF g
  <2> QED BY <1>1, <1>2 DEF UpBy
<1>5. DownBy(s, l, a, g) = h
  <2>1. ~(s * g < a)
    BY <1>3
  <2>2. DownBy(s, l, a, g) = g + v
    BY <2>1 DEF DownBy
  <2> QED BY <1>1, <2>2
<1> QED BY <1>1, <1>2, <1>3, <1>4, <1>5 DEF MovedDim

\* A resize that is carried out, to a shape with items.
Resizable(new, start) ==
    CanResize(new, start) /\ ~IsEmpty(shape) /\ ~IsEmpty(Lesser(new, shape))

\* Where the chunk of an item that was there before stood.
LEMMA MovedChunk ==
    ASSUME shape \in [Dims -> Nat], NEW new, NEW start, CanResize(new, start),
           NEW c \in [Dims -> Nat], NEW e \in [Dims -> Nat],
           \A j \in Dims : /\ c[j] < new[j] /\ e[j] < shape[j]
                           /\ MovedDim(ChunkShape[j], shape[j], new[j], start[j], c[j], e[j])
    PROVE  LET low == Lesser(new, shape)
           IN  /\ ~Covers(start, Length(new, low), ChunkAt(c))
               /\ DownFrom(shape, low, start, UpFrom(new, low, start, ChunkAt(c))) = ChunkAt(e)
               /\ RestAt(c) = RestAt(e)
<1> DEFINE low == Lesser(new, shape)
           d   == ChunkAt(c)
           u   == UpFrom(new, low, start, d)
           o   == DownFrom(shape, low, start, u)
<1>1. /\ IsCutOf(shape, low, start) /\ IsCutOf(new, low, start)
      /\ new \in [Dims -> Nat]
  BY ResizeFits DEF CanResize
<1>2. d \in GridCoords(new) /\ d \in [Dims -> Nat]
  BY <1>1, ItemPlace, GridFacts DEF InBox
<1>3. \A j \in Dims : low[j] = IF new[j] <= shape[j] THEN new[j] ELSE shape[j]
  BY DEF Lesser
<1>4. \A j \in Dims : d[j] = c[j] \div ChunkShape[j]
  BY DEF ChunkAt
<1>5. ~Covers(start, Length(new, low), d)
  <2>1. ASSUME NEW j \in Dims
        PROVE  ~(/\ ChunkShape[j] * d[j] >= start[j]
                 /\ ChunkShape[j] * d[j] < start[j] + Length(new, low)[j])
    BY <1>3, <1>4 DEF MovedDim, Length
  <2> QED BY <2>1 DEF Covers
<1>6. u \in [Dims -> Nat]
  <2>1. low \in [Dims -> Nat]
    BY <1>1 DEF IsCutOf
  <2>2. u \in GridCoords(low)
    BY <1>1, <1>2, <1>5, UpFromFacts
  <2> QED BY <2>1, <2>2, GridFacts DEF InBox
<1>7. o = ChunkAt(e)
  <2>1. ASSUME NEW j \in Dims PROVE o[j] = ChunkAt(e)[j]
    <3>1. u[j] = UpBy(ChunkShape[j], new[j] - low[j], start[j], d[j])
      BY <1>1, <1>2, ShiftedDims
    <3>2. o[j] = DownBy(ChunkShape[j], shape[j] - low[j], start[j], u[j])
      BY <1>1, <1>6, ShiftedDims
    <3>3. ChunkAt(e)[j] = e[j] \div ChunkShape[j]
      BY DEF ChunkAt
    <3> HIDE DEF low, d, u, o
    <3> QED BY <1>3, <1>4, <3>1, <3>2, <3>3 DEF MovedDim
  <2>2. o = [j \in Dims |-> o[j]] /\ ChunkAt(e) = [j \in Dims |-> ChunkAt(e)[j]]
    BY DEF DownFrom, Shifted, ChunkAt
  <2> HIDE DEF o
  <2> QED BY <2>1, <2>2
<1>8. RestAt(c) = RestAt(e)
  <2>1. \A j \in Dims : (c[j] % ChunkShape[j]) = (e[j] % ChunkShape[j])
    BY DEF MovedDim
  <2> QED BY <2>1 DEF RestAt
<1> QED BY <1>5, <1>7, <1>8

\* An item that was there before is the same after.
LEMMA MovedItem ==
    ASSUME Stored, NEW new, NEW start, Resizable(new, start),
           NEW c \in [Dims -> Nat], NEW e \in [Dims -> Nat],
           \A j \in Dims : /\ c[j] < new[j] /\ e[j] < shape[j]
                           /\ MovedDim(ChunkShape[j], shape[j], new[j], start[j], c[j], e[j])
    PROVE  ItemIn(new, ChunksAfter(new, start), c) = Item(e)
<1> DEFINE low == Lesser(new, shape)
           d   == ChunkAt(c)
<1>1. CanResize(new, start) /\ new \in [Dims -> Nat] /\ shape \in [Dims -> Nat]
  BY DEF Resizable, CanResize, Stored
<1>2. /\ ~Covers(start, Length(new, low), d)
      /\ DownFrom(shape, low, start, UpFrom(new, low, start, d)) = ChunkAt(e)
      /\ RestAt(c) = RestAt(e)
  BY <1>1, MovedChunk
<1>3. /\ d \in GridCoords(new)
      /\ ItemIn(new, ChunksAfter(new, start), c)
           = ChunksAfter(new, start)[NumberIn(new, d) + 1][RestAt(c)]
  BY <1>1, ItemPlace
<1>4. ChunksAfter(new, start)[NumberIn(new, d) + 1] = Cells[ChunkAt(e)]
  BY <1>1, <1>2, <1>3, ResizedChunks DEF Resizable
<1>5. /\ ChunkAt(e) \in GridCoords(shape)
      /\ Item(e) = sc[NumberIn(shape, ChunkAt(e)) + 1][RestAt(e)]
  BY <1>1, ItemFacts
<1>6. Cells[ChunkAt(e)] = sc[NumberIn(shape, ChunkAt(e)) + 1]
  BY <1>5, CellsType
<1> QED BY <1>2, <1>3, <1>4, <1>5, <1>6

\* An item of a chunk that is put in is zero.
LEMMA NewItem ==
    ASSUME Stored, NEW new, NEW start, Resizable(new, start),
           NEW c \in [Dims -> Nat], \A j \in Dims : c[j] < new[j],
           Covers(start, Length(new, Lesser(new, shape)), ChunkAt(c))
    PROVE  ItemIn(new, ChunksAfter(new, start), c) = Zero
<1> DEFINE low == Lesser(new, shape)
           d   == ChunkAt(c)
<1>1. CanResize(new, start) /\ new \in [Dims -> Nat]
  BY DEF Resizable, CanResize
<1>2. /\ d \in GridCoords(new) /\ RestAt(c) \in ChunkBox
      /\ ItemIn(new, ChunksAfter(new, start), c)
           = ChunksAfter(new, start)[NumberIn(new, d) + 1][RestAt(c)]
  BY <1>1, ItemPlace
<1>3. ChunksAfter(new, start)[NumberIn(new, d) + 1] = ZeroChunk
  BY <1>1, <1>2, ResizedChunks DEF Resizable
<1> QED BY <1>2, <1>3, ZeroChunkFacts

-----------------------------------------------------------------------------
(* Types. *)

\* Inductive, like ArrayTypeOK: with it, buffers that cover their slices.
ArraySound ==
    /\ Sound
    /\ job \in Jobs
    /\ \A c \in DOMAIN before : before[c] \in Values

\* A shape whose chunks a call leaves behind.
LeavesWhole ==
    shape' \in Shapes /\ sc' \in Seq(ChunkData) /\ Len(sc') = NumChunks(shape')

\* A call that is over at once, and touches no slice.
LEMMA QuietCall ==
    ASSUME Sound, Called, NEW code \in {"SUCCEED", "INVALID_ARGUMENT"}, Answered(code), LeavesWhole
    PROVE  /\ Sound' /\ GetPass'
           /\ pc' = "idle" /\ ret' = code /\ call' = NoCall
<1> HIDE DEF ChunkData
<1>1. /\ pc = "idle" /\ left > 0 /\ left' = left - 1 /\ ret' = code /\ call' = NoCall
      /\ buf' = << >> /\ UNCHANGED <<pc, cur, data>>
  BY DEF Called, Answered
<1>2. left' \in 0..MaxCalls
  BY <1>1, MaxCallsAssumption DEF Sound, TypeOK
<1>3. NoCall \in [op : {"none", "get", "set"}, start : [Dims -> Nat], stop : [Dims -> Nat]]
      /\ NoCall.op = "none"
  BY DEF NoCall, Origin
<1>4. \A q \in DOMAIN buf' : buf'[q] \in Values \cup {Garbage}
  BY <1>1
<1>5. TypeOK'
  BY <1>1, <1>2, <1>3, <1>4 DEF Sound, TypeOK, LeavesWhole
<1>6. Prepared'
  BY <1>1 DEF Prepared, LeavesWhole
<1>7. GetPass'
  BY <1>1, <1>3 DEF GetPass, GetReturnsItems
<1> QED BY <1>1, <1>5, <1>6, <1>7 DEF Sound

\* A call that writes a slice.
LEMMA SetCall ==
    ASSUME Sound, Called, LeavesWhole, cur' = 0, data' = Unread, NEW start, NEW stop,
           SetWith(start, stop)
    PROVE  Sound' /\ GetPass'
<1> HIDE DEF ChunkData
<1>1. pc = "idle" /\ left > 0 /\ left' = left - 1
  BY DEF Called
<1>2. left' \in 0..MaxCalls
  BY <1>1, MaxCallsAssumption DEF Sound, TypeOK
<1>3. Covering'
  BY CoveringEntry
<1>4. /\ start \in [Dims -> Nat] /\ stop \in [Dims -> Nat]
      /\ call' = [op |-> "set", start |-> start, stop |-> stop]
      /\ \A q \in DOMAIN buf' : buf'[q] \in Values
      /\ pc' \in {"setting", "idle"} /\ (pc' = "setting" => ret' = ret)
      /\ pc' = "idle" => ret' \in {"SUCCEED", "INVALID_ARGUMENT"}
      /\ \A j \in Dims : stop[j] <= shape'[j]
  BY DEF SetWith
<1>5. Unread \in [ChunkBox -> Values \cup {Garbage}]
  BY DEF Unread
<1>6. TypeOK'
  BY <1>2, <1>4, <1>5 DEF Sound, TypeOK, LeavesWhole
<1>7. Prepared'
  BY <1>3, <1>4 DEF Prepared, LeavesWhole
<1>8. GetPass'
  BY <1>4 DEF GetPass, GetReturnsItems
<1> QED BY <1>6, <1>7, <1>8 DEF Sound

\* What is written comes from one of the buffers callers have.
LEMMA BufferEntry ==
    ASSUME NEW f \in Buffers, NEW b \in [Dims -> Nat],
           \A j \in Dims : b[j] <= BufferShape[j],
           buf' = [q \in Box(Origin, b) |-> f[q]]
    PROVE  /\ DOMAIN buf' = Box(Origin, b)
           /\ \A q \in DOMAIN buf' : buf'[q] \in Values
<1>1. BufferShape \in [Dims -> Nat] /\ f \in [Box(Origin, BufferShape) -> Values]
  BY BufferShapeAssumption, BuffersAssumption
<1>2. ASSUME NEW q \in Box(Origin, b) PROVE f[q] \in Values
  <2>1. q \in [Dims -> Nat] /\ \A j \in Dims : q[j] < b[j]
    BY <1>2, OriginBox
  <2>2. \A j \in Dims : q[j] < BufferShape[j]
    BY <1>1, <2>1
  <2>3. q \in Box(Origin, BufferShape)
    BY <1>1, <2>1, <2>2, OriginBox
  <2> QED BY <1>1, <2>3
<1> QED BY <1>2

\* A shape there may be goes into the largest buffer.
LEMMA ShapeInBuffer ==
    ASSUME NEW z \in Shapes
    PROVE  z \in [Dims -> Nat] /\ \A j \in Dims : z[j] <= BufferShape[j]
<1>1. z \in [Dims -> Nat]
  BY ShapesAssumption
<1>2. ASSUME NEW j \in Dims PROVE z[j] <= BufferShape[j]
  <2>1. z[j] + MaxPad <= BufferShape[j] /\ BufferShape[j] \in Nat /\ MaxPad \in Nat /\ z[j] \in Nat
    BY <1>1, BufferShapeAssumption, MaxPadAssumption
  <2> QED BY <2>1
<1> QED BY <1>1, <1>2

\* A new array.
LEMMA CreateFacts ==
    ASSUME NEW z \in Shapes, NEW chunk \in ChunkData, Create(z, chunk)
    PROVE  LeavesWhole /\ job' = NoJob /\ before' = << >>
<1> HIDE DEF ChunkData
<1>1. /\ shape' = z /\ sc' = [k \in 1..NumChunks(z) |-> chunk]
      /\ job' = NoJob /\ before' = << >>
  BY DEF Create
<1>2. NumChunks(z) \in Nat
  BY NumChunksType, ShapesAssumption
<1>3. sc' \in Seq(ChunkData) /\ Len(sc') = NumChunks(z)
  <2> DEFINE n == NumChunks(z)
  <2> HIDE DEF n
  <2>1. sc' = [k \in 1..n |-> chunk] /\ n \in Nat
    BY <1>1, <1>2 DEF n
  <2>2. sc' \in [1..n -> ChunkData]
    BY <2>1
  <2>3. sc' \in Seq(ChunkData) /\ Len(sc') = n
    BY <2>1, <2>2
  <2> QED BY <2>3 DEF n
<1> QED BY <1>1, <1>3 DEF LeavesWhole

\* No job is a job, and an array that was not is one of no items.
LEMMA NoJobFacts == NoJob \in Jobs /\ NoJob.op = "none" /\ DOMAIN << >> = {}
BY NDimAssumption DEF NoJob, Jobs, Dims

\* A resize, carried out, in part or not at all.
LEMMA ResizeFacts ==
    ASSUME ArraySound, NEW new \in Shapes, NEW start, DoResize(new, start),
           Accepted(new, start) => CanResize(new, start)
    PROVE  /\ LeavesWhole
           /\ before' = Items /\ \A c \in DOMAIN Items : Items[c] \in Values
           /\ shape' = ShapeAfter(new, start) /\ sc' = ChunksAfter(new, start)
<1> HIDE DEF ChunkData
<1>1. Stored /\ WellFormed /\ shape \in Shapes
  BY SoundFacts DEF ArraySound, Sound, TypeOK
<1>2. shape' = ShapeAfter(new, start) /\ sc' = ChunksAfter(new, start) /\ before' = Items
  BY DEF DoResize
<1>3. \A c \in DOMAIN Items : Items[c] \in Values
  BY <1>1, ItemsFacts
<1> QED BY <1>1, <1>2, <1>3, ResizeType DEF LeavesWhole

\* What is said of a resize by n items along one axis, at position pos.
AxisResize(axis, n, pos, start) ==
    /\ Longer(axis, n) \in [Dims -> Nat]
    /\ Longer(axis, n)[axis] = shape[axis] + n
    /\ \A j \in Dims \ {axis} : Longer(axis, n)[j] = shape[j]
    /\ start \in [Dims -> Nat]
    /\ start[axis] = pos
    /\ Accepted(Longer(axis, n), start) => CanResize(Longer(axis, n), start)

\* Such a range lies in the array.
LEMMA AxisFacts ==
    ASSUME shape \in [Dims -> Nat], NEW axis \in Dims, NEW n \in Int, NEW pos \in Nat,
           shape[axis] + n \in Nat, n < 0 => pos <= shape[axis] + n,
           NEW end, n < 0 => end = shape[axis] + n, n >= 0 => end = shape[axis],
           NEW start, start = IF pos = end THEN AtTheEnd(Longer(axis, n)) ELSE On(axis, pos)
    PROVE  AxisResize(axis, n, pos, start)
<1> DEFINE new == Longer(axis, n)
<1>1. /\ new \in [Dims -> Nat] /\ new[axis] = shape[axis] + n
      /\ \A j \in Dims \ {axis} : new[j] = shape[j]
  BY DEF Longer
<1>2. AtTheEnd(new) \in [Dims -> Nat] /\ On(axis, pos) \in [Dims -> Nat]
  BY <1>1 DEF AtTheEnd, Lesser, On
<1>3. start \in [Dims -> Nat]
  BY <1>2
<1>4. start[axis] = pos
  <2>1. CASE pos # end
    BY <2>1 DEF On
  <2>2. CASE pos = end
    <3>1. start[axis] = IF new[axis] <= shape[axis] THEN new[axis] ELSE shape[axis]
      BY <2>2 DEF AtTheEnd, Lesser
    <3>2. shape[axis] \in Nat
      OBVIOUS
    <3> HIDE DEF new
    <3> QED BY <1>1, <2>2, <3>1, <3>2
  <2> QED BY <2>1, <2>2
<1>5. \A j \in Dims : new[j] < shape[j] => start[j] <= new[j]
  <2>1. ASSUME NEW j \in Dims, new[j] < shape[j] PROVE start[j] <= new[j]
    <3>1. j = axis
      BY <1>1, <2>1
    <3> QED BY <1>1, <1>4, <2>1, <3>1
  <2> QED BY <2>1
<1> QED BY <1>1, <1>3, <1>4, <1>5 DEF AxisResize, CanResize

\* A call of insert: refused at once, or the array resized and the slice entered.
Inserting(axis, pos, len, start) ==
    LET new == Longer(axis, len)
    IN  /\ AxisResize(axis, len, pos, start)
        /\ pos <= shape[axis]
        /\ Resizable(new, start)
        /\ shape' = new /\ sc' = ChunksAfter(new, start)
        /\ Note("insert", axis, pos, len, "SUCCEED")
        /\ pc' = "setting" /\ cur' = 0
        /\ call' = [op |-> "set", start |-> On(axis, pos), stop |-> [new EXCEPT ![axis] = pos + len]]
        /\ DOMAIN buf' = Box(Origin, [new EXCEPT ![axis] = len])

\* What an insertion does with the arguments it is given.
InsertWith(axis, pos, len, f, even) ==
    LET new   == Longer(axis, len)
        start == IF pos = shape[axis] THEN AtTheEnd(new) ELSE On(axis, pos)
        first == On(axis, pos)
        code  == IF even THEN Answer(new, start) ELSE "INVALID_ARGUMENT"
    IN  /\ \A j \in Dims \ {axis} : shape[j] > 0
        /\ new \in Shapes
        /\ Note("insert", axis, pos, len, code)
        /\ IF code = "SUCCEED"
           THEN /\ DoResize(new, start)
                /\ buf' = [q \in Box(Origin, [new EXCEPT ![axis] = len]) |-> f[q]]
                /\ EnterSet(new, first, [new EXCEPT ![axis] = pos + len], TRUE)
           ELSE /\ Answered(code)
                /\ before' = Items
                /\ UNCHANGED <<shape, sc>>

\* One that succeeds has resized the array; it still has to write.
LEMMA InsertFacts ==
    ASSUME ArraySound, Insert
    PROVE  /\ Sound' /\ GetPass'
           /\ \A c \in DOMAIN Items : Items[c] \in Values
           /\ before' = Items
           /\ \E axis \in Dims, pos \in Nat, len \in Nat :
                \/ \E start : Inserting(axis, pos, len, start)
                \/ /\ Note("insert", axis, pos, len, "INVALID_ARGUMENT")
                   /\ pc' = "idle" /\ UNCHANGED <<shape, sc>>
<1> HIDE DEF ChunkData
<1>1. PICK axis \in Dims : \E pos \in 0..shape[axis] + 1, len \in 0..BufferShape[axis],
          f \in Buffers, even \in BOOLEAN : InsertWith(axis, pos, len, f, even)
  BY DEF Insert, InsertWith
<1>2. PICK pos \in 0..shape[axis] + 1, len \in 0..BufferShape[axis],
          f \in Buffers, even \in BOOLEAN : InsertWith(axis, pos, len, f, even)
  BY <1>1
<1> DEFINE new   == Longer(axis, len)
           start == IF pos = shape[axis] THEN AtTheEnd(new) ELSE On(axis, pos)
           first == On(axis, pos)
           stop  == [new EXCEPT ![axis] = pos + len]
           b     == [new EXCEPT ![axis] = len]
           code  == IF even THEN Answer(new, start) ELSE "INVALID_ARGUMENT"
<1>3. /\ Sound /\ Stored /\ WellFormed /\ Called
      /\ shape \in Shapes /\ shape \in [Dims -> Nat] /\ BufferShape \in [Dims -> Nat]
  BY SoundFacts, BufferShapeAssumption DEF ArraySound, Sound, TypeOK, WellFormed, Insert
<1>4. /\ pos \in Nat /\ len \in Nat /\ len <= BufferShape[axis] /\ shape[axis] + len \in Nat
  BY <1>3
<1>5. AxisResize(axis, len, pos, start)
  <2> DEFINE end == shape[axis]
  <2>1. start = IF pos = end THEN AtTheEnd(Longer(axis, len)) ELSE On(axis, pos)
    OBVIOUS
  <2>2. len \in Int /\ ~(len < 0) /\ end = shape[axis]
    BY <1>4
  <2> HIDE DEF start, end
  <2> QED BY <1>3, <1>4, <2>1, <2>2, AxisFacts
<1>6. \A c \in DOMAIN Items : Items[c] \in Values
  BY <1>3, ItemsFacts
<1>7. CASE code # "SUCCEED"
  <2>1. code = "INVALID_ARGUMENT"
    BY <1>7 DEF Answer
  <2>2. /\ Note("insert", axis, pos, len, "INVALID_ARGUMENT")
        /\ Answered("INVALID_ARGUMENT") /\ before' = Items /\ UNCHANGED <<shape, sc>>
    BY <1>2, <1>7, <2>1 DEF InsertWith
  <2>3. LeavesWhole
    BY <1>3, <2>2 DEF LeavesWhole, Stored
  <2>4. Sound' /\ GetPass' /\ pc' = "idle"
    BY <1>3, <2>2, <2>3, QuietCall
  <2> QED BY <1>4, <1>6, <2>2, <2>4
<1>8. CASE code = "SUCCEED"
  <2>1. /\ Note("insert", axis, pos, len, "SUCCEED")
        /\ DoResize(new, start)
        /\ buf' = [q \in Box(Origin, b) |-> f[q]]
        /\ EnterSet(new, first, stop, TRUE)
        /\ new \in Shapes
    BY <1>2, <1>8 DEF InsertWith
  <2>2. Accepted(new, start) /\ ~IsEmpty(shape) /\ ~IsEmpty(Lesser(new, shape))
    BY <1>8 DEF Answer
  <2> HIDE DEF start, code
  <2>3. Resizable(new, start) /\ CanResize(new, start)
    BY <1>5, <2>2 DEF Resizable, AxisResize
  <2>4. LeavesWhole /\ before' = Items /\ shape' = ShapeAfter(new, start)
        /\ sc' = ChunksAfter(new, start)
    BY <2>1, <2>3, ResizeFacts
  <2>5. shape' = new
    BY <2>2, <2>4 DEF ShapeAfter
  <2>6. /\ new \in [Dims -> Nat] /\ new[axis] = shape[axis] + len
        /\ \A j \in Dims \ {axis} : new[j] = shape[j]
        /\ start[axis] = pos
    BY <1>5 DEF AxisResize
  <2>7. pos <= shape[axis]
    BY <2>2, <2>6 DEF Accepted
  <2>8. ~IsEmpty(new)
    <3>1. \A j \in Dims : new[j] # 0
      BY <1>3, <1>4, <2>2, <2>6 DEF IsEmpty
    <3> QED BY <3>1 DEF IsEmpty
  <2>9. Enter("set", first, stop, "none")
    BY <2>1, <2>8 DEF EnterSet
  <2>10. /\ call' = [op |-> "set", start |-> first, stop |-> stop]
         /\ cur' = 0 /\ data' = Unread /\ pc' = "setting" /\ ret' = ret
    BY <2>9 DEF Enter
  <2>11. /\ first \in [Dims -> Nat] /\ stop \in [Dims -> Nat] /\ b \in [Dims -> Nat]
         /\ first[axis] = pos /\ stop[axis] = pos + len /\ b[axis] = len
         /\ \A j \in Dims \ {axis} : first[j] = 0 /\ stop[j] = new[j] /\ b[j] = new[j]
    BY <1>4, <2>6 DEF On
  <2> HIDE DEF new, first, stop, b
  <2>12. \A j \in Dims : b[j] <= BufferShape[j]
    BY <1>4, <2>1, <2>11, ShapeInBuffer
  <2>13. DOMAIN buf' = Box(Origin, b) /\ \A q \in DOMAIN buf' : buf'[q] \in Values
    BY <2>1, <2>11, <2>12, BufferEntry
  <2>14. \A j \in Dims : stop[j] <= shape'[j] /\ b[j] = stop[j] - first[j]
    BY <1>3, <1>4, <2>5, <2>6, <2>7, <2>11
  <2>15. \A q \in [Dims -> Nat] : (\A j \in Dims : q[j] < stop[j] - first[j]) => q \in DOMAIN buf'
    <3>1. ASSUME NEW q \in [Dims -> Nat], \A j \in Dims : q[j] < stop[j] - first[j]
          PROVE  q \in Box(Origin, b)
      <4>1. \A j \in Dims : q[j] < b[j]
        BY <2>14, <3>1
      <4>2. b \in [Dims -> Int]
        BY <2>11
      <4> QED BY <4>1, <4>2, OriginBox
    <3> QED BY <2>13, <3>1
  <2>16. SetWith(first, stop)
    BY <2>10, <2>11, <2>13, <2>14, <2>15 DEF SetWith
  <2>17. Sound' /\ GetPass'
    BY <1>3, <2>4, <2>10, <2>16, SetCall
  <2>18. Inserting(axis, pos, len, start)
    BY <1>5, <2>1, <2>3, <2>4, <2>5, <2>7, <2>10, <2>13 DEF Inserting, new, first, stop, b
  <2> QED BY <1>4, <1>6, <2>4, <2>17, <2>18
<1> QED BY <1>7, <1>8

\* Two answers there are.
LEMMA AnswerType ==
    ASSUME NEW new, NEW start
    PROVE  Answer(new, start) \in {"SUCCEED", "INVALID_ARGUMENT"}
BY DEF Answer

\* A resize and nothing more.
Resized(new, start) ==
    /\ shape' = ShapeAfter(new, start) /\ sc' = ChunksAfter(new, start)
    /\ pc' = "idle"

\* A call that only resizes.
LEMMA QuietResize ==
    ASSUME ArraySound, Called, NEW new \in Shapes, NEW start, DoResize(new, start),
           Accepted(new, start) => CanResize(new, start), Answered(Answer(new, start))
    PROVE  /\ Sound' /\ GetPass'
           /\ \A c \in DOMAIN Items : Items[c] \in Values
           /\ before' = Items
           /\ Resized(new, start)
<1>1. /\ LeavesWhole
      /\ before' = Items /\ \A c \in DOMAIN Items : Items[c] \in Values
      /\ shape' = ShapeAfter(new, start) /\ sc' = ChunksAfter(new, start)
  BY ResizeFacts
<1>2. Sound
  BY DEF ArraySound
<1>3. Sound' /\ GetPass' /\ pc' = "idle"
  BY <1>1, <1>2, AnswerType, QuietCall
<1> QED BY <1>1, <1>3 DEF Resized

\* A call of delete: the array resized by a range inside it, or not.
Deleting(axis, pos, len, start) ==
    LET new == Longer(axis, -len)
    IN  /\ AxisResize(axis, -len, pos, start)
        /\ pos + len <= shape[axis]
        /\ Note("delete", axis, pos, len, Answer(new, start))
        /\ Resized(new, start)

\* Nothing of it is left to do afterwards.
LEMMA DeleteFacts ==
    ASSUME ArraySound, Delete
    PROVE  /\ Sound' /\ GetPass'
           /\ \A c \in DOMAIN Items : Items[c] \in Values
           /\ before' = Items
           /\ \E axis \in Dims, pos \in Nat, len \in Nat : \E start : Deleting(axis, pos, len, start)
<1> HIDE DEF ChunkData
<1>1. PICK axis \in Dims : \E pos \in 0..shape[axis] : \E len \in 0..shape[axis] - pos :
        LET new   == Longer(axis, -len)
            start == IF pos = shape[axis] - len THEN AtTheEnd(new) ELSE On(axis, pos)
        IN  /\ new \in Shapes
            /\ DoResize(new, start)
            /\ Note("delete", axis, pos, len, Answer(new, start))
            /\ Answered(Answer(new, start))
  BY DEF Delete
<1>2. PICK pos \in 0..shape[axis] : \E len \in 0..shape[axis] - pos :
        LET new   == Longer(axis, -len)
            start == IF pos = shape[axis] - len THEN AtTheEnd(new) ELSE On(axis, pos)
        IN  /\ new \in Shapes
            /\ DoResize(new, start)
            /\ Note("delete", axis, pos, len, Answer(new, start))
            /\ Answered(Answer(new, start))
  BY <1>1
<1>3. PICK len \in 0..shape[axis] - pos :
        LET new   == Longer(axis, -len)
            start == IF pos = shape[axis] - len THEN AtTheEnd(new) ELSE On(axis, pos)
        IN  /\ new \in Shapes
            /\ DoResize(new, start)
            /\ Note("delete", axis, pos, len, Answer(new, start))
            /\ Answered(Answer(new, start))
  BY <1>2
<1> DEFINE new   == Longer(axis, -len)
           start == IF pos = shape[axis] - len THEN AtTheEnd(new) ELSE On(axis, pos)
<1>4. /\ new \in Shapes
      /\ DoResize(new, start)
      /\ Note("delete", axis, pos, len, Answer(new, start))
      /\ Answered(Answer(new, start))
  BY <1>3
<1>5. Called /\ shape \in [Dims -> Nat]
  BY ShapesAssumption DEF Delete, ArraySound, Sound, TypeOK
<1>6. shape[axis] \in Nat
  BY <1>5
<1>7. pos \in Nat /\ len \in Nat /\ pos + len <= shape[axis]
  BY <1>6
<1>8. AxisResize(axis, -len, pos, start)
  <2> DEFINE n   == -len
             end == shape[axis] - len
  <2>1. start = IF pos = end THEN AtTheEnd(Longer(axis, n)) ELSE On(axis, pos)
    OBVIOUS
  <2>2. n \in Int /\ shape[axis] + n \in Nat /\ end = shape[axis] + n /\ pos <= shape[axis] + n
    BY <1>6, <1>7
  <2>3. n >= 0 => end = shape[axis]
    BY <1>6, <1>7
  <2> HIDE DEF start, end, n
  <2>4. AxisResize(axis, n, pos, start)
    BY <1>5, <1>7, <2>1, <2>2, <2>3, AxisFacts
  <2> QED BY <2>4 DEF n
<1> HIDE DEF start
<1>9. Accepted(new, start) => CanResize(new, start)
  BY <1>8 DEF AxisResize
<1>10. /\ Sound' /\ GetPass'
       /\ \A c \in DOMAIN Items : Items[c] \in Values
       /\ before' = Items
       /\ Resized(new, start)
  BY <1>4, <1>5, <1>9, QuietResize
<1>11. Deleting(axis, pos, len, start)
  BY <1>4, <1>7, <1>8, <1>10 DEF Deleting
<1> QED BY <1>7, <1>10, <1>11

\* A call of resize, at the end of the array.
Resizing(new) ==
    /\ AtTheEnd(new) \in [Dims -> Nat]
    /\ \A j \in Dims : AtTheEnd(new)[j] = IF new[j] <= shape[j] THEN new[j] ELSE shape[j]
    /\ Accepted(new, AtTheEnd(new)) => CanResize(new, AtTheEnd(new))
    /\ Note("resize", 1, 0, 0, Answer(new, AtTheEnd(new)))
    /\ Resized(new, AtTheEnd(new))

\* Nothing of it is left to do afterwards.
LEMMA ResizeCallFacts ==
    ASSUME ArraySound, Resize
    PROVE  /\ Sound' /\ GetPass'
           /\ \A c \in DOMAIN Items : Items[c] \in Values
           /\ before' = Items
           /\ \E new \in Shapes : Resizing(new)
<1>1. PICK new \in Shapes :
        /\ DoResize(new, AtTheEnd(new))
        /\ Note("resize", 1, 0, 0, Answer(new, AtTheEnd(new)))
        /\ Answered(Answer(new, AtTheEnd(new)))
  BY DEF Resize
<1> DEFINE start == AtTheEnd(new)
<1>2. Called /\ shape \in [Dims -> Nat] /\ new \in [Dims -> Nat]
  BY ShapesAssumption DEF Resize, ArraySound, Sound, TypeOK
<1>3. /\ start \in [Dims -> Nat]
      /\ \A j \in Dims : start[j] = IF new[j] <= shape[j] THEN new[j] ELSE shape[j]
  BY <1>2 DEF AtTheEnd, Lesser
<1>4. \A j \in Dims : new[j] < shape[j] => start[j] <= new[j]
  BY <1>2, <1>3
<1>5. Accepted(new, start) => CanResize(new, start)
  BY <1>2, <1>3, <1>4 DEF CanResize
<1>6. /\ Sound' /\ GetPass'
      /\ \A c \in DOMAIN Items : Items[c] \in Values
      /\ before' = Items
      /\ Resized(new, start)
  BY <1>1, <1>2, <1>5, QuietResize
<1>7. Resizing(new)
  BY <1>1, <1>3, <1>5, <1>6 DEF Resizing
<1> QED BY <1>6, <1>7

\* A call that reads a slice.
LEMMA GetCall ==
    ASSUME Sound, Entered, NEW start, NEW stop, GetWith(start, stop)
    PROVE  Sound' /\ GetPass'
<1> HIDE DEF ChunkData
<1>1. /\ left' \in 0..MaxCalls /\ shape' = shape /\ sc' = sc /\ cur' = 0 /\ data' = Unread
  BY MaxCallsAssumption DEF Sound, TypeOK, Entered
<1>2. Unread \in [ChunkBox -> Values \cup {Garbage}]
  BY DEF Unread
<1>3. /\ start \in [Dims -> Nat] /\ stop \in [Dims -> Nat]
      /\ call' = [op |-> "get", start |-> start, stop |-> stop]
      /\ \A q \in DOMAIN buf' : buf'[q] = Garbage
      /\ pc' \in {"getting", "idle"} /\ (pc' = "getting" => ret' = ret)
      /\ pc' = "idle" => ret' \in {"SUCCEED", "INVALID_ARGUMENT"}
  BY DEF GetWith
<1>4. TypeOK'
  BY <1>1, <1>2, <1>3 DEF Sound, TypeOK
<1>5. Prepared'
  BY <1>1, <1>3 DEF Sound, Prepared
<1> QED BY <1>4, <1>5, GetEntry DEF Sound

\* caterva_from_buffer: a new array, and the call that writes all of it.
LEMMA FromBufferFacts ==
    ASSUME Sound, FromBuffer
    PROVE  Sound' /\ GetPass' /\ job' = NoJob /\ before' = << >>
<1> HIDE DEF ChunkData
<1>1. PICK z \in Shapes, f \in Buffers, enough \in BOOLEAN :
        /\ Create(z, ZeroChunk)
        /\ buf' = [q \in Box(Origin, z) |-> f[q]]
        /\ EnterSet(z, Origin, z, enough)
  BY DEF FromBuffer
<1>2. LeavesWhole /\ job' = NoJob /\ before' = << >> /\ shape' = z
  BY <1>1, CreateFacts, ZeroChunkFacts DEF Create
<1>3. z \in [Dims -> Nat] /\ \A j \in Dims : z[j] <= BufferShape[j]
  BY ShapeInBuffer
<1>4. Origin \in [Dims -> Nat] /\ \A j \in Dims : Origin[j] = 0
  BY DEF Origin
<1>5. DOMAIN buf' = Box(Origin, z) /\ \A q \in DOMAIN buf' : buf'[q] \in Values
  BY <1>1, <1>3, BufferEntry
<1> DEFINE answer == IF ~enough THEN "INVALID_ARGUMENT"
                     ELSE IF IsEmpty(z) THEN "SUCCEED" ELSE "none"
<1>6. Enter("set", Origin, z, answer)
  BY <1>1 DEF EnterSet
<1>7. answer \in {"none", "SUCCEED", "INVALID_ARGUMENT"}
  OBVIOUS
<1> HIDE DEF answer
<1>8. /\ call' = [op |-> "set", start |-> Origin, stop |-> z]
      /\ cur' = 0 /\ data' = Unread
      /\ \/ pc' = "setting" /\ ret' = ret
         \/ pc' = "idle" /\ ret' \in {"SUCCEED", "INVALID_ARGUMENT"}
  BY <1>6, <1>7, EnterFacts
<1>9. \A q \in [Dims -> Nat] : (\A j \in Dims : q[j] < z[j] - Origin[j]) => q \in DOMAIN buf'
  <2>1. ASSUME NEW q \in [Dims -> Nat], \A j \in Dims : q[j] < z[j] - Origin[j]
        PROVE  q \in Box(Origin, z)
    <3>1. z \in [Dims -> Int] /\ \A j \in Dims : q[j] < z[j]
      BY <1>3, <1>4, <2>1
    <3> QED BY <3>1, OriginBox
  <2> QED BY <1>5, <2>1
<1>10. SetWith(Origin, z)
  BY <1>2, <1>3, <1>4, <1>5, <1>8, <1>9 DEF SetWith
<1>11. Called
  BY DEF FromBuffer
<1> QED BY <1>2, <1>8, <1>10, <1>11, SetCall

\* caterva_to_buffer: the call that reads all of the array.
LEMMA ToBufferFacts ==
    ASSUME Sound, ToBuffer
    PROVE  /\ Sound' /\ GetPass' /\ job' = NoJob /\ before' = << >>
<1> HIDE DEF ChunkData
<1>1. PICK enough \in BOOLEAN :
        /\ buf' = [q \in Box(Origin, shape) |-> Garbage]
        /\ EnterGet(Origin, shape, shape, enough)
  BY DEF ToBuffer
<1>2. /\ pc = "idle" /\ left > 0 /\ left' = left - 1 /\ UNCHANGED <<shape, sc>>
      /\ job' = NoJob /\ before' = << >>
  BY DEF ToBuffer, Called
<1>3. shape \in [Dims -> Nat]
  BY ShapesAssumption DEF Sound, TypeOK
<1>4. Origin \in [Dims -> Nat]
  BY DEF Origin
<1>5. DOMAIN buf' \subseteq [Dims -> Nat] /\ \A q \in DOMAIN buf' : buf'[q] = Garbage
  <2>1. shape \in [Dims -> Int]
    BY <1>3
  <2>2. \A q \in Box(Origin, shape) : q \in [Dims -> Nat]
    BY <2>1, OriginBox
  <2> QED BY <1>1, <2>2
<1> DEFINE answer == IF \E j \in Dims : shape[j] - Origin[j] > shape[j] THEN "INVALID_ARGUMENT"
                     ELSE IF IsEmpty(shape) THEN "SUCCEED"
                     ELSE IF enough THEN "none" ELSE "INVALID_ARGUMENT"
<1>6. Enter("get", Origin, shape, answer)
  BY <1>1 DEF EnterGet
<1>7. /\ answer \in {"none", "SUCCEED", "INVALID_ARGUMENT"}
      /\ answer = "SUCCEED" => IsEmpty(shape)
  OBVIOUS
<1> HIDE DEF answer
<1>8. /\ call' = [op |-> "get", start |-> Origin, stop |-> shape]
      /\ cur' = 0 /\ data' = Unread
      /\ \/ pc' = "getting" /\ ret' = ret
         \/ pc' = "idle" /\ ret' = "INVALID_ARGUMENT"
         \/ pc' = "idle" /\ ret' = "SUCCEED" /\ IsEmpty(shape)
  BY <1>6, <1>7, EnterFacts
<1>9. Entered /\ GetWith(Origin, shape)
  BY <1>2, <1>3, <1>4, <1>5, <1>8 DEF Entered, GetWith
<1> QED BY <1>2, <1>9, GetCall

\* What every step of the array does.
LEMMA ArrayStep ==
    ASSUME ArraySound, GetPass, [ArrayNext]_allVars
    PROVE  ArraySound' /\ GetPass'
<1>0. /\ Sound /\ job \in Jobs /\ \A c \in DOMAIN before : before[c] \in Values
  BY DEF ArraySound
<1>1. CASE Zeros
  <2>1. PICK z \in Shapes : Create(z, ZeroChunk)
    BY <1>1 DEF Zeros
  <2>2. Called /\ Answered("SUCCEED")
    BY <1>1 DEF Zeros
  <2>3. LeavesWhole /\ job' = NoJob /\ before' = << >>
    BY <2>1, CreateFacts, ZeroChunkFacts
  <2>4. Sound' /\ GetPass'
    BY <1>0, <2>2, <2>3, QuietCall
  <2> QED BY <2>3, <2>4, NoJobFacts DEF ArraySound
<1>2. CASE Full
  <2>1. PICK z \in Shapes, f \in Buffers : Create(z, [p \in ChunkBox |-> f[Origin]])
    BY <1>2 DEF Full
  <2>2. Called /\ Answered("SUCCEED")
    BY <1>2 DEF Full
  <2>3. f[Origin] \in Values
    <3>1. BufferShape \in [Dims -> Int] /\ \A j \in Dims : 0 < BufferShape[j]
      BY BufferShapeAssumption, FillAssumption
    <3>2. Origin \in [Dims -> Nat] /\ \A j \in Dims : Origin[j] < BufferShape[j]
      BY <3>1 DEF Origin
    <3> QED BY <3>1, <3>2, OriginBox, BuffersAssumption
  <2>4. [p \in ChunkBox |-> f[Origin]] \in ChunkData
    BY <2>3 DEF ChunkData
  <2>5. LeavesWhole /\ job' = NoJob /\ before' = << >>
    BY <2>1, <2>4, CreateFacts
  <2>6. Sound' /\ GetPass'
    BY <1>0, <2>2, <2>5, QuietCall
  <2> QED BY <2>5, <2>6, NoJobFacts DEF ArraySound
<1>3. CASE FromBuffer
  BY <1>0, <1>3, FromBufferFacts, NoJobFacts DEF ArraySound
<1>4. CASE ToBuffer
  BY <1>0, <1>4, ToBufferFacts, NoJobFacts DEF ArraySound
<1>5. CASE Insert
  <2>1. /\ Sound' /\ GetPass' /\ before' = Items /\ \A c \in DOMAIN Items : Items[c] \in Values
        /\ \E axis \in Dims, pos \in Nat, len \in Nat :
             \/ \E start : Inserting(axis, pos, len, start)
             \/ /\ Note("insert", axis, pos, len, "INVALID_ARGUMENT")
                /\ pc' = "idle" /\ UNCHANGED <<shape, sc>>
    BY <1>5, InsertFacts
  <2>2. PICK axis \in Dims, pos \in Nat, len \in Nat, code \in {"SUCCEED", "INVALID_ARGUMENT"} :
               Note("insert", axis, pos, len, code)
    BY <2>1 DEF Inserting
  <2>3. job' \in Jobs
    BY <2>2 DEF Note, Jobs
  <2> QED BY <2>1, <2>3 DEF ArraySound
<1>6. CASE Delete
  <2>1. /\ Sound' /\ GetPass' /\ before' = Items /\ \A c \in DOMAIN Items : Items[c] \in Values
        /\ \E axis \in Dims, pos \in Nat, len \in Nat : \E start : Deleting(axis, pos, len, start)
    BY <1>6, DeleteFacts
  <2>2. PICK axis \in Dims, pos \in Nat, len \in Nat : \E start : Deleting(axis, pos, len, start)
    BY <2>1
  <2>3. job' \in Jobs
    BY <2>2, AnswerType DEF Deleting, Note, Jobs
  <2> QED BY <2>1, <2>3 DEF ArraySound
<1>7. CASE Resize
  <2>1. /\ Sound' /\ GetPass' /\ before' = Items /\ \A c \in DOMAIN Items : Items[c] \in Values
        /\ \E new \in Shapes : Resizing(new)
    BY <1>7, ResizeCallFacts
  <2>2. PICK new \in Shapes : Resizing(new)
    BY <2>1
  <2>3. 1 \in Dims
    BY NDimAssumption DEF Dims
  <2>4. job' \in Jobs
    BY <2>2, <2>3, AnswerType DEF Resizing, Note, Jobs
  <2> QED BY <2>1, <2>4 DEF ArraySound
<1>8. CASE Slicing
  <2>1. [Next]_vars /\ \/ job' = NoJob /\ before' = << >>
                       \/ UNCHANGED <<job, before>>
    BY <1>8 DEF Slicing, Next
  <2>2. Sound' /\ GetPass'
    BY <1>0, <2>1, SoundStep, GetPassStep
  <2> QED BY <1>0, <2>1, <2>2, NoJobFacts DEF ArraySound
<1>9. CASE UNCHANGED allVars
  <2>1. UNCHANGED vars /\ UNCHANGED <<job, before>>
    BY <1>9 DEF allVars
  <2>2. Sound' /\ GetPass'
    BY <1>0, <2>1, SoundStep, GetPassStep
  <2> QED BY <1>0, <2>1, <2>2 DEF ArraySound
<1>10. CASE NoSuchAxis
  <2>1. /\ Called /\ Answered("INVALID_ARGUMENT")
        /\ job' = NoJob /\ before' = << >> /\ UNCHANGED <<shape, sc>>
    BY <1>10 DEF NoSuchAxis
  <2>2. LeavesWhole
    BY <1>0, <2>1 DEF Sound, Prepared, LeavesWhole, TypeOK
  <2>3. Sound' /\ GetPass'
    BY <1>0, <2>1, <2>2, QuietCall
  <2> QED BY <2>1, <2>3, NoJobFacts DEF ArraySound
<1> QED BY <1>1, <1>2, <1>3, <1>4, <1>5, <1>6, <1>7, <1>8, <1>9, <1>10 DEF ArrayNext

\* The first state.
LEMMA ArrayStart == ArrayInit => ArraySound /\ GetPass
<1> SUFFICES ASSUME ArrayInit PROVE ArraySound /\ GetPass
  OBVIOUS
<1>1. Init /\ job = NoJob /\ before = << >>
  BY DEF ArrayInit
<1>2. Sound
  BY <1>1, SoundInit
<1>3. GetPass
  BY <1>1 DEF Init, NoCall, GetPass, GetReturnsItems
<1> QED BY <1>1, <1>2, <1>3, NoJobFacts DEF ArraySound

\* Every state.
LEMMA AlwaysArraySound == ArraySpec => [](ArraySound /\ GetPass)
<1>1. ArraySound /\ GetPass /\ [ArrayNext]_allVars => (ArraySound /\ GetPass)'
  BY ArrayStep
<1> QED BY <1>1, ArrayStart, PTL DEF ArraySpec

\* The types of the array and of the slice that is read or written: whatever the shape
\* is changed to, there are as many chunks as it needs, each of them written.
THEOREM ArrayTypeCorrect == ArraySpec => []ArrayTypeOK
<1>1. ArraySound => ArrayTypeOK
  BY DEF ArraySound, Sound, Prepared, ArrayTypeOK
<1> QED BY <1>1, AlwaysArraySound, PTL

\* Slices read back the items they cover, also when the array has been resized, created
\* or filled in between.
THEOREM ArrayReadCorrect == ArraySpec => []GetReturnsItems
<1>1. GetPass => GetReturnsItems
  BY DEF GetPass
<1> QED BY <1>1, AlwaysArraySound, PTL

-----------------------------------------------------------------------------
(* Insertion. *)

\* Coordinates c, or those len further, where a range of len has been put in at pos.
Gap(c, axis, pos, len) == IF c[axis] < pos THEN c ELSE [c EXCEPT ![axis] = @ + len]

\* Where what is put in at q of the range ends up.
Put(q, axis, pos) == [q EXCEPT ![axis] = @ + pos]

\* The boxes of the items there were, and of the ones put in.
OldBox(z, axis, len) == Box(Origin, [z EXCEPT ![axis] = @ - len])
NewBox(z, axis, len) == Box(Origin, [z EXCEPT ![axis] = len])

\* What is in a box that begins at the origin.
InOrigin(c, z) == c \in [Dims -> Nat] /\ \A j \in Dims : c[j] < z[j]

\* Both boxes, by their coordinates.
LEMMA RangeBoxes ==
    ASSUME NEW z \in [Dims -> Nat], NEW axis \in Dims, NEW len \in Nat, NEW c
    PROVE  /\ c \in Box(Origin, z) <=> InOrigin(c, z)
           /\ c \in OldBox(z, axis, len) <=>
                /\ c \in [Dims -> Nat] /\ c[axis] < z[axis] - len
                /\ \A j \in Dims \ {axis} : c[j] < z[j]
           /\ c \in NewBox(z, axis, len) <=>
                /\ c \in [Dims -> Nat] /\ c[axis] < len
                /\ \A j \in Dims \ {axis} : c[j] < z[j]
<1> DEFINE y == [z EXCEPT ![axis] = @ - len]
           x == [z EXCEPT ![axis] = len]
<1>1. /\ y \in [Dims -> Int] /\ y[axis] = z[axis] - len
      /\ \A j \in Dims \ {axis} : y[j] = z[j]
  OBVIOUS
<1>2. /\ x \in [Dims -> Int] /\ x[axis] = len
      /\ \A j \in Dims \ {axis} : x[j] = z[j]
  OBVIOUS
<1>3. z \in [Dims -> Int]
  OBVIOUS
<1> HIDE DEF y, x
<1>4. c \in Box(Origin, z) <=> InOrigin(c, z)
  BY <1>3, OriginBox DEF InOrigin
<1>5. c \in Box(Origin, y) <=> c \in [Dims -> Nat] /\ c[axis] < z[axis] - len
                               /\ \A j \in Dims \ {axis} : c[j] < z[j]
  BY <1>1, OriginBox
<1>6. c \in Box(Origin, x) <=> c \in [Dims -> Nat] /\ c[axis] < len
                               /\ \A j \in Dims \ {axis} : c[j] < z[j]
  BY <1>2, OriginBox
<1> QED BY <1>4, <1>5, <1>6 DEF OldBox, NewBox, y, x

\* Items behind the place of an insertion, and those put in there.
LEMMA GapFacts ==
    ASSUME NEW z \in [Dims -> Nat], NEW axis \in Dims, NEW pos \in Nat, NEW len \in Nat,
           pos + len <= z[axis]
    PROVE  /\ \A c \in OldBox(z, axis, len) :
                LET d == Gap(c, axis, pos, len)
                IN  /\ c \in [Dims -> Nat] /\ InOrigin(d, z)
                    /\ d[axis] = IF c[axis] < pos THEN c[axis] ELSE c[axis] + len
                    /\ \A j \in Dims \ {axis} : d[j] = c[j]
           /\ \A q \in NewBox(z, axis, len) :
                LET e == Put(q, axis, pos)
                IN  /\ q \in [Dims -> Nat] /\ InOrigin(e, z)
                    /\ e[axis] = q[axis] + pos /\ q[axis] < len
                    /\ \A j \in Dims \ {axis} : e[j] = q[j]
<1>1. ASSUME NEW c \in OldBox(z, axis, len)
      PROVE  LET d == Gap(c, axis, pos, len)
             IN  /\ c \in [Dims -> Nat] /\ InOrigin(d, z)
                 /\ d[axis] = IF c[axis] < pos THEN c[axis] ELSE c[axis] + len
                 /\ \A j \in Dims \ {axis} : d[j] = c[j]
  <2> DEFINE d == Gap(c, axis, pos, len)
  <2>1. /\ c \in [Dims -> Nat] /\ c[axis] < z[axis] - len
        /\ \A j \in Dims \ {axis} : c[j] < z[j]
    BY RangeBoxes
  <2>2. /\ d \in [Dims -> Nat]
        /\ d[axis] = IF c[axis] < pos THEN c[axis] ELSE c[axis] + len
        /\ \A j \in Dims \ {axis} : d[j] = c[j]
    BY <2>1 DEF Gap
  <2> HIDE DEF d
  <2>3. z[axis] \in Nat /\ c[axis] \in Nat
    BY <2>1
  <2>4. d[axis] < z[axis]
    BY <2>1, <2>2, <2>3
  <2>5. \A j \in Dims : d[j] < z[j]
    BY <2>1, <2>2, <2>4
  <2> QED BY <2>1, <2>2, <2>5 DEF InOrigin, d
<1>2. ASSUME NEW q \in NewBox(z, axis, len)
      PROVE  LET e == Put(q, axis, pos)
             IN  /\ q \in [Dims -> Nat] /\ InOrigin(e, z)
                 /\ e[axis] = q[axis] + pos /\ q[axis] < len
                 /\ \A j \in Dims \ {axis} : e[j] = q[j]
  <2> DEFINE e == Put(q, axis, pos)
  <2>1. /\ q \in [Dims -> Nat] /\ q[axis] < len
        /\ \A j \in Dims \ {axis} : q[j] < z[j]
    BY RangeBoxes
  <2>2. /\ e \in [Dims -> Nat] /\ e[axis] = q[axis] + pos
        /\ \A j \in Dims \ {axis} : e[j] = q[j]
    BY <2>1 DEF Put
  <2> HIDE DEF e
  <2>3. z[axis] \in Nat /\ q[axis] \in Nat
    BY <2>1
  <2>4. \A j \in Dims : e[j] < z[j]
    BY <2>1, <2>2, <2>3
  <2> QED BY <2>1, <2>2, <2>4 DEF InOrigin, e
<1> QED BY <1>1, <1>2

\* In every dimension they moved as chunks do.
LEMMA InsertMoves ==
    ASSUME shape \in [Dims -> Nat], NEW axis \in Dims, NEW pos \in Nat, NEW len \in Nat,
           NEW start, AxisResize(axis, len, pos, start), Accepted(Longer(axis, len), start),
           pos <= shape[axis], NEW c, InOrigin(c, shape)
    PROVE  LET d == Gap(c, axis, pos, len)
           IN  /\ c \in OldBox(Longer(axis, len), axis, len)
               /\ d \in [Dims -> Nat] /\ c \in [Dims -> Nat]
               /\ \A j \in Dims : /\ d[j] < Longer(axis, len)[j] /\ c[j] < shape[j]
                                  /\ MovedDim(ChunkShape[j], shape[j], Longer(axis, len)[j],
                                              start[j], d[j], c[j])
<1> DEFINE new == Longer(axis, len)
           d   == Gap(c, axis, pos, len)
<1>1. /\ new \in [Dims -> Nat] /\ new[axis] = shape[axis] + len
      /\ \A j \in Dims \ {axis} : new[j] = shape[j]
      /\ start \in [Dims -> Nat] /\ start[axis] = pos
  BY DEF AxisResize
<1>2. Aligned(shape, new, start)
  BY DEF Accepted
<1>3. c \in [Dims -> Nat] /\ \A j \in Dims : c[j] < shape[j]
  BY DEF InOrigin
<1> HIDE DEF new
<1>4. /\ shape[axis] \in Nat /\ c[axis] \in Nat /\ c[axis] < shape[axis]
      /\ ChunkShape[axis] \in Nat \ {0}
  BY <1>3, ChunkShapeAssumption
<1>5. c \in OldBox(new, axis, len)
  <2>1. /\ c \in [Dims -> Nat] /\ c[axis] < new[axis] - len
        /\ \A j \in Dims \ {axis} : c[j] < new[j]
    BY <1>1, <1>3, <1>4
  <2> QED BY <1>1, <2>1, RangeBoxes
<1>6. /\ InOrigin(d, new)
      /\ d[axis] = IF c[axis] < pos THEN c[axis] ELSE c[axis] + len
      /\ \A j \in Dims \ {axis} : d[j] = c[j]
  <2>1. pos + len <= new[axis]
    BY <1>1, <1>4
  <2> QED BY <1>1, <1>5, <2>1, GapFacts
<1>7. ASSUME NEW j \in Dims \ {axis}
      PROVE  MovedDim(ChunkShape[j], shape[j], new[j], start[j], d[j], c[j])
  <2>1. /\ ChunkShape[j] \in Nat \ {0} /\ shape[j] \in Nat /\ start[j] \in Nat /\ c[j] \in Nat
        /\ new[j] = shape[j] /\ d[j] = c[j]
    BY <1>1, <1>3, <1>6, ChunkShapeAssumption
  <2> QED BY <2>1, SameDim
<1>8. MovedDim(ChunkShape[axis], shape[axis], new[axis], start[axis], d[axis], c[axis])
  <2>1. CASE c[axis] < pos
    <3>1. d[axis] = c[axis] /\ new[axis] \in Nat
      BY <1>1, <1>6, <2>1
    <3> QED BY <1>1, <1>4, <2>1, <3>1, BeforeDim
  <2>2. CASE ~(c[axis] < pos) /\ len = 0
    <3>1. d[axis] = c[axis] /\ new[axis] = shape[axis]
      BY <1>1, <1>4, <1>6, <2>2
    <3> QED BY <1>1, <1>4, <3>1, SameDim
  <2>3. CASE ~(c[axis] < pos) /\ len # 0
    <3>1. d[axis] = c[axis] + len /\ c[axis] >= pos
      BY <1>4, <1>6, <2>3
    <3>2. InChunks(ChunkShape[axis], pos) /\ InChunks(ChunkShape[axis], len)
      <4> DEFINE s == ChunkShape[axis]
                 f == shape[axis]
      <4>1. \/ f + len = f
            \/ f + len > f /\ pos = f
            \/ f + len < f /\ pos + f - (f + len) = f
            \/ (pos % s) = 0 /\ ((f + len - f) % s) = 0
        BY <1>1, <1>2 DEF Aligned
      <4>2. ~(f + len = f) /\ ~(f + len < f) /\ pos # f /\ f + len - f = len
        BY <1>4, <2>3, <3>1
      <4>3. (pos % s) = 0 /\ ((f + len - f) % s) = 0
        BY <4>1, <4>2
      <4> QED BY <4>2, <4>3 DEF InChunks
    <3> QED BY <1>1, <1>4, <3>1, <3>2, BehindInsertion
  <2> QED BY <2>1, <2>2, <2>3
<1>9. \A j \in Dims : MovedDim(ChunkShape[j], shape[j], new[j], start[j], d[j], c[j])
  BY <1>7, <1>8
<1> QED BY <1>3, <1>5, <1>6, <1>9 DEF InOrigin, new

\* So every item there was before an insertion is there after the resize it begins with.
LEMMA InsertKeeps ==
    ASSUME ArraySound, NEW axis \in Dims, NEW pos \in Nat, NEW len \in Nat, NEW start,
           Inserting(axis, pos, len, start), NEW c \in DOMAIN Items
    PROVE  /\ Gap(c, axis, pos, len) \in DOMAIN Items'
           /\ Items'[Gap(c, axis, pos, len)] = Items[c]
<1> DEFINE new == Longer(axis, len)
           d   == Gap(c, axis, pos, len)
           chunks == ChunksAfter(new, start)
<1>1. Stored /\ WellFormed /\ shape \in [Dims -> Nat]
  BY SoundFacts DEF ArraySound, WellFormed
<1>2. /\ AxisResize(axis, len, pos, start) /\ pos <= shape[axis]
      /\ Resizable(new, start)
      /\ shape' = new /\ sc' = chunks
  BY DEF Inserting
<1>3. Accepted(new, start) /\ new \in [Dims -> Nat]
  BY <1>2 DEF Resizable, CanResize
<1>4. c \in Box(Origin, shape) /\ Items[c] = Item(c)
  BY <1>1, ItemsFacts
<1>5. InOrigin(c, shape)
  BY <1>1, <1>4, RangeBoxes
<1> HIDE DEF new, d, chunks
<1>6. /\ d \in [Dims -> Nat] /\ c \in [Dims -> Nat]
      /\ \A j \in Dims : /\ d[j] < new[j] /\ c[j] < shape[j]
                         /\ MovedDim(ChunkShape[j], shape[j], new[j], start[j], d[j], c[j])
  BY <1>1, <1>2, <1>3, <1>5, InsertMoves DEF new, d
<1>7. ItemIn(new, chunks, d) = Item(c)
  BY <1>1, <1>2, <1>6, MovedItem DEF chunks
<1>8. d \in Box(Origin, new)
  BY <1>3, <1>6, RangeBoxes DEF InOrigin
<1>9. Items' = [x \in Box(Origin, new) |-> ItemIn(new, chunks, x)]
  BY <1>2 DEF Items, ItemsIn
<1> QED BY <1>4, <1>7, <1>8, <1>9 DEF d

\* What is so of an insertion while its items are written: those that were there are
\* where they should be, and those written so far are those of the buffer.
Written(q) ==
    /\ pc = "setting" /\ Turn(Put(q, job.axis, job.pos)) < cur
         => Items[Put(q, job.axis, job.pos)] = buf[q]
    /\ pc = "idle" /\ ret = "SUCCEED" => Items[Put(q, job.axis, job.pos)] = buf[q]

Spliced ==
    /\ job.pos + job.len <= shape[job.axis]
    /\ DOMAIN before = OldBox(shape, job.axis, job.len)
    /\ DOMAIN buf = NewBox(shape, job.axis, job.len)
    /\ pc \in {"idle", "setting"}
    /\ call = [op |-> "set", start |-> On(job.axis, job.pos),
               stop |-> [shape EXCEPT ![job.axis] = job.pos + job.len]]
    /\ \A c \in DOMAIN before : Items[Gap(c, job.axis, job.pos, job.len)] = before[c]
    /\ \A q \in DOMAIN buf : Written(q)

\* The inductive form of InsertSplices.
InsertPass ==
    job.op = "insert" => IF Refused THEN pc = "idle" /\ Items = before ELSE Spliced

\* Resizes and deletions are over at once.
OverAtOnce == job.op \in {"delete", "resize"} => pc = "idle"

\* What the loop writes is what lies in the range.
LEMMA SlicePlaces ==
    ASSUME ArraySound, Spliced
    PROVE  /\ job.axis \in Dims /\ job.pos \in Nat /\ job.len \in Nat
           /\ shape \in [Dims -> Nat] /\ job.pos + job.len <= shape[job.axis]
           /\ \A c \in DOMAIN before :
                LET d == Gap(c, job.axis, job.pos, job.len)
                IN  d \in [Dims -> Nat] /\ d \in DOMAIN Items /\ ~InSlice(d)
           /\ \A q \in DOMAIN buf :
                LET e == Put(q, job.axis, job.pos)
                IN  /\ e \in [Dims -> Nat] /\ e \in DOMAIN Items /\ InSlice(e)
                    /\ Minus(e, call.start) = q
<1> DEFINE axis == job.axis
           pos  == job.pos
           len  == job.len
<1>1. axis \in Dims /\ pos \in Nat /\ len \in Nat
  BY DEF ArraySound, Jobs
<1>2. Stored /\ WellFormed /\ shape \in [Dims -> Nat]
  BY SoundFacts DEF ArraySound, WellFormed
<1>3. /\ pos + len <= shape[axis]
      /\ DOMAIN before = OldBox(shape, axis, len)
      /\ DOMAIN buf = NewBox(shape, axis, len)
      /\ call.start = On(axis, pos)
      /\ call.stop = [shape EXCEPT ![axis] = pos + len]
  BY DEF Spliced
<1> HIDE DEF axis, pos, len
<1>4. /\ \A j \in Dims : call.start[j] = IF j = axis THEN pos ELSE 0
      /\ \A j \in Dims : call.stop[j] = IF j = axis THEN pos + len ELSE shape[j]
  BY <1>2, <1>3 DEF On
<1>5. ASSUME NEW c \in DOMAIN before
      PROVE  LET d == Gap(c, axis, pos, len)
             IN  d \in [Dims -> Nat] /\ d \in DOMAIN Items /\ ~InSlice(d)
  <2> DEFINE d == Gap(c, axis, pos, len)
  <2>1. /\ c \in [Dims -> Nat] /\ InOrigin(d, shape)
        /\ d[axis] = IF c[axis] < pos THEN c[axis] ELSE c[axis] + len
    BY <1>1, <1>2, <1>3, GapFacts
  <2> HIDE DEF d
  <2>2. d \in [Dims -> Nat] /\ d \in Box(Origin, shape)
    BY <1>1, <1>2, <2>1, RangeBoxes DEF InOrigin
  <2>3. ~(pos <= d[axis] /\ d[axis] < pos + len)
    BY <1>1, <2>1
  <2>4. ~InSlice(d)
    BY <1>1, <1>4, <2>3 DEF InSlice
  <2> QED BY <1>2, <2>2, <2>4, ItemsFacts DEF d
<1>6. ASSUME NEW q \in DOMAIN buf
      PROVE  LET e == Put(q, axis, pos)
             IN  /\ e \in [Dims -> Nat] /\ e \in DOMAIN Items /\ InSlice(e)
                 /\ Minus(e, call.start) = q
  <2> DEFINE e == Put(q, axis, pos)
  <2>1. /\ q \in [Dims -> Nat] /\ InOrigin(e, shape)
        /\ e[axis] = q[axis] + pos /\ q[axis] < len
        /\ \A j \in Dims \ {axis} : e[j] = q[j]
    BY <1>1, <1>2, <1>3, GapFacts
  <2> HIDE DEF e
  <2>2. e \in [Dims -> Nat] /\ e \in Box(Origin, shape) /\ \A j \in Dims : e[j] < shape[j]
    BY <1>1, <1>2, <2>1, RangeBoxes DEF InOrigin
  <2>3. \A j \in Dims : call.start[j] <= e[j] /\ e[j] < call.stop[j]
    BY <1>1, <1>4, <2>1, <2>2
  <2>4. \A j \in Dims : e[j] - call.start[j] = q[j]
    BY <1>1, <1>4, <2>1
  <2>5. Minus(e, call.start) = q
    BY <2>1, <2>4 DEF Minus
  <2> QED BY <1>2, <2>2, <2>3, <2>5, ItemsFacts DEF e, InSlice
<1> QED BY <1>1, <1>2, <1>3, <1>5, <1>6 DEF axis, pos, len

\* No item has its turn before the loop begins.
LEMMA TurnBound ==
    \A c \in [Dims -> Nat] : WellFormed /\ InSlice(c) => Turn(c) \in 0..Product(ChunkSpan) - 1
BY TurnFacts

\* An insertion that succeeds begins with nothing written and everything in its place.
LEMMA SpliceBegins ==
    ASSUME ArraySound, ArraySound', NEW axis \in Dims, NEW pos \in Nat, NEW len \in Nat, NEW start,
           Inserting(axis, pos, len, start), before' = Items
    PROVE  Spliced'
<1> DEFINE new == Longer(axis, len)
<1>1. Stored /\ WellFormed /\ shape \in [Dims -> Nat]
  BY SoundFacts DEF ArraySound, WellFormed
<1>2. /\ new \in [Dims -> Nat] /\ new[axis] = shape[axis] + len
      /\ \A j \in Dims \ {axis} : new[j] = shape[j]
      /\ pos <= shape[axis]
      /\ shape' = new
      /\ pc' = "setting" /\ cur' = 0
      /\ call' = [op |-> "set", start |-> On(axis, pos), stop |-> [new EXCEPT ![axis] = pos + len]]
      /\ DOMAIN buf' = Box(Origin, [new EXCEPT ![axis] = len])
  BY DEF Inserting, AxisResize
<1>3. job'.axis = axis /\ job'.pos = pos /\ job'.len = len
  BY DEF Inserting, Note
<1> HIDE DEF new
<1>4. pos + len <= new[axis]
  BY <1>1, <1>2
<1>5. DOMAIN before' = OldBox(new, axis, len)
  <2>1. [new EXCEPT ![axis] = @ - len] = shape
    <3>1. \A j \in Dims : [new EXCEPT ![axis] = @ - len][j] = shape[j]
      BY <1>1, <1>2
    <3> QED BY <1>1, <1>2, <3>1
  <2>2. DOMAIN before' = Box(Origin, shape)
    BY <1>1, ItemsFacts
  <2> QED BY <2>1, <2>2 DEF OldBox
<1>6. DOMAIN buf' = NewBox(new, axis, len)
  BY <1>2 DEF NewBox
<1>7. \A c \in DOMAIN before' : Items'[Gap(c, axis, pos, len)] = before'[c]
  BY InsertKeeps
<1>8. ASSUME NEW q \in DOMAIN buf' PROVE Written(q)'
  <2> DEFINE e == Put(q, axis, pos)
  <2>1. q \in NewBox(new, axis, len)
    BY <1>6
  <2>2. /\ q \in [Dims -> Nat] /\ InOrigin(e, new)
        /\ e[axis] = q[axis] + pos /\ q[axis] < len
        /\ \A j \in Dims \ {axis} : e[j] = q[j]
    BY <1>2, <1>4, <2>1, GapFacts
  <2> HIDE DEF e
  <2>3. e \in [Dims -> Nat] /\ \A j \in Dims : e[j] < new[j]
    BY <2>2 DEF InOrigin
  <2>4. /\ \A j \in Dims : call'.start[j] = IF j = axis THEN pos ELSE 0
        /\ \A j \in Dims : call'.stop[j] = IF j = axis THEN pos + len ELSE new[j]
    BY <1>2 DEF On
  <2>5. \A j \in Dims : call'.start[j] <= e[j] /\ e[j] < call'.stop[j]
    BY <2>2, <2>3, <2>4
  <2>6. InSlice(e)'
    BY <2>5 DEF InSlice
  <2>7. (Sound => WellFormed)'
    BY SoundFacts, PTL
  <2>8. WellFormed'
    BY <2>7 DEF ArraySound
  <2>9. (\A c \in [Dims -> Nat] : WellFormed /\ InSlice(c) => Turn(c) \in 0..Product(ChunkSpan) - 1)'
    BY TurnBound, PTL
  <2>10. Turn(e)' \in 0..Product(ChunkSpan)' - 1
    BY <2>3, <2>6, <2>8, <2>9
  <2>11. ~(Turn(e)' < cur')
    BY <1>2, <2>10
  <2> QED BY <1>2, <1>3, <2>11 DEF Written, e
<1>9. /\ job'.pos + job'.len <= shape'[job'.axis]
      /\ DOMAIN before' = OldBox(shape', job'.axis, job'.len)
      /\ DOMAIN buf' = NewBox(shape', job'.axis, job'.len)
      /\ pc' \in {"idle", "setting"}
      /\ call' = [op |-> "set", start |-> On(job'.axis, job'.pos),
                 stop |-> [shape' EXCEPT ![job'.axis] = job'.pos + job'.len]]
      /\ \A c \in DOMAIN before' : Items'[Gap(c, job'.axis, job'.pos, job'.len)] = before'[c]
  BY <1>2, <1>3, <1>4, <1>5, <1>6, <1>7
<1> QED BY <1>8, <1>9 DEF Spliced

\* A chunk that is written brings its items to their places and moves no other.
LEMMA SpliceWrites ==
    ASSUME ArraySound, Spliced, SetChunk, UNCHANGED <<job, before>>
    PROVE  Spliced'
<1>1. /\ Sound /\ Stored /\ WellFormed /\ AtTurn
      /\ pc = "setting" /\ cur' = cur + 1
      /\ UNCHANGED <<shape, pc, call, buf, ret>>
  BY SetChunkFacts, SoundFacts DEF ArraySound, SetChunk
<1>2. DOMAIN Items' = DOMAIN Items /\ \A x \in DOMAIN Items : Items'[x] = Item(x)' /\ Items[x] = Item(x)
  BY <1>1 DEF Items, ItemsIn, Item
<1>3. \A x \in DOMAIN Items :
         Items'[x] = IF InSlice(x) /\ Turn(x) = cur THEN buf[Minus(x, call.start)] ELSE Items[x]
  BY <1>1, <1>2, WrittenItem
<1>4. ASSUME NEW c \in DOMAIN before
      PROVE  Items'[Gap(c, job.axis, job.pos, job.len)] = before[c]
  <2> DEFINE d == Gap(c, job.axis, job.pos, job.len)
  <2>1. d \in DOMAIN Items /\ ~InSlice(d)
    BY SlicePlaces
  <2>2. Items[d] = before[c]
    BY DEF Spliced
  <2> QED BY <1>3, <2>1, <2>2
<1>5. ASSUME NEW q \in DOMAIN buf PROVE Written(q)'
  <2>0. PICK e : e = Put(q, job.axis, job.pos)
    OBVIOUS
  <2>1. e \in [Dims -> Nat] /\ e \in DOMAIN Items /\ InSlice(e) /\ Minus(e, call.start) = q
    BY <2>0, SlicePlaces
  <2>2. Turn(e) < cur => Items[e] = buf[q]
    BY <1>1, <2>0 DEF Spliced, Written
  <2>3. Turn(e) \in Int /\ cur \in Nat
    BY <1>1, <2>1, TurnBound DEF Sound, TypeOK
  <2>4. Turn(e)' = Turn(e)
    BY <1>1 DEF Turn, FirstChunk, ChunkSpan
  <2>5. Turn(e) < cur + 1 => Items'[e] = buf[q]
    <3>1. CASE Turn(e) = cur
      BY <1>3, <2>1, <3>1
    <3>2. CASE Turn(e) < cur
      BY <1>3, <2>1, <2>2, <2>3, <3>2
    <3> QED BY <2>3, <3>1, <3>2
  <2>6. /\ pc' = "setting" /\ Put(q, job'.axis, job'.pos) = e /\ buf'[q] = buf[q]
        /\ Turn(e)' < cur' => Items'[e] = buf[q]
    BY <1>1, <2>0, <2>4, <2>5
  <2> QED BY <1>1, <2>0, <2>6 DEF Written
<1> QED BY <1>1, <1>4, <1>5 DEF Spliced

\* A chunk that is skipped has nothing to write.
LEMMA SpliceSkips ==
    ASSUME ArraySound, Spliced, SkipChunk, UNCHANGED <<job, before>>
    PROVE  Spliced'
<1>1. /\ Sound /\ Stored /\ WellFormed /\ AtTurn
      /\ pc = "setting" /\ cur' = cur + 1 /\ SkipsChunk
      /\ UNCHANGED <<shape, sc, pc, call, buf, ret>>
  BY SoundFacts DEF ArraySound, SkipChunk, Spliced
<1>2. Items' = Items
  BY <1>1, SameItems
<1>3. ASSUME NEW q \in DOMAIN buf PROVE Written(q)'
  <2>0. PICK e : e = Put(q, job.axis, job.pos)
    OBVIOUS
  <2>1. e \in [Dims -> Nat] /\ e \in DOMAIN Items /\ InSlice(e)
    BY <2>0, SlicePlaces
  <2>2. Turn(e) < cur => Items[e] = buf[q]
    BY <1>1, <2>0 DEF Spliced, Written
  <2>3. Turn(e) \in Int /\ cur \in Nat
    BY <1>1, <2>1, TurnBound DEF Sound, TypeOK
  <2>4. Turn(e)' = Turn(e)
    BY <1>1 DEF Turn, FirstChunk, ChunkSpan
  <2>5. \A j \in Dims : e[j] < shape[j]
    BY <1>1, <2>1, ItemsFacts, ArrayBox
  <2>6. Turn(e) # cur
    BY <1>1, <2>1, <2>5, SkippedFacts
  <2>7. Turn(e)' < cur' => Items'[e] = buf[q]
    BY <1>1, <1>2, <2>2, <2>3, <2>4, <2>6
  <2> QED BY <1>1, <2>0, <2>7 DEF Written
<1> QED BY <1>1, <1>2, <1>3 DEF Spliced

\* The loop ends, or fails; when it ends, every turn has come.
LEMMA SpliceEnds ==
    ASSUME ArraySound, Spliced, SliceEnd \/ ChunkFails, UNCHANGED <<job, before>>
    PROVE  Spliced'
<1>1. /\ Sound /\ Stored /\ WellFormed
      /\ pc = "setting" /\ pc' = "idle"
      /\ ret' = "SUCCEED" => ~More
      /\ UNCHANGED <<shape, sc, call, buf>>
  BY SoundFacts DEF ArraySound, SliceEnd, ChunkFails, Leave, Spliced
<1>2. Items' = Items
  BY <1>1, SameItems
<1>3. ASSUME NEW q \in DOMAIN buf PROVE Written(q)'
  <2>0. PICK e : e = Put(q, job.axis, job.pos)
    OBVIOUS
  <2>1. e \in [Dims -> Nat] /\ e \in DOMAIN Items /\ InSlice(e)
    BY <2>0, SlicePlaces
  <2>2. Turn(e) < cur => Items[e] = buf[q]
    BY <1>1, <2>0 DEF Spliced, Written
  <2>3. ~More => Turn(e) < cur
    <3>1. Turn(e) \in 0..Product(ChunkSpan) - 1 /\ cur \in Nat /\ Product(ChunkSpan) \in Nat
      BY <1>1, <2>1, TurnBound, SpanFacts DEF Sound, TypeOK
    <3> QED BY <3>1 DEF More
  <2>4. pc' = "idle" /\ ret' = "SUCCEED" => Items'[e] = buf[q]
    BY <1>1, <1>2, <2>2, <2>3
  <2> QED BY <1>1, <2>0, <2>4 DEF Written
<1> QED BY <1>1, <1>2, <1>3 DEF Spliced

\* Every step.
LEMMA InsertStep ==
    ASSUME ArraySound, ArraySound', InsertPass, OverAtOnce, [ArrayNext]_allVars
    PROVE  InsertPass' /\ OverAtOnce'
<1>1. CASE job' = NoJob
  <2>1. job'.op = "none"
    BY <1>1, NoJobFacts
  <2> QED BY <2>1 DEF InsertPass, OverAtOnce
<1>2. CASE Insert
  <2>1. /\ before' = Items
        /\ \E axis \in Dims, pos \in Nat, len \in Nat :
             \/ \E start : Inserting(axis, pos, len, start)
             \/ /\ Note("insert", axis, pos, len, "INVALID_ARGUMENT")
                /\ pc' = "idle" /\ UNCHANGED <<shape, sc>>
    BY <1>2, InsertFacts
  <2>2. PICK axis \in Dims, pos \in Nat, len \in Nat :
             \/ \E start : Inserting(axis, pos, len, start)
             \/ /\ Note("insert", axis, pos, len, "INVALID_ARGUMENT")
                /\ pc' = "idle" /\ UNCHANGED <<shape, sc>>
    BY <2>1
  <2>3. CASE \E start : Inserting(axis, pos, len, start)
    <3>1. Spliced'
      BY <2>1, <2>3, SpliceBegins
    <3>2. job'.op = "insert" /\ job'.code = "SUCCEED"
      BY <2>3 DEF Inserting, Note
    <3> QED BY <3>1, <3>2 DEF InsertPass, OverAtOnce, Refused
  <2>4. CASE /\ Note("insert", axis, pos, len, "INVALID_ARGUMENT")
             /\ pc' = "idle" /\ UNCHANGED <<shape, sc>>
    <3>1. Items' = before'
      BY <2>1, <2>4, SameItems
    <3>2. job'.op = "insert" /\ job'.code = "INVALID_ARGUMENT"
      BY <2>4 DEF Note
    <3> QED BY <2>4, <3>1, <3>2 DEF InsertPass, OverAtOnce, Refused
  <2> QED BY <2>2, <2>3, <2>4
<1>3. CASE Delete \/ Resize
  <2>1. job'.op \in {"delete", "resize"} /\ pc' = "idle"
    BY <1>3, DeleteFacts, ResizeCallFacts DEF Deleting, Resizing, Resized, Note
  <2> QED BY <2>1 DEF InsertPass, OverAtOnce
<1>4. CASE (SliceStep \/ ChunkFails) /\ UNCHANGED <<job, before>>
  <2>1. pc \in {"getting", "setting"} /\ job' = job
    BY <1>4 DEF SliceStep, ChunkFails, SkipChunk, SetChunk, GetChunk, SliceEnd
  <2>2. OverAtOnce'
    BY <2>1 DEF OverAtOnce
  <2>3. CASE job.op # "insert"
    BY <2>1, <2>2, <2>3 DEF InsertPass
  <2>4. CASE job.op = "insert"
    <3>1. Spliced /\ ~Refused
      BY <2>1, <2>4 DEF InsertPass
    <3>2. ~GetChunk
      BY <3>1 DEF GetChunk, Spliced
    <3>3. Spliced'
      BY <1>4, <3>1, <3>2, SpliceWrites, SpliceSkips, SpliceEnds DEF SliceStep
    <3>4. Refused' = Refused
      BY <1>4 DEF Refused
    <3> QED BY <2>2, <3>1, <3>3, <3>4 DEF InsertPass
  <2> QED BY <2>2, <2>3, <2>4
<1>5. CASE UNCHANGED allVars
  <2>1. UNCHANGED vars /\ UNCHANGED <<job, before>>
    BY <1>5 DEF allVars
  <2>2. UNCHANGED <<shape, sc, pc, call, buf, cur, ret, job, before>> /\ Items' = Items
    BY <2>1, SameItems DEF vars
  <2>3. \A q : Written(q)' <=> Written(q)
    BY <2>2 DEF Written, Turn, FirstChunk, ChunkSpan
  <2>4. Spliced' <=> Spliced
    BY <2>2, <2>3 DEF Spliced
  <2> QED BY <2>2, <2>4 DEF InsertPass, OverAtOnce, Refused
<1>6. Zeros \/ Full \/ FromBuffer \/ ToBuffer \/ NoSuchAxis => job' = NoJob
  BY DEF Zeros, Full, FromBuffer, ToBuffer, NoSuchAxis, Create
<1>7. Slicing => \/ job' = NoJob
                 \/ (SliceStep \/ ChunkFails) /\ UNCHANGED <<job, before>>
  BY DEF Slicing
<1>8. \/ Zeros \/ Full \/ FromBuffer \/ ToBuffer
      \/ Insert \/ Delete \/ Resize \/ NoSuchAxis \/ Slicing
      \/ UNCHANGED allVars
  BY DEF ArrayNext
<1> QED BY <1>1, <1>2, <1>3, <1>4, <1>5, <1>6, <1>7, <1>8

-----------------------------------------------------------------------------
(* How many items an insertion leaves. *)

\* A box has as many items as its numbering counts, at most.
LEMMA FiniteBox ==
    ASSUME NEW z \in [Dims -> Nat]
    PROVE  IsFiniteSet(Box(Origin, z))
<1> DEFINE B == Box(Origin, z)
<1>0. \A c \in B : c \in [Dims -> Nat] /\ \A j \in Dims : c[j] < z[j]
  <2>1. z \in [Dims -> Int]
    OBVIOUS
  <2> QED BY <2>1, OriginBox
<1>1. CASE \E i \in Dims : z[i] = 0
  <2>1. ASSUME NEW c \in B PROVE FALSE
    <3>1. c \in [Dims -> Nat] /\ \A j \in Dims : c[j] < z[j]
      BY <1>0
    <3> QED BY <1>1, <3>1
  <2>2. B = {}
    BY <2>1
  <2> QED BY <2>2, FS_EmptySet
<1>2. CASE \A i \in Dims : z[i] # 0
  <2>1. z \in [Dims -> Nat \ {0}]
    BY <1>2
  <2> DEFINE n == Product(z)
             f == [c \in B |-> MultidimToUnidim(c, Strides(z))]
  <2>2. n \in Nat
    BY ProductType
  <2>3. ASSUME NEW c \in B
        PROVE  f[c] \in 0..n - 1 /\ UnidimToMultidim(z, f[c]) = c
    <3>1. c \in [Dims -> Nat] /\ \A j \in Dims : c[j] < z[j]
      BY <1>0
    <3>2. InBox(c, z)
      BY <3>1 DEF InBox
    <3> QED BY <2>1, <3>2, NumberOfIndex
  <2> HIDE DEF n, B
  <2>4. f \in [B -> 0..n - 1]
    BY <2>3
  <2>5. \A a, b \in B : f[a] = f[b] => a = b
    <3> HIDE DEF f
    <3> QED BY <2>3
  <2> HIDE DEF f
  <2>6. f \in Injection(B, 0..n - 1)
    BY <2>4, <2>5 DEF Injection, IsInjective
  <2>7. IsFiniteSet(0..n - 1)
    BY <2>2, FS_Interval
  <2>8. IsFiniteSet(B)
    BY <2>6, <2>7, FS_Injection
  <2> QED BY <2>8 DEF B
<1> QED BY <1>1, <1>2

\* Two sets with a function one to one from the one to the other.
LEMMA OneToOne ==
    ASSUME NEW S, NEW T, IsFiniteSet(S), NEW f \in [S -> T],
           \A a, b \in S : f[a] = f[b] => a = b,
           \A t \in T : \E a \in S : f[a] = t
    PROVE  IsFiniteSet(T) /\ Cardinality(T) = Cardinality(S)
<1>1. f \in Injection(S, T) /\ f \in Surjection(S, T)
  BY DEF Injection, IsInjective, Surjection
<1>2. ExistsBijection(S, T)
  BY <1>1 DEF Bijection, ExistsBijection
<1> QED BY <1>2, FS_Bijection

\* Putting a range in adds its items and loses none.
LEMMA CountSpliced ==
    ASSUME NEW z \in [Dims -> Nat], NEW axis \in Dims, NEW pos \in Nat, NEW len \in Nat,
           pos + len <= z[axis]
    PROVE  Cardinality(Box(Origin, z)) =
             Cardinality(OldBox(z, axis, len)) + Cardinality(NewBox(z, axis, len))
<1> DEFINE B == Box(Origin, z)
           O == OldBox(z, axis, len)
           N == NewBox(z, axis, len)
           Inside(x) == pos <= x[axis] /\ x[axis] < pos + len
           I == {x \in B : Inside(x)}
           R == {x \in B : ~Inside(x)}
           g == [c \in O |-> Gap(c, axis, pos, len)]
           p == [q \in N |-> Put(q, axis, pos)]
<1>1. IsFiniteSet(B) /\ IsFiniteSet(O) /\ IsFiniteSet(N)
  <2>1. /\ [z EXCEPT ![axis] = @ - len] \in [Dims -> Nat]
        /\ [z EXCEPT ![axis] = len] \in [Dims -> Nat]
    OBVIOUS
  <2> QED BY <2>1, FiniteBox DEF OldBox, NewBox
<1>2. /\ \A c : c \in B <=> c \in [Dims -> Nat] /\ \A j \in Dims : c[j] < z[j]
      /\ \A c : c \in O <=> /\ c \in [Dims -> Nat] /\ c[axis] < z[axis] - len
                            /\ \A j \in Dims \ {axis} : c[j] < z[j]
      /\ \A c : c \in N <=> /\ c \in [Dims -> Nat] /\ c[axis] < len
                            /\ \A j \in Dims \ {axis} : c[j] < z[j]
  BY RangeBoxes DEF InOrigin
<1>3. /\ \A c \in O : /\ c \in [Dims -> Nat] /\ g[c] \in B
                      /\ g[c][axis] = IF c[axis] < pos THEN c[axis] ELSE c[axis] + len
                      /\ \A j \in Dims \ {axis} : g[c][j] = c[j]
      /\ \A q \in N : /\ q \in [Dims -> Nat] /\ p[q] \in B
                      /\ p[q][axis] = q[axis] + pos /\ q[axis] < len
                      /\ \A j \in Dims \ {axis} : p[q][j] = q[j]
  <2>1. ASSUME NEW c \in O
        PROVE  /\ c \in [Dims -> Nat] /\ g[c] \in B
               /\ g[c][axis] = IF c[axis] < pos THEN c[axis] ELSE c[axis] + len
               /\ \A j \in Dims \ {axis} : g[c][j] = c[j]
    <3> DEFINE d == Gap(c, axis, pos, len)
    <3>1. /\ c \in [Dims -> Nat] /\ InOrigin(d, z)
          /\ d[axis] = IF c[axis] < pos THEN c[axis] ELSE c[axis] + len
          /\ \A j \in Dims \ {axis} : d[j] = c[j]
      BY GapFacts
    <3>2. d \in B
      BY <3>1, RangeBoxes
    <3>3. g[c] = d
      OBVIOUS
    <3> HIDE DEF d, g
    <3> QED BY <3>1, <3>2, <3>3
  <2>2. ASSUME NEW q \in N
        PROVE  /\ q \in [Dims -> Nat] /\ p[q] \in B
               /\ p[q][axis] = q[axis] + pos /\ q[axis] < len
               /\ \A j \in Dims \ {axis} : p[q][j] = q[j]
    <3> DEFINE e == Put(q, axis, pos)
    <3>1. /\ q \in [Dims -> Nat] /\ InOrigin(e, z)
          /\ e[axis] = q[axis] + pos /\ q[axis] < len
          /\ \A j \in Dims \ {axis} : e[j] = q[j]
      BY GapFacts
    <3>2. e \in B
      BY <3>1, RangeBoxes
    <3>3. p[q] = e
      OBVIOUS
    <3> HIDE DEF e, p
    <3> QED BY <3>1, <3>2, <3>3
  <2> HIDE DEF g, p, B, O, N
  <2> QED BY <2>1, <2>2
<1>4. z[axis] \in Nat
  OBVIOUS
<1> HIDE DEF B, O, N
<1>5. g = [c \in O |-> g[c]] /\ p = [q \in N |-> p[q]]
  OBVIOUS
<1>6. \A x \in R : \E c \in O : g[c] = x
  <2> SUFFICES ASSUME NEW x \in B, ~Inside(x) PROVE \E c \in O : g[c] = x
    OBVIOUS
  <2> DEFINE c == IF x[axis] < pos THEN x ELSE [x EXCEPT ![axis] = @ - len]
  <2>1. x \in [Dims -> Nat] /\ \A j \in Dims : x[j] < z[j]
    BY <1>2
  <2>2. x[axis] \in Nat /\ (x[axis] < pos \/ x[axis] >= pos + len)
    BY <2>1
  <2>3. /\ c \in [Dims -> Nat]
        /\ c[axis] = IF x[axis] < pos THEN x[axis] ELSE x[axis] - len
        /\ \A j \in Dims \ {axis} : c[j] = x[j]
    BY <2>1, <2>2
  <2> HIDE DEF c
  <2>4. c \in O
    <3>1. c[axis] < z[axis] - len
      BY <1>4, <2>1, <2>2, <2>3
    <3> QED BY <1>2, <2>1, <2>3, <3>1
  <2>5. g[c][axis] = x[axis]
    BY <1>3, <2>2, <2>3, <2>4
  <2>6. \A j \in Dims : g[c][j] = x[j]
    BY <1>3, <2>3, <2>4, <2>5
  <2>7. g[c] \in [Dims -> Nat]
    BY <1>2, <1>3, <2>4
  <2> HIDE DEF g
  <2> QED BY <2>1, <2>4, <2>6, <2>7
<1>7. \A x \in I : \E q \in N : p[q] = x
  <2> SUFFICES ASSUME NEW x \in B, Inside(x) PROVE \E q \in N : p[q] = x
    OBVIOUS
  <2> DEFINE q == [x EXCEPT ![axis] = @ - pos]
  <2>1. x \in [Dims -> Nat] /\ \A j \in Dims : x[j] < z[j]
    BY <1>2
  <2>2. x[axis] \in Nat /\ pos <= x[axis] /\ x[axis] < pos + len
    BY <2>1
  <2>3. /\ q \in [Dims -> Nat]
        /\ q[axis] = x[axis] - pos
        /\ \A j \in Dims \ {axis} : q[j] = x[j]
    BY <2>1, <2>2
  <2> HIDE DEF q
  <2>4. q \in N
    <3>1. q[axis] < len
      BY <2>2, <2>3
    <3> QED BY <1>2, <2>1, <2>3, <3>1
  <2>5. p[q][axis] = x[axis]
    BY <1>3, <2>2, <2>3, <2>4
  <2>6. \A j \in Dims : p[q][j] = x[j]
    BY <1>3, <2>3, <2>4, <2>5
  <2>7. p[q] \in [Dims -> Nat]
    BY <1>2, <1>3, <2>4
  <2> HIDE DEF p
  <2> QED BY <2>1, <2>4, <2>6, <2>7
<1> HIDE DEF g, p
<1>8. g \in [O -> R]
  <2>1. \A c \in O : ~Inside(g[c])
    BY <1>3
  <2> QED BY <1>3, <1>5, <2>1
<1>9. p \in [N -> I]
  <2>1. \A q \in N : Inside(p[q])
    BY <1>3
  <2> QED BY <1>3, <1>5, <2>1
<1>10. \A a, b \in O : g[a] = g[b] => a = b
  <2> SUFFICES ASSUME NEW a \in O, NEW b \in O, g[a] = g[b] PROVE a = b
    OBVIOUS
  <2>1. a[axis] = b[axis]
    BY <1>3
  <2>2. \A j \in Dims : a[j] = b[j]
    BY <1>3, <2>1
  <2> QED BY <1>3, <2>2
<1>11. \A a, b \in N : p[a] = p[b] => a = b
  <2> SUFFICES ASSUME NEW a \in N, NEW b \in N, p[a] = p[b] PROVE a = b
    OBVIOUS
  <2>1. a[axis] = b[axis]
    BY <1>3
  <2>2. \A j \in Dims : a[j] = b[j]
    BY <1>3, <2>1
  <2> QED BY <1>3, <2>2
<1>12. IsFiniteSet(R) /\ Cardinality(R) = Cardinality(O)
  BY <1>1, <1>6, <1>8, <1>10, OneToOne
<1>13. IsFiniteSet(I) /\ Cardinality(I) = Cardinality(N)
  BY <1>1, <1>7, <1>9, <1>11, OneToOne
<1>14. R \cup I = B /\ R \cap I = {}
  OBVIOUS
<1> HIDE DEF R, I
<1>15. Cardinality(B) = Cardinality(R) + Cardinality(I) - Cardinality({})
  BY <1>12, <1>13, <1>14, FS_Union
<1>16. Cardinality(R) \in Nat /\ Cardinality(I) \in Nat /\ Cardinality({}) = 0
  BY <1>12, <1>13, FS_CardinalityType, FS_EmptySet
<1> QED BY <1>12, <1>13, <1>15, <1>16 DEF B, O, N

\* insert and append put the items of the buffer in between those there were, wherever
\* writing them stops, and an insertion that is refused does nothing
\* (caterva.c:1423-1479).
THEOREM InsertCorrect == ArraySpec => []InsertSplices
<1>1. ArraySound /\ InsertPass => InsertSplices
  <2> SUFFICES ASSUME ArraySound, InsertPass, job.op = "insert", pc = "idle", ~Refused
               PROVE  /\ DOMAIN Items = Box(Origin, shape)
                      /\ \A c \in DOMAIN before :
                           LET d == IF c[job.axis] < job.pos THEN c ELSE Along(c, job.len)
                           IN  d \in DOMAIN Items /\ Items[d] = before[c]
                      /\ ret = "SUCCEED" =>
                           \A q \in DOMAIN buf : Items[Along(q, job.pos)] = buf[q]
                      /\ ret = "SUCCEED" =>
                           Cardinality(DOMAIN Items) =
                              Cardinality(DOMAIN before) + Cardinality(DOMAIN buf)
    BY DEF InsertSplices, InsertPass
  <2>1. Spliced
    BY DEF InsertPass
  <2>2. DOMAIN Items = Box(Origin, shape)
    BY SoundFacts, ItemsFacts DEF ArraySound
  <2>3. /\ job.axis \in Dims /\ job.pos \in Nat /\ job.len \in Nat
        /\ shape \in [Dims -> Nat] /\ job.pos + job.len <= shape[job.axis]
        /\ \A c \in DOMAIN before : Gap(c, job.axis, job.pos, job.len) \in DOMAIN Items
    BY <2>1, SlicePlaces
  <2>4. /\ DOMAIN before = OldBox(shape, job.axis, job.len)
        /\ DOMAIN buf = NewBox(shape, job.axis, job.len)
        /\ \A c \in DOMAIN before : Items[Gap(c, job.axis, job.pos, job.len)] = before[c]
        /\ ret = "SUCCEED" => \A q \in DOMAIN buf : Items[Put(q, job.axis, job.pos)] = buf[q]
    BY <2>1 DEF Spliced, Written
  <2>5. \A c : Gap(c, job.axis, job.pos, job.len)
                 = IF c[job.axis] < job.pos THEN c ELSE Along(c, job.len)
    BY DEF Gap, Along
  <2>6. \A q : Put(q, job.axis, job.pos) = Along(q, job.pos)
    BY DEF Put, Along
  <2>7. Cardinality(DOMAIN Items) = Cardinality(DOMAIN before) + Cardinality(DOMAIN buf)
    BY <2>2, <2>3, <2>4, CountSpliced
  <2> QED BY <2>2, <2>3, <2>4, <2>5, <2>6, <2>7
<1>2. ArrayInit => InsertPass /\ OverAtOnce
  BY NoJobFacts DEF ArrayInit, InsertPass, OverAtOnce
<1>3. ArraySound /\ ArraySound' /\ InsertPass /\ OverAtOnce /\ [ArrayNext]_allVars
        => (InsertPass /\ OverAtOnce)'
  BY InsertStep
<1> QED BY <1>1, <1>2, <1>3, AlwaysArraySound, PTL DEF ArraySpec

-----------------------------------------------------------------------------
(* Deletion. *)

\* What the array holds after a call that resizes and nothing more.
LEMMA ResizedItems ==
    ASSUME ArraySound, NEW new, NEW start, Resized(new, start)
    PROVE  /\ Answer(new, start) = "SUCCEED" =>
                /\ shape' = new
                /\ Items' = [c \in Box(Origin, new) |-> ItemIn(new, ChunksAfter(new, start), c)]
           /\ Answer(new, start) # "SUCCEED" =>
                \/ Items' = Items
                \/ ~IsEmpty(shape) /\ IsEmpty(Lesser(new, shape)) /\ shape' = Lesser(new, shape)
<1>1. shape' = ShapeAfter(new, start) /\ sc' = ChunksAfter(new, start)
  BY DEF Resized
<1>2. CASE Answer(new, start) = "SUCCEED"
  <2>1. Accepted(new, start) /\ ~IsEmpty(shape) /\ ~IsEmpty(Lesser(new, shape))
    BY <1>2 DEF Answer
  <2>2. shape' = new
    BY <1>1, <2>1 DEF ShapeAfter
  <2> QED BY <1>1, <1>2, <2>2 DEF Items, ItemsIn
<1>3. CASE Answer(new, start) # "SUCCEED"
  <2>1. \/ ~Accepted(new, start) \/ IsEmpty(shape)
        \/ Accepted(new, start) /\ ~IsEmpty(shape) /\ IsEmpty(Lesser(new, shape))
    BY <1>3 DEF Answer
  <2>2. CASE ~Accepted(new, start) \/ IsEmpty(shape)
    <3>1. shape' = shape /\ sc' = sc
      BY <1>1, <2>2 DEF ShapeAfter, ChunksAfter
    <3> QED BY <1>3, <3>1, SameItems
  <2>3. CASE Accepted(new, start) /\ ~IsEmpty(shape) /\ IsEmpty(Lesser(new, shape))
    BY <1>1, <1>3, <2>3 DEF ShapeAfter
  <2> QED BY <2>1, <2>2, <2>3
<1> QED BY <1>2, <1>3

\* In every dimension items moved as chunks did.
LEMMA DeleteMoves ==
    ASSUME shape \in [Dims -> Nat], NEW axis \in Dims, NEW pos \in Nat, NEW len \in Nat,
           NEW start, AxisResize(axis, -len, pos, start), Accepted(Longer(axis, -len), start),
           pos + len <= shape[axis], NEW c, InOrigin(c, Longer(axis, -len))
    PROVE  LET e == Gap(c, axis, pos, len)
           IN  /\ e \in [Dims -> Nat] /\ c \in [Dims -> Nat]
               /\ \A j \in Dims : /\ c[j] < Longer(axis, -len)[j] /\ e[j] < shape[j]
                                  /\ MovedDim(ChunkShape[j], shape[j], Longer(axis, -len)[j],
                                              start[j], c[j], e[j])
<1> DEFINE new == Longer(axis, -len)
           e   == Gap(c, axis, pos, len)
<1>1. /\ new \in [Dims -> Nat] /\ new[axis] = shape[axis] + (-len)
      /\ \A j \in Dims \ {axis} : new[j] = shape[j]
      /\ start \in [Dims -> Nat] /\ start[axis] = pos
  BY DEF AxisResize
<1>2. Aligned(shape, new, start)
  BY DEF Accepted
<1>3. c \in [Dims -> Nat] /\ \A j \in Dims : c[j] < new[j]
  BY DEF InOrigin
<1> HIDE DEF new
<1>4. /\ shape[axis] \in Nat /\ c[axis] \in Nat /\ new[axis] \in Nat
      /\ new[axis] = shape[axis] - len /\ c[axis] < new[axis]
      /\ ChunkShape[axis] \in Nat \ {0}
  BY <1>1, <1>3, ChunkShapeAssumption
<1>5. c \in OldBox(shape, axis, len)
  <2>1. c[axis] < shape[axis] - len /\ \A j \in Dims \ {axis} : c[j] < shape[j]
    BY <1>1, <1>3, <1>4
  <2> QED BY <1>3, <2>1, RangeBoxes
<1>6. /\ InOrigin(e, shape)
      /\ e[axis] = IF c[axis] < pos THEN c[axis] ELSE c[axis] + len
      /\ \A j \in Dims \ {axis} : e[j] = c[j]
  BY <1>5, GapFacts
<1> HIDE DEF e
<1>7. ASSUME NEW j \in Dims \ {axis}
      PROVE  MovedDim(ChunkShape[j], shape[j], new[j], start[j], c[j], e[j])
  <2>1. /\ ChunkShape[j] \in Nat \ {0} /\ shape[j] \in Nat /\ start[j] \in Nat /\ c[j] \in Nat
        /\ new[j] = shape[j] /\ e[j] = c[j]
    BY <1>1, <1>3, <1>6, ChunkShapeAssumption
  <2> QED BY <2>1, SameDim
<1>8. MovedDim(ChunkShape[axis], shape[axis], new[axis], start[axis], c[axis], e[axis])
  <2>1. CASE c[axis] < pos
    <3>1. e[axis] = c[axis]
      BY <1>6, <2>1
    <3> QED BY <1>1, <1>4, <2>1, <3>1, BeforeDim
  <2>2. CASE ~(c[axis] < pos) /\ len = 0
    <3>1. e[axis] = c[axis] /\ new[axis] = shape[axis]
      BY <1>4, <1>6, <2>2
    <3> QED BY <1>1, <1>4, <3>1, SameDim
  <2>3. CASE ~(c[axis] < pos) /\ len # 0
    <3>1. e[axis] = c[axis] + len /\ c[axis] >= pos /\ shape[axis] = new[axis] + len
      BY <1>4, <1>6, <2>3
    <3>2. InChunks(ChunkShape[axis], pos) /\ InChunks(ChunkShape[axis], len)
      <4> DEFINE s == ChunkShape[axis]
                 f == shape[axis]
                 n == new[axis]
      <4>1. \/ n = f
            \/ n > f /\ pos = f
            \/ n < f /\ pos + f - n = f
            \/ (pos % s) = 0 /\ ((n - f) % s) = 0
        BY <1>1, <1>2 DEF Aligned
      <4> DEFINE y == n - f
                 x == c[axis]
      <4>2. /\ f \in Nat /\ n \in Nat /\ x \in Nat /\ n = f - len /\ x < n /\ x >= pos
            /\ len > 0 /\ s \in Nat \ {0}
        BY <1>4, <2>3, <3>1
      <4> HIDE DEF f, n, x, s
      <4>3. n # f /\ ~(n > f) /\ pos + f - n # f
        BY <4>2
      <4>4. (pos % s) = 0 /\ (y % s) = 0
        BY <4>1, <4>3
      <4>5. y \in Int /\ len = -y
        BY <4>2
      <4> HIDE DEF y
      <4>6. (len % s) = 0
        BY <4>2, <4>4, <4>5, NegativeRest
      <4> QED BY <4>4, <4>6 DEF InChunks, s
    <3>3. MovedDim(ChunkShape[axis], new[axis] + len, new[axis], pos, c[axis], c[axis] + len)
      BY <1>4, <3>1, <3>2, BehindDeletion
    <3> QED BY <1>1, <3>1, <3>3
  <2> QED BY <2>1, <2>2, <2>3
<1>9. \A j \in Dims : MovedDim(ChunkShape[j], shape[j], new[j], start[j], c[j], e[j])
  BY <1>7, <1>8
<1> QED BY <1>3, <1>6, <1>9 DEF InOrigin, new, e

\* One call of delete.
LEMMA DeleteStep ==
    ASSUME ArraySound, Delete
    PROVE  DeleteCloses'
<1>1. /\ before' = Items
      /\ \E axis \in Dims, pos \in Nat, len \in Nat : \E start : Deleting(axis, pos, len, start)
  BY DeleteFacts
<1>2. PICK axis \in Dims, pos \in Nat, len \in Nat : \E start : Deleting(axis, pos, len, start)
  BY <1>1
<1>3. PICK start : Deleting(axis, pos, len, start)
  BY <1>2
<1> DEFINE new == Longer(axis, -len)
           chunks == ChunksAfter(new, start)
<1>4. Stored /\ WellFormed /\ shape \in [Dims -> Nat]
  BY SoundFacts DEF ArraySound, WellFormed
<1>5. /\ AxisResize(axis, -len, pos, start)
      /\ pos + len <= shape[axis]
      /\ Resized(new, start)
      /\ job' = [op |-> "delete", axis |-> axis, pos |-> pos, len |-> len,
                 code |-> Answer(new, start)]
  BY <1>3 DEF Deleting, Note
<1>6. /\ new \in [Dims -> Nat] /\ new[axis] = shape[axis] + (-len)
      /\ \A j \in Dims \ {axis} : new[j] = shape[j]
      /\ Accepted(new, start) => CanResize(new, start)
  BY <1>5 DEF AxisResize
<1>7. /\ DOMAIN Items = Box(Origin, shape)
      /\ \A c \in DOMAIN Items : Items[c] = Item(c)
  BY <1>4, ItemsFacts
<1> HIDE DEF new, chunks
<1>8. /\ Answer(new, start) = "SUCCEED" =>
           /\ shape' = new
           /\ Items' = [c \in Box(Origin, new) |-> ItemIn(new, chunks, c)]
      /\ Answer(new, start) # "SUCCEED" =>
           \/ Items' = Items
           \/ ~IsEmpty(shape) /\ IsEmpty(Lesser(new, shape)) /\ shape' = Lesser(new, shape)
  BY <1>5, ResizedItems DEF chunks
<1>9. CASE Answer(new, start) # "SUCCEED"
  <2>1. CASE ~IsEmpty(shape) /\ IsEmpty(Lesser(new, shape)) /\ shape' = Lesser(new, shape)
    <3>1. PICK j \in Dims : Lesser(new, shape)[j] = 0
      BY <2>1 DEF IsEmpty
    <3>2. /\ Lesser(new, shape)[j] = IF new[j] <= shape[j] THEN new[j] ELSE shape[j]
          /\ shape[j] # 0 /\ shape[j] \in Nat
      BY <1>4, <2>1 DEF IsEmpty, Lesser
    <3>3. j = axis
      BY <1>6, <3>1, <3>2
    <3>4. shape'[axis] = 0
      BY <2>1, <3>1, <3>3
    <3> QED BY <1>5, <1>9, <3>4 DEF DeleteCloses, Refused
  <2>2. CASE Items' = Items
    BY <1>1, <1>5, <1>9, <2>2 DEF DeleteCloses, Refused
  <2> QED BY <1>8, <1>9, <2>1, <2>2
<1>10. CASE Answer(new, start) = "SUCCEED"
  <2>1. Resizable(new, start) /\ Accepted(new, start)
    BY <1>6, <1>10 DEF Answer, Resizable
  <2>2. DOMAIN Items' = Box(Origin, new) /\ \A c \in DOMAIN Items' : Items'[c] = ItemIn(new, chunks, c)
    BY <1>8, <1>10
  <2>3. ASSUME NEW c \in DOMAIN Items'
        PROVE  Items'[c] = before'[Gap(c, axis, pos, len)]
    <3> DEFINE e == Gap(c, axis, pos, len)
    <3>1. InOrigin(c, new)
      BY <1>6, <2>2, RangeBoxes
    <3>2. /\ e \in [Dims -> Nat] /\ c \in [Dims -> Nat]
          /\ \A j \in Dims : /\ c[j] < new[j] /\ e[j] < shape[j]
                             /\ MovedDim(ChunkShape[j], shape[j], new[j], start[j], c[j], e[j])
      BY <1>4, <1>5, <2>1, <3>1, DeleteMoves DEF new
    <3> HIDE DEF e
    <3>3. ItemIn(new, chunks, c) = Item(e)
      BY <1>4, <2>1, <3>2, MovedItem DEF chunks
    <3>4. e \in DOMAIN Items
      BY <1>4, <1>7, <3>2, RangeBoxes DEF InOrigin
    <3> QED BY <1>1, <1>7, <2>2, <3>3, <3>4 DEF e
  <2>4. ASSUME NEW c \in DOMAIN before'
        PROVE  \/ c[axis] \in pos..pos + len - 1
               \/ c[axis] < pos /\ c \in DOMAIN Items'
               \/ [c EXCEPT ![axis] = @ + (-len)] \in DOMAIN Items'
    <3>1. c \in [Dims -> Nat] /\ \A j \in Dims : c[j] < shape[j]
      BY <1>1, <1>4, <1>7, RangeBoxes DEF InOrigin
    <3>2. c[axis] \in Nat /\ shape[axis] \in Nat /\ c[axis] < shape[axis]
      BY <1>4, <3>1
    <3>3. CASE c[axis] < pos
      <4>1. \A j \in Dims : c[j] < new[j]
        BY <1>5, <1>6, <3>1, <3>2, <3>3
      <4> QED BY <1>6, <2>2, <3>1, <3>3, <4>1, RangeBoxes DEF InOrigin
    <3>4. CASE c[axis] >= pos + len
      <4> DEFINE x == [c EXCEPT ![axis] = @ + (-len)]
      <4>1. /\ x \in [Dims -> Nat] /\ x[axis] = c[axis] - len
            /\ \A j \in Dims \ {axis} : x[j] = c[j]
        BY <3>1, <3>2, <3>4
      <4> HIDE DEF x
      <4>2. \A j \in Dims : x[j] < new[j]
        BY <1>6, <3>1, <3>2, <4>1
      <4>3. x \in Box(Origin, new)
        BY <1>6, <4>1, <4>2, RangeBoxes DEF InOrigin
      <4> QED BY <2>2, <4>3 DEF x
    <3> QED BY <3>2, <3>3, <3>4
  <2>5. job'.op = "delete" /\ job'.axis = axis /\ job'.pos = pos /\ job'.len = len
    BY <1>5
  <2>6. ~(Refused')
    BY <1>5, <1>10 DEF Refused
  <2>7. /\ \A c : IF c[job'.axis] < job'.pos THEN Gap(c, axis, pos, len) = c
                  ELSE Gap(c, axis, pos, len) = Along(c, job.len)'
        /\ \A c : Along(c, -job.len)' = [c EXCEPT ![axis] = @ + (-len)]
    BY <2>5 DEF Gap, Along
  <2> QED BY <2>3, <2>4, <2>5, <2>6, <2>7 DEF DeleteCloses
<1> QED BY <1>9, <1>10

-----------------------------------------------------------------------------
(* Resizing at the end. *)

\* The greatest coordinate of the items of a box.
LEMMA LastItem ==
    ASSUME NEW z \in [Dims -> Nat], ~IsEmpty(z), NEW i \in Dims
    PROVE  1 + Max({c[i] : c \in Box(Origin, z)}) = z[i]
<1> DEFINE B == Box(Origin, z)
           S == {c[i] : c \in B}
           last == [j \in Dims |-> z[j] - 1]
<1>1. \A c : c \in B <=> c \in [Dims -> Nat] /\ \A j \in Dims : c[j] < z[j]
  BY RangeBoxes DEF InOrigin
<1>2. \A j \in Dims : z[j] \in Nat /\ z[j] # 0
  BY DEF IsEmpty
<1>3. last \in [Dims -> Nat] /\ \A j \in Dims : last[j] = z[j] - 1 /\ last[j] < z[j]
  BY <1>2
<1> HIDE DEF B, last
<1>4. last \in B
  BY <1>1, <1>3
<1>5. z[i] - 1 \in S
  BY <1>3, <1>4
<1>6. \A x \in S : x \in Nat /\ z[i] - 1 >= x
  <2> SUFFICES ASSUME NEW c \in B PROVE c[i] \in Nat /\ z[i] - 1 >= c[i]
    OBVIOUS
  <2>1. c[i] \in Nat /\ c[i] < z[i]
    BY <1>1
  <2> QED BY <1>2, <2>1
<1> DEFINE m == Max(S)
<1> HIDE DEF S
<1>7. m \in S /\ \A x \in S : m >= x
  BY <1>5, <1>6 DEF Max
<1>8. m = z[i] - 1
  BY <1>2, <1>5, <1>6, <1>7
<1> HIDE DEF m
<1>9. 1 + m = z[i]
  BY <1>2, <1>8
<1> QED BY <1>9 DEF m, S, B

\* One call of resize.
LEMMA ResizeStep ==
    ASSUME ArraySound, Resize
    PROVE  ResizeKeeps'
<1>1. before' = Items /\ \E new \in Shapes : Resizing(new)
  BY ResizeCallFacts
<1>2. PICK new \in Shapes : Resizing(new)
  BY <1>1
<1> DEFINE start == AtTheEnd(new)
           low == Lesser(new, shape)
           chunks == ChunksAfter(new, start)
<1>3. Stored /\ WellFormed /\ shape \in [Dims -> Nat] /\ new \in [Dims -> Nat]
  BY SoundFacts, ShapesAssumption DEF ArraySound, WellFormed
<1>4. /\ start \in [Dims -> Nat]
      /\ \A j \in Dims : start[j] = IF new[j] <= shape[j] THEN new[j] ELSE shape[j]
      /\ Accepted(new, start) => CanResize(new, start)
      /\ Resized(new, start)
      /\ job'.op = "resize" /\ job'.code = Answer(new, start)
  BY <1>2 DEF Resizing, Note
<1>5. low = start
  BY DEF AtTheEnd
<1> HIDE DEF start, chunks, low
<1>6. /\ DOMAIN Items = Box(Origin, shape)
      /\ \A c \in DOMAIN Items : Items[c] = Item(c)
  BY <1>3, ItemsFacts
<1>7. CASE Answer(new, start) # "SUCCEED"
  BY <1>4, <1>7 DEF ResizeKeeps, Refused
<1>8. CASE Answer(new, start) = "SUCCEED"
  <2>1. Resizable(new, start) /\ ~IsEmpty(shape)
    BY <1>4, <1>8 DEF Answer, Resizable
  <2>2. /\ DOMAIN Items' = Box(Origin, new)
        /\ \A c \in DOMAIN Items' : Items'[c] = ItemIn(new, chunks, c)
    BY <1>4, <1>8, ResizedItems DEF chunks
  <2>3. OldShape' = shape
    <3>1. ASSUME NEW j \in Dims
          PROVE  OldShape'[j] = shape[j]
      <4>1. 1 + Max({c[j] : c \in DOMAIN before'}) = shape[j]
        BY <1>1, <1>3, <1>6, <2>1, LastItem
      <4>2. before' # << >>
        <5>1. Origin \in [Dims -> Nat] /\ \A i \in Dims : Origin[i] < shape[i]
          BY <1>3, <2>1 DEF Origin, IsEmpty
        <5>2. Origin \in DOMAIN before'
          BY <1>1, <1>3, <1>6, <5>1, RangeBoxes DEF InOrigin
        <5> QED BY <5>2, NoJobFacts
      <4> QED BY <4>1, <4>2 DEF OldShape
    <3>2. OldShape' = [j \in Dims |-> OldShape'[j]]
      BY DEF OldShape
    <3> QED BY <1>3, <3>1, <3>2
  <2>4. ASSUME NEW c \in DOMAIN Items'
        PROVE  c \in [Dims -> Nat] /\ \A j \in Dims : c[j] < new[j]
    <3>1. 1 \in Dims
      BY NDimAssumption DEF Dims
    <3> QED BY <1>3, <2>2, <3>1, RangeBoxes DEF InOrigin
  <2>5. ASSUME NEW c \in DOMAIN Items', c \in DOMAIN before'
        PROVE  Items'[c] = before'[c]
    <3>1. c \in [Dims -> Nat] /\ \A j \in Dims : c[j] < new[j] /\ c[j] < shape[j]
      <4>1. 1 \in Dims
        BY NDimAssumption DEF Dims
      <4> QED BY <1>1, <1>3, <1>6, <2>4, <2>5, <4>1, RangeBoxes DEF InOrigin
    <3>2. ASSUME NEW j \in Dims
          PROVE  MovedDim(ChunkShape[j], shape[j], new[j], start[j], c[j], c[j])
      <4>1. /\ ChunkShape[j] \in Nat \ {0} /\ shape[j] \in Nat /\ new[j] \in Nat
            /\ start[j] \in Nat /\ c[j] \in Nat /\ c[j] < start[j]
        BY <1>3, <1>4, <3>1, ChunkShapeAssumption
      <4> QED BY <4>1, BeforeDim
    <3>3. ItemIn(new, chunks, c) = Item(c)
      BY <1>3, <2>1, <3>1, <3>2, MovedItem DEF chunks
    <3> QED BY <1>1, <1>6, <2>2, <2>5, <3>3
  <2>6. ASSUME NEW c \in DOMAIN Items', NEW j \in Dims,
               (c[j] \div ChunkShape[j]) * ChunkShape[j] >= shape[j]
        PROVE  Items'[c] = Zero
    <3> DEFINE s == ChunkShape[j]
               h == c[j] \div ChunkShape[j]
               m == ChunkShape[j] * (c[j] \div ChunkShape[j])
    <3>1. c \in [Dims -> Nat] /\ c[j] \in Nat /\ c[j] < new[j] /\ shape[j] \in Nat /\ new[j] \in Nat
      BY <1>3, <2>4
    <3>2. m <= c[j] /\ h \in Nat /\ s \in Nat \ {0} /\ m \in Nat
      <4> DEFINE x == c[j]
      <4>1. x \in Nat /\ s \in Nat \ {0} /\ 0 \in Nat
        BY <3>1, ChunkShapeAssumption
      <4> HIDE DEF x, s
      <4>2. s * (x \div s) <= x /\ x \div s \in Nat
        BY <4>1, PlaceDim
      <4>3. s * (x \div s) \in Nat
        BY <4>1, <4>2
      <4> QED BY <4>1, <4>2, <4>3 DEF x, s
    <3>3. m = h * s
      BY <3>2
    <3>4. m >= shape[j]
      BY <2>6, <3>3
    <3> HIDE DEF s, h, m
    <3>5. start[j] = shape[j] /\ m >= start[j] /\ m < start[j] + (new[j] - start[j])
      BY <1>4, <3>1, <3>2, <3>4
    <3>6. Covers(start, Length(new, low), ChunkAt(c))
      <4>1. ChunkShape[j] * ChunkAt(c)[j] = m /\ Length(new, low)[j] = new[j] - start[j]
        BY <1>5 DEF ChunkAt, Length, m
      <4> QED BY <3>5, <4>1 DEF Covers
    <3>7. ItemIn(new, chunks, c) = Zero
      BY <1>3, <2>1, <2>4, <3>6, NewItem DEF chunks, low
    <3> QED BY <2>2, <3>7
  <2> QED BY <2>3, <2>5, <2>6 DEF ResizeKeeps
<1> QED BY <1>7, <1>8

\* What is so after a call that only resizes stays so until the next call.
LEMMA OtherCalls ==
    ASSUME ArraySound, ArraySound', OverAtOnce, DeleteCloses, ResizeKeeps, [ArrayNext]_allVars
    PROVE  DeleteCloses' /\ ResizeKeeps'
<1>1. CASE job'.op \notin {"delete", "resize"}
  BY <1>1 DEF DeleteCloses, ResizeKeeps
<1>2. CASE Delete
  <2>1. job'.op = "delete"
    BY <1>2, DeleteFacts DEF Deleting, Note
  <2>2. DeleteCloses'
    BY <1>2, DeleteStep
  <2> QED BY <2>1, <2>2 DEF ResizeKeeps
<1>3. CASE Resize
  <2>1. job'.op = "resize"
    BY <1>3, ResizeCallFacts DEF Resizing, Note
  <2>2. ResizeKeeps'
    BY <1>3, ResizeStep
  <2> QED BY <2>1, <2>2 DEF DeleteCloses
<1>4. CASE (SliceStep \/ ChunkFails) /\ UNCHANGED <<job, before>>
  <2>1. pc \in {"getting", "setting"} /\ job' = job
    BY <1>4 DEF SliceStep, ChunkFails, SkipChunk, SetChunk, GetChunk, SliceEnd
  <2>2. job'.op \notin {"delete", "resize"}
    BY <2>1 DEF OverAtOnce
  <2> QED BY <1>1, <2>2
<1>5. CASE UNCHANGED allVars
  <2>1. UNCHANGED vars /\ UNCHANGED <<job, before>>
    BY <1>5 DEF allVars
  <2>2. UNCHANGED <<shape, sc, pc, job, before>> /\ Items' = Items
    BY <2>1, SameItems DEF vars
  <2>3. DeleteCloses' <=> DeleteCloses
    BY <2>2 DEF DeleteCloses, Along, Refused
  <2>4. ResizeKeeps' <=> ResizeKeeps
    BY <2>2 DEF ResizeKeeps, OldShape, Refused
  <2> QED BY <2>3, <2>4
<1>6. CASE Insert
  <2>1. PICK axis \in Dims, pos \in Nat, len \in Nat :
          \/ \E start : Inserting(axis, pos, len, start)
          \/ Note("insert", axis, pos, len, "INVALID_ARGUMENT")
    BY <1>6, InsertFacts
  <2>2. job'.op = "insert"
    BY <2>1 DEF Inserting, Note
  <2> QED BY <1>1, <2>2
<1>7. Zeros \/ Full \/ FromBuffer \/ ToBuffer \/ NoSuchAxis => job' = NoJob
  BY DEF Zeros, Full, FromBuffer, ToBuffer, NoSuchAxis, Create
<1>8. Slicing => \/ job' = NoJob
                 \/ (SliceStep \/ ChunkFails) /\ UNCHANGED <<job, before>>
  BY DEF Slicing
<1>9. \/ Zeros \/ Full \/ FromBuffer \/ ToBuffer
      \/ Insert \/ Delete \/ Resize \/ NoSuchAxis \/ Slicing
      \/ UNCHANGED allVars
  BY DEF ArrayNext
<1>10. job' = NoJob => job'.op \notin {"delete", "resize"}
  BY NoJobFacts
<1> QED BY <1>1, <1>2, <1>3, <1>4, <1>5, <1>6, <1>7, <1>8, <1>9, <1>10

\* All of it together.
LEMMA AlwaysOver == ArraySpec => [](OverAtOnce /\ DeleteCloses /\ ResizeKeeps)
<1>1. ArrayInit => InsertPass /\ OverAtOnce /\ DeleteCloses /\ ResizeKeeps
  BY NoJobFacts DEF ArrayInit, InsertPass, OverAtOnce, DeleteCloses, ResizeKeeps
<1>2. ArraySound /\ ArraySound' /\ InsertPass /\ OverAtOnce /\ [ArrayNext]_allVars
        => (InsertPass /\ OverAtOnce)'
  BY InsertStep
<1>3. ArraySound /\ ArraySound' /\ OverAtOnce /\ DeleteCloses /\ ResizeKeeps /\ [ArrayNext]_allVars
        => (DeleteCloses /\ ResizeKeeps)'
  BY OtherCalls
<1> QED BY <1>1, <1>2, <1>3, AlwaysArraySound, PTL DEF ArraySpec

\* delete takes out the items of its range and joins those on both sides of it, and a
\* deletion that is refused does nothing, or has emptied the array (caterva.c:1482-1508).
THEOREM DeleteCorrect == ArraySpec => []DeleteCloses
BY AlwaysOver, PTL

\* resize keeps the items both shapes have, and the items of chunks it adds are zero
\* (caterva.c:1377-1421).
THEOREM ResizeCorrect == ArraySpec => []ResizeKeeps
BY AlwaysOver, PTL
=============================================================================
