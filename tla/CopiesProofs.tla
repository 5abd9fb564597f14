---------------------------- MODULE CopiesProofs ----------------------------
(***************************************************************************)
(* Proofs about module Copies: that no array is ever more than its grid    *)
(* holds, and that both ways of copying, in one go and by slices, give what*)
(* was to be copied, or a beginning of it.                                 *)
(***************************************************************************)
EXTENDS Copies, MultidimProofs

-----------------------------------------------------------------------------
(* The inductive invariant. *)

\* The first item of chunk k of an array, and what a copy by slices puts at place p of
\* that chunk.
FirstOf(a, k) ==
    [j \in Dims |-> UnidimToMultidim(ChunkGrid(a.shape, a.part.chunk), k)[j] * a.part.chunk[j]]
Sliced(a, src, start, k, p) ==
    LET c == Plus(FirstOf(a, k), p)
    IN  IF \A j \in Dims : c[j] < a.shape[j] /\ c[j] < FirstOf(a, k)[j] + a.part.chunk[j]
        THEN ItemAt(src, Plus(c, start)) ELSE Zero

\* The array t that job j makes of s is to have a slice that lies inside s.
Related(j, s, t) ==
    /\ IsArray(s) /\ IsArray(t)
    /\ j.op \in {"copy", "slice"}
    /\ t.part = j.part /\ t.meta = j.meta
    /\ j.start \in [Dims -> Nat]
    /\ \A d \in Dims : j.start[d] + t.shape[d] <= s.shape[d]
    /\ j.items = ItemsFrom(s, j.start, t.shape)
    /\ j.op = "copy" => /\ j.part # s.part /\ j.vl = s.vl
                        /\ Len(t.vl) <= Len(s.vl)
                        /\ \A i \in 1..Len(t.vl) : t.vl[i] = s.vl[i]

\* The first n chunks of t are slices of s, whose chunks for them are there; the others
\* are zero.  Or t has no chunks at all.
Progress(start, n, s, t) ==
    /\ t.chunks = << >> \/ Len(t.chunks) = NumChunks(t.part, t.shape)
    /\ n <= Len(t.chunks)
    /\ \A k \in 1..Len(t.chunks) : \A p \in ChunkBox(t.part) :
          t.chunks[k][p] = IF k <= n THEN Sliced(t, s, start, k - 1, p) ELSE Zero
    /\ \A c \in Box(Origin, t.shape) :
          ChunkOf(t, c) < n => ChunkOf(s, Plus(start, c)) < Len(s.chunks)

\* An array is being made by slices of another one.
Making ==
    /\ job.op \in {"copy", "slice"} => job.dst \in Places
    /\ pc # "idle" =>
        /\ job.src \in Places /\ job.dst \in Places /\ job.src # job.dst
        /\ Related(job, store[job.src], Target)
        /\ Progress(job.start, cur, store[job.src], Target)
        /\ pc = "vlmeta" => job.op = "copy" /\ cur = Len(Target.chunks)

\* StoppedIsPrefix, whatever the call returned: the process may end after it succeeded.
Prefix ==
    job.op \in {"copy", "slice"} /\ store[job.dst] # None /\ cur > 0
    => \A c \in DOMAIN job.items :
           ItemAt(Target, c) = IF ChunkOf(Target, c) < cur THEN job.items[c] ELSE Zero

-----------------------------------------------------------------------------
(* Arrays. *)

\* What an array consists of.
LEMMA ArrayFacts ==
    ASSUME NEW a, IsArray(a)
    PROVE  /\ a.part \in Parts
           /\ a.part.chunk \in [Dims -> Nat \ {0}] /\ a.part.block \in [Dims -> Nat \ {0}]
           /\ a.shape \in [Dims -> Nat]
           /\ a.chunks \in Seq([ChunkBox(a.part) -> Values])
           /\ a.meta \in Seq(Contents) /\ a.vl \in Seq(Contents)
           /\ Len(a.chunks) <= NumChunks(a.part, a.shape)
           /\ a # None
<1>1. PICK part \in Parts : a \in ArraysOf(part)
  BY DEF IsArray
<1>2. a.part = part
  BY <1>1 DEF ArraysOf
<1>3. a # None
  BY NoneAssumption
<1> QED BY <1>1, <1>2, <1>3, PartsAssumption DEF ArraysOf

\* What makes an array.
LEMMA ArrayMade ==
    ASSUME NEW part \in Parts, NEW shape \in [Dims -> Nat],
           NEW chunks \in Seq([ChunkBox(part) -> Values]),
           NEW meta \in Seq(Contents), NEW vl \in Seq(Contents),
           Len(chunks) <= NumChunks(part, shape)
    PROVE  IsArray([part |-> part, shape |-> shape, meta |-> meta, vl |-> vl,
                    chunks |-> chunks])
BY DEF IsArray, ArraysOf

\* Arrays with other chunks or metalayers.
LEMMA ArrayChanged ==
    ASSUME NEW a, IsArray(a)
    PROVE  /\ \A c \in Seq([ChunkBox(a.part) -> Values]) :
                Len(c) <= NumChunks(a.part, a.shape) => IsArray([a EXCEPT !.chunks = c])
           /\ \A v \in Seq(Contents) : IsArray([a EXCEPT !.vl = v])
           /\ \A m \in Seq(Contents) : IsArray([a EXCEPT !.meta = m])
<1>1. PICK part \in Parts : a \in ArraysOf(part)
  BY DEF IsArray
<1>2. a.part = part
  BY <1>1 DEF ArraysOf
<1> QED BY <1>1, <1>2 DEF IsArray, ArraysOf

\* Arrays are records with just these fields.
LEMMA ArrayExcept ==
    ASSUME NEW a, IsArray(a), NEW c
    PROVE  /\ [a EXCEPT !.chunks = c].chunks = c /\ [a EXCEPT !.chunks = c].part = a.part
           /\ [a EXCEPT !.chunks = c].shape = a.shape /\ [a EXCEPT !.chunks = c].meta = a.meta
           /\ [a EXCEPT !.chunks = c].vl = a.vl
           /\ [a EXCEPT !.vl = c].vl = c /\ [a EXCEPT !.vl = c].part = a.part
           /\ [a EXCEPT !.vl = c].shape = a.shape /\ [a EXCEPT !.vl = c].meta = a.meta
           /\ [a EXCEPT !.vl = c].chunks = a.chunks
           /\ [a EXCEPT !.meta = c].meta = c
<1>1. PICK part \in Parts : a \in ArraysOf(part)
  BY DEF IsArray
<1> QED BY <1>1 DEF ArraysOf

\* The count of the chunks of an array is a natural number.
LEMMA NumChunksNat ==
    ASSUME NEW part \in Parts, NEW shape \in [Dims -> Nat]
    PROVE  NumChunks(part, shape) \in Nat
BY PartsAssumption, ChunkCountType DEF NumChunks

\* An item of an array: its chunk is in the grid, its place in the chunk, and it is one
\* of the values when the chunk is there.
LEMMA ItemFacts ==
    ASSUME NEW a, IsArray(a), NEW c \in Box(Origin, a.shape)
    PROVE  /\ c \in [Dims -> Nat] /\ \A j \in Dims : c[j] < a.shape[j]
           /\ ChunkOf(a, c) \in 0..NumChunks(a.part, a.shape) - 1
           /\ [j \in Dims |-> c[j] % a.part.chunk[j]] \in ChunkBox(a.part)
           /\ ItemAt(a, c) = a.chunks[ChunkOf(a, c) + 1][[j \in Dims |-> c[j] % a.part.chunk[j]]]
           /\ ChunkOf(a, c) < Len(a.chunks) => ItemAt(a, c) \in Values
<1> DEFINE chunk == a.part.chunk
           p == [j \in Dims |-> c[j] % chunk[j]]
<1>1. /\ chunk \in [Dims -> Nat \ {0}] /\ a.part.block \in [Dims -> Nat \ {0}]
      /\ a.shape \in [Dims -> Nat] /\ a.part \in Parts
      /\ a.chunks \in Seq([ChunkBox(a.part) -> Values])
  BY ArrayFacts
<1>2. c \in [Dims -> Nat] /\ \A j \in Dims : c[j] < a.shape[j]
  <2>1. a.shape \in [Dims -> Int]
    BY <1>1
  <2> QED BY <2>1, OriginBox
<1>3. ChunkOf(a, c) \in 0..NumChunks(a.part, a.shape) - 1
  BY <1>1, <1>2, HoldingFacts DEF ChunkOf, NumChunks
<1>4. p \in ChunkBox(a.part)
  <2>1. \A j \in Dims : p[j] \in Nat /\ p[j] < chunk[j]
    <3>1. ASSUME NEW j \in Dims PROVE p[j] \in Nat /\ p[j] < chunk[j]
      <4>1. c[j] \in Nat /\ chunk[j] \in Nat \ {0} /\ p[j] = (c[j] % chunk[j])
        BY <1>1, <1>2
      <4> HIDE DEF p, chunk
      <4> QED BY <4>1, QuotientRest
    <3> QED BY <3>1
  <2>2. p = [j \in Dims |-> p[j]]
    OBVIOUS
  <2> HIDE DEF p
  <2>3. p \in [Dims -> Nat]
    BY <2>1, <2>2
  <2> QED BY <1>1, <2>1, <2>3, PaddedBox DEF ChunkBox
<1>5. ItemAt(a, c) = a.chunks[ChunkOf(a, c) + 1][p]
  BY DEF ItemAt, ItemHeld, ChunkOf
<1>6. ChunkOf(a, c) < Len(a.chunks) => ItemAt(a, c) \in Values
  <2> HIDE DEF p
  <2>1. ASSUME ChunkOf(a, c) < Len(a.chunks)
        PROVE  ItemAt(a, c) \in Values
    <3>1. NumChunks(a.part, a.shape) \in Nat
      BY <1>1, NumChunksNat
    <3>2. ChunkOf(a, c) + 1 \in 1..Len(a.chunks)
      BY <1>1, <1>3, <2>1, <3>1
    <3>3. a.chunks[ChunkOf(a, c) + 1] \in [ChunkBox(a.part) -> Values]
      BY <1>1, <3>2
    <3> QED BY <1>4, <1>5, <3>3
  <2> QED BY <2>1
<1> QED BY <1>2, <1>3, <1>4, <1>5, <1>6

-----------------------------------------------------------------------------
(* Chunks made of slices. *)

\* The first item of a chunk is inside the array.
LEMMA FirstFacts ==
    ASSUME NEW a, IsArray(a), NEW k \in 0..NumChunks(a.part, a.shape) - 1
    PROVE  FirstOf(a, k) \in [Dims -> Nat] /\ \A j \in Dims : FirstOf(a, k)[j] < a.shape[j]
<1> DEFINE g == UnidimToMultidim(ChunkGrid(a.shape, a.part.chunk), k)
<1>1. a.part.chunk \in [Dims -> Nat \ {0}] /\ a.shape \in [Dims -> Nat] /\ a.part \in Parts
  BY ArrayFacts
<1>2. k \in 0..ChunkCount(a.shape, a.part.chunk) - 1
  BY DEF NumChunks
<1>3. /\ InBox(g, ChunkGrid(a.shape, a.part.chunk))
      /\ \A j \in Dims : a.part.chunk[j] * g[j] < a.shape[j]
  BY <1>1, <1>2, ChunkNumberFacts
<1>4. FirstOf(a, k) = [j \in Dims |-> g[j] * a.part.chunk[j]]
  BY DEF FirstOf
<1> HIDE DEF g
<1>5. ASSUME NEW j \in Dims
      PROVE  g[j] * a.part.chunk[j] \in Nat /\ g[j] * a.part.chunk[j] < a.shape[j]
  <2>1. g[j] \in Nat /\ a.part.chunk[j] \in Nat
    BY <1>1, <1>3 DEF InBox
  <2>2. g[j] * a.part.chunk[j] = a.part.chunk[j] * g[j]
    BY <2>1
  <2>3. g[j] * a.part.chunk[j] \in Nat
    BY <2>1
  <2> QED BY <1>3, <2>2, <2>3
<1> QED BY <1>4, <1>5

\* The place of an item in its chunk, and the first item of that chunk.
LEMMA FirstOfHolding ==
    ASSUME NEW a, IsArray(a), NEW c \in Box(Origin, a.shape), NEW j \in Dims
    PROVE  /\ FirstOf(a, ChunkOf(a, c))[j] \in Nat
           /\ FirstOf(a, ChunkOf(a, c))[j] + (c[j] % a.part.chunk[j]) = c[j]
           /\ (c[j] % a.part.chunk[j]) \in 0..a.part.chunk[j] - 1
           /\ FirstOf(a, ChunkOf(a, c))[j] <= c[j]
           /\ c[j] < FirstOf(a, ChunkOf(a, c))[j] + a.part.chunk[j]
<1> DEFINE chunk == a.part.chunk
<1>1. chunk \in [Dims -> Nat \ {0}] /\ a.shape \in [Dims -> Nat]
  BY ArrayFacts
<1>2. c \in [Dims -> Nat] /\ \A d \in Dims : c[d] < a.shape[d]
  BY ItemFacts
<1>3. UnidimToMultidim(ChunkGrid(a.shape, chunk), ChunkOf(a, c)) = ChunkCoords(chunk, c)
  BY <1>1, <1>2, HoldingFacts DEF ChunkOf
<1>4. FirstOf(a, ChunkOf(a, c))[j] = (c[j] \div chunk[j]) * chunk[j]
  BY <1>3 DEF FirstOf, ChunkCoords
<1>5. c[j] \in Nat /\ chunk[j] \in Nat \ {0}
  BY <1>1, <1>2
<1> HIDE DEF chunk
<1> DEFINE q == c[j] \div chunk[j]
           r == (c[j] % chunk[j])
           f == q * chunk[j]
<1>6. q \in Nat /\ r \in 0..chunk[j] - 1 /\ c[j] = f + r
  BY <1>5, QuotientRest
<1>7. f \in Nat
  BY <1>5, <1>6
<1>8. FirstOf(a, ChunkOf(a, c))[j] = f
  BY <1>4
<1> HIDE DEF q, f
<1>9. r \in Nat /\ r < chunk[j]
  BY <1>5, <1>6
<1> HIDE DEF r
<1>10. f + r = c[j] /\ f <= c[j] /\ c[j] < f + chunk[j]
  BY <1>5, <1>6, <1>7, <1>9
<1> QED BY <1>6, <1>7, <1>8, <1>10 DEF r, chunk

\* At the place of an item, a chunk made of a slice has the item of the source.
LEMMA SlicedItem ==
    ASSUME NEW a, IsArray(a), NEW s, NEW start \in [Dims -> Nat], NEW c \in Box(Origin, a.shape)
    PROVE  Sliced(a, s, start, ChunkOf(a, c), [j \in Dims |-> c[j] % a.part.chunk[j]])
             = ItemAt(s, Plus(start, c))
<1> DEFINE p == [j \in Dims |-> c[j] % a.part.chunk[j]]
           f == FirstOf(a, ChunkOf(a, c))
<1>1. c \in [Dims -> Nat] /\ \A j \in Dims : c[j] < a.shape[j]
  BY ItemFacts
<1>2. \A j \in Dims : f[j] + p[j] = c[j] /\ c[j] < f[j] + a.part.chunk[j]
  BY FirstOfHolding
<1>3. Plus(f, p) = [j \in Dims |-> f[j] + p[j]]
  BY DEF Plus
<1> HIDE DEF f, p
<1>4. Plus(f, p) = c
  BY <1>1, <1>2, <1>3
<1>5. Plus(c, start) = Plus(start, c)
  BY <1>1 DEF Plus
<1>6. Sliced(a, s, start, ChunkOf(a, c), p) = ItemAt(s, Plus(c, start))
  BY <1>1, <1>2, <1>4 DEF Sliced, f
<1> QED BY <1>5, <1>6 DEF p

\* Where it has no item it is zero.
LEMMA SlicedPadding ==
    ASSUME NEW a, IsArray(a), NEW s, NEW start, NEW k \in 0..NumChunks(a.part, a.shape) - 1,
           NEW p \in ChunkBox(a.part), IsPaddingOf(a.shape, a.part.chunk, k, p)
    PROVE  Sliced(a, s, start, k, p) = Zero
<1> DEFINE f == FirstOf(a, k)
           chunk == a.part.chunk
<1>1. /\ chunk \in [Dims -> Nat \ {0}] /\ a.part.block \in [Dims -> Nat \ {0}]
      /\ a.shape \in [Dims -> Nat]
  BY ArrayFacts
<1>2. p \in [Dims -> Nat]
  BY <1>1, PaddedBox DEF ChunkBox
<1>3. f \in [Dims -> Nat]
  BY FirstFacts
<1>4. PICK j \in Dims : p[j] >= chunk[j] \/ f[j] + p[j] >= a.shape[j]
  BY DEF IsPaddingOf, FirstOf
<1>5. Plus(f, p)[j] = f[j] + p[j]
  BY DEF Plus
<1> HIDE DEF f
<1>6. f[j] \in Nat /\ p[j] \in Nat /\ chunk[j] \in Nat /\ a.shape[j] \in Nat
  BY <1>1, <1>2, <1>3
<1>7. ~(Plus(f, p)[j] < a.shape[j] /\ Plus(f, p)[j] < f[j] + chunk[j])
  BY <1>4, <1>5, <1>6
<1> QED BY <1>7 DEF Sliced, f

\* The box of a slice and what lies at its coordinates in the source.
LEMMA SliceBoxFacts ==
    ASSUME NEW start \in [Dims -> Nat], NEW shape \in [Dims -> Nat], NEW full \in [Dims -> Nat],
           \A j \in Dims : start[j] + shape[j] <= full[j]
    PROVE  /\ \A c \in Box(Origin, shape) :
                /\ c \in [Dims -> Nat] /\ \A j \in Dims : c[j] < shape[j]
                /\ Plus(start, c) \in Box(start, Plus(start, shape))
                /\ Plus(start, c) \in Box(Origin, full)
           /\ \A d \in Box(start, Plus(start, shape)) :
                Minus(d, start) \in Box(Origin, shape) /\ Plus(start, Minus(d, start)) = d
<1>1. /\ shape \in [Dims -> Int] /\ full \in [Dims -> Int] /\ start \in [Dims -> Int]
      /\ Plus(start, shape) \in [Dims -> Int]
      /\ \A j \in Dims : /\ start[j] \in Nat /\ shape[j] \in Nat /\ full[j] \in Nat
                         /\ Plus(start, shape)[j] = start[j] + shape[j]
  BY DEF Plus
<1>2. ASSUME NEW c \in Box(Origin, shape)
      PROVE  /\ c \in [Dims -> Nat] /\ \A j \in Dims : c[j] < shape[j]
             /\ Plus(start, c) \in Box(start, Plus(start, shape))
             /\ Plus(start, c) \in Box(Origin, full)
  <2>1. c \in [Dims -> Nat] /\ \A j \in Dims : c[j] < shape[j]
    BY <1>1, OriginBox
  <2>2. Plus(start, c) \in [Dims -> Nat] /\ \A j \in Dims : Plus(start, c)[j] = start[j] + c[j]
    BY <1>1, <2>1 DEF Plus
  <2>3. \A j \in Dims : /\ start[j] <= Plus(start, c)[j]
                        /\ Plus(start, c)[j] < Plus(start, shape)[j]
                        /\ Plus(start, c)[j] < full[j]
    BY <1>1, <2>1, <2>2
  <2>4. Plus(start, c) \in Box(Origin, full)
    BY <1>1, <2>2, <2>3, OriginBox
  <2>5. Plus(start, c) \in [Dims -> Int]
    BY <2>2
  <2>6. Plus(start, c) \in Box(start, Plus(start, shape))
    BY <1>1, <2>3, <2>5, BoxFacts
  <2> QED BY <2>1, <2>4, <2>6
<1>3. ASSUME NEW d \in Box(start, Plus(start, shape))
      PROVE  Minus(d, start) \in Box(Origin, shape) /\ Plus(start, Minus(d, start)) = d
  <2>1. /\ d \in [Dims -> Int]
        /\ \A j \in Dims : start[j] <= d[j] /\ d[j] < Plus(start, shape)[j]
    BY <1>1, BoxFacts
  <2>2. /\ Minus(d, start) \in [Dims -> Nat]
        /\ \A j \in Dims : Minus(d, start)[j] < shape[j]
    BY <1>1, <2>1 DEF Minus
  <2>3. Plus(start, Minus(d, start)) = d
    BY <1>1, <2>1 DEF Minus, Plus
  <2> QED BY <1>1, <2>2, <2>3, OriginBox
<1> QED BY <1>2, <1>3

\* What an array that is being made has so far: the items of the chunks passed are those
\* of the source, the others zero.
LEMMA MadeItem ==
    ASSUME NEW j, NEW n \in Nat, NEW s, NEW t, Related(j, s, t), Progress(j.start, n, s, t),
           t.chunks # << >>, NEW c \in Box(Origin, t.shape)
    PROVE  /\ ItemAt(t, c) = IF ChunkOf(t, c) < n THEN ItemAt(s, Plus(j.start, c)) ELSE Zero
           /\ ChunkOf(t, c) \in 0..Len(t.chunks) - 1
<1> DEFINE p == [d \in Dims |-> c[d] % t.part.chunk[d]]
           k == ChunkOf(t, c) + 1
<1>1. IsArray(t) /\ j.start \in [Dims -> Nat]
  BY DEF Related
<1>2. /\ ChunkOf(t, c) \in 0..NumChunks(t.part, t.shape) - 1 /\ p \in ChunkBox(t.part)
      /\ ItemAt(t, c) = t.chunks[k][p]
  BY <1>1, ItemFacts
<1>3. /\ Len(t.chunks) = NumChunks(t.part, t.shape)
      /\ \A i \in 1..Len(t.chunks) : \A q \in ChunkBox(t.part) :
            t.chunks[i][q] = IF i <= n THEN Sliced(t, s, j.start, i - 1, q) ELSE Zero
  BY DEF Progress
<1>4. Sliced(t, s, j.start, ChunkOf(t, c), p) = ItemAt(s, Plus(j.start, c))
  BY <1>1, SlicedItem
<1>5. NumChunks(t.part, t.shape) \in Nat
  BY <1>1, ArrayFacts, NumChunksNat
<1> HIDE DEF p
<1>6. k \in 1..Len(t.chunks) /\ k - 1 = ChunkOf(t, c) /\ (k <= n <=> ChunkOf(t, c) < n)
  BY <1>2, <1>3, <1>5
<1>7. t.chunks[k][p] = IF k <= n THEN Sliced(t, s, j.start, k - 1, p) ELSE Zero
  BY <1>2, <1>3, <1>6
<1> QED BY <1>2, <1>3, <1>4, <1>6, <1>7

\* The items of a slice: they are all there, or the slice is not readable.
LEMMA ItemsOfSlice ==
    ASSUME NEW j, NEW s, NEW t, Related(j, s, t)
    PROVE  \A c \in DOMAIN j.items :
              /\ c \in Box(Origin, t.shape) /\ j.items[c] = ItemAt(s, Plus(j.start, c))
<1>1. j.items = ItemsFrom(s, j.start, t.shape)
  BY DEF Related
<1>2. CASE IsReadable(s, j.start, t.shape)
  BY <1>1, <1>2 DEF ItemsFrom
<1>3. CASE ~IsReadable(s, j.start, t.shape)
  <2>1. j.items = << >>
    BY <1>1, <1>3 DEF ItemsFrom
  <2>2. DOMAIN << >> = {}
    OBVIOUS
  <2> QED BY <2>1, <2>2
<1> QED BY <1>2, <1>3

\* An array whose making is under way, or has stopped, is as StoppedIsPrefix says.
LEMMA MadeIsPrefix ==
    ASSUME NEW j, NEW n \in Nat, n > 0, NEW s, NEW t,
           Related(j, s, t), Progress(j.start, n, s, t)
    PROVE  \A c \in DOMAIN j.items :
              ItemAt(t, c) = IF ChunkOf(t, c) < n THEN j.items[c] ELSE Zero
<1>1. t.chunks # << >>
  <2>1. n <= Len(t.chunks)
    BY DEF Progress
  <2> QED BY <2>1
<1>2. ASSUME NEW c \in DOMAIN j.items
      PROVE  ItemAt(t, c) = IF ChunkOf(t, c) < n THEN j.items[c] ELSE Zero
  <2>1. c \in Box(Origin, t.shape) /\ j.items[c] = ItemAt(s, Plus(j.start, c))
    BY ItemsOfSlice
  <2> QED BY <1>1, <2>1, MadeItem
<1> QED BY <1>2

\* An array that is made has the items of the slice, or no chunks; what is behind its items
\* is zero.
LEMMA MadeIsWhole ==
    ASSUME NEW j, NEW n \in Nat, NEW s, NEW t,
           Related(j, s, t), Progress(j.start, n, s, t), n = Len(t.chunks)
    PROVE  /\ Items(t) = j.items \/ t.chunks = << >>
           /\ \A k \in DOMAIN t.chunks : \A p \in DOMAIN t.chunks[k] :
                IsPaddingOf(t.shape, t.part.chunk, k - 1, p) => t.chunks[k][p] = Zero
<1>1. /\ IsArray(s) /\ IsArray(t) /\ j.start \in [Dims -> Nat]
      /\ \A d \in Dims : j.start[d] + t.shape[d] <= s.shape[d]
      /\ j.items = ItemsFrom(s, j.start, t.shape)
  BY DEF Related
<1>2. /\ t.shape \in [Dims -> Nat] /\ s.shape \in [Dims -> Nat] /\ t.part \in Parts
      /\ t.chunks \in Seq([ChunkBox(t.part) -> Values])
  BY <1>1, ArrayFacts
<1>3. ASSUME t.chunks # << >>
      PROVE  Items(t) = j.items
  <2>1. ASSUME NEW c \in Box(Origin, t.shape)
        PROVE  /\ ChunkOf(t, c) < Len(t.chunks)
               /\ ItemAt(t, c) = ItemAt(s, Plus(j.start, c))
               /\ ChunkOf(s, Plus(j.start, c)) < Len(s.chunks)
    <3>1. /\ ItemAt(t, c) = IF ChunkOf(t, c) < n THEN ItemAt(s, Plus(j.start, c)) ELSE Zero
          /\ ChunkOf(t, c) \in 0..Len(t.chunks) - 1
      BY <1>3, MadeItem
    <3>2. ChunkOf(t, c) < n
      BY <3>1
    <3>3. ChunkOf(s, Plus(j.start, c)) < Len(s.chunks)
      BY <3>2 DEF Progress
    <3> QED BY <3>1, <3>2, <3>3
  <2>2. Origin \in [Dims -> Nat] /\ \A d \in Dims : Origin[d] + t.shape[d] <= t.shape[d]
    BY <1>2 DEF Origin
  <2>3. IsReadable(s, j.start, t.shape)
    <3>1. ASSUME NEW d \in Box(j.start, Plus(j.start, t.shape))
          PROVE  ChunkOf(s, d) < Len(s.chunks)
      <4>1. Minus(d, j.start) \in Box(Origin, t.shape) /\ Plus(j.start, Minus(d, j.start)) = d
        BY <1>1, <1>2, SliceBoxFacts
      <4> QED BY <2>1, <4>1
    <3> QED BY <3>1 DEF IsReadable
  <2>4. IsReadable(t, Origin, t.shape)
    <3>1. ASSUME NEW d \in Box(Origin, Plus(Origin, t.shape))
          PROVE  ChunkOf(t, d) < Len(t.chunks)
      <4>1. Plus(Origin, t.shape) = t.shape
        BY <1>2 DEF Plus, Origin
      <4> QED BY <2>1, <4>1
    <3> QED BY <3>1 DEF IsReadable
  <2>5. \A c \in Box(Origin, t.shape) : Plus(Origin, c) = c
    <3>1. ASSUME NEW c \in Box(Origin, t.shape) PROVE Plus(Origin, c) = c
      <4>1. c \in [Dims -> Nat]
        BY <1>1, ItemFacts
      <4> QED BY <4>1 DEF Plus, Origin
    <3> QED BY <3>1
  <2>6. /\ Items(t) = [c \in Box(Origin, t.shape) |-> ItemAt(t, Plus(Origin, c))]
        /\ j.items = [c \in Box(Origin, t.shape) |-> ItemAt(s, Plus(j.start, c))]
    BY <1>1, <2>3, <2>4 DEF Items, ItemsFrom
  <2> QED BY <2>1, <2>5, <2>6
<1>4. ASSUME NEW k \in DOMAIN t.chunks, NEW p \in DOMAIN t.chunks[k],
             IsPaddingOf(t.shape, t.part.chunk, k - 1, p)
      PROVE  t.chunks[k][p] = Zero
  <2>1. k \in 1..Len(t.chunks) /\ t.chunks[k] \in [ChunkBox(t.part) -> Values]
    BY <1>2
  <2>2. p \in ChunkBox(t.part) /\ t.chunks # << >>
    BY <2>1
  <2>3. Len(t.chunks) = NumChunks(t.part, t.shape)
    BY <2>2 DEF Progress
  <2>4. k - 1 \in 0..NumChunks(t.part, t.shape) - 1
    BY <2>1, <2>3
  <2>5. Sliced(t, s, j.start, k - 1, p) = Zero
    BY <1>1, <1>4, <2>2, <2>4, SlicedPadding
  <2> QED BY <2>1, <2>2, <2>5 DEF Progress
<1> QED BY <1>3, <1>4

-----------------------------------------------------------------------------
(* What is stored. *)

\* Something else at one place.
LEMMA StoreSet ==
    ASSUME NEW st, st = [l \in Places |-> st[l]], NEW d \in Places, NEW x,
           \A l \in Places : st[l] = None \/ IsArray(st[l]), x = None \/ IsArray(x)
    PROVE  LET new == [st EXCEPT ![d] = x]
           IN  /\ new = [l \in Places |-> new[l]]
               /\ new[d] = x
               /\ \A l \in Places : l # d => new[l] = st[l]
               /\ \A l \in Places : new[l] = None \/ IsArray(new[l])
OBVIOUS

\* A prefix of a sequence.
LEMMA PrefixFacts ==
    ASSUME NEW S, NEW q \in Seq(S), NEW r \in Prefixes(q)
    PROVE  r \in Seq(S) /\ Len(r) <= Len(q)
<1>1. PICK l \in 0..Len(q) : r = SubSeq(q, 1, l)
  BY DEF Prefixes
<1>2. r \in Seq(S) /\ Len(r) = l
  BY <1>1
<1> QED BY <1>1, <1>2

\* What a failed copy leaves is nothing, or an array with fewer chunks.
LEMMA RemainsFacts ==
    ASSUME NEW a, IsArray(a), NEW l, NEW r \in Remains(l, a)
    PROVE  r = None \/ IsArray(r)
<1>1. CASE r = None
  BY <1>1
<1>2. CASE r # None
  <2>1. PICK c \in Prefixes(a.chunks) : r = [a EXCEPT !.chunks = c, !.vl = << >>]
    BY <1>2 DEF Remains
  <2>2. PICK part \in Parts : a \in ArraysOf(part)
    BY DEF IsArray
  <2>3. a.part = part /\ a.chunks \in Seq([ChunkBox(part) -> Values])
        /\ Len(a.chunks) <= NumChunks(part, a.shape) /\ NumChunks(part, a.shape) \in Nat
    BY <2>2, ArrayFacts, NumChunksNat DEF ArraysOf
  <2>4. c \in Seq([ChunkBox(part) -> Values]) /\ Len(c) <= Len(a.chunks)
    BY <2>3, PrefixFacts
  <2>5. Len(c) \in Nat /\ Len(a.chunks) \in Nat
    BY <2>3, <2>4
  <2>6. Len(c) <= NumChunks(part, a.shape)
    BY <2>3, <2>4, <2>5
  <2>7. << >> \in Seq(Contents)
    OBVIOUS
  <2>8. r \in [part : {part}, shape : [Dims -> Nat], chunks : Seq([ChunkBox(part) -> Values]),
               meta : Seq(Contents), vl : Seq(Contents)]
        /\ r.chunks = c /\ r.shape = a.shape
    <3> HIDE DEF ChunkBox
    <3> QED BY <2>1, <2>2, <2>4, <2>7 DEF ArraysOf
  <2> QED BY <2>6, <2>8 DEF IsArray, ArraysOf
<1> QED BY <1>1, <1>2

\* A new array has all chunks of its grid, with zeros.
LEMMA EmptyFacts ==
    ASSUME NEW part \in Parts, NEW shape \in [Dims -> Nat], NEW meta \in Seq(Contents)
    PROVE  LET a == Empty(part, shape, meta)
           IN  /\ IsArray(a)
               /\ a.part = part /\ a.shape = shape /\ a.meta = meta /\ a.vl = << >>
               /\ Len(a.chunks) = NumChunks(part, shape)
               /\ \A k \in 1..Len(a.chunks) : \A p \in ChunkBox(part) : a.chunks[k][p] = Zero
<1> DEFINE n == NumChunks(part, shape)
           zeros == [p \in ChunkBox(part) |-> Zero]
           chunks == [k \in 1..n |-> zeros]
<1>1. n \in Nat
  BY NumChunksNat
<1>2. zeros \in [ChunkBox(part) -> Values] /\ \A p \in ChunkBox(part) : zeros[p] = Zero
  BY ZeroAssumption
<1> HIDE DEF n, zeros
<1>3. chunks \in Seq([ChunkBox(part) -> Values]) /\ Len(chunks) = n
  BY <1>1, <1>2
<1>4. \A k \in 1..n : chunks[k] = zeros
  OBVIOUS
<1>5. << >> \in Seq(Contents)
  OBVIOUS
<1>6. Empty(part, shape, meta) = [part |-> part, shape |-> shape, meta |-> meta, vl |-> << >>,
                                  chunks |-> chunks]
  BY DEF Empty, n, zeros
<1> HIDE DEF chunks
<1>7. IsArray(Empty(part, shape, meta))
  <2>1. Len(chunks) <= NumChunks(part, shape)
    BY <1>1, <1>3 DEF n
  <2> QED BY <1>3, <1>5, <1>6, <2>1, ArrayMade
<1> QED BY <1>1, <1>2, <1>3, <1>4, <1>6, <1>7 DEF n

\* An array without items has no chunks.
LEMMA NoItemsNoChunks ==
    ASSUME NEW part \in Parts, NEW shape \in [Dims -> Nat], ~HasItems(shape)
    PROVE  NumChunks(part, shape) = 0
<1> DEFINE grid == ChunkGrid(shape, part.chunk)
<1>1. part.chunk \in [Dims -> Nat \ {0}]
  BY PartsAssumption
<1>2. PICK j \in Dims : shape[j] = 0
  BY DEF HasItems
<1>3. /\ grid \in [Dims -> Nat] /\ NumChunks(part, shape) = Product(grid)
      /\ \A c \in Nat : c < grid[j] <=> part.chunk[j] * c < shape[j]
  BY <1>1, ChunkGridFacts, ChunkCountIsProduct DEF NumChunks
<1> HIDE DEF grid
<1>4. 0 < grid[j] <=> part.chunk[j] * 0 < 0
  BY <1>2, <1>3
<1>5. grid[j] = 0
  BY <1>1, <1>3, <1>4
<1> QED BY <1>3, <1>5, ProductZero

\* What job j is to make of s, and the arrays it may begin with.
Asks(j, s, part, shape, meta) ==
    /\ j.op \in {"copy", "slice"} /\ j.part = part /\ j.meta = meta
    /\ j.start \in [Dims -> Nat] /\ \A d \in Dims : j.start[d] + shape[d] <= s.shape[d]
    /\ j.items = ItemsFrom(s, j.start, shape)
    /\ j.op = "copy" => part # s.part /\ j.vl = s.vl
Begun(part, shape, meta) ==
    LET a == Empty(part, shape, meta) IN {a, [a EXCEPT !.chunks = << >>]}

\* An array that is about to be made by slices.
LEMMA BegunFacts ==
    ASSUME NEW s, IsArray(s), NEW part \in Parts, NEW shape \in [Dims -> Nat],
           NEW meta \in Seq(Contents), NEW j, Asks(j, s, part, shape, meta),
           NEW t \in Begun(part, shape, meta)
    PROVE  /\ IsArray(t) /\ t.vl = << >>
           /\ Related(j, s, t) /\ Progress(j.start, 0, s, t)
           /\ ~HasItems(shape) => t.chunks = << >>
<1> USE DEF Asks
<1> DEFINE a == Empty(part, shape, meta)
<1>1. /\ IsArray(a)
      /\ a.part = part /\ a.shape = shape /\ a.meta = meta /\ a.vl = << >>
      /\ Len(a.chunks) = NumChunks(part, shape)
      /\ \A k \in 1..Len(a.chunks) : \A p \in ChunkBox(part) : a.chunks[k][p] = Zero
  BY EmptyFacts
<1>2. a.chunks \in Seq([ChunkBox(part) -> Values])
  BY <1>1, ArrayFacts
<1> HIDE DEF a
<1> DEFINE bare == [a EXCEPT !.chunks = << >>]
<1>3. /\ bare.part = part /\ bare.shape = shape /\ bare.meta = meta /\ bare.vl = << >>
      /\ bare.chunks = << >>
  BY <1>1, ArrayExcept
<1>4. IsArray(bare)
  <2>1. << >> \in Seq([ChunkBox(part) -> Values]) /\ Len(<< >>) = 0
    OBVIOUS
  <2>2. Len(<< >>) <= NumChunks(part, shape)
    BY <2>1, NumChunksNat
  <2> QED BY <1>1, <2>1, <2>2, ArrayChanged
<1>5. t = a \/ t = bare
  BY DEF Begun, a
<1> HIDE DEF bare
<1>6. /\ IsArray(t) /\ t.part = part /\ t.shape = shape /\ t.meta = meta /\ t.vl = << >>
      /\ t.chunks = << >> \/ Len(t.chunks) = NumChunks(part, shape)
      /\ \A k \in 1..Len(t.chunks) : \A p \in ChunkBox(part) : t.chunks[k][p] = Zero
  <2>1. CASE t = a
    BY <1>1, <2>1
  <2>2. CASE t = bare
    <3>1. \A k \in 1..Len(<< >>) : FALSE
      OBVIOUS
    <3> QED BY <1>3, <1>4, <2>2, <3>1
  <2> QED BY <1>5, <2>1, <2>2
<1>7. Related(j, s, t)
  <2>1. Len(<< >>) = 0 /\ \A i \in 1..0 : FALSE
    OBVIOUS
  <2>2. Len(s.vl) \in Nat
    BY ArrayFacts
  <2> QED BY <1>6, <2>1, <2>2 DEF Related
<1>8. t.chunks \in Seq([ChunkBox(part) -> Values]) /\ Len(t.chunks) \in Nat
  <2>1. IsArray(t) => t.chunks \in Seq([ChunkBox(t.part) -> Values])
    BY ArrayFacts
  <2>2. t.chunks \in Seq([ChunkBox(part) -> Values])
    BY <1>6, <2>1
  <2> QED BY <2>2
<1>9. Progress(j.start, 0, s, t)
  <2>1. ASSUME NEW c \in Box(Origin, t.shape) PROVE ~(ChunkOf(t, c) < 0)
    <3>1. ChunkOf(t, c) \in 0..NumChunks(part, shape) - 1
      BY <1>6, ItemFacts
    <3>2. NumChunks(part, shape) \in Nat
      BY NumChunksNat
    <3> QED BY <3>1, <3>2
  <2>2. \A k \in 1..Len(t.chunks) : ~(k <= 0)
    BY <1>8
  <2> QED BY <1>6, <1>8, <2>1, <2>2 DEF Progress
<1>10. ~HasItems(shape) => t.chunks = << >>
  <2>1. ~HasItems(shape) => NumChunks(part, shape) = 0
    BY NoItemsNoChunks
  <2>2. Len(t.chunks) = 0 => t.chunks = << >>
    BY <1>8
  <2> QED BY <1>6, <2>1, <2>2
<1> QED BY <1>6, <1>7, <1>9, <1>10

-----------------------------------------------------------------------------
(* The beginning and the end of a copy by slices. *)

\* The properties of what a call that has succeeded made, and all of the invariant.
Results == CopyEqualsSource /\ SliceHasItems /\ PaddingOfCopy
Whole == TypeOK /\ Making /\ Prefix /\ Results

\* They say nothing of other calls.
LEMMA NoResult == ~(Succeeded("copy") \/ Succeeded("slice")) => Results
BY DEF Results, CopyEqualsSource, SliceHasItems, PaddingOfCopy

\* Nothing has stopped where no loop was entered.
LEMMA NoPrefix == cur = 0 \/ job.op \notin {"copy", "slice"} => Prefix
BY DEF Prefix

\* An array all chunks and metalayers of which were copied is what was to be made.
LEMMA MadeResult ==
    /\ cur \in Nat /\ cur = Len(Target.chunks)
    /\ Related(job, store[job.src], Target)
    /\ Progress(job.start, cur, store[job.src], Target)
    /\ job.op = "copy" => Len(Target.vl) = Len(store[job.src].vl)
    => Results
<1> SUFFICES ASSUME cur \in Nat, cur = Len(Target.chunks),
                    Related(job, store[job.src], Target),
                    Progress(job.start, cur, store[job.src], Target),
                    job.op = "copy" => Len(Target.vl) = Len(store[job.src].vl)
             PROVE  Results
  OBVIOUS
<1> DEFINE t == Target
           s == store[job.src]
<1>1. /\ Items(t) = job.items \/ t.chunks = << >>
      /\ \A k \in DOMAIN t.chunks : \A p \in DOMAIN t.chunks[k] :
           IsPaddingOf(t.shape, t.part.chunk, k - 1, p) => t.chunks[k][p] = Zero
  BY MadeIsWhole
<1>2. /\ IsArray(s) /\ IsArray(t) /\ t.part = job.part /\ t.meta = job.meta
      /\ job.op = "copy" => /\ job.part # s.part /\ job.vl = s.vl
                            /\ \A i \in 1..Len(t.vl) : t.vl[i] = s.vl[i]
  BY DEF Related
<1>3. job.op = "copy" => t.vl = job.vl
  <2>1. s.vl \in Seq(Contents) /\ t.vl \in Seq(Contents)
    BY <1>2, ArrayFacts
  <2>2. job.op = "copy" => Len(t.vl) = Len(s.vl)
    OBVIOUS
  <2> HIDE DEF s, t
  <2> QED BY <1>2, <2>1, <2>2
<1>4. t = store[job.dst]
  BY DEF Target
<1> HIDE DEF t
<1>5. CopyEqualsSource
  BY <1>1, <1>2, <1>3, <1>4 DEF CopyEqualsSource, Holds, Succeeded
<1>6. SliceHasItems
  BY <1>1, <1>4 DEF SliceHasItems, Holds
<1>7. PaddingOfCopy
  <2>1. ~(job.op = "copy" /\ store[job.src].part = t.part)
    BY <1>2
  <2> QED BY <1>1, <1>4, <2>1 DEF PaddingOfCopy
<1> QED BY <1>5, <1>6, <1>7 DEF Results

\* The chunks it got so far are right at any time.
LEMMA MadePrefix ==
    cur \in Nat /\ Related(job, store[job.src], Target)
        /\ Progress(job.start, cur, store[job.src], Target)
    => Prefix
BY MadeIsPrefix DEF Prefix

\* A call that is to make an array by slices creates it, or fails to.
LEMMA BeginStep ==
    ASSUME Whole, pc = "idle", left' \in 0..MaxCalls,
           NEW s \in open, NEW d \in Places, NEW part \in Parts,
           NEW start \in [Dims -> Nat], NEW shape \in [Dims -> Nat],
           NEW meta \in Seq(Contents), NEW vl, NEW op, NEW after,
           (op = "copy" /\ after = "vlmeta") \/ (op = "slice" /\ after = "idle"),
           op = "copy" => part # store[s].part /\ vl = store[s].vl,
           \A j \in Dims : start[j] + shape[j] <= store[s].shape[j],
           Begins(op, s, d, part, start, shape, meta, vl),
           BeginSlices(d, part, shape, meta, after)
    PROVE  Whole'
<1>1. /\ store = [l \in Places |-> store[l]] /\ s \in Places
      /\ \A l \in Places : store[l] = None \/ IsArray(store[l])
      /\ IsArray(store[s]) /\ store[d] = None /\ s # d
      /\ open \subseteq {l \in Places : store[l] # None}
      /\ frame = None \/ IsArray(frame)
      /\ ret \in {"SUCCEED", "BLOSC_FAILED", "NULL_POINTER", "CRASHED"}
  BY DEF Whole, TypeOK, Begins, IsFree
<1>2. /\ job'.op = op /\ job'.src = s /\ job'.dst = d /\ job'.part = part /\ job'.meta = meta
      /\ job'.start = start /\ job'.vl = vl /\ job'.items = ItemsFrom(store[s], start, shape)
      /\ cur' = 0 /\ cur' \in Nat /\ frame' = frame
  BY DEF Begins
<1>3. Prefix'
  <2>1. (cur = 0 \/ job.op \notin {"copy", "slice"} => Prefix)'
    BY NoPrefix, PTL
  <2> QED BY <1>2, <2>1
<1> DEFINE a == Empty(part, shape, meta)
<1>4. CASE /\ \E filled \in {TRUE, ~Faults} :
                store' = [store EXCEPT ![d] = IF filled THEN a ELSE [a EXCEPT !.chunks = << >>]]
           /\ open' = open \cup {d}
           /\ IF HasItems(shape) THEN pc' = "slicing" /\ UNCHANGED ret
              ELSE IF after = "vlmeta" THEN pc' = "vlmeta" /\ UNCHANGED ret
              ELSE Return("SUCCEED")
  <2>1. PICK t \in Begun(part, shape, meta) : store' = [store EXCEPT ![d] = t]
    BY <1>4 DEF Begun
  <2>2. /\ IsArray(t) /\ t.vl = << >>
        /\ Related(job', store[s], t) /\ Progress(job'.start, 0, store[s], t)
        /\ ~HasItems(shape) => t.chunks = << >>
    <3>1. Asks(job', store[s], part, shape, meta)
      BY <1>2 DEF Asks
    <3>2. IsArray(store[s])
      BY <1>1
    <3> DEFINE src == store[s]
               j == job'
    <3> HIDE DEF src, j
    <3>3. /\ IsArray(t) /\ t.vl = << >>
          /\ Related(j, src, t) /\ Progress(j.start, 0, src, t)
          /\ ~HasItems(shape) => t.chunks = << >>
      <4>1. Asks(j, src, part, shape, meta) /\ IsArray(src)
        BY <3>1, <3>2 DEF j, src
      <4> QED BY <4>1, <2>1, BegunFacts
    <3> QED BY <3>3 DEF src, j
  <2> HIDE DEF a
  <2>4. /\ store' = [l \in Places |-> store'[l]]
        /\ store'[d] = t
        /\ \A l \in Places : l # d => store'[l] = store[l]
        /\ \A l \in Places : store'[l] = None \/ IsArray(store'[l])
    BY <1>1, <2>1, <2>2, StoreSet
  <2>5. /\ Target' = t /\ store'[job'.src] = store[s]
        /\ job'.src \in Places /\ job'.dst \in Places /\ job'.src # job'.dst
        /\ Related(job', store'[job'.src], Target')
        /\ Progress(job'.start, cur', store'[job'.src], Target')
    <3>1. Target' = t
      BY <1>2, <2>4 DEF Target
    <3>2. store'[job'.src] = store[s]
      BY <1>1, <1>2, <2>4
    <3> QED BY <1>1, <1>2, <2>2, <3>1, <3>2
  <2>6. /\ pc' \in {"idle", "slicing", "vlmeta"}
        /\ ret' \in {"SUCCEED", "BLOSC_FAILED", "NULL_POINTER", "CRASHED"}
        /\ pc' = "vlmeta" => op = "copy" /\ ~HasItems(shape)
        /\ pc' = "idle" => op = "slice" /\ ~HasItems(shape)
    BY <1>1, <1>4 DEF Return
  <2>7. Len(<< >>) = 0
    OBVIOUS
  <2>8. TypeOK'
    <3>1. t # None
      BY <2>2, ArrayFacts
    <3>2. open' \subseteq {l \in Places : store'[l] # None}
      BY <1>1, <1>4, <2>4, <3>1
    <3> QED BY <1>1, <1>2, <2>4, <2>6, <3>2 DEF TypeOK
  <2>9. Making'
    <3>1. pc' = "vlmeta" => job'.op = "copy" /\ cur' = Len(Target'.chunks)
      BY <1>2, <2>2, <2>5, <2>6, <2>7
    <3> QED BY <2>5, <3>1 DEF Making
  <2>10. Results'
    <3>1. CASE pc' = "idle"
      <4>1. cur' = Len(Target'.chunks) /\ job'.op = "slice"
        BY <1>2, <2>2, <2>5, <2>6, <2>7, <3>1
      <4>2. (/\ cur \in Nat /\ cur = Len(Target.chunks)
             /\ Related(job, store[job.src], Target)
             /\ Progress(job.start, cur, store[job.src], Target)
             /\ job.op = "copy" => Len(Target.vl) = Len(store[job.src].vl)
             => Results)'
        BY MadeResult, PTL
      <4> QED BY <1>2, <2>5, <4>1, <4>2
    <3>2. CASE pc' # "idle"
      <4>1. (~(Succeeded("copy") \/ Succeeded("slice")) => Results)'
        BY NoResult, PTL
      <4>2. ~Succeeded("copy")' /\ ~Succeeded("slice")'
        BY <3>2 DEF Succeeded
      <4> QED BY <4>1, <4>2
    <3> QED BY <3>1, <3>2
  <2> QED BY <1>3, <2>8, <2>9, <2>10 DEF Whole
<1>5. CASE /\ \E m \in Prefixes(meta) :
              \E r \in {None} \cup IF d \in Disk
                                   THEN {[a EXCEPT !.chunks = << >>, !.meta = m]} ELSE {} :
                store' = [store EXCEPT ![d] = r]
           /\ Return("BLOSC_FAILED")
           /\ UNCHANGED open
  <2>1. PICK m \in Prefixes(meta) :
              \E r \in {None} \cup IF d \in Disk
                                   THEN {[a EXCEPT !.chunks = << >>, !.meta = m]} ELSE {} :
                store' = [store EXCEPT ![d] = r]
    BY <1>5
  <2>2. PICK r \in {None} \cup IF d \in Disk
                               THEN {[a EXCEPT !.chunks = << >>, !.meta = m]} ELSE {} :
                store' = [store EXCEPT ![d] = r]
    BY <2>1
  <2>3. r = None \/ IsArray(r)
    <3>1. IsArray(a) /\ a.part = part /\ a.shape = shape
      BY EmptyFacts
    <3> HIDE DEF a
    <3> DEFINE b == [a EXCEPT !.chunks = << >>]
    <3>2. IsArray(b)
      <4>1. << >> \in Seq([ChunkBox(part) -> Values]) /\ Len(<< >>) = 0
        OBVIOUS
      <4>2. Len(<< >>) <= NumChunks(part, shape)
        BY <4>1, NumChunksNat
      <4> QED BY <3>1, <4>1, <4>2, ArrayChanged
    <3>3. m \in Seq(Contents)
      BY PrefixFacts
    <3>4. IsArray([b EXCEPT !.meta = m])
      <4> HIDE DEF b
      <4> QED BY <3>2, <3>3, ArrayChanged
    <3> QED BY <2>2, <3>4
  <2>4. /\ store' = [l \in Places |-> store'[l]]
        /\ \A l \in Places : l # d => store'[l] = store[l]
        /\ \A l \in Places : store'[l] = None \/ IsArray(store'[l])
    BY <1>1, <2>2, <2>3, StoreSet
  <2>5. pc' = "idle" /\ ret' = "BLOSC_FAILED"
    BY <1>5 DEF Return
  <2>6. TypeOK'
    <3>1. open' \subseteq {l \in Places : store'[l] # None}
      BY <1>1, <1>5, <2>4
    <3> QED BY <1>1, <1>2, <2>4, <2>5, <3>1 DEF TypeOK
  <2>7. Making'
    BY <1>2, <2>5 DEF Making
  <2>8. Results'
    <3>1. (~(Succeeded("copy") \/ Succeeded("slice")) => Results)'
      BY NoResult, PTL
    <3>2. ~Succeeded("copy")' /\ ~Succeeded("slice")'
      BY <2>5 DEF Succeeded
    <3> QED BY <3>1, <3>2
  <2> QED BY <1>3, <2>6, <2>7, <2>8 DEF Whole
<1> QED BY <1>4, <1>5 DEF BeginSlices

-----------------------------------------------------------------------------
(* A turn of the loop. *)

\* The items from the first of a chunk on are in that chunk.
LEMMA ChunkFromFirst ==
    ASSUME NEW a, IsArray(a), NEW k \in 0..NumChunks(a.part, a.shape) - 1,
           NEW c \in Box(Origin, a.shape),
           \A j \in Dims : FirstOf(a, k)[j] <= c[j] /\ c[j] < FirstOf(a, k)[j] + a.part.chunk[j]
    PROVE  ChunkOf(a, c) = k
<1> DEFINE grid == ChunkGrid(a.shape, a.part.chunk)
           g == UnidimToMultidim(grid, k)
           chunk == a.part.chunk
<1>1. chunk \in [Dims -> Nat \ {0}] /\ a.shape \in [Dims -> Nat]
  BY ArrayFacts
<1>2. InBox(g, grid) /\ MultidimToUnidim(g, Strides(grid)) = k
  <2>1. k \in 0..ChunkCount(a.shape, chunk) - 1
    BY DEF NumChunks
  <2> QED BY <1>1, <2>1, ChunkNumberFacts
<1>3. c \in [Dims -> Nat]
  BY ItemFacts
<1>4. \A j \in Dims : FirstOf(a, k)[j] = g[j] * chunk[j]
  BY DEF FirstOf
<1>5. ChunkOf(a, c) = MultidimToUnidim([j \in Dims |-> c[j] \div chunk[j]], Strides(grid))
  BY DEF ChunkOf, ChunkHolding
<1> HIDE DEF g, grid
<1>6. ASSUME NEW j \in Dims
      PROVE  c[j] \div chunk[j] = g[j]
  <2>1. c[j] \in Nat /\ chunk[j] \in Nat \ {0} /\ g[j] \in Nat
    BY <1>1, <1>2, <1>3 DEF InBox
  <2> DEFINE f == g[j] * chunk[j]
  <2>2. f \in Nat /\ f <= c[j] /\ c[j] < f + chunk[j]
    BY <1>4, <2>1
  <2>3. c[j] - f \in Nat /\ c[j] - f < chunk[j]
    <3> HIDE DEF f
    <3> QED BY <2>1, <2>2
  <2> HIDE DEF chunk
  <2> QED BY <2>1, <2>3, PlaceDim
<1>7. [j \in Dims |-> c[j] \div chunk[j]] = g
  <2>1. g = [j \in Dims |-> g[j]]
    BY <1>2 DEF InBox
  <2> HIDE DEF chunk
  <2> QED BY <1>6, <2>1
<1> QED BY <1>2, <1>5, <1>7

\* What is put into a chunk are values.
LEMMA SlicedValue ==
    ASSUME NEW j, NEW n \in Nat, NEW s, NEW t, Related(j, s, t),
           n < NumChunks(t.part, t.shape),
           \A c \in Box(Origin, t.shape) :
              ChunkOf(t, c) = n => ChunkOf(s, Plus(j.start, c)) < Len(s.chunks),
           NEW p \in ChunkBox(t.part)
    PROVE  Sliced(t, s, j.start, n, p) \in Values
<1> DEFINE f == FirstOf(t, n)
           c == Plus(f, p)
<1>1. /\ IsArray(s) /\ IsArray(t) /\ j.start \in [Dims -> Nat]
      /\ \A d \in Dims : j.start[d] + t.shape[d] <= s.shape[d]
  BY DEF Related
<1>2. /\ t.shape \in [Dims -> Nat] /\ s.shape \in [Dims -> Nat] /\ t.part \in Parts
      /\ t.part.chunk \in [Dims -> Nat \ {0}] /\ t.part.block \in [Dims -> Nat \ {0}]
  BY <1>1, ArrayFacts
<1>3. p \in [Dims -> Nat]
  BY <1>2, PaddedBox DEF ChunkBox
<1>4. n \in 0..NumChunks(t.part, t.shape) - 1
  BY <1>2, NumChunksNat
<1>5. f \in [Dims -> Nat]
  BY <1>1, <1>4, FirstFacts
<1> HIDE DEF f
<1>6. c \in [Dims -> Nat] /\ \A d \in Dims : c[d] = f[d] + p[d] /\ f[d] <= c[d]
  BY <1>3, <1>5 DEF Plus
<1> HIDE DEF c
<1>7. CASE \A d \in Dims : c[d] < t.shape[d] /\ c[d] < f[d] + t.part.chunk[d]
  <2>1. t.shape \in [Dims -> Int]
    BY <1>2
  <2>2. c \in Box(Origin, t.shape)
    BY <1>6, <1>7, <2>1, OriginBox
  <2>3. ChunkOf(t, c) = n
    BY <1>1, <1>4, <1>6, <1>7, <2>2, ChunkFromFirst DEF f
  <2>4. ChunkOf(s, Plus(j.start, c)) < Len(s.chunks)
    BY <2>2, <2>3
  <2>5. Plus(j.start, c) \in Box(Origin, s.shape)
    BY <1>1, <1>2, <2>2, SliceBoxFacts
  <2>6. ItemAt(s, Plus(j.start, c)) \in Values
    BY <1>1, <2>4, <2>5, ItemFacts
  <2>7. Plus(j.start, c) = Plus(c, j.start)
    BY <1>1, <1>6 DEF Plus
  <2> QED BY <1>7, <2>6, <2>7 DEF Sliced, c, f
<1>8. CASE ~(\A d \in Dims : c[d] < t.shape[d] /\ c[d] < f[d] + t.part.chunk[d])
  BY <1>8, ZeroAssumption DEF Sliced, c, f
<1> QED BY <1>7, <1>8

\* An array with another chunk.
Put(a, k, new) == [a EXCEPT !.chunks = [a.chunks EXCEPT ![k] = new]]

LEMMA PutFacts ==
    ASSUME NEW a, IsArray(a), NEW k \in 1..Len(a.chunks),
           NEW new \in [ChunkBox(a.part) -> Values]
    PROVE  LET u == Put(a, k, new)
           IN  /\ IsArray(u)
               /\ u.part = a.part /\ u.shape = a.shape /\ u.meta = a.meta /\ u.vl = a.vl
               /\ Len(u.chunks) = Len(a.chunks)
               /\ \A i \in 1..Len(a.chunks) : u.chunks[i] = IF i = k THEN new ELSE a.chunks[i]
<1> DEFINE all == [a.chunks EXCEPT ![k] = new]
           S == [ChunkBox(a.part) -> Values]
           u == [a EXCEPT !.chunks = all]
<1>1. a.chunks \in Seq(S) /\ Len(a.chunks) <= NumChunks(a.part, a.shape)
  BY ArrayFacts
<1>2. new \in S
  OBVIOUS
<1> HIDE DEF S
<1>3. /\ all \in Seq(S) /\ Len(all) = Len(a.chunks)
      /\ \A i \in 1..Len(a.chunks) : all[i] = IF i = k THEN new ELSE a.chunks[i]
  BY <1>1, <1>2
<1> HIDE DEF all
<1>4. /\ u.chunks = all /\ u.part = a.part /\ u.shape = a.shape /\ u.meta = a.meta
      /\ u.vl = a.vl
  BY ArrayExcept
<1>5. IsArray(u)
  BY <1>1, <1>3, ArrayChanged DEF S
<1>6. Put(a, k, new) = u
  BY DEF Put, all
<1> HIDE DEF u
<1> QED BY <1>3, <1>4, <1>5, <1>6

\* One more chunk is as it should be.
LEMMA ChunkMade ==
    ASSUME NEW j, NEW n \in Nat, NEW s, NEW t,
           Related(j, s, t), Progress(j.start, n, s, t), n < Len(t.chunks),
           \A c \in Box(Origin, t.shape) :
              ChunkOf(t, c) = n => ChunkOf(s, Plus(j.start, c)) < Len(s.chunks),
           NEW new, new = [p \in ChunkBox(t.part) |-> Sliced(t, s, j.start, n, p)],
           NEW u, u = Put(t, n + 1, new)
    PROVE  IsArray(u) /\ Related(j, s, u) /\ Progress(j.start, n + 1, s, u)
<1>1. IsArray(t) /\ IsArray(s)
  BY DEF Related
<1>2. /\ t.part \in Parts /\ t.shape \in [Dims -> Nat]
      /\ t.chunks \in Seq([ChunkBox(t.part) -> Values]) /\ Len(t.chunks) \in Nat
      /\ Len(t.chunks) <= NumChunks(t.part, t.shape)
      /\ NumChunks(t.part, t.shape) \in Nat
  <2>1. /\ t.part \in Parts /\ t.shape \in [Dims -> Nat]
        /\ t.chunks \in Seq([ChunkBox(t.part) -> Values])
        /\ Len(t.chunks) <= NumChunks(t.part, t.shape)
    BY <1>1, ArrayFacts
  <2> QED BY <2>1, NumChunksNat
<1>3. new \in [ChunkBox(t.part) -> Values]
  <2>1. n < NumChunks(t.part, t.shape)
    BY <1>2
  <2>2. ASSUME NEW p \in ChunkBox(t.part)
        PROVE  Sliced(t, s, j.start, n, p) \in Values
    BY <2>1, SlicedValue
  <2> QED BY <2>2
<1>4. n + 1 \in 1..Len(t.chunks)
  BY <1>2
<1>5. /\ u.part = t.part /\ u.shape = t.shape /\ u.meta = t.meta /\ u.vl = t.vl
      /\ IsArray(u) /\ Len(u.chunks) = Len(t.chunks)
      /\ \A k \in 1..Len(t.chunks) : u.chunks[k] = IF k = n + 1 THEN new ELSE t.chunks[k]
  BY <1>1, <1>3, <1>4, PutFacts
<1>6. \A p \in ChunkBox(t.part) : new[p] = Sliced(t, s, j.start, n, p)
  OBVIOUS
<1>7. Related(j, s, u)
  BY <1>5 DEF Related
<1>8. /\ \A k, p : Sliced(u, s, j.start, k, p) = Sliced(t, s, j.start, k, p)
      /\ \A c : ChunkOf(u, c) = ChunkOf(t, c)
  BY <1>5 DEF Sliced, FirstOf, ChunkOf
<1>9. /\ t.chunks = << >> \/ Len(t.chunks) = NumChunks(t.part, t.shape)
      /\ \A k \in 1..Len(t.chunks) : \A p \in ChunkBox(t.part) :
           t.chunks[k][p] = IF k <= n THEN Sliced(t, s, j.start, k - 1, p) ELSE Zero
      /\ \A c \in Box(Origin, t.shape) :
           ChunkOf(t, c) < n => ChunkOf(s, Plus(j.start, c)) < Len(s.chunks)
  BY DEF Progress
<1>10. ASSUME NEW k \in 1..Len(u.chunks), NEW p \in ChunkBox(u.part)
       PROVE  u.chunks[k][p] = IF k <= n + 1 THEN Sliced(u, s, j.start, k - 1, p) ELSE Zero
  <2>1. k \in 1..Len(t.chunks) /\ p \in ChunkBox(t.part)
    BY <1>5
  <2>2. CASE k = n + 1
    <3>1. u.chunks[k][p] = Sliced(t, s, j.start, n, p)
      BY <1>5, <1>6, <2>1, <2>2
    <3>2. k - 1 = n /\ k <= n + 1
      BY <2>2
    <3> QED BY <1>8, <3>1, <3>2
  <2>3. CASE k # n + 1
    <3>1. u.chunks[k][p] = t.chunks[k][p]
      BY <1>5, <2>1, <2>3
    <3>2. k <= n + 1 <=> k <= n
      BY <2>1, <2>3
    <3> QED BY <1>8, <1>9, <2>1, <3>1, <3>2
  <2> QED BY <2>2, <2>3
<1>11. ASSUME NEW c \in Box(Origin, u.shape), ChunkOf(u, c) < n + 1
       PROVE  ChunkOf(s, Plus(j.start, c)) < Len(s.chunks)
  <2>1. c \in Box(Origin, t.shape) /\ ChunkOf(t, c) < n + 1
    BY <1>5, <1>8, <1>11
  <2>2. ChunkOf(t, c) \in 0..NumChunks(t.part, t.shape) - 1
    BY <1>1, <2>1, ItemFacts
  <2>3. ChunkOf(t, c) < n \/ ChunkOf(t, c) = n
    BY <1>2, <2>1, <2>2
  <2> QED BY <1>9, <2>1, <2>3
<1>12. n + 1 <= Len(u.chunks) /\ Len(u.chunks) = NumChunks(u.part, u.shape)
  <2>1. t.chunks # << >>
    BY <1>2
  <2> QED BY <1>2, <1>5, <1>9, <2>1
<1>13. Progress(j.start, n + 1, s, u)
  BY <1>10, <1>11, <1>12 DEF Progress
<1> QED BY <1>5, <1>7, <1>13

\* The smaller of two numbers is one of them, and no larger than the other.
LEMMA MinOfTwo ==
    ASSUME NEW a \in Int, NEW b \in Int
    PROVE  Min({a, b}) = (IF a <= b THEN a ELSE b)
<1> DEFINE m == IF a <= b THEN a ELSE b
<1>1. m \in {a, b} /\ \A y \in {a, b} : m <= y
  OBVIOUS
<1>2. \A x \in {a, b} : (\A y \in {a, b} : x <= y) => x = m
  OBVIOUS
<1>3. Min({a, b}) = CHOOSE x \in {a, b} : \A y \in {a, b} : x <= y
  BY DEF Min
<1> HIDE DEF m
<1> DEFINE Least(x) == x \in {a, b} /\ \A y \in {a, b} : x <= y
<1>4. Least(m)
  BY <1>1
<1>5. Least(CHOOSE x : Least(x))
  BY <1>4
<1>6. Min({a, b}) = CHOOSE x : Least(x)
  BY <1>3
<1>7. Min({a, b}) = m
  BY <1>2, <1>5, <1>6
<1> QED BY <1>7 DEF m

\* What a turn of the loop reads holds the items of the source that the chunk gets.
LEMMA SliceReads ==
    ASSUME NEW j, NEW n \in Nat, NEW s, NEW t, Related(j, s, t),
           n < NumChunks(t.part, t.shape),
           IsReadable(s, Plus(FirstOf(t, n), j.start),
                      [d \in Dims |-> Min({t.part.chunk[d], t.shape[d] - FirstOf(t, n)[d]})])
    PROVE  \A c \in Box(Origin, t.shape) :
              ChunkOf(t, c) = n => ChunkOf(s, Plus(j.start, c)) < Len(s.chunks)
<1> DEFINE f == FirstOf(t, n)
           m == [d \in Dims |-> Min({t.part.chunk[d], t.shape[d] - f[d]})]
           lo == Plus(f, j.start)
<1>1. IsArray(t) /\ j.start \in [Dims -> Nat]
  BY DEF Related
<1>2. /\ t.shape \in [Dims -> Nat] /\ t.part \in Parts
      /\ t.part.chunk \in [Dims -> Nat \ {0}]
  BY <1>1, ArrayFacts
<1>3. f \in [Dims -> Nat] /\ \A d \in Dims : f[d] < t.shape[d]
  <2>1. n \in 0..NumChunks(t.part, t.shape) - 1
    BY <1>2, NumChunksNat
  <2> QED BY <1>1, <2>1, FirstFacts
<1>4. IsReadable(s, lo, m)
  OBVIOUS
<1>5. ASSUME NEW c \in Box(Origin, t.shape), ChunkOf(t, c) = n
      PROVE  Plus(j.start, c) \in Box(lo, Plus(lo, m))
  <2>1. c \in [Dims -> Nat] /\ \A d \in Dims : c[d] < t.shape[d]
    BY <1>1, ItemFacts
  <2>2. \A d \in Dims : f[d] <= c[d] /\ c[d] < f[d] + t.part.chunk[d]
    BY <1>1, <1>5, FirstOfHolding
  <2> HIDE DEF f
  <2>3. \A d \in Dims : m[d] = IF t.part.chunk[d] <= t.shape[d] - f[d]
                               THEN t.part.chunk[d] ELSE t.shape[d] - f[d]
    <3>1. ASSUME NEW d \in Dims
          PROVE  m[d] = IF t.part.chunk[d] <= t.shape[d] - f[d]
                        THEN t.part.chunk[d] ELSE t.shape[d] - f[d]
      <4>1. t.part.chunk[d] \in Int /\ t.shape[d] - f[d] \in Int
        BY <1>2, <1>3
      <4>2. m[d] = Min({t.part.chunk[d], t.shape[d] - f[d]})
        OBVIOUS
      <4> QED BY <4>1, <4>2, MinOfTwo
    <3> QED BY <3>1
  <2>4. m = [d \in Dims |-> m[d]]
    OBVIOUS
  <2> HIDE DEF m
  <2>5. \A d \in Dims : m[d] \in Int /\ c[d] < f[d] + m[d]
    BY <1>2, <1>3, <2>1, <2>2, <2>3
  <2>6. /\ lo \in [Dims -> Int] /\ Plus(lo, m) \in [Dims -> Int]
        /\ Plus(j.start, c) \in [Dims -> Int]
        /\ \A d \in Dims : /\ lo[d] = f[d] + j.start[d] /\ lo[d] \in Int
                           /\ Plus(lo, m)[d] = lo[d] + m[d]
                           /\ Plus(j.start, c)[d] = j.start[d] + c[d]
    BY <1>1, <1>3, <2>1, <2>4, <2>5 DEF Plus
  <2> HIDE DEF lo
  <2>7. ASSUME NEW d \in Dims
        PROVE  lo[d] <= Plus(j.start, c)[d] /\ Plus(j.start, c)[d] < Plus(lo, m)[d]
    <3>1. f[d] \in Nat /\ j.start[d] \in Nat /\ c[d] \in Nat /\ m[d] \in Int
      BY <1>1, <1>3, <2>1, <2>5
    <3>2. f[d] <= c[d] /\ c[d] < f[d] + m[d]
      BY <2>2, <2>5
    <3>3. /\ lo[d] = f[d] + j.start[d] /\ Plus(lo, m)[d] = lo[d] + m[d]
          /\ Plus(j.start, c)[d] = j.start[d] + c[d]
      BY <2>6
    <3> QED BY <3>1, <3>2, <3>3
  <2> QED BY <2>6, <2>7, BoxFacts
<1> HIDE DEF f, lo, m
<1> QED BY <1>4, <1>5 DEF IsReadable

\* A turn of the loop puts one more chunk into the array that is being made.
LEMMA SliceStepPuts ==
    ASSUME TypeOK, Making, SliceStep
    PROVE  /\ store' = [store EXCEPT ![job.dst] =
                          Put(Target, cur + 1,
                              [p \in ChunkBox(Target.part) |->
                                  Sliced(Target, store[job.src], job.start, cur, p)])]
           /\ IsReadable(store[job.src], Plus(FirstOf(Target, cur), job.start),
                         [d \in Dims |-> Min({Target.part.chunk[d],
                                              Target.shape[d] - FirstOf(Target, cur)[d]})])
<1> DEFINE t == store[job.dst]
           s == store[job.src]
           new == [p \in ChunkBox(t.part) |-> Sliced(t, s, job.start, cur, p)]
           put == [p \in DOMAIN t.chunks[cur + 1] |-> Written(Plus(ChunkStart, p))]
<1>1. /\ pc = "slicing" /\ cur \in Nat /\ cur < Len(t.chunks) /\ Related(job, s, t)
      /\ job.dst \in Places
  BY DEF TypeOK, Making, SliceStep, Target
<1>2. IsArray(t) /\ t.part = job.part
  BY <1>1 DEF Related
<1>3. ChunkStart = FirstOf(t, cur)
  BY <1>2 DEF ChunkStart, Grid, FirstOf, Target
<1>4. DOMAIN t.chunks[cur + 1] = ChunkBox(t.part)
  <2>1. t.chunks \in Seq([ChunkBox(t.part) -> Values])
    BY <1>2, ArrayFacts
  <2>2. cur + 1 \in 1..Len(t.chunks)
    BY <1>1, <2>1
  <2>3. t.chunks[cur + 1] \in [ChunkBox(t.part) -> Values]
    BY <2>1, <2>2
  <2> QED BY <2>3
<1>5. \A p : Written(Plus(ChunkStart, p)) = Sliced(t, s, job.start, cur, p)
  BY <1>2, <1>3 DEF Written, InChunk, SourceItem, Sliced, Target
<1>6. put = new
  BY <1>4, <1>5
<1>7. store' = [store EXCEPT ![job.dst].chunks[cur + 1] = put]
  BY DEF SliceStep
<1>8. store' = [store EXCEPT ![job.dst] = Put(t, cur + 1, put)]
  <2> HIDE DEF put
  <2> QED BY <1>7 DEF Put
<1>9. IsReadable(s, Plus(FirstOf(t, cur), job.start),
                 [d \in Dims |-> Min({t.part.chunk[d], t.shape[d] - FirstOf(t, cur)[d]})])
  BY <1>2, <1>3 DEF SliceStep, Readable, Target
<1> QED BY <1>6, <1>8, <1>9 DEF Target

\* A turn of the loop preserves the invariant.
LEMMA SliceStepWhole ==
    ASSUME Whole, SliceStep
    PROVE  Whole'
<1> DEFINE t == Target
           s == store[job.src]
           j == job
           new == [p \in ChunkBox(t.part) |-> Sliced(t, s, j.start, cur, p)]
           u == Put(t, cur + 1, new)
<1>1. /\ store = [l \in Places |-> store[l]]
      /\ \A l \in Places : store[l] = None \/ IsArray(store[l])
      /\ open \subseteq {l \in Places : store[l] # None}
      /\ cur \in Nat /\ pc = "slicing" /\ cur < Len(t.chunks)
      /\ job.src \in Places /\ job.dst \in Places /\ job.src # job.dst
      /\ Related(j, s, t) /\ Progress(j.start, cur, s, t) /\ t = store[job.dst]
  BY DEF Whole, TypeOK, Making, SliceStep, Target
<1>2. /\ store' = [store EXCEPT ![job.dst] = u]
      /\ IsReadable(s, Plus(FirstOf(t, cur), j.start),
                    [d \in Dims |-> Min({t.part.chunk[d], t.shape[d] - FirstOf(t, cur)[d]})])
  BY SliceStepPuts DEF Whole
<1> DEFINE st == store
           n == cur
<1> HIDE DEF s, t, j, n, st
<1>3. /\ IsArray(u) /\ Related(j, s, u) /\ Progress(j.start, n + 1, s, u)
  <2>1. n < NumChunks(t.part, t.shape)
    <3>1. /\ t.chunks \in Seq([ChunkBox(t.part) -> Values])
          /\ Len(t.chunks) <= NumChunks(t.part, t.shape)
          /\ t.part \in Parts /\ t.shape \in [Dims -> Nat]
      BY <1>1, ArrayFacts DEF Related
    <3>2. Len(t.chunks) \in Nat /\ NumChunks(t.part, t.shape) \in Nat
      BY <3>1, NumChunksNat
    <3> QED BY <1>1, <3>1, <3>2 DEF n
  <2>2. \A c \in Box(Origin, t.shape) :
            ChunkOf(t, c) = n => ChunkOf(s, Plus(j.start, c)) < Len(s.chunks)
    BY <1>1, <1>2, <2>1, SliceReads DEF n
  <2>3. /\ n \in Nat /\ n < Len(t.chunks) /\ Related(j, s, t) /\ Progress(j.start, n, s, t)
        /\ new = [p \in ChunkBox(t.part) |-> Sliced(t, s, j.start, n, p)]
        /\ u = Put(t, n + 1, new)
    BY <1>1 DEF n
  <2> HIDE DEF new, u
  <2> QED BY <2>2, <2>3, ChunkMade
<1> HIDE DEF u, new
<1>4. /\ store' = [l \in Places |-> store'[l]]
      /\ store'[job.dst] = u
      /\ \A l \in Places : l # job.dst => store'[l] = store[l]
      /\ \A l \in Places : store'[l] = None \/ IsArray(store'[l])
  BY <1>1, <1>2, <1>3, StoreSet
<1>5. /\ open' = open /\ frame' = frame /\ pc' = pc /\ job' = job /\ cur' = cur + 1
      /\ ret' = ret /\ left' = left
  BY DEF SliceStep
<1>6. /\ Target' = u /\ store'[job'.src] = s
      /\ Related(job', store'[job'.src], Target')
      /\ Progress(job'.start, cur', store'[job'.src], Target')
  BY <1>1, <1>3, <1>4, <1>5 DEF Target, s, j, n
<1>7. TypeOK'
  <2>1. u # None
    BY <1>3, ArrayFacts
  <2>2. open' \subseteq {l \in Places : store'[l] # None}
    BY <1>1, <1>4, <1>5, <2>1
  <2> QED BY <1>1, <1>4, <1>5, <2>2 DEF Whole, TypeOK
<1>8. Making'
  BY <1>1, <1>5, <1>6 DEF Making
<1>9. Prefix'
  <2>1. (cur \in Nat /\ Related(job, store[job.src], Target)
            /\ Progress(job.start, cur, store[job.src], Target) => Prefix)'
    BY MadePrefix, PTL
  <2>2. cur' \in Nat
    BY <1>1, <1>5
  <2> QED BY <1>6, <2>1, <2>2
<1>10. Results'
  <2>1. (~(Succeeded("copy") \/ Succeeded("slice")) => Results)'
    BY NoResult, PTL
  <2> QED BY <1>1, <1>5, <2>1 DEF Succeeded
<1> QED BY <1>7, <1>8, <1>9, <1>10 DEF Whole

\* An error in a loop ends the call, and changes nothing.
LEMMA StopWhole ==
    ASSUME Whole, SliceUnreadable \/ SliceFails \/ VlFails
    PROVE  Whole'
<1>1. /\ pc' = "idle" /\ ret' = "BLOSC_FAILED"
      /\ UNCHANGED <<store, open, frame, job, cur, left>>
  BY DEF SliceUnreadable, SliceFails, VlFails, Return
<1>2. TypeOK'
  BY <1>1 DEF Whole, TypeOK
<1>3. Making' /\ Prefix'
  BY <1>1 DEF Whole, Making, Prefix, Target
<1>4. Results'
  <2>1. (~(Succeeded("copy") \/ Succeeded("slice")) => Results)'
    BY NoResult, PTL
  <2> QED BY <1>1, <2>1 DEF Succeeded
<1> QED BY <1>2, <1>3, <1>4 DEF Whole

\* After its last chunk, a slice is made; a copy goes on with the variable-length metalayers.
LEMMA SlicesEndWhole ==
    ASSUME Whole, SlicesEnd
    PROVE  Whole'
<1>1. /\ pc = "slicing" /\ cur \in Nat /\ cur = Len(Target.chunks)
      /\ Related(job, store[job.src], Target)
      /\ Progress(job.start, cur, store[job.src], Target)
  BY DEF Whole, TypeOK, Making, SlicesEnd
<1>2. /\ UNCHANGED <<store, open, frame, job, cur, left>>
      /\ (job.op = "copy" /\ pc' = "vlmeta" /\ ret' = ret)
           \/ (job.op # "copy" /\ pc' = "idle" /\ ret' = "SUCCEED")
  BY DEF SlicesEnd, Return
<1>3. Target' = Target /\ store'[job'.src] = store[job.src]
  BY <1>2 DEF Target
<1>4. TypeOK'
  BY <1>2 DEF Whole, TypeOK
<1>5. Making'
  BY <1>1, <1>2, <1>3 DEF Whole, Making
<1>6. Prefix'
  BY <1>2, <1>3 DEF Whole, Prefix
<1>7. Results'
  <2>1. CASE pc' = "vlmeta"
    <3>1. (~(Succeeded("copy") \/ Succeeded("slice")) => Results)'
      BY NoResult, PTL
    <3> QED BY <2>1, <3>1 DEF Succeeded
  <2>2. CASE pc' # "vlmeta"
    <3>1. (/\ cur \in Nat /\ cur = Len(Target.chunks)
           /\ Related(job, store[job.src], Target)
           /\ Progress(job.start, cur, store[job.src], Target)
           /\ job.op = "copy" => Len(Target.vl) = Len(store[job.src].vl)
           => Results)'
      BY MadeResult, PTL
    <3>2. job'.op # "copy"
      BY <1>2, <2>2
    <3>3. /\ cur' \in Nat /\ cur' = Len(Target'.chunks)
          /\ Related(job', store'[job'.src], Target')
          /\ Progress(job'.start, cur', store'[job'.src], Target')
      BY <1>1, <1>2, <1>3
    <3> QED BY <3>1, <3>2, <3>3
  <2> QED BY <2>1, <2>2
<1> QED BY <1>4, <1>5, <1>6, <1>7 DEF Whole

\* An array with another metalayer.
Add(a, v) == [a EXCEPT !.vl = Append(a.vl, v)]

LEMMA AddFacts ==
    ASSUME NEW a, IsArray(a), NEW v \in Contents
    PROVE  LET u == Add(a, v)
           IN  /\ IsArray(u)
               /\ u.part = a.part /\ u.shape = a.shape /\ u.meta = a.meta
               /\ u.chunks = a.chunks /\ u.vl = Append(a.vl, v)
<1> DEFINE vl == Append(a.vl, v)
           u == [a EXCEPT !.vl = vl]
<1>1. a.vl \in Seq(Contents)
  BY ArrayFacts
<1>2. vl \in Seq(Contents)
  BY <1>1
<1>3. Add(a, v) = u
  BY DEF Add
<1> HIDE DEF vl
<1>4. IsArray(u)
  BY <1>2, ArrayChanged
<1>5. /\ u.vl = vl /\ u.part = a.part /\ u.shape = a.shape /\ u.meta = a.meta
      /\ u.chunks = a.chunks
  BY ArrayExcept
<1> HIDE DEF u
<1> QED BY <1>3, <1>4, <1>5 DEF vl

\* One more metalayer.
LEMMA VlMade ==
    ASSUME NEW j, NEW n, NEW s, NEW t, Related(j, s, t), Progress(j.start, n, s, t),
           j.op = "copy", Len(t.vl) < Len(s.vl),
           NEW u, u = Add(t, s.vl[Len(t.vl) + 1])
    PROVE  /\ IsArray(u) /\ Related(j, s, u) /\ Progress(j.start, n, s, u)
           /\ u.chunks = t.chunks
<1> DEFINE vl == Append(t.vl, s.vl[Len(t.vl) + 1])
<1>1. IsArray(t) /\ IsArray(s)
  BY DEF Related
<1>2. t.vl \in Seq(Contents) /\ s.vl \in Seq(Contents)
  BY <1>1, ArrayFacts
<1>3. s.vl[Len(t.vl) + 1] \in Contents
  BY <1>2
<1>4. /\ vl \in Seq(Contents) /\ Len(vl) = Len(t.vl) + 1 /\ Len(vl) <= Len(s.vl)
      /\ \A i \in 1..Len(vl) : vl[i] = IF i <= Len(t.vl) THEN t.vl[i] ELSE s.vl[i]
  <2> DEFINE x == s.vl[Len(t.vl) + 1]
             m == Len(t.vl)
             v == t.vl
  <2>1. x \in Contents /\ m \in Nat /\ v \in Seq(Contents) /\ m = Len(v)
    BY <1>2, <1>3
  <2>2. vl = Append(v, x) /\ x = s.vl[m + 1]
    OBVIOUS
  <2> HIDE DEF x, m, v, vl
  <2>3. /\ vl \in Seq(Contents) /\ Len(vl) = m + 1
        /\ \A i \in 1..Len(vl) : vl[i] = IF i <= m THEN v[i] ELSE x
    BY <2>1, <2>2
  <2>4. \A i \in 1..Len(vl) : vl[i] = IF i <= m THEN v[i] ELSE s.vl[i]
    BY <2>1, <2>2, <2>3
  <2>5. Len(s.vl) \in Nat
    BY <1>2
  <2>6. Len(vl) <= Len(s.vl)
    BY <2>1, <2>3, <2>5 DEF m
  <2> QED BY <2>3, <2>4, <2>6 DEF m, v
<1>5. /\ u.vl = vl /\ u.part = t.part /\ u.shape = t.shape /\ u.meta = t.meta
      /\ u.chunks = t.chunks /\ IsArray(u)
  BY <1>1, <1>3, AddFacts
<1> HIDE DEF vl
<1>6. Related(j, s, u)
  <2>1. /\ j.part # s.part /\ j.vl = s.vl
        /\ \A i \in 1..Len(t.vl) : t.vl[i] = s.vl[i]
    BY DEF Related
  <2>2. \A i \in 1..Len(vl) : vl[i] = s.vl[i]
    BY <1>2, <1>4, <2>1
  <2>3. /\ t.part = j.part /\ t.meta = j.meta /\ j.start \in [Dims -> Nat]
        /\ \A d \in Dims : j.start[d] + t.shape[d] <= s.shape[d]
        /\ j.items = ItemsFrom(s, j.start, t.shape)
    BY DEF Related
  <2> QED BY <1>1, <1>4, <1>5, <2>1, <2>2, <2>3 DEF Related
<1>7. Progress(j.start, n, s, u)
  <2>1. /\ \A k, p : Sliced(u, s, j.start, k, p) = Sliced(t, s, j.start, k, p)
        /\ \A c : ChunkOf(u, c) = ChunkOf(t, c)
    BY <1>5 DEF Sliced, FirstOf, ChunkOf
  <2> QED BY <1>5, <2>1 DEF Progress
<1> QED BY <1>5, <1>6, <1>7

\* A turn of the loop over metalayers preserves the invariant.
LEMMA VlStepWhole ==
    ASSUME Whole, VlStep
    PROVE  Whole'
<1> DEFINE t == Target
           s == store[job.src]
           u == Add(t, s.vl[Len(t.vl) + 1])
<1>1. /\ store = [l \in Places |-> store[l]]
      /\ \A l \in Places : store[l] = None \/ IsArray(store[l])
      /\ open \subseteq {l \in Places : store[l] # None}
      /\ cur \in Nat /\ pc = "vlmeta" /\ cur = Len(t.chunks) /\ job.op = "copy"
      /\ job.src \in Places /\ job.dst \in Places /\ job.src # job.dst
      /\ Related(job, s, t) /\ Progress(job.start, cur, s, t) /\ t = store[job.dst]
      /\ Len(t.vl) < Len(s.vl)
  BY DEF Whole, TypeOK, Making, VlStep, Target
<1>2. store' = [store EXCEPT ![job.dst] = u]
  <2>1. store' = [store EXCEPT ![job.dst].vl = Append(@, s.vl[Len(@) + 1])]
    BY DEF VlStep
  <2> QED BY <2>1 DEF Target, Add
<1>3. /\ IsArray(u) /\ Related(job, s, u) /\ Progress(job.start, cur, s, u)
      /\ u.chunks = t.chunks
  <2> DEFINE j == job
             n == cur
  <2>1. Related(j, s, t) /\ Progress(j.start, n, s, t) /\ j.op = "copy" /\ Len(t.vl) < Len(s.vl)
    BY <1>1
  <2> HIDE DEF j, n, s, t
  <2>2. /\ IsArray(u) /\ Related(j, s, u) /\ Progress(j.start, n, s, u)
        /\ u.chunks = t.chunks
    BY <2>1, VlMade
  <2> QED BY <2>2 DEF j, n
<1> HIDE DEF u, t, s
<1>4. /\ store' = [l \in Places |-> store'[l]]
      /\ store'[job.dst] = u
      /\ \A l \in Places : l # job.dst => store'[l] = store[l]
      /\ \A l \in Places : store'[l] = None \/ IsArray(store'[l])
  BY <1>1, <1>2, <1>3, StoreSet
<1>5. /\ open' = open /\ frame' = frame /\ pc' = pc /\ job' = job /\ cur' = cur
      /\ ret' = ret /\ left' = left
  BY DEF VlStep
<1>6. /\ Target' = u /\ store'[job'.src] = s
      /\ Related(job', store'[job'.src], Target')
      /\ Progress(job'.start, cur', store'[job'.src], Target')
      /\ cur' = Len(Target'.chunks)
  BY <1>1, <1>3, <1>4, <1>5 DEF Target, s
<1>7. TypeOK'
  <2>1. u # None
    BY <1>3, ArrayFacts
  <2>2. open' \subseteq {l \in Places : store'[l] # None}
    BY <1>1, <1>4, <1>5, <2>1
  <2> QED BY <1>1, <1>4, <1>5, <2>2 DEF Whole, TypeOK
<1>8. Making'
  BY <1>1, <1>5, <1>6 DEF Making
<1>9. Prefix'
  <2>1. (cur \in Nat /\ Related(job, store[job.src], Target)
            /\ Progress(job.start, cur, store[job.src], Target) => Prefix)'
    BY MadePrefix, PTL
  <2> QED BY <1>1, <1>5, <1>6, <2>1
<1>10. Results'
  <2>1. (~(Succeeded("copy") \/ Succeeded("slice")) => Results)'
    BY NoResult, PTL
  <2> QED BY <1>1, <1>5, <2>1 DEF Succeeded
<1> QED BY <1>7, <1>8, <1>9, <1>10 DEF Whole

\* After the last metalayer a copy is made.
LEMMA VlEndWhole ==
    ASSUME Whole, VlEnd
    PROVE  Whole'
<1>1. /\ cur \in Nat /\ cur = Len(Target.chunks)
      /\ Related(job, store[job.src], Target)
      /\ Progress(job.start, cur, store[job.src], Target)
      /\ Len(Target.vl) = Len(store[job.src].vl)
  BY DEF Whole, TypeOK, Making, VlEnd
<1>2. /\ pc' = "idle" /\ ret' = "SUCCEED"
      /\ UNCHANGED <<store, open, frame, job, cur, left>>
  BY DEF VlEnd, Return
<1>3. TypeOK'
  BY <1>2 DEF Whole, TypeOK
<1>4. Making' /\ Prefix'
  BY <1>2 DEF Whole, Making, Prefix, Target
<1>5. Results'
  <2>1. (/\ cur \in Nat /\ cur = Len(Target.chunks)
         /\ Related(job, store[job.src], Target)
         /\ Progress(job.start, cur, store[job.src], Target)
         /\ job.op = "copy" => Len(Target.vl) = Len(store[job.src].vl)
         => Results)'
    BY MadeResult, PTL
  <2>2. Target' = Target /\ store'[job'.src] = store[job.src]
    BY <1>2 DEF Target
  <2> QED BY <1>1, <1>2, <2>1, <2>2
<1> QED BY <1>3, <1>4, <1>5 DEF Whole

-----------------------------------------------------------------------------
(* The other calls. *)

\* A call that is over at once and makes no array of another one keeps the invariant when it
\* keeps the types.
LEMMA ShortWhole ==
    ASSUME Whole, pc' = "idle", job'.op \notin {"copy", "slice"}, TypeOK'
    PROVE  Whole'
<1>1. Making'
  BY DEF Making
<1>2. Prefix'
  <2>1. (cur = 0 \/ job.op \notin {"copy", "slice"} => Prefix)'
    BY NoPrefix, PTL
  <2> QED BY <2>1
<1>3. Results'
  <2>1. (~(Succeeded("copy") \/ Succeeded("slice")) => Results)'
    BY NoResult, PTL
  <2> QED BY <2>1 DEF Succeeded
<1> QED BY <1>1, <1>2, <1>3 DEF Whole

\* What a call that has begun leaves behind it.
LEMMA CalledFacts ==
    ASSUME TypeOK, Called
    PROVE  /\ pc = "idle" /\ left' \in 0..MaxCalls
           /\ store = [l \in Places |-> store[l]]
           /\ \A l \in Places : store[l] = None \/ IsArray(store[l])
           /\ open \subseteq {l \in Places : store[l] # None}
           /\ frame = None \/ IsArray(frame)
           /\ \A l \in open : l \in Places /\ IsArray(store[l])
<1>1. left' \in 0..MaxCalls
  <2>1. left \in 0..MaxCalls /\ left > 0 /\ left' = left - 1
    BY DEF TypeOK, Called
  <2> QED BY <2>1, CopiesBoundsAssumption
<1> QED BY <1>1 DEF TypeOK, Called

\* Arrays of which a metalayer has changed.
LEMMA MetaChanged ==
    ASSUME NEW a, IsArray(a), NEW v \in Contents
    PROVE  /\ \A i \in DOMAIN a.meta : IsArray([a EXCEPT !.meta = [a.meta EXCEPT ![i] = v]])
           /\ \A i \in DOMAIN a.vl : IsArray([a EXCEPT !.vl = [a.vl EXCEPT ![i] = v]])
<1>1. a.meta \in Seq(Contents) /\ a.vl \in Seq(Contents)
  BY ArrayFacts
<1>2. ASSUME NEW i \in DOMAIN a.meta
      PROVE  IsArray([a EXCEPT !.meta = [a.meta EXCEPT ![i] = v]])
  <2> DEFINE m == [a.meta EXCEPT ![i] = v]
  <2>1. m \in Seq(Contents)
    BY <1>1
  <2> HIDE DEF m
  <2>2. IsArray([a EXCEPT !.meta = m])
    BY <2>1, ArrayChanged
  <2> QED BY <2>2 DEF m
<1>3. ASSUME NEW i \in DOMAIN a.vl
      PROVE  IsArray([a EXCEPT !.vl = [a.vl EXCEPT ![i] = v]])
  <2> DEFINE m == [a.vl EXCEPT ![i] = v]
  <2>1. m \in Seq(Contents)
    BY <1>1
  <2> HIDE DEF m
  <2>2. IsArray([a EXCEPT !.vl = m])
    BY <2>1, ArrayChanged
  <2> QED BY <2>2 DEF m
<1> QED BY <1>2, <1>3

\* Calls that put an array, or nothing, at one place.
LEMMA PlaceSet ==
    ASSUME TypeOK, Called, NEW d \in Places, NEW x, x = None \/ IsArray(x),
           store' = [store EXCEPT ![d] = x],
           open' \subseteq Places, \A l \in open' : l \in open \/ l = d,
           d \in open' => x # None,
           frame' = None \/ IsArray(frame'), pc' = "idle", cur' \in Nat,
           ret' \in {"SUCCEED", "BLOSC_FAILED", "NULL_POINTER", "CRASHED"}
    PROVE  TypeOK'
<1>1. /\ left' \in 0..MaxCalls /\ store = [l \in Places |-> store[l]]
      /\ \A l \in Places : store[l] = None \/ IsArray(store[l])
      /\ open \subseteq {l \in Places : store[l] # None}
  BY CalledFacts
<1>2. /\ store' = [l \in Places |-> store'[l]] /\ store'[d] = x
      /\ \A l \in Places : l # d => store'[l] = store[l]
      /\ \A l \in Places : store'[l] = None \/ IsArray(store'[l])
  BY <1>1, StoreSet
<1>3. open' \subseteq {l \in Places : store'[l] # None}
  BY <1>1, <1>2
<1> QED BY <1>1, <1>2, <1>3 DEF TypeOK

\* caterva_free keeps the invariant.
LEMMA CloseWhole == ASSUME Whole, Close PROVE Whole'
<1>1. PICK l \in open :
        /\ Short("close", l) /\ open' = open \ {l}
        /\ store' = IF l \in Memory THEN [store EXCEPT ![l] = None] ELSE store
  BY DEF Close
<1>2. /\ TypeOK /\ Called /\ ret' = "SUCCEED" /\ frame' = frame /\ pc' = "idle" /\ cur' = 0
      /\ job'.op = "close"
  BY <1>1 DEF Whole, Close, Short, NoJob
<1>3. /\ open \subseteq {q \in Places : store[q] # None} /\ l \in Places
      /\ frame = None \/ IsArray(frame)
  BY <1>2, CalledFacts
<1>4. TypeOK'
  <2>1. CASE l \in Memory
    <3>1. store' = [store EXCEPT ![l] = None]
      BY <1>1, <2>1
    <3>2. open' \subseteq Places /\ l \notin open' /\ \A q \in open' : q \in open
      BY <1>1, <1>3
    <3> DEFINE x == None
    <3>3. x = None \/ IsArray(x)
      OBVIOUS
    <3>4. store' = [store EXCEPT ![l] = x]
      BY <3>1
    <3> HIDE DEF x
    <3> QED BY <1>2, <1>3, <3>2, <3>3, <3>4, PlaceSet
  <2>2. CASE l \notin Memory
    <3>1. store' = store
      BY <1>1, <2>2
    <3>2. open' \subseteq {q \in Places : store'[q] # None}
      BY <1>1, <1>3, <3>1
    <3>3. left' \in 0..MaxCalls
      BY <1>2, CalledFacts
    <3> QED BY <1>2, <3>1, <3>2, <3>3 DEF TypeOK
  <2> QED BY <2>1, <2>2
<1> QED BY <1>2, <1>4, ShortWhole

\* caterva_open keeps the invariant.
LEMMA OpenWhole == ASSUME Whole, Open PROVE Whole'
<1>1. PICK l \in Disk \ open :
        /\ Short("open", l)
        /\ IF store[l] = None THEN ret' = "NULL_POINTER" /\ UNCHANGED open
           ELSE ret' = "SUCCEED" /\ open' = open \cup {l}
  BY DEF Open
<1>2. /\ TypeOK /\ Called /\ store' = store /\ frame' = frame /\ pc' = "idle" /\ cur' = 0
      /\ job'.op = "open"
  BY <1>1 DEF Whole, Open, Short, NoJob
<1>3. left' \in 0..MaxCalls /\ open \subseteq {q \in Places : store[q] # None} /\ l \in Places
  BY <1>2, CalledFacts DEF Places
<1>4. open' \subseteq {q \in Places : store'[q] # None}
  BY <1>1, <1>2, <1>3
<1>5. TypeOK'
  BY <1>1, <1>2, <1>3, <1>4 DEF TypeOK
<1> QED BY <1>2, <1>5, ShortWhole

\* caterva_remove keeps the invariant.
LEMMA RemoveFileWhole == ASSUME Whole, RemoveFile PROVE Whole'
<1>1. PICK l \in Disk \ open :
        /\ Short("remove", l)
        /\ ret' = IF store[l] = None THEN "BLOSC_FAILED" ELSE "SUCCEED"
        /\ store' = [store EXCEPT ![l] = None]
  BY DEF RemoveFile
<1>2. /\ TypeOK /\ Called /\ open' = open /\ frame' = frame /\ pc' = "idle" /\ cur' = 0
      /\ job'.op = "remove"
  BY <1>1 DEF Whole, RemoveFile, Short, NoJob
<1>3. /\ open \subseteq {q \in Places : store[q] # None} /\ l \in Places
      /\ frame = None \/ IsArray(frame)
  BY <1>2, CalledFacts DEF Places
<1>4. TypeOK'
  <2> DEFINE x == None
  <2>1. /\ x = None \/ IsArray(x)
        /\ store' = [store EXCEPT ![l] = x]
        /\ open' \subseteq Places /\ l \notin open' /\ \A q \in open' : q \in open
        /\ ret' \in {"SUCCEED", "BLOSC_FAILED", "NULL_POINTER", "CRASHED"}
    BY <1>1, <1>2, <1>3
  <2> HIDE DEF x
  <2> QED BY <1>2, <1>3, <2>1, PlaceSet
<1> QED BY <1>2, <1>4, ShortWhole

\* caterva_to_cframe keeps the invariant.
LEMMA ToFrameWhole == ASSUME Whole, ToFrame PROVE Whole'
<1>1. PICK l \in open : Short("to_cframe", l) /\ frame' = store[l]
  BY DEF ToFrame
<1>2. /\ TypeOK /\ Called /\ store' = store /\ open' = open /\ pc' = "idle" /\ cur' = 0
      /\ job'.op = "to_cframe" /\ ret' = "SUCCEED"
  BY <1>1 DEF Whole, ToFrame, Short, NoJob
<1>3. left' \in 0..MaxCalls /\ IsArray(store[l])
  BY <1>2, CalledFacts
<1>4. TypeOK'
  BY <1>1, <1>2, <1>3 DEF TypeOK
<1> QED BY <1>2, <1>4, ShortWhole

\* caterva_from_cframe keeps the invariant.
LEMMA FromFrameWhole == ASSUME Whole, FromFrame PROVE Whole'
<1>1. PICK l \in Memory :
        /\ Short("from_cframe", l) /\ store' = [store EXCEPT ![l] = frame]
        /\ open' = open \cup {l}
  BY DEF FromFrame
<1>2. /\ TypeOK /\ Called /\ frame # None /\ frame' = frame /\ pc' = "idle" /\ cur' = 0
      /\ job'.op = "from_cframe" /\ ret' = "SUCCEED"
  BY <1>1 DEF Whole, FromFrame, Short, NoJob
<1>3. /\ open \subseteq {q \in Places : store[q] # None} /\ l \in Places
      /\ frame = None \/ IsArray(frame)
  BY <1>2, CalledFacts DEF Places
<1>4. open' \subseteq Places /\ \A q \in open' : q \in open \/ q = l
  BY <1>1, <1>3
<1>5. TypeOK'
  BY <1>1, <1>2, <1>3, <1>4, PlaceSet
<1> QED BY <1>2, <1>5, ShortWhole

\* caterva_vlmeta_add and caterva_vlmeta_update keep the invariant.
LEMMA ChangeVlMetaWhole == ASSUME Whole, AddVlMeta \/ UpdateVlMeta PROVE Whole'
<1>1. PICK l \in open, v \in Contents :
        /\ Short("vlmeta", l)
        /\ \/ /\ ret' = "SUCCEED"
              /\ \/ store' = [store EXCEPT ![l].vl = Append(@, v)]
                 \/ \E i \in DOMAIN store[l].vl : store' = [store EXCEPT ![l].vl[i] = v]
           \/ ret' = "BLOSC_FAILED" /\ store' = store
  BY DEF AddVlMeta, UpdateVlMeta
<1>2. /\ TypeOK /\ Called /\ open' = open /\ frame' = frame /\ pc' = "idle" /\ cur' = 0
      /\ job'.op = "vlmeta"
  BY <1>1 DEF Whole, AddVlMeta, UpdateVlMeta, Short, NoJob
<1>3. /\ open \subseteq {q \in Places : store[q] # None} /\ l \in Places /\ IsArray(store[l])
      /\ store = [q \in Places |-> store[q]] /\ left' \in 0..MaxCalls
      /\ frame = None \/ IsArray(frame)
  BY <1>2, CalledFacts
<1> DEFINE a == store[l]
<1>4. CASE ret' = "SUCCEED" /\ store' # store
  <2>1. \E x : IsArray(x) /\ store' = [store EXCEPT ![l] = x]
    <3>1. CASE store' = [store EXCEPT ![l].vl = Append(@, v)]
      <4>1. store' = [store EXCEPT ![l] = Add(a, v)]
        BY <3>1 DEF Add
      <4>2. IsArray(Add(a, v))
        BY <1>3, AddFacts
      <4> QED BY <4>1, <4>2
    <3>2. CASE \E i \in DOMAIN a.vl : store' = [store EXCEPT ![l].vl[i] = v]
      <4>1. PICK i \in DOMAIN a.vl : store' = [store EXCEPT ![l].vl[i] = v]
        BY <3>2
      <4> DEFINE x == [a EXCEPT !.vl = [a.vl EXCEPT ![i] = v]]
      <4>2. store' = [store EXCEPT ![l] = x]
        BY <4>1
      <4>3. IsArray(x)
        BY <1>3, MetaChanged
      <4> HIDE DEF x
      <4> QED BY <4>2, <4>3
    <3> QED BY <1>1, <1>4, <3>1, <3>2
  <2>2. PICK x : IsArray(x) /\ store' = [store EXCEPT ![l] = x]
    BY <2>1
  <2>3. x # None
    BY <2>2, ArrayFacts
  <2>4. TypeOK'
    BY <1>2, <1>3, <1>4, <2>2, <2>3, PlaceSet
  <2> QED BY <1>2, <2>4, ShortWhole
<1>5. CASE store' = store
  <2>1. TypeOK'
    BY <1>1, <1>2, <1>3, <1>5 DEF TypeOK
  <2> QED BY <1>2, <2>1, ShortWhole
<1> QED BY <1>1, <1>4, <1>5

\* caterva_meta_update keeps the invariant.
LEMMA ChangeMetaWhole == ASSUME Whole, ChangeMeta PROVE Whole'
<1>1. PICK l \in open, v \in Contents :
        /\ Short("meta", l)
        /\ \/ /\ \E i \in DOMAIN store[l].meta : store' = [store EXCEPT ![l].meta[i] = v]
              /\ ret' = "SUCCEED"
           \/ ret' = "BLOSC_FAILED" /\ store' = store
  BY DEF ChangeMeta
<1>2. /\ TypeOK /\ Called /\ open' = open /\ frame' = frame /\ pc' = "idle" /\ cur' = 0
      /\ job'.op = "meta"
  BY <1>1 DEF Whole, ChangeMeta, Short, NoJob
<1>3. /\ open \subseteq {q \in Places : store[q] # None} /\ l \in Places /\ IsArray(store[l])
      /\ left' \in 0..MaxCalls
      /\ frame = None \/ IsArray(frame)
  BY <1>2, CalledFacts
<1> DEFINE a == store[l]
<1>4. CASE \E i \in DOMAIN a.meta : store' = [store EXCEPT ![l].meta[i] = v]
  <2>1. PICK i \in DOMAIN a.meta : store' = [store EXCEPT ![l].meta[i] = v]
    BY <1>4
  <2> DEFINE x == [a EXCEPT !.meta = [a.meta EXCEPT ![i] = v]]
  <2>2. store' = [store EXCEPT ![l] = x]
    BY <2>1
  <2>3. IsArray(x)
    BY <1>3, MetaChanged
  <2> HIDE DEF x
  <2>4. x # None
    BY <2>3, ArrayFacts
  <2>5. ret' \in {"SUCCEED", "BLOSC_FAILED"}
    BY <1>1
  <2>6. TypeOK'
    BY <1>2, <1>3, <2>2, <2>3, <2>4, <2>5, PlaceSet
  <2> QED BY <1>2, <2>6, ShortWhole
<1>5. CASE store' = store
  <2>1. TypeOK'
    BY <1>1, <1>2, <1>3, <1>5 DEF TypeOK
  <2> QED BY <1>2, <2>1, ShortWhole
<1> QED BY <1>1, <1>4, <1>5

\* caterva_save keeps the invariant, whatever it leaves in the file.
LEMMA SaveWhole == ASSUME Whole, Save PROVE Whole'
<1>1. PICK s \in open, d \in Disk :
        /\ Begins("save", s, d, store[s].part, Origin, store[s].shape, store[s].meta,
                  store[s].vl)
        /\ \E r \in {store[s]} \cup IF Faults THEN Remains(d, store[s]) ELSE {} :
              store' = [store EXCEPT ![d] = r]
  BY DEF Save
<1>2. PICK r \in {store[s]} \cup IF Faults THEN Remains(d, store[s]) ELSE {} :
        store' = [store EXCEPT ![d] = r]
  BY <1>1
<1>3. /\ TypeOK /\ Called /\ open' = open /\ frame' = frame /\ pc' = "idle" /\ cur' = 0
      /\ job'.op = "save" /\ ret' = "SUCCEED" /\ store[d] = None
  BY <1>1 DEF Whole, Save, Begins, IsFree, Return
<1>4. /\ open \subseteq {q \in Places : store[q] # None} /\ IsArray(store[s]) /\ d \in Places
      /\ frame = None \/ IsArray(frame)
  BY <1>3, CalledFacts DEF Places
<1>5. r = None \/ IsArray(r)
  BY <1>2, <1>4, RemainsFacts
<1>6. TypeOK'
  <2>1. open' \subseteq Places /\ d \notin open' /\ \A l \in open' : l \in open
    BY <1>3, <1>4
  <2> QED BY <1>2, <1>3, <1>4, <1>5, <2>1, PlaceSet
<1> QED BY <1>3, <1>6, ShortWhole

\* A copy made by Blosc2 in one go is the source, or the call fails.
LEMMA CopyWholeWhole ==
    ASSUME Whole, Called, NEW s \in open, NEW d \in Places,
           Begins("copy", s, d, store[s].part, Origin, store[s].shape, store[s].meta,
                  store[s].vl),
           CopyWhole(s, d), open' = IF ret' = "SUCCEED" THEN open \cup {d} ELSE open
    PROVE  Whole'
<1>1. /\ job'.op = "copy" /\ job'.src = s /\ job'.dst = d /\ job'.part = store[s].part
      /\ job'.meta = store[s].meta /\ job'.vl = store[s].vl
      /\ job'.items = ItemsFrom(store[s], Origin, store[s].shape)
      /\ cur' = 0 /\ frame' = frame /\ store[d] = None /\ TypeOK
  BY DEF Begins, IsFree, Whole
<1>2. /\ open \subseteq {q \in Places : store[q] # None} /\ IsArray(store[s]) /\ s \in Places
      /\ s # d
      /\ frame = None \/ IsArray(frame)
      /\ store = [q \in Places |-> store[q]]
      /\ \A l \in Places : store[l] = None \/ IsArray(store[l])
  <2>1. /\ open \subseteq {q \in Places : store[q] # None} /\ IsArray(store[s])
        /\ frame = None \/ IsArray(frame)
        /\ store = [q \in Places |-> store[q]]
        /\ \A l \in Places : store[l] = None \/ IsArray(store[l])
    BY <1>1, CalledFacts
  <2> QED BY <1>1, <2>1
<1>3. PICK x : /\ store' = [store EXCEPT ![d] = x]
               /\ x = None \/ IsArray(x)
               /\ (ret' = "SUCCEED" /\ x = store[s]) \/ ret' = "BLOSC_FAILED"
  <2>1. CASE store' = [store EXCEPT ![d] = store[s]] /\ ret' = "SUCCEED"
    BY <1>2, <2>1
  <2>2. CASE /\ ret' = "BLOSC_FAILED"
             /\ \E r \in Remains(d, store[s]) : store' = [store EXCEPT ![d] = r]
    <3>1. PICK r \in Remains(d, store[s]) : store' = [store EXCEPT ![d] = r]
      BY <2>2
    <3>2. r = None \/ IsArray(r)
      BY <1>2, RemainsFacts
    <3> QED BY <2>2, <3>1, <3>2
  <2> QED BY <2>1, <2>2 DEF CopyWhole, Return
<1>4. pc' = "idle"
  BY DEF CopyWhole, Return
<1>5. /\ store' = [l \in Places |-> store'[l]] /\ store'[d] = x
      /\ \A l \in Places : l # d => store'[l] = store[l]
  BY <1>2, <1>3, StoreSet
<1>6. TypeOK'
  <2>1. /\ open' \subseteq Places /\ \A l \in open' : l \in open \/ l = d
        /\ d \in open' => x # None
    <3>1. store[s] # None
      BY <1>2
    <3> QED BY <1>1, <1>2, <1>3, <3>1
  <2> QED BY <1>1, <1>2, <1>3, <1>4, <2>1, PlaceSet
<1>7. Making'
  BY <1>1, <1>4 DEF Making
<1>8. Prefix'
  <2>1. (cur = 0 \/ job.op \notin {"copy", "slice"} => Prefix)'
    BY NoPrefix, PTL
  <2> QED BY <1>1, <2>1
<1>9. Results'
  <2>1. CASE ret' = "SUCCEED"
    <3>1. store'[d] = store[s] /\ store'[s] = store[s]
      BY <1>2, <1>3, <1>5, <2>1
    <3>2. CopyEqualsSource'
      BY <1>1, <3>1 DEF CopyEqualsSource, Holds, Items
    <3>3. SliceHasItems'
      BY <1>1 DEF SliceHasItems, Succeeded
    <3>4. PaddingOfCopy'
      BY <1>1, <3>1 DEF PaddingOfCopy
    <3> QED BY <3>2, <3>3, <3>4 DEF Results
  <2>2. CASE ret' # "SUCCEED"
    <3>1. (~(Succeeded("copy") \/ Succeeded("slice")) => Results)'
      BY NoResult, PTL
    <3> QED BY <2>2, <3>1 DEF Succeeded
  <2> QED BY <2>1, <2>2
<1> QED BY <1>6, <1>7, <1>8, <1>9 DEF Whole

\* caterva_copy keeps the invariant: the partition asked for is that of the source, or the
\* copy is made by slices, of all of the source.
LEMMA CopyCallWhole == ASSUME Whole, Copy PROVE Whole'
<1>1. TypeOK /\ Called
  BY DEF Whole, Copy
<1>2. PICK s \in open, d \in Places, part \in Parts :
        /\ Begins("copy", s, d, part, Origin, store[s].shape, store[s].meta, store[s].vl)
        /\ IF part = store[s].part
           THEN /\ CopyWhole(s, d)
                /\ open' = IF ret' = "SUCCEED" THEN open \cup {d} ELSE open
           ELSE BeginSlices(d, part, store[s].shape, store[s].meta, "vlmeta")
  BY DEF Copy
<1>3. CASE part = store[s].part
  BY <1>1, <1>2, <1>3, CopyWholeWhole
<1>4. CASE part # store[s].part
  <2>1. pc = "idle" /\ left' \in 0..MaxCalls /\ IsArray(store[s])
    BY <1>1, CalledFacts
  <2>2. store[s].shape \in [Dims -> Nat] /\ store[s].meta \in Seq(Contents)
    BY <2>1, ArrayFacts
  <2>3. Origin \in [Dims -> Nat] /\ \A j \in Dims : Origin[j] + store[s].shape[j] <= store[s].shape[j]
    BY <2>2 DEF Origin
  <2> DEFINE start == Origin
             shape == store[s].shape
             meta == store[s].meta
             vl == store[s].vl
             op == "copy"
             after == "vlmeta"
  <2>4. /\ start \in [Dims -> Nat] /\ shape \in [Dims -> Nat] /\ meta \in Seq(Contents)
        /\ (op = "copy" /\ after = "vlmeta") \/ (op = "slice" /\ after = "idle")
        /\ op = "copy" => part # store[s].part /\ vl = store[s].vl
        /\ \A j \in Dims : start[j] + shape[j] <= store[s].shape[j]
        /\ Begins(op, s, d, part, start, shape, meta, vl)
        /\ BeginSlices(d, part, shape, meta, after)
    BY <1>2, <1>4, <2>2, <2>3
  <2> HIDE DEF start, shape, meta, vl, op, after
  <2> QED BY <2>1, <2>4, BeginStep
<1> QED BY <1>3, <1>4

\* caterva_get_slice keeps the invariant.
LEMMA GetSliceWhole == ASSUME Whole, GetSlice PROVE Whole'
<1>1. TypeOK /\ Called
  BY DEF Whole, GetSlice
<1>2. PICK s \in open, d \in Places, part \in Parts :
       \E stop \in Box(Origin, [j \in Dims |-> store[s].shape[j] + 1]) :
       \E start \in Box(Origin, [j \in Dims |-> stop[j] + 1]) :
        /\ Begins("slice", s, d, part, start, Minus(stop, start), << >>, << >>)
        /\ BeginSlices(d, part, Minus(stop, start), << >>, "idle")
  BY DEF GetSlice
<1>3. PICK stop \in Box(Origin, [j \in Dims |-> store[s].shape[j] + 1]) :
       \E start \in Box(Origin, [j \in Dims |-> stop[j] + 1]) :
        /\ Begins("slice", s, d, part, start, Minus(stop, start), << >>, << >>)
        /\ BeginSlices(d, part, Minus(stop, start), << >>, "idle")
  BY <1>2
<1>4. PICK start \in Box(Origin, [j \in Dims |-> stop[j] + 1]) :
        /\ Begins("slice", s, d, part, start, Minus(stop, start), << >>, << >>)
        /\ BeginSlices(d, part, Minus(stop, start), << >>, "idle")
  BY <1>3
<1>5. pc = "idle" /\ left' \in 0..MaxCalls /\ IsArray(store[s])
  BY <1>1, CalledFacts
<1>6. store[s].shape \in [Dims -> Nat]
  BY <1>5, ArrayFacts
<1>7. stop \in [Dims -> Nat] /\ \A j \in Dims : stop[j] <= store[s].shape[j]
  <2> DEFINE hi == [j \in Dims |-> store[s].shape[j] + 1]
  <2>1. hi \in [Dims -> Int]
    BY <1>6
  <2>2. stop \in [Dims -> Nat] /\ \A j \in Dims : stop[j] < hi[j]
    <3> HIDE DEF hi
    <3>1. stop \in Box(Origin, hi)
      BY DEF hi
    <3> QED BY <2>1, <3>1, OriginBox
  <2> QED BY <1>6, <2>2
<1>8. start \in [Dims -> Nat] /\ \A j \in Dims : start[j] <= stop[j]
  <2> DEFINE hi == [j \in Dims |-> stop[j] + 1]
  <2>1. hi \in [Dims -> Int]
    BY <1>7
  <2>2. start \in [Dims -> Nat] /\ \A j \in Dims : start[j] < hi[j]
    <3> HIDE DEF hi
    <3>1. start \in Box(Origin, hi)
      BY DEF hi
    <3> QED BY <2>1, <3>1, OriginBox
  <2> QED BY <1>7, <2>2
<1> DEFINE shape == Minus(stop, start)
           meta == << >>
           op == "slice"
           after == "idle"
<1>9. shape \in [Dims -> Nat] /\ \A j \in Dims : start[j] + shape[j] <= store[s].shape[j]
  BY <1>6, <1>7, <1>8 DEF Minus
<1>10. /\ meta \in Seq(Contents)
       /\ (op = "copy" /\ after = "vlmeta") \/ (op = "slice" /\ after = "idle")
       /\ op # "copy"
       /\ Begins(op, s, d, part, start, shape, meta, meta)
       /\ BeginSlices(d, part, shape, meta, after)
  BY <1>4
<1> HIDE DEF shape, meta, op, after
<1> QED BY <1>5, <1>8, <1>9, <1>10, BeginStep

\* The end of the process keeps the invariant: an array that was being made stays as it is in
\* the file, or is gone.
LEMMA CrashWhole == ASSUME Whole, Crash PROVE Whole'
<1>1. /\ store' = [l \in Places |-> IF l \in Disk THEN store[l] ELSE None]
      /\ open' = {} /\ frame' = None /\ pc' = "idle" /\ ret' = "CRASHED"
      /\ job' = job /\ cur' = cur /\ left' = left
  BY DEF Crash, Return
<1>2. TypeOK'
  BY <1>1 DEF Whole, TypeOK
<1>3. Making'
  BY <1>1 DEF Whole, Making
<1>4. Prefix'
  <2>1. CASE job.op \in {"copy", "slice"}
    <3>1. job.dst \in Places
      BY <2>1 DEF Whole, Making
    <3>2. store'[job.dst] = None \/ store'[job.dst] = store[job.dst]
      BY <1>1, <3>1
    <3> QED BY <1>1, <3>2 DEF Whole, Prefix, Target
  <2>2. CASE job.op \notin {"copy", "slice"}
    BY <1>1, <2>2 DEF Prefix
  <2> QED BY <2>1, <2>2
<1>5. Results'
  <2>1. (~(Succeeded("copy") \/ Succeeded("slice")) => Results)'
    BY NoResult, PTL
  <2> QED BY <1>1, <2>1 DEF Succeeded
<1> QED BY <1>2, <1>3, <1>4, <1>5 DEF Whole

-----------------------------------------------------------------------------
(* The results. *)

\* The arrays there are at the beginning satisfy the invariant.
LEMMA InitWhole == Init => Whole
<1> SUFFICES ASSUME Init PROVE Whole
  OBVIOUS
<1>1. PICK s \in Sources, l \in Memory :
        store = [[q \in Places |-> None] EXCEPT ![l] = s] /\ open = {l}
  BY DEF Init
<1>2. /\ frame = None /\ pc = "idle" /\ job.op = "none" /\ cur = 0 /\ ret = "SUCCEED"
      /\ left = MaxCalls
  BY DEF Init, NoJob
<1>3. IsArray(s) /\ s # None /\ l \in Places
  BY SourcesAssumption, NoneAssumption DEF Places
<1>4. TypeOK
  <2>1. /\ store[l] = s /\ \A q \in Places : q # l => store[q] = None
        /\ store = [q \in Places |-> store[q]]
    BY <1>1, <1>3
  <2>2. left \in 0..MaxCalls
    BY <1>2, CopiesBoundsAssumption
  <2>3. open \subseteq {q \in Places : store[q] # None}
    BY <1>1, <1>3, <2>1
  <2>4. \A q \in Places : store[q] = None \/ IsArray(store[q])
    BY <1>3, <2>1
  <2> QED BY <1>2, <2>1, <2>2, <2>3, <2>4 DEF TypeOK
<1>5. Making
  BY <1>2 DEF Making
<1>6. Prefix
  BY <1>2, NoPrefix
<1>7. Results
  BY <1>2, NoResult DEF Succeeded
<1> QED BY <1>4, <1>5, <1>6, <1>7 DEF Whole

\* A step that changes nothing.
LEMMA SameWhole == ASSUME Whole, UNCHANGED vars PROVE Whole'
BY DEF vars, Whole, TypeOK, Making, Prefix, Results, CopyEqualsSource, SliceHasItems,
       PaddingOfCopy, Succeeded, Holds, Target

\* Every step preserves the invariant.
LEMMA NextWhole == Whole /\ [Next]_vars => Whole'
<1> SUFFICES ASSUME Whole, [Next]_vars PROVE Whole'
  OBVIOUS
<1>1. CASE Copy
  BY <1>1, CopyCallWhole
<1>2. CASE GetSlice
  BY <1>2, GetSliceWhole
<1>3. CASE Save
  BY <1>3, SaveWhole
<1>4. CASE Close
  BY <1>4, CloseWhole
<1>5. CASE Open
  BY <1>5, OpenWhole
<1>6. CASE RemoveFile
  BY <1>6, RemoveFileWhole
<1>7. CASE ToFrame
  BY <1>7, ToFrameWhole
<1>8. CASE FromFrame
  BY <1>8, FromFrameWhole
<1>9. CASE AddVlMeta \/ UpdateVlMeta
  BY <1>9, ChangeVlMetaWhole
<1>10. CASE ChangeMeta
  BY <1>10, ChangeMetaWhole
<1>11. CASE SliceStep
  BY <1>11, SliceStepWhole
<1>12. CASE SliceUnreadable \/ SliceFails \/ VlFails
  BY <1>12, StopWhole
<1>13. CASE SlicesEnd
  BY <1>13, SlicesEndWhole
<1>14. CASE VlStep
  BY <1>14, VlStepWhole
<1>15. CASE VlEnd
  BY <1>15, VlEndWhole
<1>16. CASE Crash
  BY <1>16, CrashWhole
<1>17. CASE UNCHANGED vars
  BY <1>17, SameWhole
<1> QED BY <1>1, <1>2, <1>3, <1>4, <1>5, <1>6, <1>7, <1>8, <1>9, <1>10, <1>11, <1>12, <1>13,
           <1>14, <1>15, <1>16, <1>17 DEF Next, Loop

\* In every behaviour the invariant holds.
LEMMA AlwaysWhole == Spec => []Whole
BY InitWhole, NextWhole, PTL DEF Spec

\* Whatever is called, fails, or ends the process, every handle belongs to an array that is
\* there, and no array has more chunks than its grid, or a chunk of another size
\* (caterva_copy, caterva_get_slice, caterva_save, caterva_open).
THEOREM TypeCorrect == Spec => []TypeOK
<1>1. Whole => TypeOK
  BY DEF Whole
<1> QED BY <1>1, AlwaysWhole, PTL

\* Both ways of caterva_copy give the array that was to be copied: its items, unless its
\* chunks could not be put into it, and all its metalayers, for every partition of either.
THEOREM CopiesAreEqual == Spec => []CopyEqualsSource
<1>1. Whole => CopyEqualsSource
  BY DEF Whole, Results
<1> QED BY <1>1, AlwaysWhole, PTL

\* caterva_get_slice gives the items of the slice, in a grid of its own.
THEOREM SlicesAreWhole == Spec => []SliceHasItems
<1>1. Whole => SliceHasItems
  BY DEF Whole, Results
<1> QED BY <1>1, AlwaysWhole, PTL

\* A new array that was made by slices has zeros behind its items, one that Blosc2 copied
\* what the source has there.
THEOREM PaddingIsKnown == Spec => []PaddingOfCopy
<1>1. Whole => PaddingOfCopy
  BY DEF Whole, Results
<1> QED BY <1>1, AlwaysWhole, PTL

\* A copy by slices that an error or the end of the process stopped is a whole array with the
\* chunks it had come to, and zeros in the others.
THEOREM StoppedCopiesArePrefixes == Spec => []StoppedIsPrefix
<1>1. Whole => StoppedIsPrefix
  BY DEF Whole, Prefix, StoppedIsPrefix
<1> QED BY <1>1, AlwaysWhole, PTL

\* What is at one place only may have changed.
LEMMA OnePlace ==
    ASSUME store = [l \in Places |-> store[l]], NEW d,
           \E x : store' = [store EXCEPT ![d] = x]
    PROVE  \A l \in Places : store'[l] # store[l] => l = d
OBVIOUS

\* A call that begins changes the place of its new array only.
LEMMA BeginSlicesPlace ==
    ASSUME NEW d, NEW part, NEW shape, NEW meta, NEW after,
           BeginSlices(d, part, shape, meta, after)
    PROVE  \E x : store' = [store EXCEPT ![d] = x]
<1> DEFINE a == Empty(part, shape, meta)
<1>1. CASE \E filled \in {TRUE, ~Faults} :
              store' = [store EXCEPT ![d] = IF filled THEN a ELSE [a EXCEPT !.chunks = << >>]]
  <2> HIDE DEF a
  <2> QED BY <1>1
<1>2. CASE \E m \in Prefixes(meta) :
           \E r \in {None} \cup IF d \in Disk
                                THEN {[a EXCEPT !.chunks = << >>, !.meta = m]} ELSE {} :
             store' = [store EXCEPT ![d] = r]
  <2> HIDE DEF a
  <2> QED BY <1>2
<1> QED BY <1>1, <1>2 DEF BeginSlices

\* The place a call, or a turn of its loop, writes to is that of its own array.
LEMMA WritesOwn ==
    ASSUME Whole, [Next]_vars
    PROVE  \/ store' = store
           \/ \E x : store' = [store EXCEPT ![job'.dst] = x]
           \/ \A l \in Places : store'[l] = store[l] \/ store'[l] = None
<1>1. CASE Copy
  <2>1. PICK s \in open, d \in Places, part \in Parts :
          /\ job'.dst = d
          /\ IF part = store[s].part THEN CopyWhole(s, d)
             ELSE BeginSlices(d, part, store[s].shape, store[s].meta, "vlmeta")
    BY <1>1 DEF Copy, Begins
  <2>2. CASE part = store[s].part
    BY <2>1, <2>2 DEF CopyWhole
  <2>3. CASE part # store[s].part
    BY <2>1, <2>3, BeginSlicesPlace
  <2> QED BY <2>2, <2>3
<1>2. CASE GetSlice
  <2>1. \E d, part, shape, meta, after :
            job'.dst = d /\ BeginSlices(d, part, shape, meta, after)
    <3>1. PICK s \in open, d \in Places, part \in Parts :
             \E stop \in Box(Origin, [j \in Dims |-> store[s].shape[j] + 1]) :
             \E start \in Box(Origin, [j \in Dims |-> stop[j] + 1]) :
                /\ Begins("slice", s, d, part, start, Minus(stop, start), << >>, << >>)
                /\ BeginSlices(d, part, Minus(stop, start), << >>, "idle")
      BY <1>2 DEF GetSlice
    <3>2. PICK stop \in Box(Origin, [j \in Dims |-> store[s].shape[j] + 1]) :
             \E start \in Box(Origin, [j \in Dims |-> stop[j] + 1]) :
                /\ Begins("slice", s, d, part, start, Minus(stop, start), << >>, << >>)
                /\ BeginSlices(d, part, Minus(stop, start), << >>, "idle")
      BY <3>1
    <3>3. PICK start \in Box(Origin, [j \in Dims |-> stop[j] + 1]) :
                /\ Begins("slice", s, d, part, start, Minus(stop, start), << >>, << >>)
                /\ BeginSlices(d, part, Minus(stop, start), << >>, "idle")
      BY <3>2
    <3>4. job'.dst = d
      BY <3>3 DEF Begins
    <3> QED BY <3>3, <3>4
  <2>2. PICK d, part, shape, meta, after :
            job'.dst = d /\ BeginSlices(d, part, shape, meta, after)
    BY <2>1
  <2> QED BY <2>2, BeginSlicesPlace
<1>3. CASE Save
  <2>1. PICK s \in open, d \in Disk :
          /\ Begins("save", s, d, store[s].part, Origin, store[s].shape, store[s].meta,
                    store[s].vl)
          /\ \E r \in {store[s]} \cup IF Faults THEN Remains(d, store[s]) ELSE {} :
                store' = [store EXCEPT ![d] = r]
    BY <1>3 DEF Save
  <2>2. job'.dst = d
    BY <2>1 DEF Begins
  <2> QED BY <2>1, <2>2
<1>4. CASE Close
  <2>1. PICK l \in open :
          /\ job'.dst = l
          /\ store' = IF l \in Memory THEN [store EXCEPT ![l] = None] ELSE store
    BY <1>4 DEF Close, Short, NoJob
  <2> QED BY <2>1
<1>5. CASE RemoveFile
  BY <1>5 DEF RemoveFile, Short, NoJob
<1>6. CASE FromFrame
  BY <1>6 DEF FromFrame, Short, NoJob
<1>7. CASE AddVlMeta \/ UpdateVlMeta
  <2>1. PICK l \in open, v \in Contents :
          /\ job'.dst = l
          /\ \/ store' = [store EXCEPT ![l].vl = Append(@, v)]
             \/ \E i \in DOMAIN store[l].vl : store' = [store EXCEPT ![l].vl[i] = v]
             \/ store' = store
    BY <1>7 DEF AddVlMeta, UpdateVlMeta, Short, NoJob
  <2> QED BY <2>1
<1>8. CASE ChangeMeta
  <2>1. PICK l \in open, v \in Contents :
          /\ job'.dst = l
          /\ \/ \E i \in DOMAIN store[l].meta : store' = [store EXCEPT ![l].meta[i] = v]
             \/ store' = store
    BY <1>8 DEF ChangeMeta, Short, NoJob
  <2> QED BY <2>1
<1>9. CASE SliceStep
  BY <1>9, SliceStepPuts DEF SliceStep, Whole
<1>10. CASE VlStep
  <2>1. /\ job' = job
        /\ store' = [store EXCEPT ![job.dst].vl = Append(@, store[job.src].vl[Len(@) + 1])]
    BY <1>10 DEF VlStep
  <2> QED BY <2>1
<1>11. CASE Crash
  BY <1>11 DEF Crash
<1>12. CASE \/ Open \/ ToFrame \/ SliceUnreadable \/ SlicesEnd \/ VlEnd \/ SliceFails \/ VlFails
            \/ UNCHANGED vars
  BY <1>12 DEF Open, ToFrame, SliceUnreadable, SlicesEnd, VlEnd, SliceFails, VlFails, vars
<1> QED BY <1>1, <1>2, <1>3, <1>4, <1>5, <1>6, <1>7, <1>8, <1>9, <1>10, <1>11, <1>12
        DEF Next, Loop

\* No call but the one that makes an array, and the change of a metalayer, changes what an
\* array holds: a copy shares nothing with its source (caterva_copy, caterva_get_slice,
\* caterva_from_cframe).
THEOREM CopiesAreIndependent == Spec => OthersKept
<1>1. Whole /\ [Next]_vars =>
        [\A l \in Places : store'[l] # store[l] => l = job'.dst \/ store'[l] = None]_vars
  <2> SUFFICES ASSUME Whole, [Next]_vars
               PROVE  \A l \in Places : store'[l] # store[l] => l = job'.dst \/ store'[l] = None
    OBVIOUS
  <2>1. store = [l \in Places |-> store[l]]
    BY DEF Whole, TypeOK
  <2>2. CASE \E x : store' = [store EXCEPT ![job'.dst] = x]
    BY <2>1, <2>2, OnePlace
  <2> QED BY <2>2, WritesOwn
<1> QED BY <1>1, AlwaysWhole, PTL DEF Spec, OthersKept
=============================================================================
