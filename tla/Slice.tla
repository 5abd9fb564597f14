------------------------------- MODULE Slice -------------------------------
(***************************************************************************)
(* caterva_set_slice_buffer and caterva_get_slice_buffer: copying a box of *)
(* items between a caller's buffer and the chunks of an array.             *)
(*                                                                         *)
(* A call goes through the chunks one by one, with one buffer (data) for   *)
(* all of them.  A set reads a chunk it covers only in part, a get reads   *)
(* only the blocks it needs: whatever is not read is in data what an       *)
(* earlier chunk, or malloc, left there.                                   *)
(***************************************************************************)
EXTENDS Chunked

CONSTANTS
    Shapes,      \* the shapes an array may have
    Zero,        \* the item of zero bytes
    Garbage,     \* what malloc leaves in a buffer
    Buffers,     \* what callers write: functions from BufferBox to Values
    BufferShape, \* bound: the shape of the largest buffer
    Overhang,    \* bound: how far behind the array a slice that is read may end
    MaxPad,      \* bound: how much a buffer may be larger or smaller than a slice
    MaxCalls,    \* bound: how many calls of the library a behaviour makes
    Faults       \* whether Blosc calls may fail

ASSUME ShapesAssumption == Shapes \subseteq [Dims -> Nat]
ASSUME ZeroAssumption == Zero \in Values
ASSUME GarbageAssumption == Garbage \notin Values
ASSUME OverhangAssumption == Overhang \in Nat
ASSUME MaxPadAssumption == MaxPad \in Nat
ASSUME MaxCallsAssumption == MaxCalls \in Nat
\* The largest buffer holds any slice of any array, and the pad.
ASSUME BufferShapeAssumption ==
    /\ BufferShape \in [Dims -> Nat]
    /\ \A s \in Shapes, j \in Dims : s[j] + MaxPad <= BufferShape[j]
ASSUME FaultsAssumption == Faults \in BOOLEAN

ASSUME BuffersAssumption == Buffers \subseteq [Box(Origin, BufferShape) -> Values]

VARIABLES
    shape,  \* array->shape
    sc,     \* the decompressed chunks of the super-chunk, chunk k at sc[k + 1]
    pc,     \* "idle", or the loop that is running
    call,   \* its arguments
    buf,    \* the caller's buffer
    cur,    \* the counter of the loop over chunks (update_nchunk)
    data,   \* the buffer one chunk is decompressed into
    ret,    \* what the last call returned
    left    \* how many calls are left

vars == <<shape, sc, pc, call, buf, cur, data, ret, left>>

TypeOK ==
    /\ shape \in Shapes
    /\ sc \in Seq(ChunkData)
    /\ pc \in {"idle", "getting", "setting"}
    /\ call \in [op : {"none", "get", "set"}, start : [Dims -> Nat], stop : [Dims -> Nat]]
    /\ \A q \in DOMAIN buf : buf[q] \in Values \cup {Garbage}
    /\ cur \in Nat
    /\ data \in [ChunkBox -> Values \cup {Garbage}]
    /\ ret \in {"SUCCEED", "INVALID_ARGUMENT", "BLOSC_FAILED"}
    /\ left \in 0..MaxCalls

-----------------------------------------------------------------------------
(* Where a slice lies in the array. *)

\* The chunk in which the slice begins (update_start).
FirstChunk == [j \in Dims |-> call.start[j] \div ChunkShape[j]]

\* Mutant of ChunkSpan: as many as the length of the slice takes.
ChunkSpanOfLength ==
    [j \in Dims |->
        LET n == RoundUp(call.stop[j] - call.start[j], ChunkShape[j]) \div ChunkShape[j]
        IN  IF n > 1 THEN n ELSE 1]

\* How many chunks the loop goes through in each dimension (update_shape): at
\* least one, even for an empty slice.
ChunkSpan ==
    [j \in Dims |->
        LET n == RoundUp(call.stop[j], ChunkShape[j]) \div ChunkShape[j] - FirstChunk[j]
        IN  IF n > 1 THEN n ELSE 1]

\* The grid coordinates of the chunk the loop is at, and its number.
Here == Plus(FirstChunk, UnidimToMultidim(ChunkSpan, cur))

\* Mutant of NChunk: the number among the chunks the slice touches.
NChunkOfSlice == MultidimToUnidim(Here, Strides(ChunkSpan))

NChunk == MultidimToUnidim(Here, Strides(ChunksInArray(shape)))

\* The items it holds, clipped to the shape.
ChunkStart == [j \in Dims |-> Here[j] * ChunkShape[j]]
ChunkStop == Lesser(Plus(ChunkStart, ChunkShape), shape)

\* A box of the array has nothing in common with the slice.
Misses(lo, hi) == \E j \in Dims : hi[j] <= call.start[j] \/ lo[j] >= call.stop[j]

\* Block b of the chunk, clipped to the chunk.
BlockStart(b) ==
    Lesser([j \in Dims |-> ChunkStart[j] + b[j] * BlockShape[j]], ChunkStop)
BlockStop(b) ==
    Lesser([j \in Dims |-> ChunkStart[j] + (b[j] + 1) * BlockShape[j]], ChunkStop)

\* Mutant of MaskedOut: off by one at the start of the slice.
MaskedOutEarly(b) ==
    \E j \in Dims : \/ BlockStop(b)[j] <= call.start[j] + 1
                   \/ BlockStart(b)[j] >= call.stop[j]

\* What blosc2_set_maskout is told not to decompress.
MaskedOut(b) == Misses(BlockStart(b), BlockStop(b))

\* The item of the array at place p of the chunk, and whether the loop over the
\* blocks copies it: it skips the blocks that miss the slice, and clips the
\* others to the slice.
ItemAt(p) == Plus(ChunkStart, p)
Copied(p) ==
    LET b == BlockOf(p)
    IN  /\ ~Misses(BlockStart(b), BlockStop(b))
        /\ \A j \in Dims : /\ BlockStart(b)[j] <= ItemAt(p)[j]
                           /\ ItemAt(p)[j] < BlockStop(b)[j]
                           /\ call.start[j] <= ItemAt(p)[j]
                           /\ ItemAt(p)[j] < call.stop[j]

-----------------------------------------------------------------------------
(* The super-chunk, as its callers see it. *)

HasChunk(k) == k \in 0..Len(sc) - 1

NoCall == [op |-> "none", start |-> Origin, stop |-> Origin]
Unread == [p \in ChunkBox |-> Garbage]

Init ==
    /\ shape \in Shapes
    /\ sc \in [1..NumChunks(shape) -> ChunkData]
    /\ pc = "idle"
    /\ call = NoCall
    /\ buf = << >>
    /\ cur = 0
    /\ data = Unread
    /\ ret = "SUCCEED"
    /\ left = MaxCalls

-----------------------------------------------------------------------------
(* Entering and leaving a call. *)

\* A caller makes another call of the library.
Called == pc = "idle" /\ left > 0 /\ left' = left - 1

\* caterva_blosc_slice up to its loop, or the way round it when a test of its
\* caller gives an answer at once.
Enter(op, start, stop, answer) ==
    /\ call' = [op |-> op, start |-> start, stop |-> stop]
    /\ cur' = 0
    /\ data' = Unread
    /\ IF answer = "none"
       THEN pc' = (IF op = "set" THEN "setting" ELSE "getting") /\ UNCHANGED ret
       ELSE pc' = "idle" /\ ret' = answer

Leave(code) ==
    /\ pc' = "idle"
    /\ ret' = code
    /\ cur' = 0
    /\ data' = Unread

\* caterva_set_slice_buffer on an array of shape s.  The code compares the size of
\* the buffer, not its shape, with the slice.
EnterSet(s, start, stop, enough) ==
    Enter("set", start, stop, IF ~enough THEN "INVALID_ARGUMENT"
                              ELSE IF IsEmpty(s) THEN "SUCCEED" ELSE "none")

\* caterva_get_slice_buffer.
EnterGet(start, stop, bshape, enough) ==
    Enter("get", start, stop,
          IF \E j \in Dims : stop[j] - start[j] > bshape[j] THEN "INVALID_ARGUMENT"
          ELSE IF IsEmpty(shape) THEN "SUCCEED"
          ELSE IF enough THEN "none" ELSE "INVALID_ARGUMENT")

\* What callers pass: a slice of the array, which may reach over its end when it is read
\* (nothing in the code rejects one), and a buffer as large as the slice, or larger or
\* smaller than it by pad in every dimension.
StopsWithin(over) == Box(Origin, [j \in Dims |-> shape[j] + over + 1])
StartsBefore(stop) == Box(Origin, [j \in Dims |-> stop[j] + 1])
BufferBox(start, stop, pad) == Box(Origin, [j \in Dims |-> stop[j] - start[j] + pad])

SetSlice ==
    /\ Called
    /\ \E stop \in StopsWithin(0) : \E start \in StartsBefore(stop) :
       \E f \in Buffers, pad \in 0..MaxPad, enough \in BOOLEAN :
        /\ enough \/ pad = 0
        /\ buf' = [q \in BufferBox(start, stop, pad) |-> f[q]]
        /\ EnterSet(shape, start, stop, enough)
    /\ UNCHANGED <<shape, sc>>

GetSlice ==
    /\ Called
    /\ \E stop \in StopsWithin(Overhang) : \E start \in StartsBefore(stop) :
       \E pad \in -MaxPad..MaxPad, enough \in BOOLEAN :
        /\ enough \/ pad = 0
        /\ buf' = [q \in BufferBox(start, stop, pad) |-> Garbage]
        /\ EnterGet(start, stop, [j \in Dims |-> stop[j] - start[j] + pad], enough)
    /\ UNCHANGED <<shape, sc>>

-----------------------------------------------------------------------------
(* The loop over the chunks. *)

More == cur < Product(ChunkSpan)
SkipsChunk == Misses(ChunkStart, ChunkStop)

SkipChunk ==
    /\ pc \in {"getting", "setting"}
    /\ More
    /\ SkipsChunk
    /\ cur' = cur + 1
    /\ UNCHANGED <<shape, sc, pc, call, buf, data, ret, left>>

\* Mutant of CoveredInPart: every dimension has to leave something out.
CoveredInNoDimension ==
    \A j \in Dims : ChunkStart[j] < call.start[j] \/ ChunkStop[j] > call.stop[j]

\* The slice leaves out some item of the chunk, so that the chunk must be read
\* before it is written (decompress_chunk).
CoveredInPart ==
    \E j \in Dims : ChunkStart[j] < call.start[j] \/ ChunkStop[j] > call.stop[j]

\* Mutant of Underneath: nothing is cleared.
Leftover == IF CoveredInPart THEN sc[NChunk + 1] ELSE data

\* What data holds before the blocks are copied into it.
Underneath ==
    IF CoveredInPart THEN sc[NChunk + 1] ELSE [p \in ChunkBox |-> Zero]

Overwritten ==
    [p \in ChunkBox |-> IF Copied(p) THEN buf[Minus(ItemAt(p), call.start)]
                        ELSE Underneath[p]]

SetChunk ==
    /\ pc = "setting"
    /\ More
    /\ ~SkipsChunk
    /\ HasChunk(NChunk)
    /\ data' = Overwritten
    /\ sc' = [sc EXCEPT ![NChunk + 1] = data']
    /\ cur' = cur + 1
    /\ UNCHANGED <<shape, pc, call, buf, ret, left>>

\* Only the blocks that are not masked out are decompressed.
Decompressed ==
    [p \in ChunkBox |-> IF MaskedOut(BlockOf(p)) THEN data[p] ELSE sc[NChunk + 1][p]]

GetChunk ==
    /\ pc = "getting"
    /\ More
    /\ ~SkipsChunk
    /\ HasChunk(NChunk)
    /\ data' = Decompressed
    /\ buf' = [q \in DOMAIN buf |->
                  LET p == Minus(Plus(call.start, q), ChunkStart)
                  IN  IF p \in ChunkBox /\ Copied(p) THEN data'[p] ELSE buf[q]]
    /\ cur' = cur + 1
    /\ UNCHANGED <<shape, sc, pc, call, ret, left>>

SliceEnd ==
    /\ pc \in {"getting", "setting"}
    /\ ~More
    /\ Leave("SUCCEED")
    /\ UNCHANGED <<shape, sc, call, buf, left>>

\* Reading, compressing or replacing a chunk fails: the call returns at once, and
\* the chunks before this one are done.
ChunkFails ==
    /\ pc \in {"getting", "setting"}
    /\ More
    /\ ~SkipsChunk
    /\ Faults \/ ~HasChunk(NChunk)
    /\ Leave("BLOSC_FAILED")
    /\ UNCHANGED <<shape, sc, call, buf, left>>

SliceStep == SkipChunk \/ SetChunk \/ GetChunk \/ SliceEnd

Next == SetSlice \/ GetSlice \/ SliceStep \/ ChunkFails

Spec == Init /\ [][Next]_vars

-----------------------------------------------------------------------------
(* Properties. *)

Item(c) == ItemIn(shape, sc, c)
Items == ItemsIn(shape, sc)

InSlice(c) == \A j \in Dims : call.start[j] <= c[j] /\ c[j] < call.stop[j]

\* A get that succeeds has put every item of the slice in its place in the
\* buffer, none that was masked out of the decompression among them, and left
\* the rest of the buffer alone; also when the slice reaches over the end of the array, so
\* that the loop comes to chunks that are not there, or to numbers of other ones.
GetReturnsItems ==
    pc = "idle" /\ call.op = "get" /\ ret = "SUCCEED" =>
        \A q \in DOMAIN buf :
            LET c == Plus(call.start, q)
            IN  buf[q] = IF InSlice(c) /\ c \in Box(Origin, shape) THEN Item(c) ELSE Garbage

\* A chunk never ends up holding, in a place without an item, what was written
\* or read for another chunk: its padding is what it was, or zero.
PaddingIsOwn ==
    [][\A k \in 1..Len(sc) : \A p \in ChunkBox :
        IsPaddingIn(shape, k - 1, p) => sc'[k][p] \in {sc[k][p], Zero}]_vars

\* The slices still to be written: what is left of the buffer.
Turn(c) ==
    MultidimToUnidim([j \in Dims |-> c[j] \div ChunkShape[j] - FirstChunk[j]],
                     Strides(ChunkSpan))
Pending ==
    IF pc # "setting" THEN << >>
    ELSE [c \in {c \in Box(call.start, call.stop) : Turn(c) >= cur} |->
            buf[Minus(c, call.start)]]

\* Reads and writes of slices are those of an array of items.
Ideal == INSTANCE NdArray WITH
    items   <- Items,
    pending <- Pending,
    outcome <- IF pc = "idle" THEN ret ELSE "running"

IsArrayOfItems == Ideal!Spec
=============================================================================
