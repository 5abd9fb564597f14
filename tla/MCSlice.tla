------------------------------ MODULE MCSlice ------------------------------
(***************************************************************************)
(* Small instances of Slice.  The item at each coordinate, the padding, and*)
(* what is written at each place of a buffer are told apart by their       *)
(* values: items are numbered from 1, the padding is 90, what call n       *)
(* writes from 10.                                                         *)
(***************************************************************************)
EXTENDS Slice

MCChunk13 == <<1, 3>>
MCBlock12 == <<1, 2>>
MCShapes24 == {<<0, 1>>, <<2, 4>>}
MCBuffer35 == <<3, 5>>

Index(c, dims) == MultidimToUnidim(c, Strides(dims))

MCValues == 0..99
MCBuffers == {[q \in Box(Origin, BufferShape) |-> 10 + Index(q, BufferShape)]}

\* The chunk at coordinates c of a new array.
MCChunk(c) ==
    [p \in ChunkBox |->
        LET i == Plus([j \in Dims |-> c[j] * ChunkShape[j]], p)
        IN  IF \A j \in Dims : p[j] < ChunkShape[j] /\ i[j] < shape[j]
            THEN 1 + Index(i, shape) ELSE 90]

MCInit ==
    /\ shape \in Shapes
    /\ sc = [k \in 1..NumChunks(shape) |-> MCChunk(UnidimToMultidim(ChunksInArray(shape), k - 1))]
    /\ pc = "idle"
    /\ call = NoCall
    /\ buf = << >>
    /\ cur = 0
    /\ data = Unread
    /\ ret = "SUCCEED"
    /\ left = MaxCalls

MCSpec == MCInit /\ [][Next]_vars
=============================================================================
