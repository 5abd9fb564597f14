------------------------------ MODULE MCArray ------------------------------
(***************************************************************************)
(* Small instances of Array, with the numbered items of MCSlice.           *)
(***************************************************************************)
EXTENDS Array

MCChunk32 == <<3, 2>>
MCBlock21 == <<2, 1>>
MCShapes43 == {s \in [Dims -> 0..4] : s[2] <= 3}
MCBuffer43 == <<4, 3>>

Index(c, dims) == MultidimToUnidim(c, Strides(dims))

MCValues == 0..99
MCBuffers == {[q \in Box(Origin, BufferShape) |-> 30 + Index(q, BufferShape)]}

\* The chunk at coordinates c of a new array.
MCChunk(c) ==
    [p \in ChunkBox |->
        LET i == Plus([j \in Dims |-> c[j] * ChunkShape[j]], p)
        IN  IF \A j \in Dims : p[j] < ChunkShape[j] /\ i[j] < shape[j]
            THEN 1 + Index(i, shape) ELSE 90]

MCInit ==
    /\ shape \in Shapes
    /\ sc = [k \in 1..NumChunks(shape) |-> MCChunk(UnidimToMultidim(ChunksInArray(shape), k - 1))]
    /\ pc = "idle"
    /\ call = NoCall
    /\ buf = << >>
    /\ cur = 0
    /\ data = Unread
    /\ ret = "SUCCEED"
    /\ left = MaxCalls
    /\ job = NoJob
    /\ before = << >>

MCSpec == MCInit /\ [][ArrayNext]_allVars
=============================================================================
