---------------------------- MODULE MCSelection ----------------------------
(***************************************************************************)
(* Small instances of Selection.  Items are numbered from 1, the padding is*)
(* 90, what is written is numbered from 10.                                *)
(***************************************************************************)
EXTENDS Selection

MCChunk23 == <<2, 3>>
MCBlock12 == <<1, 2>>
MCShapes34 == {<<3, 4>>}

MCChunk22 == <<2, 2>>
MCShapes42 == {<<4, 2>>}

MCBehind == {2}
MCExtent == {1}

Index(c, dims) == MultidimToUnidim(c, Strides(dims))

MCValues == 0..99
MCBufferShape == [j \in Dims |-> MaxIndexes + MaxPad]
MCBuffers == {[q \in Box(Origin, MCBufferShape) |-> 10 + Index(q, MCBufferShape)]}

MCChunk(c) ==
    [p \in ChunkBox |->
        LET i == Plus([j \in Dims |-> c[j] * ChunkShape[j]], p)
        IN  IF \A j \in Dims : p[j] < ChunkShape[j] /\ i[j] < shape[j]
            THEN 1 + Index(i, shape) ELSE 90]

MCInit ==
    /\ shape \in Shapes
    /\ sc = [k \in 1..NumChunks(shape) |-> MCChunk(UnidimToMultidim(ChunksInArray(shape), k - 1))]
    /\ pc = "idle"
    /\ call = [op |-> "none", list |-> ListOf(<< >>)]
    /\ order = ListOf(<< >>)
    /\ at = ListOf(1)
    /\ buf = << >>
    /\ ret = "SUCCEED"
    /\ left = MaxCalls

MCSpec == MCInit /\ [][Next]_vars
=============================================================================
