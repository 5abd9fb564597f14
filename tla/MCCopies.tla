------------------------------ MODULE MCCopies ------------------------------
(***************************************************************************)
(* Small instances of Copies.  Items are numbered from 1, the padding of   *)
(* sources is 90.                                                          *)
(***************************************************************************)
EXTENDS Copies

CONSTANTS m1, m2, f1, none

MCMemory == {m1, m2}
MCDisk == {f1}

MCParts == {[chunk |-> <<2>>, block |-> <<2>>], [chunk |-> <<3>>, block |-> <<2>>]}

MCShapes == {<<3>>, <<0>>}

\* The chunk at coordinates c of an array.
MCChunk(part, shape, c) ==
    [p \in ChunkBox(part) |->
        LET i == Plus([j \in Dims |-> c[j] * part.chunk[j]], p)
        IN  IF \A j \in Dims : p[j] < part.chunk[j] /\ i[j] < shape[j]
            THEN 1 + MultidimToUnidim(i, Strides(shape)) ELSE 90]

MCArray(part, shape) ==
    [part |-> part, shape |-> shape, meta |-> <<"v">>, vl |-> <<"v", "w">>,
     chunks |-> [k \in 1..NumChunks(part, shape) |->
                    MCChunk(part, shape, UnidimToMultidim(ChunkGrid(shape, part.chunk), k - 1))]]

MCSources == {MCArray(part, shape) : part \in MCParts, shape \in MCShapes}
MCContents == {"v", "w"}
MCValues == 0..99
=============================================================================
