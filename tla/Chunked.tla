------------------------------ MODULE Chunked ------------------------------
(***************************************************************************)
(* The items inside the chunks.  A chunk is stored padded to whole blocks, *)
(* and the chunks at the end of an array hold places beyond its shape:     *)
(* both kinds of padding are stored, and a later extension may turn the    *)
(* second kind into items.  A place is a position in a stored chunk, the   *)
(* super-chunk sc a sequence of chunks, chunk k at sc[k + 1].              *)
(***************************************************************************)
EXTENDS Geometry, Sequences

CONSTANTS
    BlockShape,  \* items of a block in each dimension (blockshape)
    Values       \* what an item may be

ASSUME BlockShapeAssumption == BlockShape \in [Dims -> Nat \ {0}]

IsEmpty(s) == \E j \in Dims : s[j] = 0

\* A chunk padded to whole blocks (extchunkshape), and what may be stored in it.
ExtChunkShape == Padded(ChunkShape, BlockShape)
ChunkBox == Box(Origin, ExtChunkShape)
ChunkData == [ChunkBox -> Values]

BlockOf(p) == [j \in Dims |-> p[j] \div BlockShape[j]]

\* The item at coordinates c of an array of the given shape, and the places of
\* its chunk k that hold no item.
ChunkOf(shape, c) == ChunkHolding(shape, ChunkShape, c)
ItemIn(shape, sc, c) == ItemHeld(shape, ChunkShape, sc, c)
ItemsIn(shape, sc) == [c \in Box(Origin, shape) |-> ItemIn(shape, sc, c)]
IsPaddingIn(shape, k, p) == IsPaddingOf(shape, ChunkShape, k, p)
=============================================================================
