------------------------------ MODULE Geometry ------------------------------
(***************************************************************************)
(* The shape arithmetic of a Caterva array: how the items of an array are  *)
(* cut into chunks of ChunkShape items, and how the chunks are numbered in *)
(* the super-chunk that stores them, from 0 on as in the code.             *)
(***************************************************************************)
EXTENDS Partition

CONSTANT
    ChunkShape   \* items of a chunk in each dimension (chunkshape)

\* A partition has at least one item in every dimension: the code divides by
\* its extents without a test.
ASSUME ChunkShapeAssumption == ChunkShape \in [Dims -> Nat \ {0}]

-----------------------------------------------------------------------------
(* The padded shape and the grid of chunks (caterva_update_shape). *)

\* The shape rounded up to whole chunks (extshape).
ExtShape(shape) == Padded(shape, ChunkShape)

\* How many chunks the array has in each dimension.
ChunksInArray(shape) == ChunkGrid(shape, ChunkShape)

\* How many chunks the super-chunk of an array of that shape holds (nchunks).
NumChunks(shape) == ChunkCount(shape, ChunkShape)

\* The coordinates of the chunks of an array of that shape.
GridCoords(shape) ==
    LET grid == ChunksInArray(shape)
    IN  {c \in [Dims -> UNION {0..(grid[j] - 1) : j \in Dims}] :
            \A j \in Dims : c[j] < grid[j]}
=============================================================================
