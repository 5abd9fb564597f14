------------------------------ MODULE Partition ------------------------------
(***************************************************************************)
(* The shape arithmetic of an array of any shape and partition: how it is  *)
(* padded to whole chunks, how the chunks are numbered, and which chunk    *)
(* holds an item.  Modules about one partition fix the chunk.              *)
(***************************************************************************)
EXTENDS Multidim

RoundUp(n, m) == IF n % m = 0 THEN n ELSE n + m - (n % m)

\* A shape rounded up to whole parts: an array to chunks (extshape), a chunk to blocks
\* (extchunkshape).  An empty dimension stays empty.
Padded(shape, part) == [j \in Dims |-> RoundUp(shape[j], part[j])]

\* How many chunks an array has in each dimension, and in all.
ChunkGrid(shape, chunk) == [j \in Dims |-> Padded(shape, chunk)[j] \div chunk[j]]
ChunkCount(shape, chunk) == Product(Padded(shape, chunk)) \div Product(chunk)

\* The number of the chunk with the item at coordinates c, and that item.
ChunkHolding(shape, chunk, c) ==
    MultidimToUnidim([j \in Dims |-> c[j] \div chunk[j]], Strides(ChunkGrid(shape, chunk)))
ItemHeld(shape, chunk, sc, c) ==
    sc[ChunkHolding(shape, chunk, c) + 1][[j \in Dims |-> c[j] % chunk[j]]]

\* Place p of chunk k is behind the items of the chunk, or outside the array.
IsPaddingOf(shape, chunk, k, p) ==
    LET c == UnidimToMultidim(ChunkGrid(shape, chunk), k)
    IN  \E j \in Dims : p[j] >= chunk[j] \/ c[j] * chunk[j] + p[j] >= shape[j]
=============================================================================
