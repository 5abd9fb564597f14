------------------------------- MODULE Regrid -------------------------------
(***************************************************************************)
(* What becomes of a grid of chunks when ranges are cut out of the         *)
(* dimensions of an array or put into them.                                *)
(***************************************************************************)
EXTENDS Geometry

\* Where the chunk at c stood, or will stand, across a range of the given
\* lengths that begins at start.
Shifted(c, start, len, sign) ==
    [j \in Dims |-> IF ChunkShape[j] * c[j] < start[j] THEN c[j]
                    ELSE c[j] + sign * (len[j] \div ChunkShape[j])]

Covers(start, len, c) ==
    \E j \in Dims : /\ ChunkShape[j] * c[j] >= start[j]
                    /\ ChunkShape[j] * c[j] < start[j] + len[j]

\* A range of len items may be cut out of or put into the end of a dimension,
\* or anywhere else in whole chunks.
Fits(start, len, end, limit) ==
    \A j \in Dims :
        \/ len[j] = 0
        \/ start[j] = end[j]
        \/ /\ start[j] % ChunkShape[j] = 0
           /\ len[j] % ChunkShape[j] = 0
           /\ start[j] <= limit[j]

\* Mutant of CutCells: the chunks behind the range stay where they were.
CutCellsInPlace(cells, from, to, start) == [c \in GridCoords(to) |-> cells[c]]

\* The chunks of an array, by coordinates, after it has been shortened from shape
\* from to shape to, and lengthened from shape from to shape to.
CutCells(cells, from, to, start) ==
    LET len == [j \in Dims |-> from[j] - to[j]]
    IN  [c \in GridCoords(to) |-> cells[Shifted(c, start, len, 1)]]

GrownCells(cells, from, to, start, zero) ==
    LET len == [j \in Dims |-> to[j] - from[j]]
    IN  [c \in GridCoords(to) |-> IF Covers(start, len, c) THEN zero
                                 ELSE cells[Shifted(c, start, len, -1)]]

\* Mutant of Aligned: the test on the length of the range is missing.
AlignedByStartOnly(from, to, start) ==
    \A j \in Dims :
        \/ to[j] = from[j]
        \/ to[j] > from[j] /\ start[j] = from[j]
        \/ to[j] < from[j] /\ start[j] + from[j] - to[j] = from[j]
        \/ start[j] % ChunkShape[j] = 0

\* caterva_resize lets a range that is not at the end of the array be cut out
\* or put in only in whole chunks.
Aligned(from, to, start) ==
    \A j \in Dims :
        \/ to[j] = from[j]
        \/ to[j] > from[j] /\ start[j] = from[j]
        \/ to[j] < from[j] /\ start[j] + from[j] - to[j] = from[j]
        \/ /\ start[j] % ChunkShape[j] = 0
           /\ (to[j] - from[j]) % ChunkShape[j] = 0
=============================================================================
