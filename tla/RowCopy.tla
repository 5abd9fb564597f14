------------------------------ MODULE RowCopy ------------------------------
(***************************************************************************)
(* Copying a box of one buffer to a box of another (caterva_copy_buffer),  *)
(* by rows: what both ways of going through the rows have in common.       *)
(* Buffers are flat: functions from 0..n-1.                                *)
(***************************************************************************)
EXTENDS Multidim

VARIABLES
    args,   \* the arguments: the two padded shapes, where the box starts and stops
            \* in the source, where it starts in the destination
    src,    \* the source buffer
    dst     \* the destination buffer

CopyShape == Minus(args.srcStop, args.srcStart)
NothingToCopy == \E j \in Dims : CopyShape[j] = 0

\* The rows of the box: a box without its last dimension.
Rows == [CopyShape EXCEPT ![NDim] = 1]

\* Mutant of Offset: the strides of the box instead of those of the buffer.
OffsetInBox(row, start, padShape) ==
    MultidimToUnidim(start, Strides(padShape)) + MultidimToUnidim(row, Strides(CopyShape))

\* Where a row begins in a buffer in which the box begins at start.
Offset(row, start, padShape) ==
    MultidimToUnidim(start, Strides(padShape)) + MultidimToUnidim(row, Strides(padShape))

\* The destination when one more row is copied: one memcpy.
RowCopied(row) ==
    LET from == Offset(row, args.srcStart, args.srcShape)
        to   == Offset(row, args.dstStart, args.dstShape)
    IN  [n \in DOMAIN dst |-> IF n \in to..to + CopyShape[NDim] - 1 THEN src[from + n - to]
                              ELSE dst[n]]
=============================================================================
