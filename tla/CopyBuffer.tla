----------------------------- MODULE CopyBuffer -----------------------------
(***************************************************************************)
(* caterva_copy_buffer with the loops specialised by number of dimensions, *)
(* copy2dim to copy8dim: nested do-while loops over the coordinates of the *)
(* rows, each counter set back when the one around it moves.  Of one       *)
(* dimension there is a single row.                                        *)
(***************************************************************************)
EXTENDS RowCopy, FiniteSetsExt

CONSTANTS
    SrcShapes,  \* the padded shapes of source buffers
    DstShapes,  \* the padded shapes of destination buffers
    Old         \* what the destination holds before

VARIABLES
    at,     \* copy_start: the coordinates of the row to be copied
    pc      \* "called", "copying" or "done"

vars == <<args, src, dst, at, pc>>

ASSUME ShapesAssumption == SrcShapes \cup DstShapes \subseteq [Dims -> Nat \ {0}]

\* The corners a box of that shape may have.
Corners(shape) == Box(Origin, [j \in Dims |-> shape[j] + 1])

\* What callers pass: any box of the source, and a place for it in the destination.
Init ==
    /\ \E s \in SrcShapes, d \in DstShapes :
       \E stop \in Corners(s) : \E start \in Corners(stop) :
       \E place \in Corners(Minus(d, Minus(stop, start))) :
        args = [srcShape |-> s, srcStart |-> start, srcStop |-> stop,
                dstShape |-> d, dstStart |-> place]
    /\ src = [n \in 0..Product(args.srcShape) - 1 |-> n]
    /\ dst = [n \in 0..Product(args.dstShape) - 1 |-> Old]
    /\ at = Origin
    /\ pc = "called"

\* A box with an empty dimension is not entered: the loops would copy a row before
\* they test their counters.
Enter ==
    /\ pc = "called"
    /\ pc' = IF NothingToCopy THEN "done" ELSE "copying"
    /\ UNCHANGED <<args, src, dst, at>>

\* The loops whose counter has not reached its end.
Unfinished == {j \in 1..NDim - 1 : at[j] + 1 < CopyShape[j]}

\* Mutants of Advance: a counter is set back and the one around it does not move, and
\* the outermost loop moves first.
AdvanceOnlyReset == [j \in Dims |-> IF j <= Max(Unfinished) THEN at[j] ELSE 0]

AdvanceOuter ==
    LET d == Min(Unfinished)
    IN  [j \in Dims |-> IF j > d THEN at[j] ELSE IF j = d THEN at[d] + 1 ELSE 0]

\* The innermost of them moves, and those inside it begin anew.
Advance ==
    LET d == Max(Unfinished)
    IN  [j \in Dims |-> IF j < d THEN at[j] ELSE IF j = d THEN at[d] + 1 ELSE 0]

CopyRow ==
    /\ pc = "copying"
    /\ dst' = RowCopied(at)
    /\ IF Unfinished = {} THEN pc' = "done" /\ UNCHANGED at
       ELSE at' = Advance /\ UNCHANGED pc
    /\ UNCHANGED <<args, src>>

Next == Enter \/ CopyRow

Spec == Init /\ [][Next]_vars /\ WF_vars(Next)

-----------------------------------------------------------------------------
(* Properties. *)

\* When the copy is done, every place of the destination inside the box holds what
\* the same place of the box holds in the source, and every other what it held.
CopiesBox ==
    pc = "done" =>
        \A c \in Box(Origin, args.dstShape) :
            LET b == Minus(c, args.dstStart)
                s == Plus(args.srcStart, b)
            IN  dst[MultidimToUnidim(c, Strides(args.dstShape))] =
                    IF b \in Box(Origin, CopyShape)
                    THEN src[MultidimToUnidim(s, Strides(args.srcShape))]
                    ELSE Old

\* How many rows are copied.
RowsCopied ==
    IF pc = "called" \/ NothingToCopy THEN 0
    ELSE IF pc = "copying" THEN MultidimToUnidim(at, Strides(Rows)) ELSE Product(Rows)

\* The loops copy the rows that copy_ndim_fallback copies, in its order.
Generic == INSTANCE CopyFallback WITH ncopy <- RowsCopied

IsFallback == Generic!Spec

\* Every copy ends.
CopyEnds == <>(pc = "done")
=============================================================================
