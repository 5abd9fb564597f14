------------------------------- MODULE Array -------------------------------
(***************************************************************************)
(* A Caterva array as its users see it: the calls that create it, change   *)
(* its shape (resize, insert, append, delete) and read and write slices of *)
(* it, one after the other, down to single items and padding.              *)
(*                                                                         *)
(* A resize happens at once here, as the Grid of the module Resize; the    *)
(* slice that insert writes after it goes chunk by chunk (module Slice) and*)
(* may fail in the middle.                                                 *)
(***************************************************************************)
EXTENDS Slice, Regrid, FiniteSetsExt

\* A resize goes through the extents both shapes have, and stops there when they
\* are empty.
ASSUME ClosedAssumption == \A s, t \in Shapes : Lesser(s, t) \in Shapes

\* The largest buffer holds the one item caterva_full is given.
ASSUME FillAssumption == \A j \in Dims : BufferShape[j] > 0

VARIABLES
    job,     \* the arguments of the last call that changed the shape
    before   \* history: the items of the array when that call was made

allVars == <<vars, job, before>>

Jobs == [op : {"none", "insert", "delete", "resize"}, axis : Dims,
         pos : Nat, len : Nat, code : {"SUCCEED", "INVALID_ARGUMENT"}]

NoJob == [op |-> "none", axis |-> 1, pos |-> 0, len |-> 0, code |-> "SUCCEED"]

\* Whatever the calls have made of the shape, there are always as many chunks as it needs.
ArrayTypeOK ==
    /\ TypeOK
    /\ Len(sc) = NumChunks(shape)
    /\ job \in Jobs
    /\ \A c \in DOMAIN before : before[c] \in Values

-----------------------------------------------------------------------------
(* Chunks by their coordinates, and by their numbers. *)

\* Mutant of ZeroChunk: a chunk that nobody has cleared.
UninitChunk == [p \in ChunkBox |-> CHOOSE v \in Values : v # Zero]

ZeroChunk == [p \in ChunkBox |-> Zero]

Cells == [c \in GridCoords(shape) |->
             sc[MultidimToUnidim(c, Strides(ChunksInArray(shape))) + 1]]

List(cells, s) ==
    [k \in 1..NumChunks(s) |-> cells[UnidimToMultidim(ChunksInArray(s), k - 1)]]

-----------------------------------------------------------------------------
(* Creating an array, in place of the one there was. *)

Create(s, chunk) ==
    /\ shape' = s
    /\ sc' = [k \in 1..NumChunks(s) |-> chunk]
    /\ job' = NoJob
    /\ before' = << >>

\* A call that is over with this one step, and touches no slice.
Answered(code) ==
    /\ ret' = code
    /\ call' = NoCall
    /\ buf' = << >>
    /\ UNCHANGED <<pc, cur, data>>

\* caterva_empty and caterva_zeros.
Zeros ==
    /\ Called
    /\ \E s \in Shapes : Create(s, ZeroChunk)
    /\ Answered("SUCCEED")

\* caterva_full fills whole chunks, their padding too.
Full ==
    /\ Called
    /\ \E s \in Shapes, f \in Buffers :
          Create(s, [p \in ChunkBox |-> f[Origin]])
    /\ Answered("SUCCEED")

\* caterva_from_buffer.
FromBuffer ==
    /\ Called
    /\ \E s \in Shapes, f \in Buffers, enough \in BOOLEAN :
        /\ Create(s, ZeroChunk)
        /\ buf' = [q \in Box(Origin, s) |-> f[q]]
        /\ EnterSet(s, Origin, s, enough)

\* caterva_to_buffer.
ToBuffer ==
    /\ Called
    /\ \E enough \in BOOLEAN :
        /\ buf' = [q \in Box(Origin, shape) |-> Garbage]
        /\ EnterGet(Origin, shape, shape, enough)
    /\ job' = NoJob
    /\ before' = << >>
    /\ UNCHANGED <<shape, sc>>

-----------------------------------------------------------------------------
(* Changing the shape. *)

\* caterva_resize to shape new: the answer it gives, and the shape and chunks it
\* leaves.  Passing no start is the same as passing the end the shorter of the
\* two shapes has in each dimension.
AtTheEnd(new) == Lesser(new, shape)

Accepted(new, start) ==
    /\ \A j \in Dims : start[j] <= shape[j]
    /\ Aligned(shape, new, start)

Answer(new, start) ==
    IF Accepted(new, start) /\ ~IsEmpty(shape) /\ ~IsEmpty(Lesser(new, shape))
    THEN "SUCCEED" ELSE "INVALID_ARGUMENT"

ShapeAfter(new, start) ==
    IF ~Accepted(new, start) \/ IsEmpty(shape) THEN shape
    ELSE IF IsEmpty(Lesser(new, shape)) THEN Lesser(new, shape) ELSE new

\* Mutant of ChunksAfter: an array that is emptied keeps its chunks.
ChunksKept(new, start) ==
    LET mid  == Lesser(new, shape)
        rest == CutCells(Cells, shape, mid, start)
    IN  IF ~Accepted(new, start) \/ IsEmpty(shape) \/ IsEmpty(mid) THEN sc
        ELSE List(GrownCells(rest, mid, new, start, ZeroChunk), new)

ChunksAfter(new, start) ==
    LET mid  == Lesser(new, shape)
        rest == CutCells(Cells, shape, mid, start)
    IN  IF ~Accepted(new, start) \/ IsEmpty(shape) THEN sc
        ELSE IF IsEmpty(mid) THEN << >>
        ELSE List(GrownCells(rest, mid, new, start, ZeroChunk), new)

DoResize(new, start) ==
    /\ shape' = ShapeAfter(new, start)
    /\ sc' = ChunksAfter(new, start)
    /\ before' = Items

Note(op, axis, pos, len, code) ==
    job' = [op |-> op, axis |-> axis, pos |-> pos, len |-> len, code |-> code]

\* One axis of the array longer, or shorter, by n; and a position on that axis.
Longer(axis, n) == [shape EXCEPT ![axis] = @ + n]
On(axis, pos) == [j \in Dims |-> IF j = axis THEN pos ELSE 0]

\* caterva_insert, and caterva_append where pos is the end.  len is what the size
\* of the buffer comes to, if it comes to a whole number (even).  A dimension
\* other than axis that is empty makes the code divide by zero.
Insert ==
    /\ Called
    /\ \E axis \in Dims : \E pos \in 0..shape[axis] + 1, len \in 0..BufferShape[axis],
          f \in Buffers, even \in BOOLEAN :
        LET new   == Longer(axis, len)
            start == IF pos = shape[axis] THEN AtTheEnd(new) ELSE On(axis, pos)
            first == On(axis, pos)
            code  == IF even THEN Answer(new, start) ELSE "INVALID_ARGUMENT"
        IN  /\ \A j \in Dims \ {axis} : shape[j] > 0
            /\ new \in Shapes
            /\ Note("insert", axis, pos, len, code)
            /\ IF code = "SUCCEED"
               THEN /\ DoResize(new, start)
                    /\ buf' = [q \in Box(Origin, [new EXCEPT ![axis] = len]) |-> f[q]]
                    /\ EnterSet(new, first, [new EXCEPT ![axis] = pos + len], TRUE)
               ELSE /\ Answered(code)
                    /\ before' = Items
                    /\ UNCHANGED <<shape, sc>>

\* caterva_delete of a range inside the array.
Delete ==
    /\ Called
    /\ \E axis \in Dims : \E pos \in 0..shape[axis] : \E len \in 0..shape[axis] - pos :
        LET new   == Longer(axis, -len)
            start == IF pos = shape[axis] - len THEN AtTheEnd(new) ELSE On(axis, pos)
        IN  /\ new \in Shapes
            /\ DoResize(new, start)
            /\ Note("delete", axis, pos, len, Answer(new, start))
            /\ Answered(Answer(new, start))

\* caterva_resize without a start.
Resize ==
    /\ Called
    /\ \E new \in Shapes :
        /\ DoResize(new, AtTheEnd(new))
        /\ Note("resize", 1, 0, 0, Answer(new, AtTheEnd(new)))
        /\ Answered(Answer(new, AtTheEnd(new)))

\* caterva_insert, caterva_append or caterva_delete with an axis the array has not got.
NoSuchAxis ==
    /\ Called
    /\ job' = NoJob
    /\ before' = << >>
    /\ Answered("INVALID_ARGUMENT")
    /\ UNCHANGED <<shape, sc>>

ArrayInit ==
    /\ Init
    /\ job = NoJob
    /\ before = << >>

\* Reading and writing slices.
Slicing ==
    \/ /\ SetSlice \/ GetSlice
       /\ job' = NoJob
       /\ before' = << >>
    \/ /\ SliceStep \/ ChunkFails
       /\ UNCHANGED <<job, before>>

ArrayNext ==
    \/ Zeros \/ Full \/ FromBuffer \/ ToBuffer
    \/ Insert \/ Delete \/ Resize \/ NoSuchAxis
    \/ Slicing

ArraySpec == ArrayInit /\ [][ArrayNext]_allVars

-----------------------------------------------------------------------------
(* Properties. *)

\* Coordinates c moved by n along the axis of the job.
Along(c, n) == [c EXCEPT ![job.axis] = @ + n]

Refused == job.code # "SUCCEED"

\* An insertion moves the items behind its place and none before it, also when
\* writing the new ones fails half way; one that succeeds has put the buffer in
\* between; one that is refused has done nothing.
InsertSplices ==
    job.op = "insert" /\ pc = "idle" =>
        IF Refused THEN Items = before
        ELSE /\ DOMAIN Items = Box(Origin, shape)
             /\ \A c \in DOMAIN before :
                   LET d == IF c[job.axis] < job.pos THEN c ELSE Along(c, job.len)
                   IN  d \in DOMAIN Items /\ Items[d] = before[c]
             /\ ret = "SUCCEED" =>
                   \A q \in DOMAIN buf : Items[Along(q, job.pos)] = buf[q]
             /\ ret = "SUCCEED" =>
                   Cardinality(DOMAIN Items) =
                      Cardinality(DOMAIN before) + Cardinality(DOMAIN buf)

\* A deletion removes the range it is told, wherever chunks begin and end, and
\* joins what is on both sides of it.  One that empties the array is refused,
\* with the array empty; any other refusal has done nothing.
DeleteCloses ==
    job.op = "delete" /\ pc = "idle" =>
        IF Refused THEN Items = before \/ shape[job.axis] = 0
        ELSE /\ \A c \in DOMAIN Items :
                   Items[c] = before[IF c[job.axis] < job.pos THEN c ELSE Along(c, job.len)]
             /\ \A c \in DOMAIN before :
                   \/ c[job.axis] \in job.pos..job.pos + job.len - 1
                   \/ c[job.axis] < job.pos /\ c \in DOMAIN Items
                   \/ Along(c, -job.len) \in DOMAIN Items

\* A resize at the end keeps every item both shapes have.  What it adds is zero
\* where a chunk is new; in a chunk there was, it is what its padding held.
OldShape == [j \in Dims |-> IF before = << >> THEN 0
                            ELSE 1 + Max({c[j] : c \in DOMAIN before})]
ResizeKeeps ==
    job.op = "resize" /\ pc = "idle" /\ ~Refused =>
        \A c \in DOMAIN Items :
            /\ c \in DOMAIN before => Items[c] = before[c]
            /\ (\E j \in Dims : (c[j] \div ChunkShape[j]) * ChunkShape[j] >= OldShape[j])
                  => Items[c] = Zero
=============================================================================
