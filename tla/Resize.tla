------------------------------- MODULE Resize -------------------------------
(***************************************************************************)
(* caterva_resize and caterva_delete at the level of chunks.               *)
(*                                                                         *)
(* A handle (caterva_array_t) keeps a shape and a chunk count in memory.   *)
(* The super-chunk it points to keeps the list of chunks and, in the       *)
(* "caterva" metalayer, a second copy of the shape.  A resize first shrinks*)
(* every dimension that gets smaller and then extends every dimension that *)
(* gets larger.  Each half rewrites the shape and the metalayer first and  *)
(* only then deletes (or inserts) chunks, one Blosc call at a time, so the *)
(* array is inconsistent between two of these calls: any of them may fail, *)
(* and the process may stop between any two.                               *)
(*                                                                         *)
(* Chunks are opaque here: what matters is which of them survive, in what  *)
(* order, and at which coordinates of the grid they end up.                *)
(***************************************************************************)
EXTENDS Regrid, SequencesExt

CONSTANTS
    MaxExtent,   \* bound: no dimension is ever asked to be longer than this
                 \* (a shape: each dimension has a bound of its own)
    Contents,    \* what a chunk may hold
    Zero,        \* the chunk blosc2_chunk_zeros makes
    NULL,        \* the NULL pointer a caller passes for "no start"
    InRange,     \* whether callers keep the removed range inside the array
    Faults       \* whether Blosc calls may fail, and processes stop in a call

ASSUME MaxExtentAssumption == MaxExtent \in [Dims -> Nat]
ASSUME ZeroAssumption == Zero \in Contents
ASSUME InRangeAssumption == InRange \in BOOLEAN
ASSUME FaultsAssumption == Faults \in BOOLEAN

\* The shapes, and the starts, no dimension of which exceeds the given limit.
UpTo(limit) ==
    {s \in [Dims -> UNION {0..limit[j] : j \in Dims}] : \A j \in Dims : s[j] <= limit[j]}

Shapes == UpTo(MaxExtent)
Starts == UpTo([j \in Dims |-> MaxExtent[j] + 1])

\* NULL is no start; neither is it an array's chunks (where it says there are none).
ASSUME NULLAssumption ==
    /\ NULL \notin Starts
    /\ \A s \in Shapes : NULL \notin [GridCoords(s) -> Contents]

VARIABLES
    shape,    \* array->shape
    nchunks,  \* array->nchunks
    meta,     \* the shape serialized in the "caterva" metalayer
    sc,       \* the chunks of the super-chunk, chunk k at sc[k + 1]
    pc,       \* where the running call is
    call,     \* its arguments: new_shape and start
    old,      \* aux->shape: the shape before the running half
    cur,      \* the counter of the running loop (i of the code)
    ret,      \* what the last call returned
    src,      \* history: sc when the loop of the running half began
    damaged   \* history: a loop or a metalayer update was cut short

vars == <<shape, nchunks, meta, sc, pc, call, old, cur, ret, src, damaged>>

NoCall == [new |-> NULL, start |-> NULL]

\* The positions at which a call can be between two of its calls to Blosc.
Running == {"shrink", "deleting", "extend", "inserting", "extended"}

TypeOK ==
    /\ shape \in Shapes
    /\ meta \in Shapes
    /\ old \in Shapes
    /\ nchunks \in Nat
    /\ sc \in Seq(Contents)
    /\ src \in Seq(Contents)
    /\ pc \in Running \cup {"idle", "closed"}
    /\ call \in [new : Shapes \cup {NULL}, start : Starts \cup {NULL}]
    /\ pc \in Running => call.new \in Shapes
    /\ cur \in Int
    /\ pc = "inserting" => cur >= 0
    /\ ret \in {"SUCCEED", "INVALID_ARGUMENT", "BLOSC_FAILED"}
    /\ damaged \in BOOLEAN

-----------------------------------------------------------------------------
(* The super-chunk, as its callers see it. *)

HasChunk(k) == k \in 0..Len(sc) - 1

DeleteChunk(k) == sc' = RemoveAt(sc, k + 1)

InsertChunk(k, chunk) == sc' = InsertAt(sc, k + 1, chunk)

-----------------------------------------------------------------------------
(* Creating, closing and opening an array. *)

\* A new array: every creation function fills nchunks chunks and adds the
\* metalayer before it returns the handle.
Init ==
    /\ shape \in Shapes
    /\ sc \in [1..NumChunks(shape) -> Contents]
    /\ meta = shape
    /\ nchunks = NumChunks(shape)
    /\ pc = "idle"
    /\ call = NoCall
    /\ old = shape
    /\ cur = 0
    /\ ret = "SUCCEED"
    /\ src = << >>
    /\ damaged = FALSE

\* The call is over: its arguments and locals are gone.
Forget ==
    /\ call' = NoCall
    /\ old' = shape'
    /\ cur' = 0
    /\ src' = << >>

Return(code) ==
    /\ pc' = "idle"
    /\ ret' = code
    /\ Forget

\* Bound: at most one fault (an error Blosc makes of its own accord, or a call
\* the process does not survive) in a behaviour.
MayFault == Faults /\ ~damaged

\* caterva_free, or the end of the process at any point of a call: the handle
\* is gone, the super-chunk stays as it is on disk.
Close ==
    /\ pc # "closed"
    /\ pc \in Running => MayFault
    /\ pc' = "closed"
    /\ damaged' = (damaged \/ pc \in {"deleting", "inserting"})
    /\ UNCHANGED <<shape, nchunks, meta, sc, ret>>
    /\ Forget

\* caterva_open: the handle's shape and chunk count both come from the
\* metalayer, whatever the super-chunk holds.
Open ==
    /\ pc = "closed"
    /\ shape' = meta
    /\ nchunks' = NumChunks(meta)
    /\ Return("SUCCEED")
    /\ UNCHANGED <<meta, sc, damaged>>

-----------------------------------------------------------------------------
(* Entering a call. *)

Accepted(new, start) ==
    start # NULL => /\ \A j \in Dims : start[j] <= shape[j]
                    /\ Aligned(shape, new, start)

\* The range a caller removes lies inside the array.  The code never checks it.
RemovesItsOwnItems(new, start) ==
    start # NULL => \A j \in Dims : new[j] < shape[j] => start[j] <= new[j]

\* The body of caterva_resize up to its call of shrink_shape.
EnterResize(new, start) ==
    /\ InRange => RemovesItsOwnItems(new, start)
    /\ IF Accepted(new, start)
       THEN /\ pc' = "shrink"
            /\ call' = [new |-> new, start |-> start]
            /\ UNCHANGED ret
       ELSE /\ ret' = "INVALID_ARGUMENT"
            /\ UNCHANGED <<pc, call>>
    /\ UNCHANGED <<shape, nchunks, meta, sc, old, cur, src, damaged>>

Resize ==
    /\ pc = "idle"
    /\ \E new \in Shapes, start \in Starts \cup {NULL} : EnterResize(new, start)

\* Mutant of Delete: the position is taken for the end of the range.
DeleteBackwards ==
    /\ pc = "idle"
    /\ \E axis \in Dims : \E first \in 0..MaxExtent[axis] + 1, len \in 0..shape[axis] :
        LET new == [shape EXCEPT ![axis] = @ - len]
            start == [j \in Dims |-> IF j = axis THEN first - len ELSE 0]
        IN  EnterResize(new, IF first = shape[axis] - len THEN NULL ELSE start)

\* caterva_delete: len items of one axis, from position first on.
Delete ==
    /\ pc = "idle"
    /\ \E axis \in Dims : \E first \in 0..MaxExtent[axis] + 1, len \in 0..shape[axis] :
        LET new == [shape EXCEPT ![axis] = @ - len]
            start == [j \in Dims |-> IF j = axis THEN first ELSE 0]
        IN  EnterResize(new, IF first = shape[axis] - len THEN NULL ELSE start)

\* caterva_delete of an axis the array has not got.
NoSuchAxis ==
    /\ pc = "idle"
    /\ ret' = "INVALID_ARGUMENT"
    /\ UNCHANGED <<shape, nchunks, meta, sc, pc, call, old, cur, src, damaged>>

-----------------------------------------------------------------------------
(* The steps both halves share. *)

\* Mutant of UpdateShape: the shape changes in memory only.
UpdateHandle(target) ==
    /\ old' = shape
    /\ shape' = target
    /\ UNCHANGED meta

\* caterva_update_shape on the handle: the new shape in memory, then in the
\* metalayer; the old one is kept in aux.
UpdateShape(target) ==
    /\ old' = shape
    /\ shape' = target
    /\ meta' = target

\* Mutant of Touched: a chunk is touched only when every dimension touches it.
TouchedInAll(grid, k, begin, extent) ==
    LET c == UnidimToMultidim(grid, k)
    IN  \A j \in Dims : /\ begin[j] <= ChunkShape[j] * c[j]
                        /\ ChunkShape[j] * c[j] < begin[j] + extent[j]

\* Whether chunk k of the grid starts inside the range [begin, begin + extent)
\* of some dimension.
Touched(grid, k, begin, extent) ==
    LET c == UnidimToMultidim(grid, k)
    IN  \E j \in Dims : /\ begin[j] <= ChunkShape[j] * c[j]
                        /\ ChunkShape[j] * c[j] < begin[j] + extent[j]

\* Mutant of HasEmptyDim: off by one.
HasShortDim == \E j \in Dims : shape[j] <= 1

\* shrink_shape and extend_shape refuse an array with an empty dimension,
\* whether or not that dimension is to change.
HasEmptyDim == \E j \in Dims : shape[j] = 0

Reject ==
    /\ pc \in {"shrink", "extend"}
    /\ HasEmptyDim
    /\ UNCHANGED <<shape, nchunks, meta, sc, damaged>>
    /\ Return("INVALID_ARGUMENT")

-----------------------------------------------------------------------------
(* shrink_shape. *)

\* shrinked_shape: every dimension as short as the shorter of old and new.
ShrinkedShape ==
    [j \in Dims |-> IF call.new[j] <= shape[j] THEN call.new[j] ELSE shape[j]]

ShrinkNothing ==
    /\ pc = "shrink"
    /\ ~HasEmptyDim
    /\ ShrinkedShape = shape
    /\ pc' = "extend"
    /\ UNCHANGED <<shape, nchunks, meta, sc, call, old, cur, ret, src, damaged>>

ShrinkBegin ==
    /\ pc = "shrink"
    /\ ~HasEmptyDim
    /\ ShrinkedShape # shape
    /\ UpdateShape(ShrinkedShape)
    /\ pc' = "deleting"
    /\ cur' = nchunks - 1
    /\ src' = sc
    /\ UNCHANGED <<nchunks, sc, call, ret, damaged>>

\* Mutant of CutOff: the default range begins at the old end, as in extend_shape.
CutOffBehindOldEnd(k) ==
    Touched(ChunksInArray(old), k,
            IF call.start = NULL THEN old ELSE call.start,
            [j \in Dims |-> old[j] - shape[j]])

\* Chunk k of the old grid is cut off: it starts in the range that is removed.
CutOff(k) ==
    Touched(ChunksInArray(old), k,
            IF call.start = NULL THEN shape ELSE call.start,
            [j \in Dims |-> old[j] - shape[j]])

\* Mutant of ShrinkStep: a deletion does not pass the counter on, as if the loop
\* ran upwards.
ShrinkStepStays ==
    /\ pc = "deleting"
    /\ cur >= 0
    /\ IF CutOff(cur)
       THEN HasChunk(cur) /\ DeleteChunk(cur) /\ UNCHANGED cur
       ELSE UNCHANGED sc /\ cur' = cur - 1
    /\ UNCHANGED <<shape, nchunks, meta, pc, call, old, ret, src, damaged>>

\* One turn of the loop that goes through the old chunks from the last one down.
ShrinkStep ==
    /\ pc = "deleting"
    /\ cur >= 0
    /\ IF CutOff(cur)
       THEN HasChunk(cur) /\ DeleteChunk(cur)
       ELSE UNCHANGED sc
    /\ cur' = cur - 1
    /\ UNCHANGED <<shape, nchunks, meta, pc, call, old, ret, src, damaged>>

\* Mutant of ShrinkEnd: nchunks is not refreshed.
ShrinkEndStale ==
    /\ pc = "deleting"
    /\ cur < 0
    /\ pc' = "extend"
    /\ old' = shape
    /\ cur' = 0
    /\ src' = << >>
    /\ UNCHANGED <<shape, nchunks, meta, sc, call, ret, damaged>>

ShrinkEnd ==
    /\ pc = "deleting"
    /\ cur < 0
    /\ nchunks' = Len(sc)
    /\ pc' = "extend"
    /\ old' = shape
    /\ cur' = 0
    /\ src' = << >>
    /\ UNCHANGED <<shape, meta, sc, call, ret, damaged>>

-----------------------------------------------------------------------------
(* extend_shape. *)

ExtendNothing ==
    /\ pc = "extend"
    /\ ~HasEmptyDim
    /\ call.new = shape
    /\ UNCHANGED <<shape, nchunks, meta, sc, damaged>>
    /\ Return("SUCCEED")

\* The loop is entered only when the chunk count changes: a dimension that
\* grows inside its last chunk needs no new one.
ExtendBegin ==
    /\ pc = "extend"
    /\ ~HasEmptyDim
    /\ call.new # shape
    /\ UpdateShape(call.new)
    /\ pc' = IF NumChunks(call.new) # nchunks THEN "inserting" ELSE "extended"
    /\ cur' = 0
    /\ src' = sc
    /\ UNCHANGED <<nchunks, sc, call, ret, damaged>>

\* Mutant of Fresh: chunks are numbered in the old grid.
FreshInOldGrid(k) ==
    Touched(ChunksInArray(old), k,
            IF call.start = NULL THEN old ELSE call.start,
            [j \in Dims |-> shape[j] - old[j]])

\* Chunk k of the new grid is new: it starts in the range that is added.
Fresh(k) ==
    Touched(ChunksInArray(shape), k,
            IF call.start = NULL THEN old ELSE call.start,
            [j \in Dims |-> shape[j] - old[j]])

\* Mutants of ExtendStep: the new chunk goes behind the place it is meant for,
\* and the counter moves only with an insertion.
ExtendStepBehind ==
    /\ pc = "inserting"
    /\ cur < NumChunks(shape)
    /\ IF Fresh(cur)
       THEN cur <= Len(sc) /\ InsertChunk(IF cur = Len(sc) THEN cur ELSE cur + 1, Zero)
       ELSE UNCHANGED sc
    /\ cur' = cur + 1
    /\ UNCHANGED <<shape, nchunks, meta, pc, call, old, ret, src, damaged>>

ExtendStepStuck ==
    /\ pc = "inserting"
    /\ cur < NumChunks(shape)
    /\ IF Fresh(cur)
       THEN cur <= Len(sc) /\ InsertChunk(cur, Zero) /\ cur' = cur + 1
       ELSE UNCHANGED <<sc, cur>>
    /\ UNCHANGED <<shape, nchunks, meta, pc, call, old, ret, src, damaged>>

\* One turn of the loop that goes through the new grid from its first chunk up.
ExtendStep ==
    /\ pc = "inserting"
    /\ cur < NumChunks(shape)
    /\ IF Fresh(cur)
       THEN cur <= Len(sc) /\ InsertChunk(cur, Zero)
       ELSE UNCHANGED sc
    /\ cur' = cur + 1
    /\ UNCHANGED <<shape, nchunks, meta, pc, call, old, ret, src, damaged>>

ExtendEnd ==
    /\ pc = "extended" \/ (pc = "inserting" /\ cur >= NumChunks(shape))
    /\ nchunks' = Len(sc)
    /\ UNCHANGED <<shape, meta, sc, damaged>>
    /\ Return("SUCCEED")

-----------------------------------------------------------------------------
(* Blosc errors. *)

\* blosc2_meta_update fails after the handle's shape has been changed.
UpdateShapeFails ==
    /\ MayFault
    /\ ~HasEmptyDim
    /\ \/ pc = "shrink" /\ ShrinkedShape # shape /\ shape' = ShrinkedShape
       \/ pc = "extend" /\ call.new # shape /\ shape' = call.new
    /\ damaged' = TRUE
    /\ UNCHANGED <<nchunks, meta, sc>>
    /\ Return("BLOSC_FAILED")

\* blosc2_schunk_delete_chunk or blosc2_schunk_insert_chunk fails, as it must
\* when the super-chunk has no such chunk: the call returns at once, leaving
\* shape and metalayer changed and nchunks as it was.
ChunkFails ==
    /\ \/ pc = "deleting" /\ cur >= 0 /\ CutOff(cur) /\ (MayFault \/ ~HasChunk(cur))
       \/ /\ pc = "inserting" /\ cur < NumChunks(shape) /\ Fresh(cur)
          /\ MayFault \/ cur > Len(sc)
    /\ damaged' = TRUE
    /\ UNCHANGED <<shape, nchunks, meta, sc>>
    /\ Return("BLOSC_FAILED")

-----------------------------------------------------------------------------

\* The steps a running call takes by itself, one after the other.
Proceed ==
    \/ Reject
    \/ ShrinkNothing \/ ShrinkBegin \/ ShrinkStep \/ ShrinkEnd
    \/ ExtendNothing \/ ExtendBegin \/ ExtendStep \/ ExtendEnd
    \/ ChunkFails

Next ==
    \/ Resize \/ Delete \/ NoSuchAxis
    \/ Proceed
    \/ UpdateShapeFails
    \/ Close \/ Open

Spec == Init /\ [][Next]_vars

\* A call runs to its end: nothing in it waits for anyone.
FairSpec == Spec /\ WF_vars(Proceed)

-----------------------------------------------------------------------------
(* Properties. *)

\* Between calls the handle agrees with the super-chunk: its chunk count is the
\* number of chunks stored, its shape the one in the metalayer (nchunks is set
\* from sc->nchunks only at the end of each half, the metalayer at its start).
HandleMatchesStorage ==
    pc = "idle" /\ ~damaged => nchunks = Len(sc) /\ meta = shape

\* Between calls, and in the file once the handle is closed, there is exactly
\* one stored chunk for each place of the grid the shape asks for: the loops
\* delete and insert as many chunks as the change of shape takes.
GridIsFull ==
    pc \in {"idle", "closed"} /\ ~damaged => Len(sc) = NumChunks(meta)

\* The field nchunks of caterva.h is the "Number of chunks in the array": after
\* a call that succeeds, as many as the shape asks for.
NchunksIsTheGrid ==
    pc = "idle" /\ ret = "SUCCEED" /\ ~damaged => nchunks = NumChunks(shape)

\* How many of the chunks lo, ..., hi - 1 are cut off, and how many are new.
NumCutOff(lo, hi) == Cardinality({k \in lo..hi - 1 : CutOff(k)})
NumFresh(lo, hi)  == Cardinality({k \in lo..hi - 1 : Fresh(k)})

\* While shrink_shape deletes from the last chunk down, no deletion disturbs
\* the number of a chunk still to be visited, and every chunk that has been
\* visited and kept stands right behind the ones kept before it: deleting in
\* this order is what makes the old chunk numbers valid to the end.  This holds
\* whatever went wrong before (the array may be damaged and nchunks stale).
DeletionKeepsSurvivors ==
    pc = "deleting" =>
        /\ \A k \in 0..cur :
               k < Len(src) => k < Len(sc) /\ sc[k + 1] = src[k + 1]
        /\ \A k \in cur + 1..nchunks - 1 :
               k < Len(src) /\ ~CutOff(k) =>
                  LET place == k - NumCutOff(cur + 1, k)
                  IN  place \in 0..Len(sc) - 1 /\ sc[place + 1] = src[k + 1]
        /\ Len(sc) = Len(src) - NumCutOff(cur + 1, nchunks)

\* While extend_shape inserts from the first chunk up, the chunks below the
\* counter are final (zero where they are new, the old ones in their old order
\* elsewhere) and the ones above it are the rest of the old ones.
InsertionKeepsOldChunks ==
    pc = "inserting" =>
        /\ \A k \in 0..cur - 1 :
               k < Len(sc) =>
                  sc[k + 1] = IF Fresh(k) THEN Zero ELSE src[k - NumFresh(0, k) + 1]
        /\ \A k \in cur..Len(sc) - 1 : sc[k + 1] = src[k - NumFresh(0, cur) + 1]
        /\ Len(sc) = Len(src) + NumFresh(0, cur)

\* What a fault leaves of a whole array: an error Blosc answers in the middle of a
\* loop (shape and metalayer are changed already, and what was deleted or inserted
\* stays so), or the end of the process there.  Every chunk the call was to keep is
\* still stored, between its old and its new number.  In an array that was to
\* shrink every place of the grid the metalayer describes has a chunk; in one that
\* was to grow no chunk is behind the last place.  If the metalayer itself could
\* not be written, it still describes what is stored.
InterruptionLosesNothing ==
    [][~damaged /\ damaged' =>
        /\ pc \in {"shrink", "extend"} => Len(sc') = NumChunks(meta')
        /\ pc = "deleting" =>
              /\ NumChunks(meta') <= Len(sc')
              /\ \A k \in 0..nchunks - 1 : ~CutOff(k) =>
                    \E m \in k - NumCutOff(0, k)..k :
                        m < Len(sc') /\ sc'[m + 1] = src[k + 1]
        /\ pc = "inserting" =>
              /\ Len(sc') <= NumChunks(meta')
              /\ \A k \in 0..NumChunks(shape) - 1 : ~Fresh(k) =>
                    LET o == k - NumFresh(0, k)
                    IN  \E m \in o..k : m < Len(sc') /\ sc'[m + 1] = src[o + 1]]_vars

\* A call refused by its second half has changed the array already.  That
\* happens only to a call that empties a dimension, and what it leaves is a
\* whole array of the smaller shape.
LateRefusal ==
    [][pc = "extend" /\ pc' = "idle" /\ ret' = "INVALID_ARGUMENT"
        => /\ \E j \in Dims : call.new[j] = 0
           /\ damaged \/ (Len(sc') = NumChunks(shape') /\ nchunks' = Len(sc'))]_vars

\* Every call returns: each turn of a loop brings its counter closer to the end.
CallReturns == (pc \in Running) ~> (pc \notin Running)

\* A resize is the Grid's Cut followed by its Grow, each taking effect when its
\* loop has ended; an array damaged by a fault is lost.
\* A place the list of chunks has no chunk for is empty, which no place of a Grid
\* may be.
Cells(s, chunks) ==
    [c \in GridCoords(s) |->
        LET k == MultidimToUnidim(c, Strides(ChunksInArray(s)))
        IN  IF k < Len(chunks) THEN chunks[k + 1] ELSE NULL]

InLoop == pc \in {"deleting", "inserting", "extended"}

Ideal == INSTANCE Grid WITH
    Lost   <- NULL,
    extent <- IF damaged THEN NULL ELSE IF InLoop THEN old ELSE meta,
    cells  <- IF damaged THEN NULL
              ELSE IF InLoop THEN Cells(old, src) ELSE Cells(meta, sc)

IsResizableGrid == Ideal!Spec
=============================================================================
