------------------------------- MODULE Copies -------------------------------
(***************************************************************************)
(* Several arrays, in memory and in files: copying one to another          *)
(* (caterva_copy, caterva_get_slice, caterva_save), frames, opening,       *)
(* closing and removing, and the metalayers that go with an array.         *)
(*                                                                         *)
(* A copy to the partition the source has is made by Blosc2 in one go, any *)
(* other by creating an empty array and writing it chunk by chunk; an      *)
(* array in a file is in the file after every step.                        *)
(***************************************************************************)
EXTENDS Partition, SequencesExt, FiniteSetsExt

CONSTANTS
    Parts,     \* partitions: records of a chunkshape and a blockshape
    Sources,   \* the arrays there may be at the beginning
    Memory,    \* where arrays in memory may be,
    Disk,      \* and files (urlpath)
    None,      \* nothing is there
    Values,    \* what an item may be
    Zero,      \* the item of zero bytes
    Contents,  \* what a metalayer may hold
    MaxVl,     \* bound: how many variable-length metalayers an array has
    MaxCalls,  \* bound: how many calls of the library a behaviour makes
    Faults     \* whether Blosc calls may fail

ASSUME PlacesAssumption == Memory \cap Disk = {}

\* A partition has at least one item in every dimension: the code divides by its extents.
\* (It does not where the array is empty, and callers may pass 0 there, as test_copy.c:45
\* does; such partitions are left out.)
ASSUME PartsAssumption ==
    \A part \in Parts : /\ part.chunk \in [Dims -> Nat \ {0}]
                        /\ part.block \in [Dims -> Nat \ {0}]
ASSUME ZeroAssumption == Zero \in Values
ASSUME CopiesBoundsAssumption == MaxVl \in Nat /\ MaxCalls \in Nat
ASSUME CopiesFaultsAssumption == Faults \in BOOLEAN

VARIABLES
    store,  \* the super-chunk at each place: its partition, shape, chunks, metalayers
            \* (but for that of Caterva) and variable-length metalayers
    open,   \* the places that an array handle belongs to
    frame,  \* the last frame made of a super-chunk
    pc,     \* "idle", "slicing" (over chunks) or "vlmeta" (over metalayers)
    job,    \* the last call: its arguments, and what its result should hold
    cur,    \* the counter of the loop over chunks (nchunk)
    ret,    \* what the last call returned
    left    \* how many calls are left

vars == <<store, open, frame, pc, job, cur, ret, left>>

Places == Memory \cup Disk

\* The places of a chunk of a given partition, padded to whole blocks.
ChunkBox(part) == Box(Origin, Padded(part.chunk, part.block))

NumChunks(part, shape) == ChunkCount(shape, part.chunk)

\* The arrays of a given partition: some of the chunks of their grid, all but in arrays
\* that could not be filled or copied.
ArraysOf(part) ==
    {a \in [part : {part}, shape : [Dims -> Nat], chunks : Seq([ChunkBox(part) -> Values]),
            meta : Seq(Contents), vl : Seq(Contents)] :
        Len(a.chunks) <= NumChunks(part, a.shape)}
IsArray(a) == \E part \in Parts : a \in ArraysOf(part)

\* An array that is there at the beginning has all its chunks.
ASSUME SourcesAssumption ==
    \A s \in Sources : IsArray(s) /\ Len(s.chunks) = NumChunks(s.part, s.shape)
ASSUME NoneAssumption == ~IsArray(None)

\* The items of an array, and those of a slice of it, when no chunk they are in is missing.
ChunkOf(a, c) == ChunkHolding(a.shape, a.part.chunk, c)
ItemAt(a, c) == ItemHeld(a.shape, a.part.chunk, a.chunks, c)
IsReadable(a, start, shape) ==
    \A c \in Box(start, Plus(start, shape)) : ChunkOf(a, c) < Len(a.chunks)
ItemsFrom(a, start, shape) ==
    IF IsReadable(a, start, shape)
    THEN [c \in Box(Origin, shape) |-> ItemAt(a, Plus(start, c))] ELSE << >>
Items(a) == ItemsFrom(a, Origin, a.shape)

NoJob == [op |-> "none", src |-> None, dst |-> None, items |-> << >>,
          meta |-> << >>, vl |-> << >>, part |-> None, start |-> Origin]

Init ==
    /\ \E s \in Sources, l \in Memory :
        /\ store = [[q \in Places |-> None] EXCEPT ![l] = s]
        /\ open = {l}
    /\ frame = None
    /\ pc = "idle"
    /\ job = NoJob
    /\ cur = 0
    /\ ret = "SUCCEED"
    /\ left = MaxCalls

Called == pc = "idle" /\ left > 0 /\ left' = left - 1
Return(code) == pc' = "idle" /\ ret' = code

\* A call made on the array at l, or for a new one there, that is over at once.
Short(op, l) == job' = [NoJob EXCEPT !.op = op, !.dst = l] /\ cur' = 0 /\ pc' = "idle"

-----------------------------------------------------------------------------
(* Copying whole chunks. *)

\* What blosc2_schunk_copy leaves in a file when it fails.
Remains(l, a) ==
    {None} \cup IF l \in Disk
                THEN {[a EXCEPT !.chunks = c, !.vl = << >>] : c \in Prefixes(a.chunks)}
                ELSE {}

\* Mutant of CopyWhole: Blosc2 is not asked for the variable-length metalayers.
CopyWholeBare(s, d) ==
    \/ /\ store' = [store EXCEPT ![d] = [store[s] EXCEPT !.vl = << >>]]
       /\ Return("SUCCEED")
    \/ /\ Faults
       /\ \E r \in Remains(d, store[s]) : store' = [store EXCEPT ![d] = r]
       /\ Return("BLOSC_FAILED")

CopyWhole(s, d) ==
    \/ /\ store' = [store EXCEPT ![d] = store[s]]
       /\ Return("SUCCEED")
    \/ /\ Faults
       /\ \E r \in Remains(d, store[s]) : store' = [store EXCEPT ![d] = r]
       /\ Return("BLOSC_FAILED")

-----------------------------------------------------------------------------
(* Copying by slices. *)

\* Mutant of Empty: chunks with whatever is in memory (caterva_uninit).
EmptyUninit(part, shape, meta) ==
    [part |-> part, shape |-> shape, meta |-> meta, vl |-> << >>,
     chunks |-> [k \in 1..NumChunks(part, shape) |->
                    [p \in ChunkBox(part) |-> CHOOSE v \in Values : v # Zero]]]

\* Mutant of Empty: a chunk too many.
EmptyAndMore(part, shape, meta) ==
    [part |-> part, shape |-> shape, meta |-> meta, vl |-> << >>,
     chunks |-> [k \in 1..NumChunks(part, shape) + 1 |-> [p \in ChunkBox(part) |-> Zero]]]

\* caterva_empty: an array of that shape with zeros.
Empty(part, shape, meta) ==
    [part |-> part, shape |-> shape, meta |-> meta, vl |-> << >>,
     chunks |-> [k \in 1..NumChunks(part, shape) |-> [p \in ChunkBox(part) |-> Zero]]]

HasItems(shape) == \A j \in Dims : shape[j] > 0

\* The beginning of caterva_get_slice: the array is created, its chunks are put into it
\* in one go (whether blosc2_schunk_fill_special did that is not looked at), and no loop
\* is entered for an array without items.
BeginSlices(d, part, shape, meta, after) ==
    LET a == Empty(part, shape, meta)
    IN  \/ /\ \E filled \in {TRUE, ~Faults} :
                store' = [store EXCEPT ![d] = IF filled THEN a ELSE [a EXCEPT !.chunks = << >>]]
           /\ open' = open \cup {d}
           /\ IF HasItems(shape) THEN pc' = "slicing" /\ UNCHANGED ret
              ELSE IF after = "vlmeta" THEN pc' = "vlmeta" /\ UNCHANGED ret
              ELSE Return("SUCCEED")
        \/ /\ Faults   \* creating the super-chunk or adding one of its metalayers
           /\ \E m \in Prefixes(meta) :
              \E r \in {None} \cup IF d \in Disk
                                   THEN {[a EXCEPT !.chunks = << >>, !.meta = m]} ELSE {} :
                store' = [store EXCEPT ![d] = r]
           /\ Return("BLOSC_FAILED")
           /\ UNCHANGED open

\* The chunk of the new array the loop is at, and the item it gets at place p.
Target == store[job.dst]

Grid == ChunkGrid(Target.shape, job.part.chunk)
ChunkStart == [j \in Dims |-> UnidimToMultidim(Grid, cur)[j] * job.part.chunk[j]]

\* Mutant of SourceItem: start is left out.
SourceItemUnmoved(c) == ItemAt(store[job.src], c)

SourceItem(c) == ItemAt(store[job.src], Plus(c, job.start))

InChunk(c) == \A j \in Dims : c[j] < Target.shape[j] /\ c[j] < ChunkStart[j] + job.part.chunk[j]

\* Every chunk of the source that the slice for this chunk touches is there.
Readable ==
    IsReadable(store[job.src], Plus(ChunkStart, job.start),
               [j \in Dims |-> Min({job.part.chunk[j], Target.shape[j] - ChunkStart[j]})])

\* Mutant of Written: behind the items is what the memory of the buffer held.
WrittenUnclear(c) == IF InChunk(c) THEN SourceItem(c) ELSE CHOOSE v \in Values : v # Zero

Written(c) == IF InChunk(c) THEN SourceItem(c) ELSE Zero

\* Mutants of SliceStep: the loop stays at a chunk; the source is written.
SliceStepStuck ==
    /\ pc = "slicing" /\ cur < Len(Target.chunks) /\ Readable
    /\ store' = [store EXCEPT ![job.dst].chunks[cur + 1] =
                    [p \in DOMAIN @ |-> Written(Plus(ChunkStart, p))]]
    /\ UNCHANGED <<open, frame, pc, job, cur, ret, left>>

SliceStepBack ==
    /\ pc = "slicing" /\ cur < Len(Target.chunks) /\ Readable
    /\ store' = [store EXCEPT ![job.src].chunks[1] = [p \in DOMAIN @ |-> Zero]]
    /\ cur' = cur + 1
    /\ UNCHANGED <<open, frame, pc, job, ret, left>>

\* One turn: a slice of the source is read, and written over the whole chunk.
SliceStep ==
    /\ pc = "slicing" /\ cur < Len(Target.chunks) /\ Readable
    /\ store' = [store EXCEPT ![job.dst].chunks[cur + 1] =
                    [p \in DOMAIN @ |-> Written(Plus(ChunkStart, p))]]
    /\ cur' = cur + 1
    /\ UNCHANGED <<open, frame, pc, job, ret, left>>

\* A chunk of the source is missing, or Blosc fails.
SliceUnreadable ==
    /\ pc = "slicing" /\ cur < Len(Target.chunks) /\ ~Readable
    /\ Return("BLOSC_FAILED")
    /\ UNCHANGED <<store, open, frame, job, cur, left>>

SliceFails ==
    /\ pc = "slicing" /\ cur < Len(Target.chunks) /\ Faults
    /\ Return("BLOSC_FAILED")
    /\ UNCHANGED <<store, open, frame, job, cur, left>>

SlicesEnd ==
    /\ pc = "slicing" /\ cur = Len(Target.chunks)
    /\ IF job.op = "copy" THEN pc' = "vlmeta" /\ UNCHANGED ret ELSE Return("SUCCEED")
    /\ UNCHANGED <<store, open, frame, job, cur, left>>

\* The variable-length metalayers are added one by one.
VlStep ==
    /\ pc = "vlmeta" /\ Len(Target.vl) < Len(store[job.src].vl)
    /\ store' = [store EXCEPT ![job.dst].vl = Append(@, store[job.src].vl[Len(@) + 1])]
    /\ UNCHANGED <<open, frame, pc, job, cur, ret, left>>

VlFails ==
    /\ pc = "vlmeta" /\ Len(Target.vl) < Len(store[job.src].vl)
    /\ Faults
    /\ Return("BLOSC_FAILED")
    /\ UNCHANGED <<store, open, frame, job, cur, left>>

VlEnd ==
    /\ pc = "vlmeta" /\ Len(Target.vl) = Len(store[job.src].vl)
    /\ Return("SUCCEED")
    /\ UNCHANGED <<store, open, frame, job, cur, left>>

-----------------------------------------------------------------------------
(* The calls. *)

IsFree(l) == store[l] = None

\* A call that makes the array at d of the one at s.
Begins(op, s, d, part, start, shape, meta, vl) ==
    /\ IsFree(d)
    /\ job' = [op |-> op, src |-> s, dst |-> d, part |-> part, start |-> start,
               items |-> ItemsFrom(store[s], start, shape), meta |-> meta, vl |-> vl]
    /\ cur' = 0
    /\ UNCHANGED frame

\* caterva_copy: the two partitions decide how.
Copy ==
    /\ Called
    /\ \E s \in open, d \in Places, part \in Parts :
        /\ Begins("copy", s, d, part, Origin, store[s].shape, store[s].meta, store[s].vl)
        /\ IF part = store[s].part
           THEN /\ CopyWhole(s, d)
                /\ open' = IF ret' = "SUCCEED" THEN open \cup {d} ELSE open
           ELSE BeginSlices(d, part, store[s].shape, store[s].meta, "vlmeta")

\* caterva_get_slice, of a slice inside the source; the metalayers are the caller's.
GetSlice ==
    /\ Called
    /\ \E s \in open, d \in Places, part \in Parts :
       \E stop \in Box(Origin, [j \in Dims |-> store[s].shape[j] + 1]) :
       \E start \in Box(Origin, [j \in Dims |-> stop[j] + 1]) :
        /\ Begins("slice", s, d, part, start, Minus(stop, start), << >>, << >>)
        /\ BeginSlices(d, part, Minus(stop, start), << >>, "idle")

\* caterva_save: a copy of the same partition to a file, closed at once.  Whether the
\* copy succeeded is not looked at.
Save ==
    /\ Called
    /\ \E s \in open, d \in Disk :
        /\ Begins("save", s, d, store[s].part, Origin, store[s].shape, store[s].meta, store[s].vl)
        /\ \E r \in {store[s]} \cup IF Faults THEN Remains(d, store[s]) ELSE {} :
            store' = [store EXCEPT ![d] = r]
    /\ Return("SUCCEED")
    /\ UNCHANGED open

\* caterva_free: an array in memory is gone.
Close ==
    /\ Called
    /\ \E l \in open :
        /\ Short("close", l)
        /\ open' = open \ {l}
        /\ store' = IF l \in Memory THEN [store EXCEPT ![l] = None] ELSE store
    /\ ret' = "SUCCEED"
    /\ UNCHANGED frame

\* caterva_open.
Open ==
    /\ Called
    /\ \E l \in Disk \ open :
        /\ Short("open", l)
        /\ IF store[l] = None THEN ret' = "NULL_POINTER" /\ UNCHANGED open
           ELSE ret' = "SUCCEED" /\ open' = open \cup {l}
    /\ UNCHANGED <<store, frame>>

\* caterva_remove, of a file that is not open.
RemoveFile ==
    /\ Called
    /\ \E l \in Disk \ open :
        /\ Short("remove", l)
        /\ ret' = IF store[l] = None THEN "BLOSC_FAILED" ELSE "SUCCEED"
        /\ store' = [store EXCEPT ![l] = None]
    /\ UNCHANGED <<open, frame>>

\* caterva_to_cframe, and caterva_from_cframe with a copy of the frame.
ToFrame ==
    /\ Called
    /\ \E l \in open : Short("to_cframe", l) /\ frame' = store[l]
    /\ ret' = "SUCCEED"
    /\ UNCHANGED <<store, open>>

FromFrame ==
    /\ Called
    /\ frame # None
    /\ \E l \in Memory :
        /\ IsFree(l)
        /\ Short("from_cframe", l)
        /\ store' = [store EXCEPT ![l] = frame]
        /\ open' = open \cup {l}
    /\ ret' = "SUCCEED"
    /\ UNCHANGED frame

\* caterva_vlmeta_add; a name is a position, and one that is there already is refused by
\* Blosc2.
AddVlMeta ==
    /\ Called
    /\ \E l \in open, v \in Contents :
        /\ Short("vlmeta", l)
        /\ \/ /\ Len(store[l].vl) < MaxVl
              /\ store' = [store EXCEPT ![l].vl = Append(@, v)]
              /\ ret' = "SUCCEED"
           \/ ret' = "BLOSC_FAILED" /\ UNCHANGED store
    /\ UNCHANGED <<open, frame>>

\* caterva_vlmeta_update; a name that is not there is refused by Blosc2.
UpdateVlMeta ==
    /\ Called
    /\ \E l \in open, v \in Contents :
        /\ Short("vlmeta", l)
        /\ \/ /\ \E i \in DOMAIN store[l].vl : store' = [store EXCEPT ![l].vl[i] = v]
              /\ ret' = "SUCCEED"
           \/ ret' = "BLOSC_FAILED" /\ UNCHANGED store
    /\ UNCHANGED <<open, frame>>

\* caterva_meta_update: metalayers are there from the creation on.
ChangeMeta ==
    /\ Called
    /\ \E l \in open, v \in Contents :
        /\ Short("meta", l)
        /\ \/ /\ \E i \in DOMAIN store[l].meta : store' = [store EXCEPT ![l].meta[i] = v]
              /\ ret' = "SUCCEED"
           \/ ret' = "BLOSC_FAILED" /\ UNCHANGED store
    /\ UNCHANGED <<open, frame>>

\* The process ends: what is in files stays.
Crash ==
    /\ Faults
    /\ store' = [l \in Places |-> IF l \in Disk THEN store[l] ELSE None]
    /\ open' = {}
    /\ frame' = None
    /\ Return("CRASHED")
    /\ UNCHANGED <<job, cur, left>>

Loop == SliceStep \/ SliceUnreadable \/ SlicesEnd \/ VlStep \/ VlEnd

Next == Copy \/ GetSlice \/ Save \/ Close \/ Open \/ RemoveFile \/ ToFrame \/ FromFrame
        \/ AddVlMeta \/ UpdateVlMeta \/ ChangeMeta \/ Loop \/ SliceFails \/ VlFails \/ Crash

Spec == Init /\ [][Next]_vars /\ WF_vars(Loop)

-----------------------------------------------------------------------------
(* Properties. *)

\* Every handle belongs to an array that is there, and no array, whole or not, has more
\* chunks than its grid or a chunk of another size: also when it, or the one it was copied
\* from, was left by a call that failed or did not end.
TypeOK ==
    /\ store = [l \in Places |-> store[l]]
    /\ \A l \in Places : store[l] = None \/ IsArray(store[l])
    /\ open \subseteq {l \in Places : store[l] # None}
    /\ frame = None \/ IsArray(frame)
    /\ pc \in {"idle", "slicing", "vlmeta"}
    /\ cur \in Nat /\ left \in 0..MaxCalls
    /\ ret \in {"SUCCEED", "BLOSC_FAILED", "NULL_POINTER", "CRASHED"}

Succeeded(op) == pc = "idle" /\ job.op = op /\ ret = "SUCCEED"

\* The array at l has these items; or none at all, when its chunks could not be put
\* into it, which no call notices.
Holds(l, items) == Items(store[l]) = items \/ store[l].chunks = << >>

\* Both ways of copying an array, when they succeed, give the array that was to be copied:
\* its items and all its metalayers.
CopyEqualsSource ==
    Succeeded("copy") =>
        LET a == store[job.dst]
        IN  a.part = job.part /\ Holds(job.dst, job.items) /\ a.meta = job.meta /\ a.vl = job.vl

\* A new array made of a slice has the items of the slice, in a grid of its own.
SliceHasItems == Succeeded("slice") => Holds(job.dst, job.items)

\* What a copy holds where no items are, and an extension would show: zeros when it was made
\* by slices, what the source holds there when it was copied by chunks.
PaddingOfCopy ==
    Succeeded("copy") \/ Succeeded("slice") =>
        LET a == store[job.dst]
        IN  \A k \in DOMAIN a.chunks : \A p \in DOMAIN a.chunks[k] :
                IsPaddingOf(a.shape, a.part.chunk, k - 1, p) =>
                    a.chunks[k][p] = IF job.op = "copy" /\ store[job.src].part = a.part
                                     THEN store[job.src].chunks[k][p] ELSE Zero

\* While an array is made by slices, and after an error or the end of the process has stopped
\* that, the chunks passed are as they should be and the others are zero: a file that is
\* opened then is a whole array, of which a part is missing.
StoppedIsPrefix ==
    /\ job.op \in {"copy", "slice"} /\ store[job.dst] # None /\ cur > 0
    /\ pc = "slicing" \/ ret \in {"BLOSC_FAILED", "CRASHED"}
    => LET a == Target
       IN  \A c \in DOMAIN job.items :
               ItemAt(a, c) = IF ChunkOf(a, c) < cur THEN job.items[c] ELSE Zero

\* Saving an array puts it into the file.
SaveMeansSaved == Succeeded("save") => store[job.dst] # None /\ Items(store[job.dst]) = job.items

\* No call but the one that makes an array, and the change of a metalayer, changes what an
\* array holds: copies are independent of their source and of each other.
OthersKept ==
    [][\A l \in Places :
        store'[l] # store[l] => l = job'.dst \/ store'[l] = None]_vars

\* Every copy that is begun ends.
CopyEnds == (pc # "idle") ~> (pc = "idle")
=============================================================================
