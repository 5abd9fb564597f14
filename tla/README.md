# Caterva in TLA+

Caterva stores multidimensional arrays in Blosc2 super-chunks: an array is cut
into *chunks*, every chunk into *blocks*, and the chunks are stored, compressed,
one after the other in a super-chunk in memory or on disk. The whole library is
`src/caterva/caterva.c` with `caterva_utils.c`; Blosc2 (`contribs/c-blosc2`) is
an external library, known here only by how Caterva calls it.

## Inventory

| Component | State | Operations | Hard part |
|---|---|---|---|
| Shape arithmetic (`caterva_update_shape`, caterva.c:52-149) | shape, padded shapes, strides, item counts | recomputed by every creation, opening and resize | zero extents, padding, numbering of chunks |
| Resizing (`caterva_resize`, `shrink_shape`, `extend_shape`, `caterva_delete`, 1233-1421, 1482-1508) | `shape`, `nchunks` of the handle; metalayer and chunk list of the super-chunk | resize, delete | two halves, chunks renumbered while they are deleted and inserted, errors and crashes in between |
| Slices (`caterva_blosc_slice`, 492-906) | the chunks; one buffer shared by all chunks of a call | get/set slice, slice to a new array, to/from buffer | padding, masked-out blocks, several chunks per call |
| Insert and append (1423-1479) | all of the above | resize, then set a slice | failure between the two |
| Creation (186-315, 440-467, 963-1049) | a new handle and super-chunk | uninit, empty, zeros, full, from buffer, copy | two implementations of copy |
| Persistence (317-438, 1051-1081) | frames in memory and on disk | open, free, save, remove, to/from cframe | what the metalayer says against what is stored |
| Orthogonal selection (1517-1881) | the chunks | get/set by lists of indexes | sorted selection against the caller's order |
| Metalayers (1084-1231, 1884-1978) | the metalayers of the super-chunk | add, get, update, (de)serialize | - |
| Squeeze (908-961) | shape | drop dimensions of extent 1 | stored chunks keep their padded size |
| Buffer copies (caterva_utils.c) | - | copy a box between two padded buffers | specialised for each number of dimensions |

There is no concurrency inside Caterva: a handle is used by one thread. What
interleaves is the sequence of calls Caterva makes to Blosc with errors those
calls report, and with the end of the process; what is left behind is what the
next `caterva_open` finds. What is hard to test is listed in `PROJECT.json`
under `hazards`, each at its line.

## Modules

| Module | What it is |
|---|---|
| `Multidim` | boxes of coordinates, strides, and the row-major numbering of what is in a box |
| `Partition` | the shape arithmetic for any shape and partition: padding, grids of chunks, chunk numbers, the chunk and the place of an item |
| `Geometry` | `Partition` for an array whose chunk shape is fixed |
| `Chunked` | the places of its stored chunks: blocks, padding, which item lies where |
| `Regrid` | what cutting a range out of a dimension, or putting one in, does to a grid of chunks; the rule of `caterva_resize` on where that is allowed |
| `Resize` | `caterva_resize` and `caterva_delete`, chunk by chunk, with errors, crashes and reopening |
| `Grid` | abstract specification of `Resize`: a grid of chunks that changes at once |
| `Slice` | `caterva_set_slice_buffer` and `caterva_get_slice_buffer`, chunk by chunk, items and padding |
| `NdArray` | abstract specification of `Slice`: a box of items |
| `Array` | the calls a user makes, one after the other: creation, resize, insert, append, delete, slices |
| `Selection` | `caterva_get_orthogonal_selection` and its counterpart: the sorted lists of indexes, run by run of equal chunks |
| `Copies` | several arrays in memory and in files: copy, slice into a new array, save, open, close, remove, frames, metalayers |
| `Squeeze` | the metalayer as a sequence of bytes, and dropping dimensions of an array whose stored chunks stay as they are |
| `RowCopy` | what both ways of `caterva_copy_buffer` share: the rows of a box, and where they lie in a padded buffer |
| `CopyBuffer` | the nested loops of `copy2dim` to `copy8dim` |
| `CopyFallback` | `copy_ndim_fallback`, one row after the other: abstract specification of `CopyBuffer` |
| `MultidimProofs`, `GeometryProofs` | lemmas: numbering, boxes and partitions; chunks and grids, what cutting and putting in do to the numbers |
| `ResizeProofs`, `ArrayProofs`, `SelectionProofs`, `CopiesProofs`, `SqueezeProofs`, `CopyBufferProofs` | theorems about the module each is named after; `ArrayProofs` has those about `Slice`, too |
| `MCResize`, `MCSlice`, `MCArray`, `MCSelection`, `MCCopies`, `MCSqueeze`, `MCCopyBuffer` | small instances |

`Multidim` and `Partition` carry all the others; `Geometry` and `Chunked` fix the
partition of one array. `Array` composes `Slice` (every item access is a run of the loop of
`Slice`, one chunk per step) with `Regrid` (a resize is one step, which is what
`Resize` is shown to implement). `Copies` and `Squeeze` hold arrays of different
partitions side by side and use `Partition`, whose operators take shape and
partition as arguments. In `Copies` the
slices that a copy reads and writes are taken as done, chunk by chunk, with the
outcome that `Slice` is shown to have.

### State and code

`Resize` keeps the two copies of the shape apart: `shape` and `nchunks` are the
fields of `caterva_array_t`, `meta` the shape serialized in the `caterva`
metalayer, `sc` the chunk list of the super-chunk. `pc` says between which two
calls to Blosc2 a running call is: `shrink` and `extend` are the entries of
`shrink_shape` and `extend_shape`, `deleting` and `inserting` their loops,
`extended` the end of an extension that needs no new chunk, `closed` an array
without a handle. `old` is `aux->shape`, `cur` the loop counter. `src` and
`damaged` are history variables: the chunk list when the running loop was
entered, and whether a loop or a metalayer update was ever cut short.

`Slice` has the decompressed chunks in `sc`, each a function from *places* (the
chunk padded to whole blocks, `extchunkshape`) to items. `data` is the one
buffer `caterva_blosc_slice` allocates for all chunks of a call; `Garbage` is
what `malloc` left there, and what callers' buffers hold before a read. `cur`
is `update_nchunk`. Copying block by block is one step per chunk: nothing
happens between two blocks of a chunk that another step could see. The two
conditions the code computes apart from each other, which blocks are left out
of the decompression (641-645) and which are copied (684-720), are two
definitions, `MaskedOut` and `Copied`; no definition assumes that they agree.

`Array` adds `job`, the arguments of the last shape-changing call, and
`before`, the items when it was made: history variables for the properties.

`Selection` has in `order` the lists after `qsort`, each entry an index with its
place in the caller's list (`caterva_selection_t`), and in `at` where the run of
indexes that fall into one chunk begins (`p_ordered_selection_0`). One step is
one run in every dimension, that is one chunk: the recursion of
`caterva_iterate_over_chunk` is flattened into `Advance`. Which blocks are
decompressed (`Wanted`) and which elements are copied (`Elements`) are computed
apart, as in the code. The comparison that `qsort` calls goes through `AsInt`,
the conversion to an `int` that holds `-HalfInt` to `HalfInt - 1`: when it is not
an order, any arrangement of the list may come out, and the loop must do
with it.

`Copies` has in `store` what Blosc2 keeps at each place in memory and each file,
in `open` the places that have a handle, in `frame` the last frame made. `job`
holds the arguments of the last call and what it should produce, taken from the
source when the call began. `cur` is `nchunk` of `caterva_get_slice`. `vlmeta` is
the loop of `caterva_copy` over variable-length metalayers. A file is up to
date after every step.

`Squeeze` writes the metalayer byte by byte (`Serialize`), because two of its
hazards are about bytes: extents above 255, and a metalayer that is
overwritten by a shorter one and keeps its old end (`Updated`). Stored chunks are
sequences of items in the layout they were written with; `ItemsOf` reads them by
the description the handle has now. `was` is the array as it was created.

`CopyBuffer` numbers the items of the source, so that a row copied twice, too far
or to the wrong place shows; `at` is `copy_start`.

Chunks are opaque in `Resize` and have items elsewhere. Dimensions are numbered
from 1, chunks from 0 as in the code.

Blosc2 is modelled by what its callers rely on. A super-chunk is a list;
deleting, updating or reading a chunk that is not there fails, and so does
inserting behind the end; with `Faults` any of these calls may fail. A masked-out
block is left alone by the decompression. A chunk larger than the buffer it is
decompressed into is refused. `blosc2_meta_update` overwrites the beginning of a
metalayer. `blosc2_schunk_copy` takes everything along, or fails and may leave
the beginning of a file.

## What is checked

| Run | Question | Instance |
|---|---|---|
| `resize_1d` | Do resizes keep handle, metalayer and chunk list together, with one error or crash at any point? Does every call return? Is the array a `Grid`? | up to 6 items in chunks of 2; any start, new shape and NULL |
| `resize_2d` | Is it a `Grid` when chunks of several rows and columns are renumbered while they are deleted and inserted? What does one error or crash at any turn leave of the chunks? | up to 2 x 3 chunks |
| `slice_2d` | Is the array an `NdArray`, do reads return its items, does padding stay apart, with buffers of the right and wrong size and an error at any chunk? | 2 x 4 and 0 x 1 items, chunks of 1 x 3, blocks of 1 x 2, two calls |
| `array_2d` | Do insert, append, delete and resize move items as they say, along either axis, after any other call? | up to 4 x 3 items, chunks of 3 x 2, blocks of 2 x 1, two calls |
| `selection_2d` | Do products of index lists read and write the items they name, and nothing else, inside the buffer, in any order, with repeats and errors? | 3 x 4 items, chunks of 2 x 3, blocks of 1 x 2, lists of up to three, one call |
| `copies_1d` | Do the two ways of copying agree? What is left of a copy that is cut short, and who else sees it? Does every copy end? | arrays of 3 and 0 items, two partitions, two places in memory and one file, three calls |
| `squeeze_3d` | Does the metalayer say what the handle says, and are the chunks still read right? | 21 arrays of one to three dimensions, five calls |
| `copy_buffer_4d` | Do the specialised loops copy the box, as the generic one does, and end? | every box of two source buffers, every place in a 2 x 2 x 2 x 2 destination |
| `resize_past_end` | (violated) Is `nchunks` the number of chunks the shape asks for? | callers unconstrained |
| `selection_extent` | (violated) Does an index that passes the check stay in its item? | 4 x 2 items, chunks of 2 x 2 |
| `squeeze_chunks` | (violated) Can every squeezed array be read? | as `squeeze_3d` |
| `copies_save` | (violated) Is a saved array in its file? | as `copies_1d`, one call |

The properties that carry the weight:

- `DeletionKeepsSurvivors`, `InsertionKeepsOldChunks`: at every turn of the two
  loops, each chunk already passed stands where the new grid wants it, and each
  one still to be passed where the old number says. They hold after any damage,
  too.
- `InterruptionLosesNothing`: those two say where the loops are, this says what is left
  when one is interrupted, by an error Blosc answers or by the end of the process, at any
  turn. Every chunk that was to stay is still stored, between its old and its new
  number, with at least as many chunks as the new grid has places for an array
  that was to shrink and at most as many for one that was to grow. So an open array
  reads wrong items, but never finds a place of a smaller grid without a chunk. The
  properties below leave damaged arrays out; this one, and the two before it, are about them.
- `IsResizableGrid`: the whole of `Resize` implements `Grid`. A shrink takes
  effect when its loop ends, then an extension when its own does. An array hit
  by an error or a crash inside a loop is `Lost`: neither the code nor a later
  `caterva_open` can repair it, because nothing compares the metalayer with the
  chunk list.
- `GridIsFull`, `HandleMatchesStorage`: chunk list, metalayer and handle agree
  between calls. `LateRefusal`: a call answered with an error by its second half
  has still left a whole, smaller array.
- `IsArrayOfItems`: `Slice` implements `NdArray`. The refinement mapping takes
  for `pending` the part of the caller's buffer that the loop has not reached,
  so that an error in the middle leaves a prefix of the chunks written.
- `GetReturnsItems`: no masked-out block, item of another chunk or garbage
  reaches the caller's buffer; nor does any when a slice that is read ends behind
  the array, where the loop visits numbers that belong to other chunks.
- `PaddingIsOwn`: padding never takes an item of another chunk. It is invisible
  until the array is extended, which `ResizeKeeps` follows up: in a chunk that
  was there, an extension shows what the padding held; only new chunks are zero.
- `InsertSplices`, `DeleteCloses`: at the level of items, the rule of
  `caterva_resize` on whole chunks is exactly what keeps a partly filled last
  chunk from ending up in the middle.
- `GetSelects`, `LastWins`, `TouchesOnlySelected`: the sorted walk through the
  chunks gives each place of the caller's buffer its item, lets the last of
  several writes to one item stay, and stores at every step only values that
  the buffer has for the items they are stored in. The first and the last hold
  for lists that `qsort` could not sort, too. So does `StaysInBuffer`: each element
  of a turn has a place of its own in the caller's buffer.
- `CopyEqualsSource`, `SliceHasItems`, `PaddingOfCopy`: both ways of copying give
  the same array, metalayers included. They differ in the padding, which an
  extension would show: a copy of whole chunks keeps it, one by slices has zeros.
- `StoppedIsPrefix`, `OthersKept`: a copy that is stopped leaves, in a file that
  can be opened, the chunks it has passed and zeros; no other array changes.
  `TypeOK` of `Copies` adds that no array, however it was left, has more chunks
  than its grid, and that every handle belongs to an array that is there.
- `MetaReadsBack`, `SqueezeKeepsItems`, `SqueezeKeepsExtents`,
  `FlatStaysReadable`: after any number of squeezes, some with the metalayer not
  written, and reopenings, what can be read is what was written, in its order;
  and it can be read whenever the padded chunks (rounded up to whole blocks) had one
  item in the dropped dimensions.
- `CopiesBox`, `IsFallback`: the unrolled loops copy exactly the box, row for row
  in the order of the generic loop.
- `CallReturns`, `CopyEnds` (liveness): every call, and every copy, ends.

Each property of a passing run is paired in `PROJECT.json` with a mutant of a
definition (a dropped condition, a wrong default, a counter not moved) that
makes the same run fail.

### Bounds

- `MaxExtent` (`Resize`): 6 items in chunks of 2 give up to three chunks and odd
  extents, so that a range can lie before, inside and behind a chunk, be aligned
  or not, and two chunks can follow or precede it. 2 x 3 chunks of one item are
  the smallest grid in which a deletion along the first axis and one along the
  second renumber chunks in different ways, and in which chunks survive on both
  sides of a removed column. `Starts` reach one past the largest extent.
- `MayFault`: at most one fault in a behaviour. After it the array is damaged
  and every kind of later call is still explored on it in `resize_1d`; `resize_2d` stops
  at the fault (`UpToFault`), having checked the step to what it leaves.
- `MaxCalls`: two calls of `Slice` or `Array` let a second one meet what a first
  one left; the initial items and padding are arbitrary and all different, so that
  what earlier calls could have left is there already (padding that an
  extension would show, above all). One call is enough for `Selection`, which
  keeps nothing but the items from call to call. Three calls of `Copies` make a
  copy, open or change it, and copy that. Five of `Squeeze` squeeze twice, close,
  open and read. The limit is why deadlock is not checked in these runs: a
  behaviour ends when the calls are used up. In the runs of `Resize` it is checked.
- `Shapes`, `ChunkShape`, `BlockShape`: in `slice_2d`, chunks of 1 x 3 in blocks
  of 1 x 2 have padding of both kinds (to whole blocks, and behind the end of
  the array), several blocks of which some are masked out, and two chunks in
  either dimension, so that chunk numbers of the slice, the array and the next
  row differ. `array_2d` has chunks of 3 x 2 in blocks of 2 x 1: an extent of up
  to 4 takes a full and a short chunk, an insertion of a whole chunk and one
  that is refused.
- `Overhang`, `Beyond`: how far behind the array slices to be read, and refused
  indexes, lie.
- `MaxIndexes`: three indexes give two in one chunk and one in another, in any
  order, and a repeat beside another index. `HalfInt` is 3 for extents of 4, so
  that the first and last index of a dimension cannot be compared and all
  others can. In `selection_extent` it plays no part.
- `MaxPad`: a buffer one item larger than the slice (the copy must not run
  together) or smaller (a read is refused). `BufferShape` is the largest buffer
  these need.
- `Parts`, `Sources`: chunks of 2 and of 3 over 3 items are one and two chunks,
  with padding in both. Whether a grid is that of the source or of the new array
  shows in one dimension already.
- `MaxVl`, `Contents`: two variable-length metalayers, so that an error can lie
  between them, and one content to change them to.
- `Arrays` (`Squeeze`): dimensions of extent 1 before, between and behind others,
  with chunks and blocks of one and of two items, an empty array, and an extent
  of 260 in chunks of 257, which take two bytes.
- Four dimensions (`CopyBuffer`) are the least in which a counter that moves sets
  back another that has one outside it, too; more dimensions nest the same loop.
- Items of the initial array, padding and buffers have different values, so
  that one that is lost, doubled or misplaced shows.

### Fairness

`CallReturns` needs `WF_vars(Proceed)`: a running call takes its next step.
`CopyEnds` needs the same of the loops of `Copies` (`WF_vars(Loop)`, whose steps
are those of the code, without the faults) and of `CopyBuffer`. Caterva runs in
the caller's thread and waits for nobody, so this says no more than that the
thread runs and that Blosc2 calls return. Callers, errors, crashes and reopening
have no fairness.

### What callers owe

Conditions the code does not test are preconditions of the models: a removed
range lies inside the array (`InRange`; `resize_past_end` shows what happens
otherwise); a slice that is written lies inside the array, and so does one that
becomes a new array; the start of a slice is not behind its stop; an index of a
selection is below the extent (`selection_extent`); nothing is written to an
array squeezed out of padded chunks. A place for a new array in `Copies` is free,
and a file that is removed is not open. Inserting into an array one of whose
other dimensions is empty divides by zero (caterva.c:1443) and is not modelled. The buffer of a
selection holds the whole selection: the code's test (caterva.c:1824) is the other way round.
Chunks and blocks have an item in every dimension (`PartsAssumption`). Where the array is
empty callers may give 0 there, as `tests/test_copy.c:45` does; nothing divides by it then, and
such partitions are left out.

### Disagreements met

Shown by a run:

- `resize_past_end`: `caterva_resize` tests where a range starts, not where it
  ends. Removing 2 items of a 4-item array from position 4 on succeeds, shortens
  the shape and deletes no chunk, so that `nchunks` is no longer the number of
  chunks of the array (`caterva.h:259`).
- `selection_extent`: an index equal to the extent passes the check
  (`caterva.c:1812`) and stands for an item of the next row of chunks.
- `squeeze_chunks`: an array whose padded chunks have more than one item in a dropped
  dimension, as chunks of 1 in blocks of 2 have, cannot be read any more; the chunks no
  longer go into the buffers that the new extents ask for.
- `copies_save`: `caterva_save` succeeds when its copy failed (`caterva.c:1066`).

Seen while modelling, without a run of their own:

- A resize to a shape with an empty dimension is carried out and then answered
  with `CATERVA_ERR_INVALID_ARGUMENT`, since `extend_shape` tests for an empty
  dimension before it finds the shapes equal (`caterva.c:1247`, `1253`).
  `LateRefusal` says what such a call leaves.
- A slice that is written and ends behind the array clears items of other chunks:
  from (0, 0) to (2, 3) in a 4 x 2 array of 2 x 2 chunks, the third column's chunk
  has the number of one in the next row (`caterva.c:562`), none of it is covered
  in part, and rows 2 and 3 become zero.
- The comparison of indexes casts a 64-bit difference to `int` (`caterva.c:1518`).
  For lists with indexes that far apart `qsort` may give any order, and of equal
  indexes an earlier one may be written last: the condition of `LastWins`.
- Calling `caterva_resize` again, with the same shape, after an error in the middle of its loop
  succeeds and repairs nothing: the shape is the new one already, and both halves return
  when shapes are equal (`caterva.c:1252`, `1331`). What is stored then is what
  `InterruptionLosesNothing` says.
- What `blosc2_schunk_fill_special` answers is not looked at (`caterva.c:239`). When
  it fails, a copy or a slice succeeds with an array without chunks: the second
  half of `Holds`.
- `caterva_orthogonal_selection` refuses a buffer that is larger than the selection
  and lets a smaller one pass, the other way round from the slices. Callers of
  the model bring buffers that are large enough.

## What is proved

For every number of dimensions, partition, shape, bound and content, with and
without faults. The assumptions are the named `ASSUME`s of the modules, which
every run evaluates, and where a theorem names one a condition on the callers.

| Module | Theorem | Property | Condition |
|---|---|---|---|
| `ResizeProofs` | `TypeCorrect` | `TypeOK` | |
| | `DeletionCorrect` | `DeletionKeepsSurvivors` | |
| | `InsertionCorrect` | `InsertionKeepsOldChunks` | |
| | `HandleCorrect` | `HandleMatchesStorage` | `InRange` |
| | `GridFull` | `GridIsFull` | `InRange` |
| | `RefusedLate` | `LateRefusal` | `InRange` |
| | `InterruptionKeepsChunks` | `InterruptionLosesNothing` (action property) | `InRange` |
| | `ImplementsGrid` | `IsResizableGrid` (refinement) | `InRange` |
| `ArrayProofs` | `SliceTypeCorrect` | `TypeOK` | |
| | `PaddingCorrect` | `PaddingIsOwn` | |
| | `ReadCorrect` | `GetReturnsItems` | |
| | `ImplementsNdArray` | `IsArrayOfItems` (refinement) | |
| | `ArrayTypeCorrect` | `ArrayTypeOK` | |
| | `ArrayReadCorrect` | `GetReturnsItems` | |
| | `InsertCorrect` | `InsertSplices` | |
| | `DeleteCorrect` | `DeleteCloses` | |
| | `ResizeCorrect` | `ResizeKeeps` | |
| `SelectionProofs` | `SelectionTypeCorrect` | `TypeOK` | |
| | `ElementsInBuffer` | `StaysInBuffer` | |
| | `GetCorrect` | `GetSelects` | `1 \notin Beyond` |
| | `LastOccurrenceWins` | `LastWins` | `1 \notin Beyond`, `MaxIndexes <= HalfInt` |
| | `OnlySelectedTouched` | `TouchesOnlySelected` | `1 \notin Beyond` |
| `CopyBufferProofs` | `FallbackCorrect` | `IsFallback` (refinement) | |
| | `CopyCorrect` | `CopiesBox` | |
| `CopiesProofs` | `TypeCorrect` | `TypeOK` | |
| | `CopiesAreEqual` | `CopyEqualsSource` | |
| | `SlicesAreWhole` | `SliceHasItems` | |
| | `PaddingIsKnown` | `PaddingOfCopy` | |
| | `StoppedCopiesArePrefixes` | `StoppedIsPrefix` | |
| | `CopiesAreIndependent` | `OthersKept` (action property) | |
| `SqueezeProofs` | `MetalayerReadsBack` | `MetaReadsBack` | |
| | `ItemsAreKept` | `SqueezeKeepsItems` | |
| | `ExtentsAreKept` | `SqueezeKeepsExtents` | |
| | `FlatArraysAreRead` | `FlatStaysReadable` | |

`InRange` is what `caterva_resize` owes its callers to test and does not
(`resize_past_end` violates what it is for); `1 \notin Beyond` is that no caller
passes an index equal to the extent, which the code lets pass
(`selection_extent`). `MaxIndexes <= HalfInt` says that an `int` holds the
difference of two places in one list: it does, for lists of up to 2^31 indexes.
`Array` assumes that its set of shapes is closed under `Lesser`, the shape in the
middle of a resize that shrinks and extends, and that a buffer is not empty.

### The lemmas underneath

`MultidimProofs` is about the row-major numbering. `Product`, `Strides` and
`MultidimToUnidim` are recursive functions, and that their definitions have a
solution is itself proved (`RecursionExists`), by taking the least argument at
which one would fail; `ProductEquations`, `StridesEquations` and `NumberEquations`
are what the rest uses of them. From these: `NumberOfIndex` and `IndexOfNumber`
(number and coordinates are each other's inverse in a box), `NumberOrder` and
`OrderKept` (numbers are in lexicographic order), `NumberOfSum` (the number of a
place in a box that begins elsewhere), `NextNumber` and `LastNumber` (the
successor of a number moves the last coordinate that can move and sets back those
behind it). `BoxFacts` and `OriginBox` say what is in a box.

It ends with what holds of any shape and any partition: `ChunkGridFacts` and
`ChunkCountIsProduct` (an array has as many chunks as its grid has places),
`HoldingFacts` (the chunk and the place of an item), `ChunkNumberFacts` (chunk
numbers and places of the grid are a bijection).

`GeometryProofs` says the same of the one array of `Geometry`, and goes on to a
range cut out of one dimension or put into it: the chunks that are left keep the order of their
numbers (`DownFromOrder`), and the number of each is the one it had less the
covered ones in front of it (`Renumbering`).

### `Resize`

The two loop invariants are not in a form a prover can carry through a step:
they count, with `Cardinality`, over a condition on the state. The inductive
form states them of constants, `DeletedDown(s, t, D, n, c)` and
`InsertedUp(s, t, e, D, c)`: list `t` is list `s` after all places of the set `D`
from `c` up were deleted, or those below `c` inserted. `DeleteOne`, `KeepOne`,
`InsertOne` and `SkipOne` are the four ways a turn of a loop changes them.

The inductive invariant is
`Whole == TypeOK /\ DeletePass /\ InsertPass /\ StoredWhole /\ CallFits`:
besides the loops, what handle, metalayer and chunk list have to do with each
other at every `pc` (`StoredWhole`), and what the arguments of a running call
still satisfy (`CallFits`). It is needed because `GridIsFull` speaks only of
states between calls: that a loop ends with the number of chunks the new grid
has rests on what it was entered with. With the bijection of chunk numbers and
coordinates it gives `GridFull`. With `Renumbering`, `DeletionIsCut` and
`InsertionIsGrow` say that deleting, or inserting, chunk numbers one after the
other, which change on the way, is cutting, or growing, the grid by coordinates;
these are the steps of the refinement, `CutHappens`, `GrowHappens`, `LossHappens`
and `NothingHappens`.

`InterruptionKeepsChunks` needs no more than the invariant: a fault changes neither metalayer
nor chunks (`FaultSteps`), so what it leaves is what the loop had made (`Leftovers`).
`DeletedSome` and `InsertedSome` read off `DeletedDown` and `InsertedUp` where a chunk is when a
loop is half done: its number has changed by the deleted (or inserted) ones in front of it
that the loop has reached, which are some of all that are in front of it (`CountSplit`).

### `Slice` and `Array`

`Slice`'s invariant is `Sound == TypeOK /\ Prepared`: `Prepared` says that there
are as many chunks as the shape needs, and that a slice being written lies inside
the array and has a value in the buffer for each of its places.
`GetPass` says what of the caller's buffer is done when the loop is at `cur`;
that the chunk numbers the loop goes through meet every chunk of the slice, and
each item in one turn only, is `TurnFacts` and `CopiedItems`. That every copied
item lies in a block that is decompressed is proved from the two conditions the
code computes apart from each other. The refinement maps `pending` to what the
loop has not reached, and each turn to a partial write.

`Array` has `ArraySound`, which keeps `Sound` through the changes of shape, and
`InsertPass`: while the buffer of an insertion is written, the old items are at
their new coordinates and the new ones in front of the loop. `OverAtOnce` is
that deleting and resizing are over when the call is. `MovedChunk` and `MovedItem`
say where an item goes when whole chunks are cut out or put in.

### `Selection`

`Sound` has, besides the types, `Looping`: each list is an arrangement of the
caller's (`Arranged`, whatever `qsort` did) and, if the comparison can tell its
values apart, ascends; the loop is at the beginning of a run in every dimension,
and can be behind the end only in the first. `PassedNext` is the heart: what a
turn passes, in the order in which `Advance` goes through the product of the runs,
is exactly the elements of the turn, so that at the end every combination was
passed (`AllPassed`). `GetPass` needs no order of the lists: each place of the
buffer belongs to one combination (`CombinationFacts`), from which `StaysInBuffer` follows, too. `SetPass` does: a run has every occurrence
of its indexes (`RunHasAll`) only when the list ascends, and only then is the last
of the turn the last of the list (`LastForFacts`).

### `CopyBuffer`

`FallbackCorrect` says that the unrolled loops do turn by turn what
`copy_ndim_fallback` does: the counters stand at the row whose number is the
number of turns (`CountersFit`), by `NextNumber`. `CopiedSoFar` adds what the
destination has: the rows numbered below `RowsCopied`, and nothing else changed.

### `Copies`

The inductive invariant is `Whole == TypeOK /\ Making /\ Prefix /\ Results`. `Making`
is about a call that is under way: what its arguments still have to do with the
source, which may be in a file and open, but does not change; and that the array
being made has the chunks passed so far, with the items of the source and
zeros elsewhere (`Related`, `Progress`). `Prefix` says the same of what an ended
or interrupted call left. It is stronger than `StoppedIsPrefix`, which speaks of
a call that was stopped: the process may end between the last chunk and the
answer to the caller, too. `Results` are the three
properties of copies that succeeded.

The proof goes by what one turn of `caterva_get_slice` reads: the chunk
numbered `nchunk`, as a box of the new array, moved by the start of the slice,
lies inside the source, and every item of the chunk is in it (`SliceReads`,
`MadeItem`). A grid of which every chunk was made that way has every item of the
box (`MadeIsWhole`), by `ChunkNumberFacts`: every item lies in exactly one chunk
with a number the loop passes. `BeginStep` is what is common to the four
ways a call begins, `ChunkMade` is one turn. Assumed of the constants is that
chunks and blocks have an item in every dimension (`PartsAssumption`),
that the arrays to begin with have as many chunks as they need
(`SourcesAssumption`), that `None` is no array (`NoneAssumption`) and that `Zero` is
an item (`ZeroAssumption`).

### `Squeeze`

The inductive invariant is
`Whole == Described /\ MetaReadsBack /\ SqueezeKeepsItems /\ FlatStaysReadable`.
`Described` says that the stored chunks are those of the array as it was created,
and that the metalayer and an open handle each describe that array without some of
its dimensions of extent 1 (`LeftOf`). They need not leave out the same ones: a
squeeze whose write of the metalayer fails has changed the handle already, so the
invariant cannot say that they are equal, and has to be enough for either of them
to read the chunks by. `SqueezeKeepsExtents` follows from it.

`Drop(f, a, w)` says in which way `a` is left of `w`: `f[i]` of its dimensions are
among the first `i` of `w`, so that `f` takes a step where a dimension is kept and
rests where it is left out. `KeptPlaces` and `SqueezedIsLeft` find such a way for the
loop of `caterva_squeeze_index`, `DropTwice` composes two. Products, strides, numbers,
chunk numbers and places in a chunk stay the same along a way whose dropped extents
are 1 (`ProductAlong`, `StridesAlong`, `NumberAlong`, `HoldingAlong`, `PlaceAlong`).

That squeezing looks at the shape only, not at chunks and blocks, is what makes
`SqueezeKeepsItems` hard: dropped dimensions may have chunks of several items.
Then the chunk is larger than the buffer made for it, and nothing is read. The other
way round, if all chunks go into their buffers, the dropped factors have product 1
and so are all 1 (`DroppedAreOnes`), and every item is where it was (`ReadsItems`).
When the padded chunks have one item in every dropped dimension this is always so (`FlatReads`).

Of the metalayer `ReadsBack` says that `Deserialize` undoes `Serialize`, whatever
is behind it: that is what an update leaves of a longer metalayer
(`UpdatedReadsBack`). Digits in base 256 and their value are recursive functions whose
definitions have solutions (`QuotientsEquations`, `FromBytesEquations`), and
`BytesReadBack` goes through them one byte after the other. Assumed is that the
arrays to begin with are descriptions (`ArraysAssumption`): extents that fit into 8
bytes, and chunks and blocks of at least one item whose extents fit into 4.

### Only model-checked

Liveness (`CallReturns`, `CopyEnds`): out of reach of the provers used here. And
the four statements that the runs refute, which are no properties of the code.

## Not modelled

Not modelled:

- `caterva_uninit`, whose items are arbitrary until they are written: `Slice` and
  `Array` begin with arbitrary items in any case.
- Arrays of 0 dimensions, which every function treats apart and which have one
  item; the strides of such an array are written in front of their arrays
  (caterva.c:96), in fields that this code does not use for it.
- `caterva_from_cframe` with `copy = false`, where the array goes on using the
  caller's bytes, and every other lifetime of memory.
- Sizes of 2 GB and above, computed in 32 bits (caterva.c:532).
- Contexts and configuration: allocation, and settings that never change.
- Writing to an array after its padded chunks were squeezed.
- Compression, frames and storage inside Blosc2 (external), allocation failure,
  plugins, tracing, tests, examples, benchmarks and the build.
