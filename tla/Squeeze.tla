------------------------------- MODULE Squeeze ------------------------------
(***************************************************************************)
(* Dropping dimensions of extent 1 (caterva_squeeze), and the metalayer    *)
(* "caterva" through which an array is opened again.                       *)
(*                                                                         *)
(* An array has at most NDim dimensions (CATERVA_MAX_DIM); what it does    *)
(* not use of a shape is 1, as in the code.  The stored chunks, which are  *)
(* not touched, are sequences of items, block after block.                 *)
(***************************************************************************)
EXTENDS Partition, Sequences

CONSTANTS
    Arrays,    \* the arrays there may be at the beginning: nd, shape, chunk, block
    Closed,    \* no handle
    MaxCalls,  \* bound: how many calls of the library a behaviour makes
    Faults     \* whether a write of the metalayer may fail

ASSUME SqueezeAssumption == MaxCalls \in Nat /\ Faults \in BOOLEAN

VARIABLES
    handle,  \* the open array, or Closed
    meta,    \* the stored metalayer, a sequence of bytes
    chunks,  \* the stored chunks
    op,      \* the last call,
    ret,     \* what it returned
    got,     \* and the items it read
    left,    \* how many calls are left
    was      \* history: the array as it was created

vars == <<handle, meta, chunks, op, ret, got, left, was>>

-----------------------------------------------------------------------------
(* The metalayer. *)

\* n divided by 256 again and again; it goes into w bytes when nothing is left.
Quotients(n, w) == LET q[i \in 0..w] == IF i = 0 THEN n ELSE q[i - 1] \div 256 IN q
Fits(n, w) == Quotients(n, w)[w] = 0

\* n in w bytes, the most significant one first.
Bytes(n, w) == [i \in 1..w |-> Quotients(n, w)[w - i] % 256]

FromBytes(b) ==
    LET v[i \in 0..Len(b)] == IF i = 0 THEN 0 ELSE 256 * v[i - 1] + b[i]
    IN  v[Len(b)]

\* What the code knows of an array: a shape in integers of 8 bytes, chunks and blocks in
\* integers of 4, which are not empty.
IsDescription(a) ==
    /\ a \in [nd : 0..NDim, shape : [Dims -> Nat],
              chunk : [Dims -> Nat \ {0}], block : [Dims -> Nat \ {0}]]
    /\ \A j \in 1..a.nd : Fits(a.shape[j], 8) /\ Fits(a.chunk[j], 4) /\ Fits(a.block[j], 4)
    /\ \A j \in Dims : j > a.nd => a.shape[j] = 1 /\ a.chunk[j] = 1 /\ a.block[j] = 1

ASSUME ArraysAssumption == \A a \in Arrays : IsDescription(a)

\* A section: an array of nd integers of w bytes, each behind its marker.
Section(dims, nd, marker, w) ==
    <<144 + nd>> \o [i \in 1..nd * (1 + w) |->
                        IF i % (1 + w) = 1 THEN marker
                        ELSE Bytes(dims[1 + (i - 1) \div (1 + w)], w)[(i - 1) % (1 + w)]]

\* Mutant of Serialize: the extents of blocks go before those of chunks.
SerializeSwapped(a) ==
    <<149, 0, a.nd>> \o Section(a.shape, a.nd, 211, 8)
        \o Section(a.block, a.nd, 210, 4) \o Section(a.chunk, a.nd, 210, 4)

Serialize(a) ==
    <<149, 0, a.nd>> \o Section(a.shape, a.nd, 211, 8)
        \o Section(a.chunk, a.nd, 210, 4) \o Section(a.block, a.nd, 210, 4)

\* The integers of w bytes of a section that begins behind the first "at" bytes.
Extents(b, at, nd, w) ==
    [j \in Dims |-> IF j > nd THEN 1
                    ELSE LET k == at + 2 + (j - 1) * (1 + w) IN FromBytes(SubSeq(b, k + 1, k + w))]

\* The array a metalayer describes: neither version nor markers nor length are looked at.
Deserialize(b) ==
    LET nd == b[3]
        at == 3 + (1 + nd * 9)
    IN  [nd |-> nd, shape |-> Extents(b, 3, nd, 8), chunk |-> Extents(b, at, nd, 4),
         block |-> Extents(b, at + 1 + nd * 5, nd, 4)]

\* blosc2_meta_update: what is longer than before is refused, what is shorter leaves the
\* rest of the old contents behind it.
Updated(old, new) == new \o SubSeq(old, Len(new) + 1, Len(old))

-----------------------------------------------------------------------------
(* The items. *)

\* A chunk padded to whole blocks (extchunkshape): its items and its blocks.  The code has
\* 0 for an empty dimension, which tells nothing apart: then there are no chunks.
ExtChunkShape(a) == Padded(a.chunk, a.block)
ChunkItems(a) == Product(ExtChunkShape(a))
BlocksIn(a) == ChunkGrid(a.chunk, a.block)

\* Where in its chunk the item at coordinates c is.
Place(a, c) ==
    LET p == [j \in Dims |-> c[j] % a.chunk[j]]
    IN  ChunkHolding(a.chunk, a.block, p) * Product(a.block)
        + MultidimToUnidim([j \in Dims |-> p[j] % a.block[j]], Strides(a.block))

\* The coordinates in its chunk of what is stored at place n.
At(a, n) ==
    LET b == UnidimToMultidim(BlocksIn(a), n \div Product(a.block))
        i == UnidimToMultidim(a.block, n % Product(a.block))
    IN  [j \in Dims |-> b[j] * a.block[j] + i[j]]

\* The chunks of an array whose items are numbered in row-major order; 0 is padding.
Stored(a) ==
    [k \in 1..ChunkCount(a.shape, a.chunk) |->
        LET first == UnidimToMultidim(ChunkGrid(a.shape, a.chunk), k - 1)
        IN  [n \in 1..ChunkItems(a) |->
                IF IsPaddingOf(a.shape, a.chunk, k - 1, At(a, n - 1)) THEN 0
                ELSE 1 + MultidimToUnidim([j \in Dims |-> first[j] * a.chunk[j] + At(a, n - 1)[j]],
                                          Strides(a.shape))]]

\* The items of the stored chunks, for an array of the given description.
ItemsOf(a) ==
    [n \in 1..Product(a.shape) |->
        LET c == UnidimToMultidim(a.shape, n - 1)
        IN  chunks[1 + ChunkHolding(a.shape, a.chunk, c)][1 + Place(a, c)]]

Init ==
    /\ \E a \in Arrays :
        /\ handle = a /\ was = a
        /\ meta = Serialize(a)
        /\ chunks = Stored(a)
    /\ op = "create" /\ ret = "SUCCEED" /\ got = << >> /\ left = MaxCalls

-----------------------------------------------------------------------------
(* The calls. *)

Called(call) == left > 0 /\ left' = left - 1 /\ op' = call /\ UNCHANGED <<chunks, was>>

\* Mutant of Kept: the last dimension first.
KeptBackwards(index) ==
    LET k[j \in 0..handle.nd] == IF j = 0 THEN << >>
                                 ELSE IF index[j] THEN k[j - 1] ELSE <<j>> \o k[j - 1]
    IN  k[handle.nd]

\* The dimensions that are kept, in their order.
Kept(index) ==
    LET k[j \in 0..handle.nd] == IF j = 0 THEN << >>
                                 ELSE IF index[j] THEN k[j - 1] ELSE Append(k[j - 1], j)
    IN  k[handle.nd]

\* Mutant of Squeezed: the extents of the first chunks are kept, not those of the dimensions.
SqueezedFirst(index) ==
    LET kept == Kept(index)
        of(dims) == [j \in Dims |-> IF j <= Len(kept) THEN dims[kept[j]] ELSE 1]
        first(dims) == [j \in Dims |-> IF j <= Len(kept) THEN dims[j] ELSE 1]
    IN  [nd |-> Len(kept), shape |-> of(handle.shape),
         chunk |-> first(handle.chunk), block |-> first(handle.block)]

Squeezed(index) ==
    LET kept == Kept(index)
        of(dims) == [j \in Dims |-> IF j <= Len(kept) THEN dims[kept[j]] ELSE 1]
    IN  [nd |-> Len(kept), shape |-> of(handle.shape),
         chunk |-> of(handle.chunk), block |-> of(handle.block)]

\* Mutant of UpdateShape: the metalayer is left as it was.
UpdateShapeOnly(a) ==
    /\ handle' = a
    /\ \/ meta' = meta /\ ret' = "SUCCEED"
       \/ Faults /\ UNCHANGED meta /\ ret' = "BLOSC_FAILED"

\* caterva_update_shape: the handle first, then the metalayer.
UpdateShape(a) ==
    /\ handle' = a
    /\ \/ meta' = Updated(meta, Serialize(a)) /\ ret' = "SUCCEED"
       \/ Faults /\ UNCHANGED meta /\ ret' = "BLOSC_FAILED"

\* caterva_squeeze_index.
SqueezeBy(index) ==
    IF \E j \in 1..handle.nd : index[j] /\ handle.shape[j] # 1
    THEN ret' = "INVALID_INDEX" /\ UNCHANGED <<handle, meta>>
    ELSE UpdateShape(Squeezed(index))

SqueezeIndex ==
    /\ handle # Closed
    /\ Called("squeeze")
    /\ \E index \in [1..handle.nd -> BOOLEAN] : SqueezeBy(index)
    /\ got' = << >>

Squeeze ==
    /\ handle # Closed
    /\ Called("squeeze")
    /\ SqueezeBy([j \in 1..handle.nd |-> handle.shape[j] = 1])
    /\ got' = << >>

\* All of the array is read (caterva_to_buffer): a chunk that is larger than the handle
\* says does not go into the buffer it is decompressed to.
Read ==
    /\ handle # Closed
    /\ Called("read")
    /\ IF \E k \in DOMAIN chunks : Len(chunks[k]) > ChunkItems(handle)
       THEN ret' = "BLOSC_FAILED" /\ got' = << >>
       ELSE ret' = "SUCCEED" /\ got' = ItemsOf(handle)
    /\ UNCHANGED <<handle, meta>>

Close ==
    /\ handle # Closed
    /\ Called("close")
    /\ handle' = Closed
    /\ ret' = "SUCCEED" /\ got' = << >>
    /\ UNCHANGED meta

Open ==
    /\ handle = Closed
    /\ Called("open")
    /\ handle' = Deserialize(meta)
    /\ ret' = "SUCCEED" /\ got' = << >>
    /\ UNCHANGED meta

Next == SqueezeIndex \/ Squeeze \/ Read \/ Close \/ Open

Spec == Init /\ [][Next]_vars

-----------------------------------------------------------------------------
(* Properties. *)

\* Whatever was squeezed, and however often, the metalayer describes the array, although
\* a shorter one is written over a longer one.
MetaReadsBack ==
    op \in {"create", "squeeze", "open"} /\ ret = "SUCCEED" => Deserialize(meta) = handle

\* An array that can be read has the items it had when it was created, in their order: also
\* after the metalayer could not be written, and the handle and the file disagree.
SqueezeKeepsItems ==
    op = "read" /\ ret = "SUCCEED" => got = [n \in 1..Product(handle.shape) |-> n]

\* The extents of an array other than 1, with those of their chunks and blocks.
Longer(a) ==
    LET l[j \in 0..NDim] == IF j = 0 THEN << >>
                            ELSE IF a.shape[j] = 1 THEN l[j - 1]
                            ELSE Append(l[j - 1], <<a.shape[j], a.chunk[j], a.block[j]>>)
    IN  l[a.nd]

\* The extents other than 1, with those of their chunks and blocks, are kept in their order,
\* by every squeeze, failed or not, and by opening.
SqueezeKeepsExtents == handle # Closed => Longer(handle) = Longer(was)

\* An array whose padded chunks have one item in every dimension of extent 1 stays readable.
FlatStaysReadable ==
    op = "read" /\ (\A j \in Dims : was.shape[j] = 1 => ExtChunkShape(was)[j] = 1)
        => ret = "SUCCEED"

\* Squeezing removes dimensions from the shape, and nothing else: what is left can be read.
SqueezedIsReadable == op = "read" => ret = "SUCCEED"
=============================================================================
