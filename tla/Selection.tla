----------------------------- MODULE Selection -----------------------------
(***************************************************************************)
(* caterva_get_orthogonal_selection and its counterpart: copying between a *)
(* caller's buffer and the items whose coordinates are in the product of   *)
(* one list of indexes per dimension.  A list may be in any order and may  *)
(* repeat an index.                                                        *)
(*                                                                         *)
(* The code sorts each list, remembering where each index stood, so that   *)
(* the indexes that fall into one chunk (and, in it, into one block) are   *)
(* next to each other; then it goes through the runs of equal chunks.      *)
(***************************************************************************)
EXTENDS Chunked, FiniteSets, SequencesExt

CONSTANTS
    Shapes,      \* the shapes an array may have
    Garbage,     \* what malloc leaves in a buffer
    Buffers,     \* what callers write: functions from the largest buffer to Values
    MaxIndexes,  \* bound: how many indexes a list may have
    Beyond,      \* how far behind the last index of a dimension callers also go
    HalfInt,     \* an int holds the numbers from -HalfInt to HalfInt - 1
    MaxPad,      \* bound: how much a buffer may be larger than a selection
    MaxCalls,    \* bound: how many calls of the library a behaviour makes
    Faults       \* whether Blosc calls may fail

ASSUME ShapesAssumption == Shapes \subseteq [Dims -> Nat]
ASSUME GarbageAssumption == Garbage \notin Values
ASSUME BeyondAssumption == Beyond \subseteq Nat \ {0}
ASSUME HalfIntAssumption == HalfInt \in Nat \ {0}
ASSUME BoundsAssumption == MaxIndexes \in Nat /\ MaxPad \in Nat /\ MaxCalls \in Nat
ASSUME FaultsAssumption == Faults \in BOOLEAN
ASSUME BuffersAssumption ==
    Buffers \subseteq [Box(Origin, [j \in Dims |-> MaxIndexes + MaxPad]) -> Values]

VARIABLES
    shape,  \* array->shape
    sc,     \* the decompressed chunks of the super-chunk
    pc,     \* "idle", or the loop that is running
    call,   \* its arguments
    order,  \* ordered_selection
    at,     \* where the run the loop is at begins in it (p_ordered_selection_0)
    buf,    \* the caller's buffer
    ret,    \* what the last call returned
    left    \* how many calls are left

vars == <<shape, sc, pc, call, order, at, buf, ret, left>>

Entries == [value : Nat, index : 0..MaxIndexes - 1]

TypeOK ==
    /\ shape \in Shapes
    /\ sc \in Seq(ChunkData)
    /\ pc \in {"idle", "getting", "setting"}
    /\ call.op \in {"none", "get", "set"}
    /\ \A j \in Dims : call.list[j] \in Seq(Nat) /\ order[j] \in Seq(Entries)
    /\ \A j \in Dims : at[j] \in 1..Len(order[j]) + 1
    /\ \A q \in DOMAIN buf : buf[q] \in Values \cup {Garbage}
    /\ ret \in {"SUCCEED", "INVALID_ARGUMENT", "INVALID_INDEX", "BLOSC_FAILED"}
    /\ left \in 0..MaxCalls

HasChunk(k) == k \in 0..Len(sc) - 1
ListOf(n) == [j \in Dims |-> n]

Init ==
    /\ shape \in Shapes
    /\ sc \in [1..NumChunks(shape) -> ChunkData]
    /\ pc = "idle"
    /\ call = [op |-> "none", list |-> ListOf(<< >>)]
    /\ order = ListOf(<< >>)
    /\ at = ListOf(1)
    /\ buf = << >>
    /\ ret = "SUCCEED"
    /\ left = MaxCalls

-----------------------------------------------------------------------------
(* Sorting. *)

\* The conversion of an int64_t to int.
AsInt(n) == ((n + HalfInt) % (2 * HalfInt)) - HalfInt

\* Mutant of Compare: equal indexes the other way round.
CompareLastFirst(a, b) ==
    IF AsInt(a.value - b.value) # 0 THEN AsInt(a.value - b.value) ELSE AsInt(b.index - a.index)

\* caterva_compare_selection: by value, equal ones by their place in the list.
Compare(a, b) ==
    IF AsInt(a.value - b.value) # 0 THEN AsInt(a.value - b.value) ELSE AsInt(a.index - b.index)

Before(a, b) == Compare(a, b) < 0

\* What qsort asks of a comparison: without it any order may come out.
OrdersWell(S) ==
    /\ \A a, b \in S : a # b => (Before(a, b) <=> ~Before(b, a))
    /\ \A a, b, c \in S : Before(a, b) /\ Before(b, c) => Before(a, c)

\* Mutant of Sorted: the places in the list are counted from 1.
SortedFromOne(list) ==
    LET S == {[value |-> list[i], index |-> i] : i \in DOMAIN list}
    IN  {s \in SetToSeqs(S) :
            OrdersWell(S) => \A i, m \in DOMAIN s : i < m => Before(s[i], s[m])}

\* What qsort may make of a list.
Sorted(list) ==
    LET S == {[value |-> list[i], index |-> i - 1] : i \in DOMAIN list}
    IN  {s \in SetToSeqs(S) :
            OrdersWell(S) => \A i, m \in DOMAIN s : i < m => Before(s[i], s[m])}

-----------------------------------------------------------------------------
(* Calling. *)

\* What callers pass: lists of indexes of the array, and of Beyond.
Indexes(j) == 0..shape[j] - 1 \cup {shape[j] - 1 + b : b \in Beyond}
ListsFor(j) == UNION {[1..n -> Indexes(j)] : n \in 0..MaxIndexes}
Selections ==
    {s \in [Dims -> UNION {ListsFor(j) : j \in Dims}] : \A j \in Dims : s[j] \in ListsFor(j)}

Sizes(list) == [j \in Dims |-> Len(list[j])]

\* An index equal to the extent passes.
OutOfRange(list) == \E j \in Dims : \E i \in DOMAIN list[j] : list[j][i] > shape[j]

\* caterva_orthogonal_selection up to the loop.  The test of the size of the
\* buffer, whose shape is bshape, refuses a larger one.
Enter(op, list, bshape) ==
    /\ call' = [op |-> op, list |-> list]
    /\ at' = ListOf(1)
    /\ IF OutOfRange(list) \/ Product(Sizes(list)) < Product(bshape)
       THEN /\ ret' = IF OutOfRange(list) THEN "INVALID_INDEX" ELSE "INVALID_ARGUMENT"
            /\ order' = ListOf(<< >>)
            /\ UNCHANGED pc
       ELSE /\ pc' = (IF op = "get" THEN "getting" ELSE "setting")
            /\ order' \in {o \in [Dims -> UNION {Sorted(list[j]) : j \in Dims}] :
                              \A j \in Dims : o[j] \in Sorted(list[j])}
            /\ UNCHANGED ret

Called == pc = "idle" /\ left > 0 /\ left' = left - 1

BufferBox(list, pad) == Box(Origin, [j \in Dims |-> Len(list[j]) + pad])

GetSelection ==
    /\ Called
    /\ \E list \in Selections, pad \in 0..MaxPad :
        /\ buf' = [q \in BufferBox(list, pad) |-> Garbage]
        /\ Enter("get", list, [j \in Dims |-> Len(list[j]) + pad])
    /\ UNCHANGED <<shape, sc>>

SetSelection ==
    /\ Called
    /\ \E list \in Selections, pad \in 0..MaxPad, f \in Buffers :
        /\ buf' = [q \in BufferBox(list, pad) |-> f[q]]
        /\ Enter("set", list, [j \in Dims |-> Len(list[j]) + pad])
    /\ UNCHANGED <<shape, sc>>

-----------------------------------------------------------------------------
(* The loop over the chunks (caterva_iterate_over_chunk). *)

More == \A j \in Dims : at[j] <= Len(order[j])

ChunkIndex(j, i) == order[j][i].value \div ChunkShape[j]
InChunk(j, i) == order[j][i].value % ChunkShape[j]

\* The entries of dimension j that fall into the same chunk as the one the loop is
\* at, as far as they follow each other.
Run(j) ==
    {i \in at[j]..Len(order[j]) :
        \A m \in at[j]..i : ChunkIndex(j, m) = ChunkIndex(j, at[j])}

\* Mutant of LastOfRun: one too far.
LastOfRunPast(j) == at[j] + Cardinality(Run(j))

LastOfRun(j) == at[j] + Cardinality(Run(j)) - 1

Here == MultidimToUnidim([j \in Dims |-> ChunkIndex(j, at[j])], Strides(ChunksInArray(shape)))

\* The next run: the last dimension moves first, and begins anew when one before
\* it moves.
Advance ==
    LET unfinished == {j \in Dims : j = 1 \/ LastOfRun(j) < Len(order[j])}
        d == Max(unfinished)
    IN  [j \in Dims |-> IF j < d THEN at[j] ELSE IF j = d THEN LastOfRun(d) + 1 ELSE 1]

\* The elements of the product of the runs, where they lie in the chunk, and where
\* in the buffer.
Elements ==
    {e \in [Dims -> UNION {Run(j) : j \in Dims}] : \A j \in Dims : e[j] \in Run(j)}
Place(e) == [j \in Dims |-> InChunk(j, e[j])]

InBuffer(e) == [j \in Dims |-> order[j][e[j]].index]

\* Mutant of Wanted: only the first block of the run.
WantedFirst(b) == \A j \in Dims : InChunk(j, at[j]) \div BlockShape[j] = b[j]

\* The blocks that caterva_iterate_over_block_maskout leaves to be decompressed.
Wanted(b) == \A j \in Dims : \E i \in Run(j) : InChunk(j, i) \div BlockShape[j] = b[j]

\* The chunk as it is decompressed for a get, into a new buffer.
Decompressed ==
    [p \in ChunkBox |-> IF Wanted(BlockOf(p)) THEN sc[Here + 1][p] ELSE Garbage]

\* caterva_iterate_over_block_copy, from the chunk to the buffer and back.  It goes
\* through the elements from the first to the last, so that of those with the same
\* place the last one counts.
CopiedOut ==
    [q \in DOMAIN buf |->
        IF \E e \in Elements : InBuffer(e) = q
        THEN Decompressed[Place(CHOOSE e \in Elements : InBuffer(e) = q)]
        ELSE buf[q]]

\* Mutant of CopiedIn: the blocks masked out for a get are for a set, too.
CopiedInMasked ==
    [p \in ChunkBox |->
        IF \E e \in Elements : Place(e) = p
        THEN buf[InBuffer([j \in Dims |-> Max({i \in Run(j) : InChunk(j, i) = p[j]})])]
        ELSE Decompressed[p]]

CopiedIn ==
    [p \in ChunkBox |->
        IF \E e \in Elements : Place(e) = p
        THEN buf[InBuffer([j \in Dims |-> Max({i \in Run(j) : InChunk(j, i) = p[j]})])]
        ELSE sc[Here + 1][p]]

GetRun ==
    /\ pc = "getting" /\ More /\ HasChunk(Here)
    /\ buf' = CopiedOut
    /\ at' = Advance
    /\ UNCHANGED <<shape, sc, pc, call, order, ret, left>>

SetRun ==
    /\ pc = "setting" /\ More /\ HasChunk(Here)
    /\ sc' = [sc EXCEPT ![Here + 1] = CopiedIn]
    /\ at' = Advance
    /\ UNCHANGED <<shape, pc, call, order, buf, ret, left>>

Leave(code) ==
    /\ pc' = "idle"
    /\ ret' = code
    /\ order' = ListOf(<< >>)
    /\ at' = ListOf(1)
    /\ UNCHANGED <<shape, sc, call, buf, left>>

SelectionEnd == pc # "idle" /\ ~More /\ Leave("SUCCEED")

\* Reading, compressing or replacing a chunk fails.
RunFails == pc # "idle" /\ More /\ (Faults \/ ~HasChunk(Here)) /\ Leave("BLOSC_FAILED")

Next == GetSelection \/ SetSelection \/ GetRun \/ SetRun \/ SelectionEnd \/ RunFails

Spec == Init /\ [][Next]_vars

-----------------------------------------------------------------------------
(* Properties. *)

Items == ItemsIn(shape, sc)

\* The coordinates of the array that place q of the buffer stands for, and the place
\* of the buffer that is the last to stand for c.
Selects(q) == [j \in Dims |-> call.list[j][q[j] + 1]]
Selected == {Selects(q) : q \in Box(Origin, Sizes(call.list))}
LastFor(c) == [j \in Dims |-> Max({i \in DOMAIN call.list[j] : call.list[j][i] = c[j]}) - 1]

Succeeded(op) == pc = "idle" /\ call.op = op /\ ret = "SUCCEED"

\* No two indexes of the list are so far apart that an int cannot hold the difference.
Comparable(list) == \A a, b \in DOMAIN list : list[a] - list[b] \in -HalfInt..HalfInt - 1

\* A get that succeeds has put every selected item where the caller's lists ask for
\* it, repeated ones as often as they are repeated, and left the rest of the buffer
\* alone: also when the comparison's conversion to int spoils the order of the
\* lists, so that the loop comes back to a chunk it has left.
GetSelects ==
    Succeeded("get") =>
        \A q \in DOMAIN buf :
            buf[q] = IF q \in Box(Origin, Sizes(call.list)) THEN Items[Selects(q)] ELSE Garbage

\* Each element of the turn the loop is at has a place of its own in the caller's buffer,
\* among those of the selection: also when the comparison has spoiled the order of the
\* lists, no turn runs past the end of a list, and none reads or writes a place the buffer
\* has not got.  (Callers bring a buffer for the whole selection, or a larger one.)
StaysInBuffer ==
    pc # "idle" /\ More =>
        /\ \A e \in Elements : InBuffer(e) \in Box(Origin, Sizes(call.list)) \cap DOMAIN buf
        /\ \A e, f \in Elements : InBuffer(e) = InBuffer(f) => e = f

\* When an index is repeated in a set, its last occurrence counts, as equal values
\* are sorted by index: if the comparison can tell the values of each list apart.
LastWins ==
    Succeeded("set") /\ (\A j \in Dims : Comparable(call.list[j])) =>
        \A c \in Selected : Items[c] = buf[LastFor(c)]

\* A step changes a place of a chunk, padding included, only if the running call
\* selected the item that lies there, and to a value that the caller's buffer has
\* for that item; so a call that is refused or fails has stored nothing else.
TouchesOnlySelected ==
    [][\A k \in 1..Len(sc) : \A p \in ChunkBox :
        sc'[k][p] # sc[k][p] =>
            \E q \in Box(Origin, Sizes(call.list)) :
                /\ Selects(q) \in Box(Origin, shape)
                /\ ChunkOf(shape, Selects(q)) = k - 1
                /\ p = [j \in Dims |-> Selects(q)[j] % ChunkShape[j]]
                /\ sc'[k][p] = buf[q]]_vars
=============================================================================
