----------------------------- MODULE MCSqueeze -----------------------------
(***************************************************************************)
(* Small instances of Squeeze: arrays of up to three dimensions, written   *)
(* as sequences of a shape's extents and those of chunks and blocks.       *)
(***************************************************************************)
EXTENDS Squeeze

CONSTANT closed

MCOf(nd, shape, chunk, block) == [nd |-> nd, shape |-> shape, chunk |-> chunk, block |-> block]

MCArrays ==
    {MCOf(3, <<a[1], b[1], c[1]>>, <<a[2], b[2], c[2]>>, <<a[3], b[3], c[3]>>) :
        a \in {<<1, 1, 1>>, <<1, 2, 1>>, <<3, 2, 1>>},
        b \in {<<1, 1, 1>>, <<1, 1, 2>>, <<2, 3, 2>>},
        c \in {<<1, 1, 1>>, <<5, 3, 2>>}}
    \cup {MCOf(1, <<1, 1, 1>>, <<1, 1, 1>>, <<1, 1, 1>>), MCOf(2, <<1, 0, 1>>, <<1, 2, 1>>, <<1, 1, 1>>),
          MCOf(2, <<1, 260, 1>>, <<1, 257, 1>>, <<1, 256, 1>>)}
=============================================================================
