-------------------------------- MODULE Grid --------------------------------
(***************************************************************************)
(* What resizing promises, without chunk numbers, loops or metalayers: an  *)
(* array is a shape and a function from the coordinates of its grid of     *)
(* chunks to what they hold.  Cutting a range out of some dimensions       *)
(* removes the chunks that start in it and moves the ones behind it up;    *)
(* putting a range in moves the chunks behind it down and fills the gap    *)
(* with zeros.  Each of the two happens at once.  An array may also be     *)
(* lost for good, by an error or a crash in the middle of one of them.     *)
(***************************************************************************)
EXTENDS Regrid

CONSTANTS Shapes, Starts, Contents, Zero, Lost

VARIABLES
    extent,  \* the shape of the array
    cells    \* its chunks by coordinates, or Lost

vars == <<extent, cells>>

TypeOK ==
    /\ extent \in Shapes
    /\ cells = Lost \/ cells \in [GridCoords(extent) -> Contents]

Init ==
    /\ extent \in Shapes
    /\ cells \in [GridCoords(extent) -> Contents]

Alive == cells # Lost

Cut(start) ==
    /\ Alive
    /\ extent' \in Shapes
    /\ extent' # extent
    /\ \A j \in Dims : extent'[j] <= extent[j]
    /\ LET len == [j \in Dims |-> extent[j] - extent'[j]]
       IN  Fits(start, len, extent', extent')
    /\ cells' = CutCells(cells, extent, extent', start)

Grow(start) ==
    /\ Alive
    /\ extent' \in Shapes
    /\ extent' # extent
    /\ \A j \in Dims : extent'[j] >= extent[j] /\ extent[j] > 0
    /\ LET len == [j \in Dims |-> extent'[j] - extent[j]]
       IN  Fits(start, len, extent, extent)
    /\ cells' = GrownCells(cells, extent, extent', start, Zero)

Lose ==
    /\ Alive
    /\ cells' = Lost
    /\ extent' \in Shapes \cup {Lost}

Next ==
    \/ \E start \in Starts : Cut(start) \/ Grow(start)
    \/ Lose

Spec == Init /\ [][Next]_vars
=============================================================================
