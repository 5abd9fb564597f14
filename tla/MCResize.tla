------------------------------ MODULE MCResize ------------------------------
(***************************************************************************)
(* Small instances of Resize.  Every chunk of the initial array is told    *)
(* from every other one (chunk k holds k + 1), so that a chunk that is     *)
(* lost, doubled or moved to the wrong place shows.                        *)
(***************************************************************************)
EXTENDS Resize

MCChunk2 == <<2>>
MCChunk11 == <<1, 1>>
MCMax6 == <<6>>
MCMax23 == <<2, 3>>
MCContents == 0..NumChunks(MaxExtent)

MCInit == Init /\ sc = [k \in 1..NumChunks(shape) |-> k]

\* Bound: what becomes of an array after a fault is left to the run of one dimension.
UpToFault == ~damaged

MCSpec == MCInit /\ [][Next]_vars
MCFairSpec == MCSpec /\ WF_vars(Proceed)
=============================================================================
