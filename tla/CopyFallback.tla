---------------------------- MODULE CopyFallback ----------------------------
(***************************************************************************)
(* copy_ndim_fallback: the rows are numbered, and where a row lies is      *)
(* computed from its number.  No array has enough dimensions for the code  *)
(* to get there; here it says what the specialised loops of CopyBuffer do. *)
(***************************************************************************)
EXTENDS RowCopy

VARIABLE ncopy   \* how many rows are copied

Init == ncopy = 0

CopyRow ==
    /\ ~NothingToCopy
    /\ ncopy < Product(Rows)
    /\ dst' = RowCopied(UnidimToMultidim(Rows, ncopy))
    /\ ncopy' = ncopy + 1
    /\ UNCHANGED <<args, src>>

Spec == Init /\ [][CopyRow]_<<args, src, dst, ncopy>>
=============================================================================
