------------------------------ MODULE NdArray ------------------------------
(***************************************************************************)
(* What a Caterva array promises, without chunks, blocks or padding: a box *)
(* of items.  A write replaces the items of a slice, some at a time and in *)
(* any order.  One that succeeds has replaced them all, one that fails may *)
(* have replaced some, one that is refused none; and no write touches an   *)
(* item outside its slice.                                                 *)
(***************************************************************************)
EXTENDS Integers

CONSTANTS Values

VARIABLES
    items,    \* the items by coordinates
    pending,  \* what the running write has still to store, by coordinates
    outcome   \* "running", or what the last call returned

vars == <<items, pending, outcome>>

Init ==
    /\ \A c \in DOMAIN items : items[c] \in Values
    /\ pending = << >>
    /\ outcome = "SUCCEED"

Idle == outcome # "running"

Begin ==
    /\ Idle
    /\ outcome' = "running"
    /\ DOMAIN pending' \subseteq DOMAIN items
    /\ \A c \in DOMAIN pending' : pending'[c] \in Values
    /\ UNCHANGED items

\* A call that is answered without doing anything.
Answer ==
    /\ Idle
    /\ outcome' \in {"SUCCEED", "INVALID_ARGUMENT", "INVALID_INDEX"}
    /\ UNCHANGED <<items, pending>>

Store ==
    /\ outcome = "running"
    /\ DOMAIN pending' \subseteq DOMAIN pending
    /\ pending' = [c \in DOMAIN pending' |-> pending[c]]
    /\ items' = [c \in DOMAIN items |->
                    IF c \in DOMAIN pending \ DOMAIN pending' THEN pending[c] ELSE items[c]]
    /\ UNCHANGED outcome

Finish ==
    /\ outcome = "running"
    /\ pending = << >>
    /\ outcome' = "SUCCEED"
    /\ UNCHANGED <<items, pending>>

Fail ==
    /\ outcome = "running"
    /\ outcome' = "BLOSC_FAILED"
    /\ pending' = << >>
    /\ UNCHANGED items

Next == Begin \/ Answer \/ Store \/ Finish \/ Fail

Spec == Init /\ [][Next]_vars
=============================================================================
