---------------------------- MODULE MCCopyBuffer ----------------------------
(* Small instances of CopyBuffer. *)
EXTENDS CopyBuffer

MCSrc == {<<2, 2, 2, 1>>, <<1, 2, 2, 2>>}
MCDst == {<<2, 2, 2, 2>>}
=============================================================================
