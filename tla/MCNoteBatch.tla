---------------------------- MODULE MCNoteBatch ----------------------------
(* Small instances of NoteBatch. *)
EXTENDS NoteBatch

CONSTANTS d1, b1, b2, p1, p2
=============================================================================
