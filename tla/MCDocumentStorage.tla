--------------------------- MODULE MCDocumentStorage ---------------------------
(* Small instances of DocumentStorage. *)
EXTENDS DocumentStorage

CONSTANTS u1, u2, c1, c2, e1, e2
=============================================================================
