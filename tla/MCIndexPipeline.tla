--------------------------- MODULE MCIndexPipeline ---------------------------
(* Small instances of IndexPipeline. *)
EXTENDS IndexPipeline

CONSTANTS d1, d2

\* Revisions 1 and 3 belong to the first document, 2 and 4 to the second.
OwnerOf == [r \in Revs |-> IF r \in {1, 3} THEN d1 ELSE d2]
=============================================================================
