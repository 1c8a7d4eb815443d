--------------------------- MODULE MCPageParsing ---------------------------
(* Instances of PageParsing for TLC. *)
EXTENDS PageParsing
=============================================================================
