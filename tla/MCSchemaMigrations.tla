------------------------- MODULE MCSchemaMigrations -------------------------
(* Two versions of the note are enough for two outputs that the old key
   forbids, and for an edit after an output; two jobs for one that a downgrade
   dropped, with its stored answer, and another queued after it. *)
EXTENDS SchemaMigrations
=============================================================================
