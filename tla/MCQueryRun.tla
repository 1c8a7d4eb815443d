----------------------------- MODULE MCQueryRun -----------------------------
(* Small instances of QueryRun. *)
EXTENDS QueryRun

CONSTANTS d1, d2, q1, q2
=============================================================================
