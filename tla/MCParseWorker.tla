---------------------------- MODULE MCParseWorker ----------------------------
(* A small instance of ParseWorker. *)
EXTENDS ParseWorker, TLC

CONSTANTS d1, j1, w1, w2

TwoPages == [d \in Docs |-> 2]
=============================================================================
