----------------------------- MODULE MCJobLease -----------------------------
(* A small instance of JobLease. *)
EXTENDS JobLease, TLC

CONSTANTS d1, d2, j1, j2, w2

OnePage == [d \in Docs |-> 1]

\* Rows that are not inserted yet are interchangeable.
Symmetry == Permutations(Jobs)

\* Bound: leases handed out, so that a job may use up its attempts beside another.
FewLeases == Cardinality(granted) <= 3
=============================================================================
