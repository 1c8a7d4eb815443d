----------------------------- MODULE MCAccounts -----------------------------
(* A small instance of Accounts. *)
EXTENDS Accounts, TLC

CONSTANTS a1, a2, a3, i1, i2, s1, s2, s3

\* Users, codes and tokens are interchangeable.
Symmetry == Permutations(Users) \cup Permutations(Invitations) \cup Permutations(Cookies)
=============================================================================
