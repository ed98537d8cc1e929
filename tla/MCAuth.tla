------------------------------- MODULE MCAuth -------------------------------
(* Requests are interchangeable.                                            *)
EXTENDS Auth, TLC

Symmetry == Permutations(Requests)
=============================================================================
