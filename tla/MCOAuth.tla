------------------------------- MODULE MCOAuth -------------------------------
(* A small instance of OAuth: requests and authorizations are               *)
(* interchangeable.                                                         *)
EXTENDS OAuth, TLC

CONSTANTS c1, g1, g2, q1, q2

RequestSymmetry == Permutations(Requests) \cup Permutations(Grants)
=============================================================================
