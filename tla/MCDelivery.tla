------------------------------ MODULE MCDelivery ------------------------------
(* Small instances of Delivery: authorization ids and verify calls are       *)
(* interchangeable.                                                          *)
EXTENDS Delivery, TLC

CONSTANTS a1, a2, v1

MCPlans == {[deploy |-> "profile", verify |-> "profile"]}

IdSymmetry == Permutations(Ids)
=============================================================================
