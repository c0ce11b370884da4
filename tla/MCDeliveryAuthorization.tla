---------------------- MODULE MCDeliveryAuthorization ----------------------
(* Small instances of DeliveryAuthorization: tasks, row ids and evidence    *)
(* are interchangeable, and no definition picks one of them.                *)
EXTENDS DeliveryAuthorization, TLC

CONSTANTS t1, t2, a1, a2, a3, e1, e2

RowSymmetry == Permutations(Ids) \cup Permutations(Evidence) \cup Permutations(Tasks)
=============================================================================
