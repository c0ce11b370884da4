---------------------------- MODULE MCMergeStage ----------------------------
(* Small instances of MergeStage: authorization ids are interchangeable.    *)
EXTENDS MergeStage, TLC

CONSTANTS a1, a2, a3

IdSymmetry == Permutations(Ids)
=============================================================================
