---------------------------- MODULE MCDeployStage ----------------------------
(* Small instances of DeployStage: both actions are capabilities, or both    *)
(* are deployment-host profiles.                                             *)
EXTENDS DeployStage

MCPlans == {[deploy |-> k, verify |-> k] : k \in Kinds}
=============================================================================
