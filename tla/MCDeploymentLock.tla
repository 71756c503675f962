-------------------------- MODULE MCDeploymentLock --------------------------
(* Instances of DeploymentLock for TLC.                                    *)
EXTENDS DeploymentLock, TLC

OpSymmetry == Permutations(Ops)
=============================================================================
