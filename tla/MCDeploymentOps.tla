--------------------------- MODULE MCDeploymentOps ---------------------------
(* Instances of DeploymentOps for TLC.                                     *)
EXTENDS ContainerDeploys, TLC

OpSymmetry == Permutations(Ops)
=============================================================================
