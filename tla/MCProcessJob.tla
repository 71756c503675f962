---------------------------- MODULE MCProcessJob ----------------------------
(* Instances of ProcessJob for TLC.                                        *)
EXTENDS ProcessJob
=============================================================================
