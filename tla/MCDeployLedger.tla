--------------------------- MODULE MCDeployLedger ---------------------------
(* Small instances of DeployLedger for TLC: a1 is an `annotate` job, j1 a  *)
(* `dora` job.                                                             *)
EXTENDS DeployLedger

CONSTANTS a1, j1
=============================================================================
