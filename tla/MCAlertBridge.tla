--------------------------- MODULE MCAlertBridge ---------------------------
(***************************************************************************)
(* Instances of AlertBridge for TLC: two groups that fire, resolve and     *)
(* fire again through a bounded number of hazards.                         *)
(***************************************************************************)
EXTENDS AlertBridge

CONSTANTS g1, g2
=============================================================================
