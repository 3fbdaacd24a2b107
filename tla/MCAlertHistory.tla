--------------------------- MODULE MCAlertHistory ---------------------------
(***************************************************************************)
(* Instances of AlertHistory for TLC: a backoff whose repeats fall within  *)
(* the few lines kept, and months short enough to cross.                   *)
(***************************************************************************)
EXTENDS AlertHistory, TLC

CONSTANTS A, B, r1

ShortBackoff == [i \in 0..2 |-> i]

MCSymmetry == Permutations(Conditions)
=============================================================================
