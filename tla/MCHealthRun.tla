---------------------------- MODULE MCHealthRun ----------------------------
(***************************************************************************)
(* Instances of HealthRun for TLC: A is a condition in which the checkout  *)
(* is down, B one in which it is not.  Runs are interchangeable.           *)
(***************************************************************************)
EXTENDS HealthRun, TLC

CONSTANTS A, B, r1, r2

ShortBackoff == [i \in 0..2 |-> i]

MCSymmetry == Permutations(Runs)
=============================================================================
