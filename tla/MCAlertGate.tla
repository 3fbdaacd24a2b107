---------------------------- MODULE MCAlertGate ----------------------------
(***************************************************************************)
(* Instances of AlertGate for TLC.                                         *)
(***************************************************************************)
EXTENDS AlertGate, TLC

CONSTANTS A, B, r1, r2

\* A table of the shape of the real one (15, 30, 60 minutes, in steps of five),
\* with steps short enough for runs to overlap in.
ShortBackoff == [i \in 0..2 |-> i]

MCSymmetry == Permutations(Conditions) \cup Permutations(Runs)
=============================================================================
