--------------------------- MODULE MCUpgradePlan ----------------------------
(* UpgradePlan for TLC.                                                    *)
EXTENDS UpgradePlan, TLC

\* No run checks liveness, and the operators differ in nothing but their names.
Symmetry == Permutations(Operators)
=============================================================================
