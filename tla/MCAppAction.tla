---------------------------- MODULE MCAppAction -----------------------------
(* AppAction for TLC: its runs are model values that nothing tells apart.   *)
EXTENDS AppAction, TLC

Symmetry == Permutations(Runs)
=============================================================================
