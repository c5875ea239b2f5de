------------------------- MODULE MC_ExecutionSignal -------------------------
(* Model-checking instance of ExecutionSignal: translate wrappers, two    *)
(* reusable ExecutionSignal addresses and two Python functions.           *)
EXTENDS ExecutionSignal, TLC

CONSTANTS w1, w2, s1, s2, f1, f2

MC_Wrappers == {w1, w2}
MC_Sigs == {s1, s2}
MC_Funcs == {f1, f2}

MC_Symmetry == Permutations(MC_Sigs) \cup Permutations(MC_Funcs)
=============================================================================
