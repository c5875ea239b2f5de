-------------------------- MODULE MC_PythonSignal --------------------------
(* Model-checking instance of PythonSignal: two Python functions, a       *)
(* handful of connections, and the script's discipline per cfg.           *)
EXTENDS PythonSignal, TLC

CONSTANTS f1, f2

MC_Funcs == {f1, f2}

MC_Symmetry == Permutations(MC_Funcs)
=============================================================================
