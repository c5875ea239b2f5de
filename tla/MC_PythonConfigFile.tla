----------------------- MODULE MC_PythonConfigFile -----------------------
(* Model-checking instance of PythonConfigFile: one key, whose value may  *)
(* satisfy any combination of the six typed getters.                     *)
EXTENDS PythonConfigFile

CONSTANTS k1

MC_Keys == {k1}
=============================================================================
