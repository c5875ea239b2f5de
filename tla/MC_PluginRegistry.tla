------------------------ MODULE MC_PluginRegistry ------------------------
(* Model-checking instance of PluginRegistry: three configured plugins,   *)
(* one of them compiled, every pythonClass assignment among them, so that *)
(* two plugins can name one class and a class can share a compiled name.  *)
EXTENDS PluginRegistry

CONSTANTS A, B, C

MC_Ids == {A, B, C}
MC_Names == {A, B, C}
MC_Compiled == {C}
=============================================================================
