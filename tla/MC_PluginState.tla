--------------------------- MODULE MC_PluginState ---------------------------
(* Model-checking instance of PluginState: three state addresses, so that *)
(* a killed state's address can be reused while two others are alive, and *)
(* one PluginState slot per address, so the pool never disables a step.   *)
EXTENDS PluginState

CONSTANTS a1, a2, a3, p1, p2, p3

MC_Addrs == {a1, a2, a3}
MC_PSs == {p1, p2, p3}

=============================================================================
