------------------------ MODULE MC_DecisionCallback ------------------------
(* Model-checking instance of DecisionCallback: every order of up to three *)
(* slots of a decision signal (native and decide mixed, so that a native  *)
(* veto can come before or after the Python adapter) or of a plain signal *)
(* (native and plain mixed) or of a signal with a stub adapter.            *)
EXTENDS DecisionCallback

MC_SlotOrders ==
    UNION {[1..n -> {"native", "decide"}] \cup [1..n -> {"native", "plain"}]
             \cup [1..n -> {"native", "stub"}] : n \in 1..3}
=============================================================================
