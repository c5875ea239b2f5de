--------------------------- MODULE SignalBinding ---------------------------
(***************************************************************************)
(* Abstract contract of a Python signal wrapper (spec.md 4.2, P1, P2).    *)
(*                                                                         *)
(* A wrapper holds at most one binding to a Python function.  connect(f)  *)
(* replaces the binding, disconnect() removes it (and is a no-op when     *)
(* there is none), and one emission of the wrapped signal invokes the     *)
(* bound function at most once.  An emission is not atomic: the Python    *)
(* code it runs may itself call connect/disconnect, so it is split into   *)
(* a begin, at most one delivery, and an end.                             *)
(***************************************************************************)
EXTENDS Sequences

CONSTANTS Funcs, None

VARIABLES binding,  \* the function currently bound, or None
          calls,    \* functions invoked by the emission in progress/last
          inEmit    \* an emission of the wrapped signal is in progress

vars == <<binding, calls, inEmit>>

Init == binding = None /\ calls = <<>> /\ inEmit = FALSE

Connect(f) == binding' = f /\ UNCHANGED <<calls, inEmit>>

Disconnect == binding' = None /\ UNCHANGED <<calls, inEmit>>

EmitBegin == ~inEmit /\ inEmit' = TRUE /\ calls' = <<>> /\ UNCHANGED binding

\* The bound function is delivered to at most once per emission.
Deliver == /\ inEmit /\ calls = <<>> /\ binding # None
           /\ calls' = <<binding>>
           /\ UNCHANGED <<binding, inEmit>>

EmitEnd == inEmit /\ inEmit' = FALSE /\ UNCHANGED <<binding, calls>>

Next == \/ \E f \in Funcs : Connect(f)
        \/ Disconnect \/ EmitBegin \/ Deliver \/ EmitEnd

Spec == Init /\ [][Next]_vars
=============================================================================
