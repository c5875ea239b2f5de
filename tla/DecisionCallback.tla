-------------------------- MODULE DecisionCallback --------------------------
(***************************************************************************)
(* Decision callbacks: the adapters that return a result through an      *)
(* output parameter (spec.md 4.1, P8).  OnStateForkDecideCallback,        *)
(* OnProcessForkDecideCallback and OnCallReturnTranslateCallback          *)
(* (Callbacks.cpp) share one shape: call the Python function, extract a   *)
(* bool from its result with py::extract<bool>, write it to *out.         *)
(*                                                                         *)
(* The engine initialises the flag to true and emits the signal; its     *)
(* slots run in connection order and may be native plugins (which set    *)
(* the flag to false to veto, or leave it) or the Python adapter.  A      *)
(* Python call that raises, or whose result is not a bool, makes boost    *)
(* throw error_already_set; nothing in operator() catches it, so it       *)
(* leaves the emission, skipping the remaining slots.  The plain adapters *)
(* of every other signal (Callbacks.cpp) call m_callback the same way,    *)
(* with no try either: a raising callback leaves their emission too.      *)
(* Nine adapters are "TODO KLEE wrappers" stubs whose operator() never  *)
(* calls Python: OnBeforeSymbolicDataMemoryAccess, OnAfterSymbolicData-   *)
(* MemoryAccess, OnSymbolicAddress (whose bool& concretize output is     *)
(* never written), OnPortAccess, OnSymbolicVariableCreation, OnStateFork, *)
(* OnStatesSplit, OnUpdateStates and OnAddressSpaceChange.               *)
(* A signal carries one adapter type, so its Python slots are all         *)
(* "decide", all "plain" or all "stub".                                   *)
(***************************************************************************)
EXTENDS Naturals, Sequences, FiniteSets, Functions

CONSTANTS SlotOrders   \* the possible sequences of slot kinds on the signal

\* A slot is a native plugin's, the Python adapter of a decision signal
\* (On*DecideCallback, OnCallReturnTranslateCallback), or a plain Python
\* adapter of another signal (its operator() just calls m_callback), or a
\* stub adapter (its operator() does nothing).
Kinds == {"native", "decide", "plain", "stub"}

PythonKinds == Kinds \ {"native"}

\* What a plain Python callback can do.
PlainResults == {"Return", "Raise"}

\* What a Python decision function can do: return True or False, None,
\* an int that is 0 or not, another object (a str, a float...), or raise.
Answers == {"True", "False", "None", "Int0", "Int1", "Other", "Raise"}

\* How the last emission stands: none yet, still running, every slot
\* returned, or a C++ exception escaped into the engine.
Outcomes == {"idle", "running", "done", "escaped"}

ASSUME \A so \in SlotOrders :
         so \in Seq(Kinds) /\ Cardinality(Range(so) \cap PythonKinds) <= 1

VARIABLES slots,     \* slot kinds connected to the signal, in order
          next,      \* index of the next slot the emission runs
          out,       \* the bool the engine passed by pointer
          outcome,   \* how the current emission stands
          skipped    \* ghost: a Python slot of this emission ran without
                     \* calling its Python function

vars == <<slots, next, out, outcome, skipped>>

TypeOK ==
    /\ slots \in SlotOrders
    /\ next \in 1..Len(slots) + 1
    /\ out \in BOOLEAN
    /\ outcome \in Outcomes
    /\ skipped \in BOOLEAN

Init ==
    /\ slots \in SlotOrders
    /\ next = Len(slots) + 1 /\ out = TRUE /\ outcome = "idle"
    /\ skipped = FALSE

\* The engine (CorePlugin emitter) starts an emission with the flag true.
Emit ==
    /\ outcome # "running"
    /\ next' = 1 /\ out' = TRUE /\ outcome' = "running"
    /\ skipped' = FALSE
    /\ UNCHANGED slots

\* The signal passes the engine a flag by pointer.
IsDecision == Range(slots) \subseteq {"native", "decide"}

\* A native plugin's slot: on a decision signal it vetoes by writing
\* false, or leaves the flag.
NativeSlot ==
    /\ outcome = "running" /\ next <= Len(slots) /\ slots[next] = "native"
    /\ \/ IsDecision /\ out' = FALSE
       \/ UNCHANGED out
    /\ next' = next + 1
    /\ UNCHANGED <<slots, outcome, skipped>>

\* py::extract<bool>(m_callback(...)): boost's bool converter takes a
\* bool, None or an int and reads its truth (PyObject_IsTrue); any other
\* result, or a raising call, throws error_already_set out of operator().
Extracts(r) == r \in {"True", "False", "None", "Int0", "Int1"}

Truth(r) == r \in {"True", "Int1"}

\* OnStateForkDecideCallback::operator(): res = extract(callback());
\* *allowFork = res, whatever the flag held before.
PythonDecide(r) ==
    /\ outcome = "running" /\ next <= Len(slots) /\ slots[next] = "decide"
    /\ IF Extracts(r)
       THEN /\ out' = Truth(r)
            /\ next' = next + 1
            /\ UNCHANGED outcome
       ELSE /\ outcome' = "escaped"
            /\ UNCHANGED <<out, next>>
    /\ UNCHANGED <<slots, skipped>>

\* A plain adapter's operator() (OnProcessForkCallback, OnTlbMissCallback,
\* ...): m_callback(args...); a Python exception comes back as
\* error_already_set, which nothing there catches.
PlainCall(r) ==
    /\ outcome = "running" /\ next <= Len(slots) /\ slots[next] = "plain"
    /\ IF r = "Return"
       THEN /\ next' = next + 1
            /\ UNCHANGED outcome
       ELSE /\ outcome' = "escaped"
            /\ UNCHANGED next
    /\ UNCHANGED <<slots, out, skipped>>

\* A stub adapter's operator() (the nine "TODO KLEE wrappers" above): it
\* returns without calling the connected Python function.
StubCall ==
    /\ outcome = "running" /\ next <= Len(slots) /\ slots[next] = "stub"
    /\ next' = next + 1 /\ skipped' = TRUE
    /\ UNCHANGED <<slots, out, outcome>>

\* Every slot has run; the engine reads the flag.
EmitEnd ==
    /\ outcome = "running" /\ next = Len(slots) + 1
    /\ outcome' = "done"
    /\ UNCHANGED <<slots, next, out, skipped>>

Next ==
    \/ Emit \/ NativeSlot \/ StubCall \/ EmitEnd
    \/ \E r \in Answers : PythonDecide(r)
    \/ \E r \in PlainResults : PlainCall(r)

Spec == Init /\ [][Next]_vars

(***************************************************************************)
(* Properties                                                              *)
(***************************************************************************)

FailureIsFatal == outcome # "escaped"
=============================================================================
