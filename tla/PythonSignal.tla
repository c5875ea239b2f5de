---------------------------- MODULE PythonSignal ----------------------------
(***************************************************************************)
(* One exported core signal as the Python bridge implements it.           *)
(*                                                                         *)
(*  - PythonSignal<C, As...> (Signal.h) owns the callback functor          *)
(*    m_callback (a CallbackFunctor, Callback.h) and the connection handle *)
(*    m_connection.  connect() assigns the Python function to the functor  *)
(*    and connects the functor's operator() to the native sigc signal BY   *)
(*    REFERENCE (sigc::mem_fun), then overwrites m_connection.             *)
(*  - The native signal (fsigc++, outside this repository) keeps its slots *)
(*    in connection order; a connection is alive until disconnected.  An   *)
(*    emission walks the slots alive when it started, skipping those       *)
(*    disconnected meanwhile; slots added during it wait for the next one. *)
(*  - Each slot invoked runs On<Event>Callback::operator() (Callbacks.cpp),*)
(*    which calls the functor's CURRENT m_callback.  That Python code may  *)
(*    re-enter connect()/disconnect() (spec.md 5(c), 9), so the script's  *)
(*    calls interleave with the emission's steps.                         *)
(*                                                                         *)
(* Connections are numbered 1..made in creation order; 0 is the empty     *)
(* sigc::connection m_connection holds before the first connect().        *)
(***************************************************************************)
EXTENDS Naturals, Sequences, FiniteSets

CONSTANTS Funcs,       \* Python function objects a script may connect
          None,        \* the Python None object (empty py::object)
          MaxConns,    \* bound on connections made to the native signal
          Disciplined  \* TRUE: the script disconnects before reconnecting

ASSUME None \notin Funcs /\ MaxConns \in Nat \ {0} /\ Disciplined \in BOOLEAN

Conns == 1..MaxConns

VARIABLES m_callback,   \* CallbackFunctor::m_callback
          m_connection, \* PythonSignal::m_connection
          made,         \* connections made so far on the native signal
          live,         \* connections still connected
          pending,      \* slots the current emission has still to visit
          inEmit,       \* an emission is in progress
          calls,        \* Python functions invoked by the current emission
          scriptBound   \* script's own view: it has connected and not
                        \* disconnected since (drives Disciplined only)

vars == <<m_callback, m_connection, made, live, pending, inEmit, calls,
          scriptBound>>

TypeOK ==
    /\ m_callback \in Funcs \cup {None}
    /\ m_connection \in 0..MaxConns
    /\ made \in 0..MaxConns
    /\ live \subseteq 1..made
    /\ pending \subseteq Conns
    /\ inEmit \in BOOLEAN
    /\ calls \in Seq(Funcs \cup {None})
    /\ scriptBound \in BOOLEAN

\* PythonSignal(sig): m_signal = sig; m_connection a default (empty)
\* sigc::connection; m_callback a default CallbackFunctor holding an
\* empty py::object (None).
Wrap ==
    /\ m_callback = None
    /\ m_connection = 0

\* Module export (exportCorePluginSignals) sets on_<event> to a
\* PythonSignal(&CorePlugin::on<Event>), with nothing connected yet.
Init ==
    /\ Wrap
    /\ made = 0 /\ live = {}
    /\ pending = {} /\ inEmit = FALSE /\ calls = <<>>
    /\ scriptBound = FALSE

\* CallbackFunctor::assignCallback: the functor now calls f, whichever
\* connection invokes it.
AssignCallback(f) == m_callback' = f

\* Mutant: connect() that never stores the new handle in m_connection.
ConnectNoSave(f) ==
    LET c == made + 1 IN
    /\ made < MaxConns
    /\ AssignCallback(f)
    /\ made' = c
    /\ live' = live \cup {c}
    /\ UNCHANGED <<m_connection, pending, inEmit, calls>>

\* PythonSignal::connect: assignCallback(func), then m_signal->connect(...)
\* whose handle replaces m_connection.  The previous connection is neither
\* disconnected nor remembered.
Connect(f) ==
    LET c == made + 1 IN
    /\ made < MaxConns
    /\ AssignCallback(f)
    /\ made' = c
    /\ live' = live \cup {c}
    /\ m_connection' = c
    /\ UNCHANGED <<pending, inEmit, calls>>

\* PythonSignal::disconnect: m_connection.disconnect(); a no-op on the
\* empty or an already disconnected handle.
Disconnect ==
    /\ live' = live \ {m_connection}
    /\ UNCHANGED <<m_callback, m_connection, made, pending, inEmit, calls>>

\* The script calls on_<event>.connect(f) (the "connect" binding).
ScriptConnect(f) ==
    /\ Disciplined => ~scriptBound
    /\ Connect(f)
    /\ scriptBound' = TRUE

\* The script calls on_<event>.disconnect() (the "disconnect" binding).
ScriptDisconnect == Disconnect /\ scriptBound' = FALSE

\* The engine emits the native signal.
EmitBegin ==
    /\ ~inEmit
    /\ inEmit' = TRUE /\ pending' = live /\ calls' = <<>>
    /\ UNCHANGED <<m_callback, m_connection, made, live, scriptBound>>

\* The emission visits its next slot; a slot still connected runs
\* On<Event>Callback::operator(), i.e. m_callback(args...).
EmitStep ==
    LET c == CHOOSE x \in pending : \A y \in pending : x <= y IN
    /\ inEmit /\ pending # {}
    /\ pending' = pending \ {c}
    /\ calls' = IF c \in live THEN Append(calls, m_callback) ELSE calls
    /\ UNCHANGED <<m_callback, m_connection, made, live, inEmit, scriptBound>>

EmitEnd ==
    /\ inEmit /\ pending = {}
    /\ inEmit' = FALSE
    /\ UNCHANGED <<m_callback, m_connection, made, live, pending, calls,
                   scriptBound>>

Next ==
    \/ \E f \in Funcs : ScriptConnect(f)
    \/ ScriptDisconnect
    \/ EmitBegin \/ EmitStep \/ EmitEnd

Spec == Init /\ [][Next]_vars

(***************************************************************************)
(* Refinement: the wrapper is bound to m_callback exactly while the       *)
(* connection it remembers is alive.                                      *)
(***************************************************************************)
Abstract == INSTANCE SignalBinding
    WITH binding <- IF m_connection \in live THEN m_callback ELSE None

\* The Python signal wrapper implements the spec's connect/disconnect/
\* emit contract (spec.md 4.2, P1, P2): every emission of the engine signal,
\* re-entrant connect/disconnect from the handlers included, invokes the
\* currently bound Python function at most once and never after disconnect.
SignalBindingRefined == Abstract!Spec
=============================================================================
