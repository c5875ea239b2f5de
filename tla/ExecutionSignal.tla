--------------------------- MODULE ExecutionSignal ---------------------------
(***************************************************************************)
(* The execution-scoped signal wrapper (spec.md 4.3, P5).                 *)
(*                                                                         *)
(* Every translate-time callback functor that receives an ExecutionSignal *)
(* (CallbackFunctorWithExecutionSignal, ExecutionSignal.h) owns ONE        *)
(* PythonExecutionSignal m_executionSignal.  When the engine translates a  *)
(* block it allocates a fresh ExecutionSignal and emits the translate      *)
(* signal; the functor's operator() (Callbacks.cpp) first saveSignal()s    *)
(* the fresh signal into m_executionSignal and then calls the Python       *)
(* translate handler with a pointer to m_executionSignal.  The handler may *)
(* call es.connect(f) / es.disconnect() on it.  Later, each execution of  *)
(* the block emits its ExecutionSignal, whose slots run                    *)
(* OnExecutionCallback::operator(), i.e. the CURRENT m_callback of the     *)
(* wrapper they were connected through.  A flush of the translation cache *)
(* destroys the ExecutionSignal and its slots; its address may be reused.  *)
(*                                                                         *)
(* The handler gets m_executionSignal itself (py::ptr), not a copy, so a  *)
(* script may keep it and call es.connect(f) later, outside any handler;  *)
(* that connect goes to whatever m_signal the functor saved last.         *)
(*                                                                         *)
(* The translate signals' own Python connections are taken as made once,   *)
(* at plugin initialisation (PythonSignal models them).                    *)
(***************************************************************************)
EXTENDS Naturals, Sequences, FiniteSets

CONSTANTS Wrappers,  \* translate signals handing out an ExecutionSignal
          Sigs,      \* ExecutionSignal objects (addresses), reusable
          Funcs,     \* Python functions a translate handler may connect
          None,      \* Python None
          Null,      \* nullptr
          MaxConns   \* bound on es.connect() calls

ASSUME /\ None \notin Funcs /\ Null \notin Sigs
       /\ MaxConns \in Nat \ {0}

NoHandler == [w |-> Null, sig |-> Null]

Conn == [w : Wrappers, sig : Sigs \cup {Null}]

VARIABLES esSignal,     \* [Wrappers -> ...] m_executionSignal.m_signal
          esCallback,   \* [Wrappers -> ...] m_executionSignal.m_callback
          esConnection, \* [Wrappers -> ...] m_executionSignal.m_connection
          live,         \* ExecutionSignals currently allocated
          conns,        \* every es.connect(): wrapper, signal connected to
          connected,    \* indices of conns whose slot is still connected
          handler,      \* the translate handler running, or NoHandler
          intended,     \* ghost: functions connected for each signal
          lastExec,     \* ghost: last ExecutionSignal emitted and the
                        \* Python functions that emission called
          given         \* ghost: the blocks whose handler was handed the
                        \* wrapper of w; Null stands for those flushed since

vars == <<esSignal, esCallback, esConnection, live, conns, connected,
          handler, intended, lastExec, given>>

TypeOK ==
    /\ esSignal \in [Wrappers -> Sigs \cup {Null}]
    /\ esCallback \in [Wrappers -> Funcs \cup {None}]
    /\ esConnection \in [Wrappers -> 0..MaxConns]
    /\ live \subseteq Sigs
    /\ conns \in Seq(Conn) /\ Len(conns) <= MaxConns
    /\ connected \subseteq 1..Len(conns)
    /\ handler \in [w : Wrappers, sig : Sigs] \cup {NoHandler}
    /\ intended \in [Sigs -> SUBSET Funcs]
    /\ lastExec \in [sig : Sigs \cup {Null}, calls : Seq(Funcs \cup {None})]
    /\ given \in [Wrappers -> SUBSET (Sigs \cup {Null})]

\* PythonExecutionSignal() : PythonSignal(nullptr); empty functor/handle.
Init ==
    /\ esSignal = [w \in Wrappers |-> Null]
    /\ esCallback = [w \in Wrappers |-> None]
    /\ esConnection = [w \in Wrappers |-> 0]
    /\ live = {} /\ conns = <<>> /\ connected = {}
    /\ handler = NoHandler
    /\ intended = [s \in Sigs |-> {}]
    /\ lastExec = [sig |-> Null, calls |-> <<>>]
    /\ given = [w \in Wrappers |-> {}]

\* PythonExecutionSignal::saveSignal: the wrapper of w now targets s.
SaveSignal(w, s) == esSignal' = [esSignal EXCEPT ![w] = s]

\* The engine allocates ExecutionSignal s for a new block and emits the
\* translate signal of w: operator() does m_executionSignal.saveSignal(s)
\* and enters the Python handler.
Translate(w, s) ==
    /\ handler = NoHandler /\ s \notin live
    /\ live' = live \cup {s}
    /\ SaveSignal(w, s)
    /\ handler' = [w |-> w, sig |-> s]
    /\ intended' = [intended EXCEPT ![s] = {}]
    /\ given' = [given EXCEPT ![w] = @ \cup {s}]
    /\ UNCHANGED <<esCallback, esConnection, conns, connected, lastExec>>

\* es.connect(f) from the handler: PythonSignal::connect on the wrapper's
\* m_executionSignal, i.e. on whatever m_signal it holds.
HandlerConnect(f) ==
    LET w == handler.w IN
    /\ handler # NoHandler /\ Len(conns) < MaxConns
    /\ esCallback' = [esCallback EXCEPT ![w] = f]
    /\ conns' = Append(conns, [w |-> w, sig |-> esSignal[w]])
    /\ connected' = connected \cup {Len(conns) + 1}
    /\ esConnection' = [esConnection EXCEPT ![w] = Len(conns) + 1]
    /\ intended' = [intended EXCEPT ![handler.sig] = @ \cup {f}]
    /\ UNCHANGED <<esSignal, live, handler, lastExec, given>>

\* es.disconnect(): PythonSignal::disconnect, m_connection.disconnect().
HandlerDisconnect ==
    /\ handler # NoHandler
    /\ connected' = connected \ {esConnection[handler.w]}
    /\ UNCHANGED <<esSignal, esCallback, esConnection, live, conns, handler,
                   intended, lastExec, given>>

\* A script that kept the es of a block m it was handed through w calls
\* es.connect(f) after that handler returned (from another callback): the
\* same PythonSignal::connect, on the m_signal saved by w's latest
\* translation.  m = Null: the block the script means has been flushed.
RetainedConnect(w, f, m) ==
    /\ handler = NoHandler /\ m \in given[w] /\ Len(conns) < MaxConns
    /\ esCallback' = [esCallback EXCEPT ![w] = f]
    /\ conns' = Append(conns, [w |-> w, sig |-> esSignal[w]])
    /\ connected' = connected \cup {Len(conns) + 1}
    /\ esConnection' = [esConnection EXCEPT ![w] = Len(conns) + 1]
    /\ intended' = IF m = Null THEN intended
                   ELSE [intended EXCEPT ![m] = @ \cup {f}]
    /\ UNCHANGED <<esSignal, live, handler, lastExec, given>>

HandlerReturn ==
    /\ handler # NoHandler
    /\ handler' = NoHandler
    /\ UNCHANGED <<esSignal, esCallback, esConnection, live, conns,
                   connected, intended, lastExec, given>>

\* Slots of s in connection order.
SlotsOf(s) == SelectSeq([i \in 1..Len(conns) |-> i],
                         LAMBDA i : i \in connected /\ conns[i].sig = s)

\* The translated block runs and emits s; each slot runs
\* OnExecutionCallback::operator(): m_callback(state, pc).
Execute(s) ==
    LET sl == SlotsOf(s) IN
    /\ handler = NoHandler /\ s \in live
    /\ lastExec' = [sig |-> s,
                    calls |-> [k \in 1..Len(sl) |-> esCallback[conns[sl[k]].w]]]
    /\ UNCHANGED <<esSignal, esCallback, esConnection, live, conns,
                   connected, handler, intended, given>>

\* The translation cache drops the block: s and its slots are destroyed.
Flush(s) ==
    /\ handler = NoHandler /\ s \in live
    /\ live' = live \ {s}
    /\ connected' = {i \in connected : conns[i].sig # s}
    /\ lastExec' = IF lastExec.sig = s THEN [sig |-> Null, calls |-> <<>>]
                                       ELSE lastExec
    /\ given' = [w \in Wrappers |->
                    IF s \in given[w] THEN (given[w] \ {s}) \cup {Null}
                    ELSE given[w]]
    /\ UNCHANGED <<esSignal, esCallback, esConnection, conns, handler,
                   intended>>

\* Scripts that use es only inside the handler it was passed to.
InHandlerNext ==
    \/ \E w \in Wrappers, s \in Sigs : Translate(w, s)
    \/ \E f \in Funcs : HandlerConnect(f)
    \/ HandlerDisconnect \/ HandlerReturn
    \/ \E s \in Sigs : Execute(s) \/ Flush(s)

InHandlerSpec == Init /\ [][InHandlerNext]_vars

\* Scripts may also keep es and connect through it later.
Next ==
    \/ InHandlerNext
    \/ \E w \in Wrappers, f \in Funcs, m \in Sigs \cup {Null} :
          RetainedConnect(w, f, m)

Spec == Init /\ [][Next]_vars

(***************************************************************************)
(* Properties                                                              *)
(***************************************************************************)

\* No slot created through an execution signal wrapper outlives its
\* ExecutionSignal: every connected slot belongs to an allocated signal.
\* A connect through an es kept past a flush of its block puts a slot on
\* the freed ExecutionSignal m_signal still points to (use after free).
NoSlotOnDestroyedSignal == \A i \in connected : conns[i].sig \in live

\* Each execution of a block calls only Python functions that were
\* connected to that block's ExecutionSignal: by its translate handler, or
\* later through an es the script kept from that handler.  Broken by the
\* one m_callback all slots of a wrapper share, and separately by a kept
\* es whose m_signal a later translation has moved to another block.
ExecutionCallsIntended == \A k \in 1..Len(lastExec.calls) :
                              lastExec.calls[k] \in intended[lastExec.sig]

\* spec.md 4.3: the wrapper is retargeted before control enters Python
\* "so that any nested connect/disconnect issued by the foreign callback
\* itself targets the live instance": an es.disconnect() from a translate
\* handler removes no slot of another block.  PythonSignal::disconnect
\* acts on m_connection, which still holds the connection an earlier
\* translation made.  (Slots of a signal the engine destroys go with it.)
DisconnectTargetsLiveBlock ==
    [][\A i \in connected \ connected' :
          conns[i].sig \notin live' \/ conns[i].sig = handler.sig]_vars

=============================================================================
