----------------------------- MODULE PluginState -----------------------------
(***************************************************************************)
(* The one-entry per-plugin cache of Plugin::getPluginState              *)
(* (src/Plugin.cpp), across the engine's forks and kills.                 *)
(*                                                                         *)
(*  - getPluginState(s, f) remembers the execution state it served last   *)
(*    BY ADDRESS (m_CachedPluginS2EState) with the PluginState it returned *)
(*    (m_CachedPluginState).  On a hit it answers from the cache; on a    *)
(*    miss it asks the state, which creates the entry with factory f the  *)
(*    first time, and fills the cache.                                    *)
(*  - The engine (outside this repository) clones a state's plugin states *)
(*    for a fork child, and on a kill deletes them and calls              *)
(*    S2E::refreshPlugins, whose Plugin::refresh() empties the cache.    *)
(*    The allocator may hand a killed state's address to a later child.  *)
(*                                                                         *)
(* PythonPluginState (Python/Plugin.cpp) is not modelled: nothing passes  *)
(* its factory to getPluginState, so its factory and clone never run.     *)
(***************************************************************************)
EXTENDS Naturals, FiniteSets

CONSTANTS Addrs,  \* addresses an S2EExecutionState can live at
          PSs,    \* addresses a PluginState can live at
          Null    \* nullptr

ASSUME Null \notin Addrs \cup PSs

VARIABLES alive,       \* addresses of live execution states
          ps,          \* [Addrs -> PSs \cup {Null}] the state's entry
          cachedAddr,  \* Plugin::m_CachedPluginS2EState
          cachedPS,    \* Plugin::m_CachedPluginState
          lastGet      \* ghost: the state the last getPluginState was
                       \* asked for, and its answer

vars == <<alive, ps, cachedAddr, cachedPS, lastGet>>

NoGet == [addr |-> Null, ps |-> Null]

\* PluginStates held by live execution states.
UsedPS == {ps[a] : a \in alive} \ {Null}

TypeOK ==
    /\ alive \subseteq Addrs
    /\ ps \in [Addrs -> PSs \cup {Null}]
    /\ cachedAddr \in Addrs \cup {Null} /\ cachedPS \in PSs \cup {Null}
    /\ lastGet \in [addr : Addrs, ps : PSs] \cup {NoGet}

\* One initial execution state; the plugin constructor leaves the cache
\* empty.
Init ==
    /\ \E a \in Addrs : alive = {a}
    /\ ps = [a \in Addrs |-> Null]
    /\ cachedAddr = Null /\ cachedPS = Null
    /\ lastGet = NoGet

\* Mutant: a miss moves the cached address but keeps the old answer.
GetPluginStateNoFill(a) ==
    /\ a \in alive
    /\ IF cachedAddr = a
       THEN /\ lastGet' = [addr |-> a, ps |-> cachedPS]
            /\ UNCHANGED <<ps, cachedAddr, cachedPS>>
       ELSE \E w \in IF ps[a] = Null THEN PSs \ UsedPS ELSE {ps[a]} :
              /\ ps' = [ps EXCEPT ![a] = w]
              /\ cachedAddr' = a
              /\ lastGet' = [addr |-> a, ps |-> w]
              /\ UNCHANGED cachedPS
    /\ UNCHANGED alive

\* Plugin::getPluginState(s, f) for live state a: a hit on the cached
\* address, else s->getPluginState(this, f) -- the state's entry, created
\* on first use -- stored in the cache with a.
GetPluginState(a) ==
    /\ a \in alive
    /\ IF cachedAddr = a
       THEN /\ lastGet' = [addr |-> a, ps |-> cachedPS]
            /\ UNCHANGED <<ps, cachedAddr, cachedPS>>
       ELSE \E w \in IF ps[a] = Null THEN PSs \ UsedPS ELSE {ps[a]} :
              /\ ps' = [ps EXCEPT ![a] = w]
              /\ cachedPS' = w /\ cachedAddr' = a
              /\ lastGet' = [addr |-> a, ps |-> w]
    /\ UNCHANGED alive

\* The engine forks live state a into a new state at free address b; b
\* gets a clone of a's entry, if a has one.
Fork(a, b) ==
    /\ a \in alive /\ b \notin alive
    /\ alive' = alive \cup {b}
    /\ IF ps[a] = Null
       THEN UNCHANGED ps
       ELSE \E w \in PSs \ UsedPS : ps' = [ps EXCEPT ![b] = w]
    /\ UNCHANGED <<cachedAddr, cachedPS, lastGet>>

\* The engine kills live state a (another one remains): its plugin states
\* are deleted and refreshPlugins empties every plugin's cache.
Kill(a) ==
    /\ a \in alive /\ alive # {a}
    /\ alive' = alive \ {a}
    /\ ps' = [ps EXCEPT ![a] = Null]
    /\ cachedAddr' = Null /\ cachedPS' = Null
    /\ lastGet' = IF lastGet.addr = a THEN NoGet ELSE lastGet

Next ==
    \/ \E a \in Addrs : GetPluginState(a) \/ Kill(a)
    \/ \E a, b \in Addrs : Fork(a, b)

Spec == Init /\ [][Next]_vars

(***************************************************************************)
(* Properties                                                              *)
(***************************************************************************)

\* Every getPluginState answers with the PluginState of the state asked
\* for -- across forks that create entries the cache has not seen, and
\* after a kill frees an address a later fork child lives at.
CacheReturnsOwnState ==
    lastGet # NoGet => lastGet.ps = ps[lastGet.addr]
=============================================================================
