-------------------------- MODULE PythonConfigFile --------------------------
(***************************************************************************)
(* The plugin's config accessor (ConfigFile.cpp, spec.md 4.4, P4).        *)
(*                                                                         *)
(* get(name) probes the engine's typed getters on "pluginsConfig['P']." + *)
(* name in a fixed order -- bool, int, double, string, string list,       *)
(* integer list -- and returns the first that succeeds (lists through     *)
(* toList), or None.  It switches the engine config to silent mode for    *)
(* the probe and must put the previous mode back on every return path.    *)
(* keys(name) returns the engine's list keys under name, or None.         *)
(*                                                                         *)
(* Which getters accept a key's value is the engine's ConfigFile (Lua     *)
(* coercions, outside this repository): every combination is an input.   *)
(***************************************************************************)
EXTENDS Naturals, Sequences, FiniteSets

CONSTANTS Keys   \* configuration keys under the plugin's prefix

\* The probe order of PythonConfigFile::get.
Priority == <<"bool", "int", "double", "string", "stringList", "intList">>

Types == {Priority[i] : i \in 1..Len(Priority)}

\* get's Python result: a value of the type extracted, or None.
Results == Types \cup {"None"}

VARIABLES accepts,  \* [Keys -> SUBSET Types]: getters the value satisfies
          silent,   \* the engine ConfigFile's silent flag
          result,   \* type of the last get() result
          keyList   \* the last keys() result: "list" or "None"

vars == <<accepts, silent, result, keyList>>

TypeOK ==
    /\ accepts \in [Keys -> SUBSET Types]
    /\ silent \in BOOLEAN
    /\ result \in Results
    /\ keyList \in {"list", "None"}

Init ==
    /\ accepts \in [Keys -> SUBSET Types]
    /\ silent \in BOOLEAN
    /\ result = "None" /\ keyList = "None"

\* Mutant: the string path returns without setSilent(wasSilent).
FoundNoRestore(t) == [type |-> t, restores |-> t # "string"]

\* One attempt of the probe: the getter's outcome and whether its return
\* path calls setSilent(wasSilent).
Found(t) == [type |-> t, restores |-> TRUE]

\* The if-chain of get() from attempt i on, for a value the getters in
\* acc accept.
RECURSIVE Probe(_, _)
Probe(acc, i) ==
    IF i > Len(Priority) THEN [type |-> "None", restores |-> TRUE]
    ELSE IF Priority[i] \in acc THEN Found(Priority[i])
    ELSE Probe(acc, i + 1)

\* PythonConfigFile::get(k): wasSilent = isSilent(); setSilent(true);
\* probe; restore on the path taken; return.
Get(k) ==
    LET r == Probe(accepts[k], 1) IN
    /\ result' = r.type
    /\ silent' = IF r.restores THEN silent ELSE TRUE
    /\ UNCHANGED <<accepts, keyList>>

\* PythonConfigFile::keys(name): getListKeys(name, &ok); toList or None.
KeysOf ==
    /\ \E ok \in BOOLEAN : keyList' = IF ok THEN "list" ELSE "None"
    /\ UNCHANGED <<accepts, silent, result>>

\* The engine or another plugin toggles the config's silent mode.
SetSilent ==
    /\ silent' = ~silent
    /\ UNCHANGED <<accepts, result, keyList>>

Next ==
    \/ \E k \in Keys : Get(k)
    \/ KeysOf \/ SetSilent

Spec == Init /\ [][Next]_vars

(***************************************************************************)
(* Properties                                                              *)
(***************************************************************************)

\* Reference for P4: the accepted type earliest in the documented order,
\* or None when no getter accepts the value.
Earliest(acc) ==
    IF acc = {} THEN "None"
    ELSE CHOOSE t \in acc :
           \A u \in acc, i, j \in 1..Len(Priority) :
             Priority[i] = t /\ Priority[j] = u => i <= j

\* P4: every get() answers with the earliest type, in the documented
\* priority order, that the key's value can be read as, and leaves the
\* config's silent mode as it found it.
GetFollowsPriority ==
    [][\A k \in Keys :
         Get(k) => result' = Earliest(accepts[k]) /\ silent' = silent]_vars
=============================================================================
