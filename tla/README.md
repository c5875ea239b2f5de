# TLA+ models of the S2E Python bridge (libs2ecore)

This directory holds TLA+ models of the Python plugin bridge in `src/`, with the TLC
configurations that check them. The models cover the bridge's signal wrappers, its
callback adapters, the per-plugin state cache, and plugin loading. The
file `PROJECT.json` lists:

- every component;
- every run and the properties it checks;
- the mutants that show each passing property can fail;
- the source lines behind every definition;
- the findings;
- the hazards.

## 1. The system

The bridge sits between S2E (the engine) and plugins written in Python. The engine
itself is outside this repository: that includes the sigc signals, `S2EExecutionState`
and `ConfigFile`. The bridge has these parts:

| Part | Source | State it owns |
|------|--------|---------------|
| Callback adapter | `Callback.h`, `Callbacks.h`, `Callbacks.cpp` | `CallbackFunctor::m_callback`, the Python function |
| Signal wrapper | `Signal.h`, `Signals.h`, `export_signals.cpp` | `m_signal`, `m_connection` and the functor `m_callback` |
| Execution-scoped wrapper | `ExecutionSignal.h`, `Callbacks.cpp` | one `PythonExecutionSignal m_executionSignal` per translate functor |
| Plugin host object | `Python/Plugin.h`, `Python/Plugin.cpp` | `m_pluginInfo`, `m_cfg` |
| Plugin-state clone protocol | `Python/Plugin.cpp` | `PythonPluginState::m_stateObj` (dead code, see section 8) |
| Interpreter manager | `Interpreter.h`, `Interpreter.cpp` | `m_plugins`, a map from class name to plugin object |
| PluginsFactory and Plugin base | `src/Plugin.cpp` | `m_pluginsMap`, `m_pluginsList`, and each `Plugin`'s last-state cache |
| Config accessor | `ConfigFile.h`, `ConfigFile.cpp` | none (it uses the engine config's silent flag) |
| Value bridge | `Utils.h`, `Utils.cpp` | none |

The parts interact like this.

**Signals.** `export_signals.cpp` builds one module-level wrapper per engine signal.
Every plugin shares it. A script's `connect(f)` does two things:
- it stores `f` in the wrapper's single functor;
- it connects the functor to the sigc signal by reference.

When the engine emits, the signal calls `On<Event>Callback::operator()` in
`Callbacks.cpp`, which calls the functor's current `m_callback`.

**Execution signals.** The translate-time callbacks receive a fresh `ExecutionSignal`
for each block. Each one first calls `saveSignal` on its own `m_executionSignal`, then
passes that object to Python. The handler can then `connect` to it. Later executions of
the block emit the `ExecutionSignal`.

**Plugin loading.** For a plugin name that no compiled plugin has registered,
`createPlugin` proceeds in three steps:
1. It looks up `pythonClass` in the config.
2. It calls `Interpreter::loadPlugin`, which instantiates the class, stores the object
   in `m_plugins[Class]` and `configure()`s it.
3. It registers the plugin's `PluginInfo`.

**Plugin state.** The engine asks a plugin for a state's `PluginState` through
`Plugin::getPluginState`, which keeps a one-entry cache keyed by the state's address.
On a miss it asks the state, which creates the entry the first time. On a kill the
engine deletes the state's plugin states and calls `refreshPlugins`, whose
`Plugin::refresh()` empties the cache (engine code, taken as an assumption).

## 2. Inventory: hard behaviours and what must hold

- **Signal wrapper.**
  - Hard behaviours:
    - `connect` never disconnects the previous connection.
    - `disconnect` cuts only the last one.
    - Python handlers re-enter `connect`/`disconnect` while the signal is emitting.
  - What must hold (spec 4.2, P1, P2): one binding per wrapper, replaced and never
    stacked, and no call after `disconnect`.
- **Execution-scoped wrapper.**
  - Hard behaviours:
    - One wrapper object serves every block a functor translates.
    - Its `m_callback` and `m_connection` are shared across blocks.
    - ExecutionSignals are destroyed by cache flushes, and their addresses are reused.
  - What must hold (spec 4.3, P5): the rebind comes before the call into Python.
    Connections reach the block being translated. Each block runs its own functions.
- **Decision callbacks.**
  - Hard behaviours:
    - The result goes back through an output flag shared with native slots.
    - `py::extract<bool>` reads True/False, None and ints through `PyObject_IsTrue`;
      any other type, or a raise, throws `error_already_set` out of `operator()`.
    - Nine adapters are TODO stubs: `connect()` succeeds, and the function is never
      called.
  - What must hold (spec 4.1, 4.2, P8): a connected function is invoked, and a
    failure takes the fatal path.
- **Plugin state.**
  - Hard behaviours: the cache is keyed by state address, and states are killed and
    their addresses reused by fork children.
  - What must hold: `getPluginState` answers with the asked state's own PluginState.
- **Registry.**
  - Hard behaviours:
    - `loadPlugin` overwrites `m_plugins[Class]` before `registerPlugin` asserts the
      name is unique.
    - The assert is compiled out with NDEBUG.
    - The engine holds a raw `Plugin*` whose only owner is `m_plugins`.
    - `m_pluginInfo` and `m_cfg` are uninitialised until `configure()`.
  - What must hold (spec P7): no duplicate registration, and no plugin dropped.
    A Python error during a load is reported before the process ends (spec 7).
- **Config accessor.**
  - Hard behaviours: the probe has six typed attempts, and every return path must
    restore the silent flag.
  - What must hold (spec P4): the earliest type in priority order wins, and the silent
    mode is restored.

`PROJECT.json` lists every hazard with its source line under `hazards`.

## 3. Plan

The modules, in dependency order:

1. `SignalBinding` is the abstract contract of a signal wrapper: a single binding with a
   non-atomic emission.
2. `PythonSignal` is the wrapper as the code implements it. It is checked against
   `SignalBinding` through `INSTANCE ... WITH binding <- IF m_connection \in live THEN
   m_callback ELSE None`.
3. `ExecutionSignal` models the translate functors' shared `m_executionSignal`, the
   ExecutionSignals, block execution and flushes.
4. `DecisionCallback` models a decision signal with native and Python slots.
5. `PluginState` models one plugin's `getPluginState` cache across the engine's forks
   and kills.
6. `PluginRegistry` models `createPlugin`, `loadPlugin` and `registerPlugin`, in debug
   and release builds.
7. `PythonConfigFile` models `get`/`keys`, with the probe written as a RECURSIVE operator
   and checked against a reference definition (`Earliest`).

Each `MC_<Module>.tla` declares the model values and finite sets that a `.cfg` binds.

Later work:
- A composition of `PythonSignal` and `ExecutionSignal`. The translate signal's own
  connection would come from `PythonSignal`.
- The value bridge's `toVector` on a `str`.
- Liveness of emission under weak fairness of `EmitStep`/`EmitEnd`. An emission is a
  synchronous loop in sigc, so fairness is justified for it.

## 4. Modules and how they correspond to the code

- **`PythonSignal`**
  - Variables:
    - `m_callback` and `m_connection` are the fields of the same name.
    - `made` and `live` stand for the sigc slot list.
    - `pending`, `inEmit` and `calls` stand for the emission in progress.
    - `scriptBound` is the script's own view of whether it is connected.
  - Actions:
    - `Init` is `exportCorePluginSignals` building the wrapper; `Wrap` is the
      `PythonSignal` constructor (`Signal.h:56-75`).
    - `Connect` is `Signal.h:84-87`, with `AssignCallback` from `Callback.h`.
    - `Disconnect` is `Signal.h:92-94`.
    - `EmitStep` is a slot invoking `operator()`, i.e. `m_callback(...)`.
    - `EmitBegin` and `EmitEnd` are sigc's emission. It snapshots the live slots and
      skips those disconnected meanwhile. This is sigc's documented behaviour, taken as
      an assumption.
  - `Disciplined` restricts the script to disconnecting before it reconnects.
- **`ExecutionSignal`**
  - Variables:
    - `esSignal`, `esCallback` and `esConnection` are the `m_executionSignal` fields of
      each translate functor (the `Wrappers` constant).
    - `live` is the set of allocated ExecutionSignals.
    - `conns` and `connected` are their slots.
    - `handler` is the Python translate handler that is running.
  - Actions:
    - `Translate` is the translate `operator()`s that pass an ExecutionSignal
      (`Callbacks.cpp` 55-69, 75-131, 141-147): saveSignal,
      then the Python call.
    - `HandlerConnect` and `HandlerDisconnect` are `es.connect()` and `es.disconnect()`.
    - `Execute` is `OnExecutionCallback`.
    - `Flush` is the engine destroying a block's ExecutionSignal.
    - `RetainedConnect` is `es.connect(f)` on an `es` the script kept after its
      handler returned. Python holds a reference to `m_executionSignal` itself, so
      the call reaches whatever signal the functor saved last, which a later
      translation may have moved and a flush may have freed.
  - `intended`, `lastExec` and `given` are history variables. `given[w]` is the set
    of blocks whose handler was handed `w`'s `es`, with flushed blocks recorded as a
    null block.
  - `InHandlerSpec` is the script that uses `es` only inside its handler; `Spec` adds
    `RetainedConnect`.
- **`DecisionCallback`**
  - Variables:
    - `slots` is the order of native and Python slots, and `next` the slot the
      emission runs next.
    - `out` is the `*allowFork` flag.
    - `outcome` says how the emission stands: running, done, or an exception escaped.
    - `skipped` is a history variable: a Python slot of this emission ran without
      calling its function.
  - Actions:
    - `PythonDecide(r)` is `OnStateForkDecideCallback::operator()`, with `r` ranging
      over True, False, None, 0, 1, another type and a raise. `Extracts` is boost's
      `extract<bool>` (bool, None and int convert), `Truth` their truth value.
      `ProcessForkDecide` and `CallReturnTranslate` have the same code.
    - `PlainCall(r)` is any adapter without an output parameter
      (`OnProcessForkCallback`, `OnTlbMissCallback` and the others). The Python call
      returns or raises, and nothing catches the raise.
    - `StubCall` is one of the nine adapters whose body is a TODO and calls no Python
      (`Callbacks.cpp` 149-164, 171-180, 186-189, 231-233, 259-267; among them
      `OnStateForkCallback`, and `OnSymbolicAddressCallback`, whose `bool& concretize`
      is never written): the script's function is never run.
    - `NativeSlot` is a C++ plugin's slot. On a decision signal it may write False.
    - `Emit` and `EmitEnd` are the engine's emission.
- **`PluginState`**
  - Variables:
    - `alive` are the live states' addresses, and `ps` maps each to its PluginState.
    - `cachedAddr` and `cachedPS` are `m_CachedPluginS2EState` and
      `m_CachedPluginState`.
    - `lastGet` is a history variable: the last state asked for, and the answer.
  - Actions:
    - `GetPluginState` is `src/Plugin.cpp:58-65`: a hit on the cached address, or
      the state's entry (created on first use) stored in the cache.
    - `Fork` and `Kill` are engine steps. A kill empties the cache, as the engine's
      `refreshPlugins` does.
  - PluginStates are drawn from a pool and reused once freed, as memory is.
- **`PluginRegistry`**
  - Variables:
    - `registered` and `pluginsList` are `m_pluginsMap` and `m_pluginsList`.
    - `m_plugins` is the interpreter's map.
    - `infoName` records what `configure()` wrote into each plugin object.
    - `created` is what the engine received from each `createPlugin`.
    - `aborted` records that the process ended: a failed assert, `pythonError`'s
      `exit(-1)`, or an uncaught C++ exception.
    - `running` is the Interpreter having been constructed.
    - `loading` is the `(name, object)` whose Python `__init__` is running.
    - `m_logLevel` is `Plugin::m_logLevel`.
    - `logged` records the lines that `debug`/`info`/`warn` wrote, with the name each
      carried.
    - `initRan` records which object `initializePlugin` reached for each name.
    - `report` is the message `pythonError` wrote.
    - `modules` are the `s2e` modules in `sys.modules`.
  - Actions:
    - `StartInterpreter` is the `Interpreter` constructor.
    - `CreatePlugin` is `src/Plugin.cpp:110-140`, up to the Python `__init__`. For a
      name a Python plugin registered earlier, the code calls the `instanceCreator` of
      the `PluginInfo` that `loadPlugin` built; that creator is defined outside this
      repository, and the model takes it to return the loaded object.
      `InstantiatePlugin` is `loadPlugin` up to `pluginClass()`. Its import of the
      plugin's module imports `s2e`; the first time, `ImportS2E` runs the module init
      (`BOOST_PYTHON_MODULE(s2e)`: `ExportCore`, which runs `ExportSignals`, then
      `ExportPlugins`). A Python error inside an export ends in `pythonError`, the
      same end as `LoadRaises`.
    - `FinishCreate` is the rest of `loadPlugin` (`m_plugins[c] = obj`, then
      `configure`), followed by `registerPlugin`.
    - `LoadRaises(v)` is the `catch` of `loadPlugin`. Its message comes from
      `ParsePythonException`, and `v` says whether the exception value is missing,
      printable, or raises from `str()`.
    - `ScriptLog` is a Python call of `self.debug/info/warn`, gated by `LogEnabled`
      (`m_pluginInfo && getLogLevel() <= level`).
    - `ConfigureLogLevel` is `Plugin::configureLogLevel`.
    - `pyError` is a history variable: a Python error reached `loadPlugin`'s
      `catch`.
    - `InitializePlugin` is `Interpreter::initializePlugin(getPluginInfo()->name)`. It
      uses `m_plugins.at`, whose `std::out_of_range` nothing catches.
  - The split of `"mod.Class"` is abstracted to the class it names.
  - `m_pluginInfo` before `configure` is modelled as null (`infoName = 0`). The
    constructor leaves it uninitialised, but Boost.Python allocates the instance with
    `PyType_GenericAlloc`, which zero-fills.
  - Nothing in `src/` calls `initializePlugin`. The model assumes the engine passes
    the plugin's own `getPluginInfo()->name`, as the spec's lifecycle describes.
- **`PythonConfigFile`**
  - `accepts` is the set of typed getters the engine config accepts for a key. It is an
    input, because the Lua coercions belong to the engine.
  - `Probe` is the if-chain of `get`, and `Get` is the whole method, silent restore
    included.
  - No run checks this module: its one property restated the fixed order of `get`'s
    attempts.

## 5. Runs

| Run | Expect | Shows |
|-----|--------|-------|
| `signal_disciplined` | pass | When the script disconnects before reconnecting, `PythonSignal` implements `SignalBinding`, re-entrant calls included. |
| `signal_reconnect` | violation | `connect(f); connect(f); disconnect()`, then an emission still calls `f`. Connections stack (spec P1/P2). |
| `exec_signal_intended` | violation | Under `InHandlerSpec` (es used only inside its handler): block 1's handler connects `f`, block 2's handler on the same functor connects `g`, and executing block 1 calls `g`, because every slot of a wrapper calls its one `m_callback` (spec 4.3, P5). |
| `exec_signal_retained` | violation | A script keeps `es`; after its block is flushed, `es.connect` adds a slot to the freed ExecutionSignal. |
| `exec_signal_disconnect` | violation | Under `InHandlerSpec`: block 1's handler connects, block 2's handler calls `es.disconnect()` first and removes block 1's slot, though block 1 is still live (spec 4.3: nested calls target the live instance). |
| `plugin_state` | pass | Every `getPluginState` answers with the asked state's PluginState, across forks, kills and address reuse. |
| `decision_fatal` | violation | A decision callback that raises or returns a type `extract<bool>` rejects, or a plain callback that raises, escapes into the engine instead of `pythonError` (spec P8). |
| `decision_stub` | violation | A function connected to a stub adapter's signal is never called when it fires (spec 4.1/4.2). |
| `registry_debug` | pass | In a debug build, no duplicate registration or dropped plugin survives the assert. |
| `registry_release` | violation | With NDEBUG, duplicates are registered and `m_plugins` overwrites free live plugins (spec P7). |
| `registry_strraise` | violation | A load raises an exception whose `str()` raises in turn; `parsePythonException` throws out of the `catch`, and the process ends with no report (spec 7). |

Every property of a passing run has a mutant in `PROJECT.json`: a plausible bug in the
mapped definition that makes TLC report the property violated. They are a connect
that skips `m_connection`, a cache fill that keeps the old answer, and the missing
assert. Each module also defines a `TypeOK`, kept as documentation of its state
space; no run checks it, since it would only restate the variables' types.

## 6. Bounds and why they suffice

- **`PythonSignal`:** two Python functions and 4–6 connections. That is enough for a
  reconnect, a disconnect and an emission with a re-entrant call. Symmetry is over the
  functions.
- **`ExecutionSignal`:** two translate functors, two ExecutionSignal addresses, two
  functions and three connections: enough for two translations by one functor, a
  flush and address reuse. Each violation is found within five steps. Symmetry is
  over the signals and the functions.
- **`PluginState`:** three state addresses, so that a kill and an address reuse can
  happen while two states are alive, and three PluginState slots, one per address,
  so the pool never runs out. No symmetry: with it the space shrinks below what
  shows every interleaving. The run reaches 337 distinct states.
- **`DecisionCallback`:** every slot order of length up to 3 that mixes native
  slots with one kind of Python slot (decision, plain or stub), and every kind of
  answer a Python function can give.
- **`PluginRegistry`:**
  - three configured plugins, one of which is also compiled in;
  - every `pythonClass` assignment among them, covering shared classes, a class named
    like the compiled plugin, and no class;
  - every initial log level of each object, including one above WARN (all logging
    off);
  - the three kinds of exception value a load can raise.
  - This gives 157,184 distinct states.

`PluginRegistry` disables deadlock checking. This matches the code: loading ends once
every configured plugin is created, and a failed assert ends the process.

## 7. Fairness

Every property checked is a safety property, and no specification carries fairness.
The bridge is single-threaded (spec 5), and every call into Python is synchronous. The
interleavings that matter are re-entrant calls inside one emission and the engine's
ordering of translations, executions, forks and kills. The models keep these as
nondeterministic choices. Loading's completion is not checked: the steps it depends
on (the engine's loops over configured plugins, a Python `__init__` returning) are
outside this repository, so fairness on them would be an assumption the property
merely echoes.

## 8. Not modelled, and why

- **Argument marshaling, `toVector`/`toList`:** these convert data and have no control
  flow of their own. `parsePythonException` is modelled by its outcomes: the message,
  or an exception thrown out of the `catch` block.
- **The `export_core.cpp`/`export_plugins.cpp` class tables and the `Signals.h`
  aliases:** these are declarations that bind engine methods outside this repository.
  The module init that runs them, and its order, is modelled (`ImportS2E`).
- **Headers (`Callbacks.h`, `Signals.h`, `Interpreter.h`, `Plugin.h`, `ConfigFile.h`,
  `Utils.h`) and license headers:** class and template declarations, with no code of
  their own beyond what the modelled `.cpp` definitions and inline methods carry.
  This, with the binding tables and the dead clone code, is why the map covers about 27% of the lines.
- **The `config` and `plugin_info` properties and `~PythonPlugin`:** they return or
  delete pointers. The one hazard they carry, a plugin freed while the engine holds
  it, is `CreatedPluginsAlive`, part of `RegistryUnique`.
- **The `Interpreter` constructor's work:** `Py_Initialize` and the `sys.path`
  appends are one-shot I/O. Only the state change to Running is modelled.
- **The clone protocol (`PythonPluginState::factory` and `clone`) and
  `Interpreter::getPlugin`/`getPluginState`:** dead code. Nothing in the repository
  passes the factory to `getPluginState`, and the two `Interpreter` methods have no
  caller, so none of them runs. (`PythonPluginState::s_deepCopy` is also declared
  but only a file-static of that name is defined, `Python/Plugin.cpp:60,94`.)
  Dropping their models lowered the map's coverage of the source.
- **The `py::ptr(state)` handle a script may keep past a kill:** recorded as a
  hazard. Script-held references would need the script's own data in the model.
- **`self.config` read in a plugin's `__init__`:** it runs before `configure()`, so
  it returns `None` (the zero-filled `m_cfg`), and a script that uses it raises, which
  ends the load through `pythonError` (`LoadRaises`). No property is stated about it:
  the outcome is the ordinary fatal path of a raising `__init__`.
