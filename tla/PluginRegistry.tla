--------------------------- MODULE PluginRegistry ---------------------------
(***************************************************************************)
(* Plugin creation and the two registries it writes (spec.md 3            *)
(* PluginRegistration, 4.5, 4.6, P7).                                      *)
(*                                                                         *)
(*  - PluginsFactory (src/Plugin.cpp) registers the compiled plugins at    *)
(*    construction.  createPlugin(name) returns the registered plugin's    *)
(*    creator; else, if pluginsConfig[name].pythonClass is set, it asks    *)
(*    the Interpreter to loadPlugin that class and registers the returned  *)
(*    plugin's PluginInfo; else it warns and returns nullptr.              *)
(*  - Interpreter::loadPlugin (Interpreter.cpp) splits "mod.Class",        *)
(*    instantiates the class (running its Python __init__), stores the    *)
(*    object as m_plugins[Class] -- the ONLY owning reference: the engine  *)
(*    keeps a raw Plugin* -- and configure()s it with PluginInfo(Class).   *)
(*  - PluginsFactory::registerPlugin asserts that the name is new; with    *)
(*    NDEBUG the assert is compiled out.                                   *)
(*                                                                         *)
(*  - The plugin's Python __init__ runs inside loadPlugin, before          *)
(*    configure(): its host object (PythonPlugin) then has no PluginInfo.  *)
(*    debug/info/warn write "name: msg" to the engine stream when          *)
(*    m_pluginInfo is set and the level reaches Plugin::m_logLevel, which  *)
(*    Plugin::configureLogLevel reads from the configuration.              *)
(*  - The engine initialises a created plugin with                         *)
(*    initializePlugin(getPluginInfo()->name): m_plugins.at(name) and its  *)
(*    Python initialize() if it has one.                                   *)
(*                                                                         *)
(* Plugin names and class names are drawn from one set Ids; the split of  *)
(* "mod.Class" is abstracted to the class it names.  PythonPlugin() does  *)
(* not initialise m_pluginInfo; the instance storage Boost.Python          *)
(* allocates for it comes zero-filled from PyType_GenericAlloc, so before *)
(* configure() the pointer reads as nullptr (infoName 0 below).           *)
(***************************************************************************)
EXTENDS Integers, Sequences, FiniteSets

CONSTANTS Ids,       \* plugin and class names
          Names,     \* plugins the engine is configured to create
          Compiled,  \* compiled (C++) plugins linked into the build
          NoClass,   \* pluginsConfig[name] has no pythonClass field
          NDEBUG,    \* TRUE: release build, assert() compiled out
          NotCreated, \* createPlugin(name) not called yet
          NotFound,  \* createPlugin returned nullptr after its warning
          ViaInfo    \* createPlugin returned pluginInfo->instanceCreator(s2e)

ASSUME Names \subseteq Ids /\ Compiled \subseteq Ids /\ NoClass \notin Ids
ASSUME NDEBUG \in BOOLEAN

\* Python plugin objects, numbered in instantiation order.
Objs == 1..Cardinality(Names)
NoObj == 0
Thrown == -1   \* initializePlugin threw std::out_of_range

\* Ranks of the engine's LogLevel, most verbose first: LOG_DEBUG, LOG_INFO,
\* LOG_WARN, and a level above them all (LOG_NONE).
LOG_DEBUG == 1
LOG_INFO == 2
LOG_WARN == 3
LogLevels == LOG_DEBUG..LOG_WARN + 1

\* What str() of a raised exception's value does, as PyErr_Fetch hands it
\* over: there is none, it prints, or its __str__ raises in turn.
ValueKinds == {"none", "printable", "strRaises"}

\* The warning line pythonError writes: "Python error: " and the type, or
\* the type and ": " value.  NoReport: nothing written.
Reports == {"type", "type: value"}
NoReport == "none"

\* The package and submodules the built-in s2e module creates.
S2EModules == {"s2e", "s2e.core", "s2e.core.signals", "s2e.plugins"}

\* No plugin is between pluginClass() and the end of createPlugin.
NoLoad == [name |-> NoClass, obj |-> NoObj]

VARIABLES pythonClass,  \* the configuration: name -> class or NoClass
          registered,   \* PluginsFactory::m_pluginsMap keys
          pluginsList,  \* PluginsFactory::m_pluginsList
          m_plugins,    \* Interpreter::m_plugins: class -> object
          infoName,     \* obj -> m_pluginInfo->name, 0 before configure()
          created,      \* name -> what createPlugin returned
          nobj,         \* Python plugin objects instantiated
          aborted,      \* a failed assert() or an uncaught C++
                        \* exception ended the process
          loading,      \* createPlugin running the Python __init__ of obj
          m_logLevel,   \* obj -> Plugin::m_logLevel
          logged,       \* ghost: lines written to the engine streams
          initRan,      \* ghost: name -> object whose initialize the
                        \* engine's initializePlugin reached, or NoObj
          report,       \* the fatal error pythonError wrote, or NoReport
          running,      \* the engine has constructed the Interpreter
          modules,      \* the s2e modules in sys.modules
          pyError       \* ghost: a Python exception reached loadPlugin's
                        \* catch block

vars == <<pythonClass, registered, pluginsList, m_plugins, infoName,
          created, nobj, aborted, loading, m_logLevel, logged, initRan,
          report, running, modules, pyError>>
regVars == <<registered, pluginsList, m_plugins, infoName, nobj, modules>>

\* The live plugin objects: Python frees one once m_plugins drops it.
Referenced == {m_plugins[c] : c \in Ids} \ {NoObj}

TypeOK ==
    /\ pythonClass \in [Names -> Ids \cup {NoClass}]
    /\ registered \subseteq Ids
    /\ pluginsList \in Seq(Ids)
    /\ m_plugins \in [Ids -> Objs \cup {NoObj}]
    /\ infoName \in [Objs -> Ids \cup {0}]
    /\ created \in [Names -> Objs \cup {NotCreated, NotFound, ViaInfo}]
    /\ nobj \in 0..Cardinality(Names)
    /\ aborted \in BOOLEAN
    /\ loading \in [name : Names, obj : Objs] \cup {NoLoad}
    /\ m_logLevel \in [Objs -> LogLevels]
    /\ logged \subseteq [obj : Objs, name : Ids \cup {0}]
    /\ initRan \in [Names -> Objs \cup {NoObj, Thrown}]
    /\ report \in Reports \cup {NoReport}
    /\ running \in BOOLEAN
    /\ modules \subseteq S2EModules
    /\ pyError \in BOOLEAN

\* PluginsFactory(): registerPlugin for every compiled plugin, in the
\* order CompiledPlugin::getPlugins() lists them.
Init ==
    /\ pythonClass \in [Names -> Ids \cup {NoClass}]
    /\ registered = Compiled
    /\ pluginsList \in {s \in [1..Cardinality(Compiled) -> Compiled] :
                            \A i, j \in DOMAIN s : i # j => s[i] # s[j]}
    /\ m_plugins = [c \in Ids |-> NoObj]
    /\ infoName = [o \in Objs |-> 0]
    /\ created = [n \in Names |-> NotCreated]
    /\ nobj = 0 /\ aborted = FALSE
    /\ loading = NoLoad
    /\ m_logLevel \in [Objs -> LogLevels]   \* as the Plugin constructor left it
    /\ logged = {}
    /\ initRan = [n \in Names |-> NoObj]
    /\ report = NoReport
    /\ running = FALSE
    /\ modules = {}
    /\ pyError = FALSE

\* Mutant: registerPlugin without its assert.
RegisterPluginNoAssert(c) ==
    /\ pluginsList' = Append(pluginsList, c)
    /\ registered' = registered \cup {c}
    /\ UNCHANGED aborted

\* PluginsFactory::registerPlugin(info named c): assert it is new, then
\* push it on the list and insert it in the map (a no-op for a name the
\* map already holds).
RegisterPlugin(c) ==
    IF c \in registered /\ ~NDEBUG
    THEN aborted' = TRUE /\ UNCHANGED <<registered, pluginsList>>
    ELSE /\ pluginsList' = Append(pluginsList, c)
         /\ registered' = registered \cup {c}
         /\ UNCHANGED aborted

\* PythonPlugin::configure(PluginInfo(c)): plugin o now has info name c.
Configure(o, c) == infoName' = [infoName EXCEPT ![o] = c]

\* PythonPlugin::getPluginInfo()->name: the name configure gave o (0 --
\* a null m_pluginInfo -- before configure).
GetPluginInfoName(o) == infoName[o]

\* exportSignals(): add s2e.core.signals and fill it (the on_<event>
\* PythonSignals, ExecutionSignal); a Python error is pythonError'd.
ExportSignals(m) == m \cup {"s2e.core.signals"}

\* exportCore(): add s2e.core, export its classes, then exportSignals().
ExportCore(m) == ExportSignals(m \cup {"s2e.core"})

\* exportPlugins(): add s2e.core.plugins with PluginInfo and Plugin.
ExportPlugins(m) == m \cup {"s2e.plugins"}

\* "import s2e" runs the built-in module's init (BOOST_PYTHON_MODULE(s2e),
\* registered by PyImport_AppendInittab) once: the package, exportCore(),
\* exportPlugins().  Later imports find it in sys.modules.  A Python
\* error inside an export is caught there and handed to pythonError --
\* the same end as LoadRaises.
ImportS2E ==
    modules' = IF "s2e" \in modules THEN modules
               ELSE ExportPlugins(ExportCore({"s2e"}))

\* Interpreter::loadPlugin("mod.c") up to pluginClass(): split the name,
\* import the module (whose class extends s2e.plugins.Plugin, so the
\* import brings in s2e), read description and dependencies, instantiate
\* the class as plugin object o.  Its __init__ is now running.
InstantiatePlugin(n, o) ==
    /\ ImportS2E
    /\ nobj' = o
    /\ loading' = [name |-> n, obj |-> o]

\* The rest of loadPlugin once __init__ returns: m_plugins[c] = obj;
\* extract the PythonPlugin; configure(PluginInfo(c)); return it.
LoadPlugin(c, o) ==
    /\ m_plugins' = [m_plugins EXCEPT ![c] = o]
    /\ Configure(o, c)

\* Interpreter(cfg): register the s2e module, Py_Initialize, append each
\* s2e.python.modulePaths entry to sys.path.  The engine constructs it
\* before it creates any plugin.
StartInterpreter ==
    /\ ~running
    /\ running' = TRUE
    /\ UNCHANGED <<pythonClass, regVars, created, aborted, loading,
                   m_logLevel, logged, initRan, report, pyError>>

\* PluginsFactory::createPlugin(s2e, n), once for each configured plugin.
CreatePlugin(n) ==
    /\ running /\ ~aborted /\ created[n] = NotCreated /\ loading = NoLoad
    /\ CASE n \in registered ->
              /\ created' = [created EXCEPT ![n] = ViaInfo]
              /\ UNCHANGED <<regVars, loading>>
         [] pythonClass[n] = NoClass ->
              /\ created' = [created EXCEPT ![n] = NotFound]
              /\ UNCHANGED <<regVars, loading>>
         [] OTHER ->
              /\ InstantiatePlugin(n, nobj + 1)
              /\ UNCHANGED <<registered, pluginsList, m_plugins, infoName,
                             created>>
    /\ UNCHANGED <<pythonClass, aborted, m_logLevel, logged, initRan, report,
                   running, pyError>>

\* createPlugin after the Python __init__ returned: finish loadPlugin,
\* registerPlugin(plugin->getPluginInfo()), return the plugin.
FinishCreate ==
    LET n == loading.name
        o == loading.obj
    IN /\ ~aborted /\ loading # NoLoad
       /\ LoadPlugin(pythonClass[n], o)
       /\ RegisterPlugin(pythonClass[n])
       /\ created' = [created EXCEPT ![n] = o]
       /\ loading' = NoLoad
       /\ UNCHANGED <<pythonClass, nobj, m_logLevel, logged, initRan, report,
                      running, modules, pyError>>

\* The guard of PythonPlugin::debug/info/warn at severity l.
LogEnabled(o, l) == infoName[o] # 0 /\ m_logLevel[o] <= l

\* Python code of plugin o (its __init__, initialize or a callback) calls
\* self.debug/info/warn(msg) through the exported binding.
ScriptLog(o, l) ==
    /\ ~aborted /\ o \in (Referenced \cup {loading.obj}) \ {NoObj}
    /\ logged' = IF LogEnabled(o, l)
                 THEN logged \cup {[obj |-> o, name |-> infoName[o]]}
                 ELSE logged
    /\ UNCHANGED <<pythonClass, regVars, created, aborted, loading,
                   m_logLevel, initRan, report, running, pyError>>

\* Plugin::configureLogLevel on the plugin created for n: the global level
\* if any, else the default, overridden by <configKey>.logLevel.
ConfigureLogLevel(n) ==
    /\ ~aborted /\ created[n] \in Objs
    /\ \E lv \in LogLevels : m_logLevel' = [m_logLevel EXCEPT ![created[n]] = lv]
    /\ UNCHANGED <<pythonClass, regVars, created, aborted, loading, logged,
                   initRan, report, running, pyError>>

\* Once every plugin is created the engine initialises plugin n:
\* Interpreter::initializePlugin(getPluginInfo()->name) takes
\* m_plugins.at(name) -- std::out_of_range, caught by nothing, ends the
\* process -- and calls its initialize() if it has one.
InitializePlugin(n) ==
    /\ ~aborted /\ loading = NoLoad /\ created[n] \in Objs
    /\ initRan[n] = NoObj
    /\ \A m \in Names : created[m] # NotCreated
    /\ LET obj == m_plugins[GetPluginInfoName(created[n])] IN
       /\ initRan' = [initRan EXCEPT ![n] = IF obj = NoObj THEN Thrown ELSE obj]
       /\ aborted' = (obj = NoObj)
    /\ UNCHANGED <<pythonClass, regVars, created, loading, m_logLevel, logged,
                   report, running, pyError>>

\* parsePythonException(): PyErr_Fetch; err = str(type); if there is a
\* value, err += ": " + str(value).  A py::str that raises throws
\* error_already_set out of the function.  ok: it returned.  (Extracting
\* a std::string from a py::str always succeeds, so the "Unknown
\* exception type" and "Unparseable" fallbacks are never taken; a type is
\* always set when boost throws error_already_set.)
ParsePythonException(v) ==
    CASE v = "none"      -> [ok |-> TRUE, msg |-> "type"]
      [] v = "printable" -> [ok |-> TRUE, msg |-> "type: value"]
      [] v = "strRaises" -> [ok |-> FALSE, msg |-> NoReport]

\* pythonError(msg): "Python error: " msg on the warnings stream, exit(-1).
PythonError(msg) == report' = msg /\ aborted' = TRUE

\* Python raises inside loadPlugin's try (the import, an attribute, the
\* description or dependencies conversion, __init__): the catch runs
\* pythonError(parsePythonException()); an exception out of the parse
\* leaves the catch block, and nothing catches it (std::terminate).
LoadRaises(v) ==
    LET p == ParsePythonException(v) IN
    /\ ~aborted /\ loading # NoLoad
    /\ IF p.ok THEN PythonError(p.msg)
                ELSE aborted' = TRUE /\ UNCHANGED report
    /\ pyError' = TRUE
    /\ UNCHANGED <<pythonClass, regVars, created, loading, m_logLevel,
                   logged, initRan, running>>

Next ==
    \/ StartInterpreter
    \/ \E v \in ValueKinds : LoadRaises(v)
    \/ \E n \in Names : CreatePlugin(n) \/ ConfigureLogLevel(n)
                        \/ InitializePlugin(n)
    \/ FinishCreate
    \/ \E o \in Objs, l \in LOG_DEBUG..LOG_WARN : ScriptLog(o, l)

Spec == Init /\ [][Next]_vars

(***************************************************************************)
(* Properties                                                              *)
(***************************************************************************)

\* A Python plugin createPlugin handed to the engine is still owned by
\* the interpreter's registry, so the engine's raw Plugin* is not dangling.
CreatedPluginsAlive ==
    \A n \in Names : created[n] \in Objs => created[n] \in Referenced

\* P7: while the process runs, no plugin name is registered twice and no
\* plugin handed to the engine has been dropped by a later load.
RegistryUnique ==
    ~aborted =>
        /\ \A i, j \in DOMAIN pluginsList : i # j => pluginsList[i] # pluginsList[j]
        /\ CreatedPluginsAlive

\* spec.md 7: an exception escaping Python code is always fatal and is
\* "captured, formatted, logged" before the process terminates: once a
\* Python error reaches loadPlugin's catch, pythonError has written its
\* report.  parsePythonException runs inside that catch, so a str() of
\* the exception value that raises in turn ends the process unreported.
PythonErrorReported == pyError => report # NoReport

=============================================================================
