\* A Python exception raised while a plugin script loads, including one
\* whose value raises again when converted to a string.
\* The process stops when an assert fails or an exception escapes, and
\* loading ends once every plugin is created and initialised, so a state
\* with no successor is real.
CONSTANTS
    A = A  B = B  C = C
    NoClass = NoClass
    NotCreated = NotCreated  NotFound = NotFound  ViaInfo = ViaInfo
    Ids <- MC_Ids
    Names <- MC_Names
    Compiled <- MC_Compiled
    NDEBUG = FALSE
SPECIFICATION Spec
INVARIANT PythonErrorReported
CHECK_DEADLOCK FALSE
