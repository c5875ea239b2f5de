\* P7 in a release build, where assert() is compiled out.
\* The process stops when an assert fails and loading ends when every
\* configured plugin is created, so a state with no successor is real.
CONSTANTS
    A = A  B = B  C = C
    NoClass = NoClass
    NotCreated = NotCreated  NotFound = NotFound  ViaInfo = ViaInfo
    Ids <- MC_Ids
    Names <- MC_Names
    Compiled <- MC_Compiled
    NDEBUG = TRUE
SPECIFICATION Spec
INVARIANT RegistryUnique
CHECK_DEADLOCK FALSE
