\* A block's execution calls what its own translation connected, for
\* scripts that use es only inside the handler it was passed to.
CONSTANTS
    w1 = w1  w2 = w2  s1 = s1  s2 = s2  f1 = f1  f2 = f2
    None = None
    Null = Null
    Wrappers <- MC_Wrappers
    Sigs <- MC_Sigs
    Funcs <- MC_Funcs
    MaxConns = 3
SYMMETRY MC_Symmetry
SPECIFICATION InHandlerSpec
INVARIANT ExecutionCallsIntended
