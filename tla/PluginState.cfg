\* getPluginState returns the asking state's own PluginState.
CONSTANTS
    a1 = a1  a2 = a2  a3 = a3
    p1 = p1  p2 = p2  p3 = p3
    Null = Null
    Addrs <- MC_Addrs
    PSs <- MC_PSs
SPECIFICATION Spec
INVARIANT CacheReturnsOwnState
