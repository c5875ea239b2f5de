\* A script that disconnects before it reconnects, re-entrant calls included.
CONSTANTS
    f1 = f1
    f2 = f2
    None = None
    Funcs <- MC_Funcs
    MaxConns = 6
    Disciplined = TRUE
SYMMETRY MC_Symmetry
SPECIFICATION Spec
PROPERTY SignalBindingRefined
