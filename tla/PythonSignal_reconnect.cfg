\* P1, P2 for a script that may connect() again without disconnect().
CONSTANTS
    f1 = f1
    f2 = f2
    None = None
    Funcs <- MC_Funcs
    MaxConns = 4
    Disciplined = FALSE
SYMMETRY MC_Symmetry
SPECIFICATION Spec
PROPERTY SignalBindingRefined
