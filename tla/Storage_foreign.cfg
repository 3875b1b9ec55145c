SPECIFICATION Spec
CONSTANTS
    N = 2
    Value = {d, v1, v2, g}
    Default = d
    Garbled = g
    Faults = {}
    Auth = FALSE
    Dtb = FALSE
    KeepPrev = TRUE
    RdonlyFd = TRUE
SYMMETRY Symmetry
PROPERTY ForeignKept
