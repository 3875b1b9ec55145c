SPECIFICATION Spec
CONSTANTS
    N = 3
    Value = {d, v1, v2, g}
    Default = d
    Garbled = g
    Faults = {"crash", "torn", "clean", "readerr"}
    Auth = FALSE
    Dtb = FALSE
    KeepPrev = FALSE
    RdonlyFd = FALSE
SYMMETRY Symmetry
INVARIANTS TypeOK NoRollback Durable
