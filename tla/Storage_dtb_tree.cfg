SPECIFICATION Spec
CONSTANTS
    N = 3
    Value = {d, v1, v2, g}
    Default = d
    Garbled = g
    Faults = {"crash"}
    Auth = FALSE
    Dtb = TRUE
    KeepPrev = FALSE
    RdonlyFd = TRUE
SYMMETRY Symmetry
INVARIANT ShowsWhatIsStored
