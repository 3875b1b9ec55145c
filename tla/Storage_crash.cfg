SPECIFICATION Spec
CONSTANTS
    N = 3
    Value = {d, v1, v2, g}
    Default = d
    Garbled = g
    Faults = {"crash"}
    Auth = FALSE
    Dtb = FALSE
    KeepPrev = TRUE
    RdonlyFd = TRUE
SYMMETRY Symmetry
INVARIANTS ConsistentWhenLoaded ShowsWhatIsStored
PROPERTIES ValidDataAtAnyTime RepairKeepsLoadable ImplementsAtomicStore
