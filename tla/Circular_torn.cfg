SPECIFICATION CircularSpec
CONSTANTS
    P = 8
    c1 = c1
    c2 = c2
    c3 = c3
    P1 = 2
    P2 = 2
    P3 = 2
    Record = {c1, c2, c3}
    Pages <- RecPages
    PageAtomic = TRUE
    EraseAtomic = TRUE
    NoRecord = NoRecord
PROPERTY CircularIsBucketStore
