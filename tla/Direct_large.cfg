SPECIFICATION DirectSpec
CONSTANTS
    NB = 2
    Stride = 3
    Size = 9
    r1 = r1
    r2 = r2
    r3 = r3
    r4 = r4
    Rec = {r1, r2, r3, r4}
    Length <- Lengths
    Builds <- LargeRecordBuilds
    Wrap = 16
    Nothing = Nothing
PROPERTY StaysInStride
