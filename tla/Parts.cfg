SPECIFICATION PartsSpec
CONSTANTS
    NB = 2
    Stride = 4
    Size = 9
    r1 = r1
    r2 = r2
    r3 = r3
    r4 = r4
    Rec = {r1, r2, r3, r4}
    Length <- Lengths
    Builds <- MixedBuilds
    Wrap = 16
    Nothing = Nothing
    P = 5
    c1 = c1
    c2 = c2
    c3 = c3
    P1 = 1
    P2 = 2
    P3 = 7
    Record = {c1, c2, c3}
    Pages <- RecPages
    PageAtomic = FALSE
    EraseAtomic = FALSE
    NoRecord = NoRecord
    s1 = s1
    s2 = s2
    d1 = d1
    d2 = d2
    p1 = p1
    p2 = p2
    p3 = p3
    Proc = {p1, p2, p3}
    Writer = {p1, p2}
    MayDie = {p1, p2}
    LockMayFail = {p3}
    State = {s1, s2}
    Dev = {d1, d2}
    Setups <- Sound
    Base = 4
    Word = 2
    WordMod = 16
    MacLen = 2
    MaxString = 4
    AddrMod = 64
    LenMod = 8
    Schema <- MCSchema
    Input <- MCInput
    Junk <- MCJunk
    NONE = NONE
    BAD = BAD
INVARIANTS
    DirectTypeOK
    CircularTypeOK
    AckedIsRead
    LockTypeOK
    NoLostUpdate
    SeesWholeRuns
    AcceptedDisjoint
    LoadedAsSaved
    CleanIsStored
    PartialLoadIsPrefix
PROPERTIES
    ImplementsBucketStore
    ProgramsErasedPagesOnly
    RunsTerminate
