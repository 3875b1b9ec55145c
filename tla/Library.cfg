SPECIFICATION LibrarySpec
CONSTANTS
    Head_ = {h1, h2}
    Entry = {1, 2, 3}
    Key <- MCKey
    POISON = POISON
    NodeId = {1, 2, 3, 4}
    NodeName = {"aliases", "s"}
    AliasName = {"x"}
    NoAlias = {"name"}
    Paths <- MCPaths
    NULL = 0
    MaxHandle = 2
    MaxCalls = 7
    MaxTrees = 2
    Described = {"aliases"}
    BUFSIZE = 64
    Slack = 24
    Reserve = 8
    MaxName = 24
    ENOSPC = 28
    NameLens = {0, 12, 24}
    PropLens = {0, 3, 40}
    MaxSize = 200
    MaxReserve = 4
    Char = {"a", "b"}
    NUL = "0"
    Base = 4
    Provider = {1, 2, 4}
    Cells <- MCCells
    MaxArgs = 2
    Strings <- MCStrings
    Numbers = {0, 1, 3, 6, 200, 70000}
    MaxList = 3
    Machines <- MCMachines
    Nodes <- MCNodes
    Strides = {0, 1, 2}
    Failures <- MCFailures
    CellMod = 16
    Sector = 2
    STATE_GUID = "stateguid"
    NONE = NONE
    Block = 4
    LenBytes = 1
    SumBytes = 3
    Keys <- MCKeys
    Chunks = {0, 1, 3, 5, 9}
    MaxMessage = 10
    Plain <- MCPlain
    PAD = PAD
    BREAK = BREAK
    StateName = {"s", "t"}
    VarPath <- MCVarPath
    Given = {1, 2}
    Wrong = 3
    Start = 0
    CommandLine <- MCCommandLine
INVARIANTS
    Represents
    LoopVisitsAll
    OrderIsPreorder
    PhandlesUnique
    AliasLeadsBack
    FlattenUnflatten
    StaysInBuffers
    ValuesReadBack
    PhandleArgsReadBack
    ResolvesAsMeant
    BucketsWithinBackend
    SumOfMessage
    Base64ReadsBack
    ExitStatusTellsStored
