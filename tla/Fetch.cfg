\* Two clients push in every way and a clone fetches in every way: any two of
\* these, one fault.
SPECIFICATION FetchFairSpec
CONSTANTS
    base = base
    a = a
    b = b
    m = m
    main = main
    side = side
    alice = alice
    bob = bob
    Commit = {base, a, b, m}
    Parents <- Graph
    Client = {alice, bob}
    Has <- Stores
    Ref = {main, side}
    HeadRef = main
    AllowDeleteCurrent = FALSE
    Mode = {"wire", "path", "send", "dav"}
    PushCmds <- Cmds
    InitRefs <- Refs
    None = None
    MaxOps = 2
    MaxFaults = 1
    FetchKind = {"git", "http", "path"}
    Depths = {2}
    InitClone <- Clones
CHECK_DEADLOCK FALSE
INVARIANTS
    RefsComplete
    ReportIsTrue
    CloneComplete
    DepthFetchRepairs
    FetchMirrors
PROPERTIES
    NoUnseenOverwrite
    TransfersEnd
