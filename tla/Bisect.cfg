\* Any three commands, one of them killed anywhere, and bisect run.
SPECIFICATION FairSpec
CONSTANTS
    Commit <- MCCommit
    Parents <- MCParents
    Touches = {3, 4, 6}
    Untestable = {4}
    Branch <- MCBranch
    InitBranch <- MCInitBranch
    Starts <- MCStarts
    Named = {3}
    Ranges <- MCRanges
    None = None
    main = main
    topic = topic
    new = new
    MaxCommands = 3
    MaxKills = 1
INVARIANTS
    MarksAreTrue
    HeadResolves
PROPERTIES
    ReportIsRight
    ResetReturns
    RunEnds
CHECK_DEADLOCK FALSE
