\* Any three commands, one of them killed anywhere, and two edits between them.
SPECIFICATION Spec
CONSTANTS
    a = a
    b = b
    c = c
    mark = mark
    user = user
    main = main
    side = side
    Path = {1, 2}
    Content = {a, b, c, mark, user}
    Absent = Absent
    Unmerged = Unmerged
    None = None
    MergeFile <- MCMergeFile
    Written = {user}
    Branch = {main, side}
    Initial <- MCInitial
    MaxCommands = 3
    MaxEdits = 2
    MaxKills = 1
CHECK_DEADLOCK FALSE
PROPERTIES
    EditsAreKept
    AbortRestores
    ContinueJoinsTheMerged
    PoppedIsApplied
