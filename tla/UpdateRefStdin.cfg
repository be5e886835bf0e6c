\* Every kind of operation, one application; beside a rival, those of RivalOps.
SPECIFICATION Spec
CONSTANTS
    main = main
    side = side
    id1 = id1
    id2 = id2
    Branch = {main, side}
    HEAD = HEAD
    Id = {id1, id2}
    NoVal = NoVal
    Unchecked = Unchecked
    Op <- AllOps
    InitHead = {main, id1}
    MaxOps = 2
    MaxCommits = 1
    MaxRivals = 1
CONSTRAINT RivalBound
CHECK_DEADLOCK FALSE
INVARIANTS
    ValidatedOpsHold
    BranchLogFollowsBranch
