\* Two writers and a reader, two faults.
SPECIFICATION FairSpec
CONSTANTS
    Writer = {w1, w2}
    Reader = {r1}
    Inode = {i1, i2, i3, i4}
    NoInode = NoInode
    Chunks = 2
    MaxFaults = 2
INVARIANTS
    TypeOK
    LockHasCreator
    TornFileHasWriter
    TargetWhole
    ViewWhole
PROPERTIES
    SerialUpdates
    RetrySucceeds
