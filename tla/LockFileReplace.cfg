\* Two writers, no fault: the comment at index.rs:701 does not hold.
SPECIFICATION Spec
CONSTANTS
    Writer = {w1, w2}
    Reader = {}
    Inode = {i1, i2, i3, i4}
    NoInode = NoInode
    Chunks = 2
    MaxFaults = 0
PROPERTIES
    UpdatesReplaceTheFile
