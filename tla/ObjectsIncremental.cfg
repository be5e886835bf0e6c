\* repack -d and prune-packed while others write and read, any of them killed.
SPECIFICATION Spec
CONSTANTS
    blob = blob
    base = base
    tip = tip
    Obj = {blob, base}
    Links <- Short
    Enc = {e1}
    Writer = {w}
    Reader = {r}
    Maint = {m1, m2}
    Command = {"prune-packed", "repack -d"}
    KeepPack = FALSE
    Exclusive = FALSE
    MaxCommands = 2
    MaxCrashes = 1
    None = None
SYMMETRY Symmetry
CHECK_DEADLOCK FALSE
INVARIANTS
    TypeOK
    ReadsFindStored
    ReachableStored
PROPERTIES
    StoredNeverVanishes
