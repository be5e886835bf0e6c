\* prune-packed believes an index whose pack is gone.
SPECIFICATION Spec
CONSTANTS
    blob = blob
    base = base
    tip = tip
    Obj = {blob, base}
    Links <- Short
    Enc = {e1}
    Writer = {w}
    Reader = {}
    Maint = {m1}
    Command = {"gc", "prune-packed"}
    KeepPack = FALSE
    Exclusive = TRUE
    MaxCommands = 2
    MaxCrashes = 1
    None = None
CHECK_DEADLOCK FALSE
INVARIANTS
    ReachableStored
