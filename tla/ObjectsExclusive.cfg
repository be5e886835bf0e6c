\* Every command that rewrites packs, and prune, run alone; one may be killed.
SPECIFICATION Spec
CONSTANTS
    blob = blob
    base = base
    tip = tip
    Obj = {blob, base, tip}
    Links <- History
    Enc = {e1, e2}
    Writer = {w}
    Reader = {}
    Maint = {m1}
    Command = {"repack", "repack -d", "repack -a -d", "repack -A -d", "gc", "prune"}
    KeepPack = TRUE
    Exclusive = TRUE
    MaxCommands = 2
    MaxCrashes = 1
    None = None
CHECK_DEADLOCK FALSE
INVARIANTS
    ReachableStored
    ReachableReadable
PROPERTIES
    OnlyPruningDrops
