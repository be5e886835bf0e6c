\* One rebase, cherry-pick or revert, with a stop and what may follow it.
SPECIFICATION Spec
CONSTANTS
    p = p
    q = q
    a = a
    b = b
    main = main
    topic = topic
    Path = {p, q}
    Content = {a, b, Absent}
    Absent = Absent
    Amended <- Trees
    Branch = {main, topic}
    None = None
    Initial <- Forked
    MaxItems = 2
    MaxCommands = 2
    MaxTodos = 1
    MaxEvents = 1
CHECK_DEADLOCK FALSE
INVARIANTS
    ReplaysPlan
    ItemsLeaveClean
