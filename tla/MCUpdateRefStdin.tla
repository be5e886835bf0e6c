-------------------------- MODULE MCUpdateRefStdin --------------------------
(* UpdateRefStdin on two branches and two object ids, with the inputs that  *)
(* its runs feed to it.                                                     *)
EXTENDS UpdateRefStdin, FiniteSets
CONSTANTS main, side, id1, id2

O(kind, name, new, old, nd) ==
    [kind |-> kind, name |-> name, new |-> new, old |-> old, noDeref |-> nd]

\* Operations on object ids, direct and through HEAD.
DirectOps ==
    {O("update", main, i, o, FALSE) : i \in {id1, id2}, o \in {Unchecked, id1}}
    \cup {O("update", HEAD, id2, Unchecked, nd) : nd \in BOOLEAN}
    \cup {O("create", side, id1, NoVal, FALSE)}
    \cup {O("delete", b, NoVal, Unchecked, FALSE) : b \in {main, HEAD}}
    \cup {O("delete", main, NoVal, id1, FALSE)}
    \cup {O("verify", main, NoVal, id1, FALSE),
          O("verify", side, NoVal, NoVal, FALSE)}

\* Operations on symbolic references, among a few direct ones.
SymrefOps ==
    {O("symref-update", side, main, o, FALSE) : o \in {Unchecked, main, id1}}
    \cup {O("symref-update", side, main, id1, TRUE)}
    \cup {O("symref-create", HEAD, side, NoVal, FALSE),
          O("symref-create", side, main, NoVal, FALSE)}
    \cup {O(k, n, NoVal, o, TRUE) :
        k \in {"symref-delete", "symref-verify"}, n \in {HEAD, side},
        o \in {Unchecked, main}}
    \cup {O("symref-delete", HEAD, NoVal, Unchecked, FALSE)}
    \cup {O("update", b, id2, Unchecked, FALSE) : b \in {HEAD, side}}
    \cup {O("delete", b, NoVal, Unchecked, nd) :
        b \in {HEAD, side}, nd \in BOOLEAN}

\* What a session and a rival do to the same branch, by name and through HEAD.
RivalOps ==
    {O("update", main, i, Unchecked, FALSE) : i \in {id1, id2}}
    \cup {O("update", main, id2, id1, FALSE), O("update", HEAD, id2, Unchecked, FALSE),
          O("delete", main, NoVal, Unchecked, FALSE), O("delete", HEAD, NoVal, Unchecked, FALSE),
          O("symref-update", HEAD, side, Unchecked, TRUE)}

AllOps == DirectOps \cup SymrefOps \cup RivalOps

\* Bound: a rival works on main; once it has started, the session's operations
\* are RivalOps, not in batch mode, and HEAD is on a branch.
RivalBound ==
    rivals > 0 =>
        /\ \A i \in DOMAIN ops : ops[i] \in RivalOps
        /\ \A i \in DOMAIN queue : queue[i] \in RivalOps
        /\ ref[HEAD] \notin Id /\ ~batch
        /\ job["rival"] # NoJob => job["rival"].on = main
=============================================================================
