----------------------------- MODULE MCWorktree -----------------------------
(* Worktree on two paths and two branches that have diverged.               *)
EXTENDS Worktree

CONSTANTS a, b, c, mark, user, main, side

\* No two changes of a file can be joined: a conflict leaves a marked file.
MCMergeFile(base, ours, theirs) == [conflict |-> TRUE, content |-> mark]

History(base, ours, theirs) ==
    [commits |-> <<[tree |-> base, parents |-> <<>>],
                   [tree |-> ours, parents |-> <<1>>],
                   [tree |-> theirs, parents |-> <<1>>]>>,
     branch |-> main :> 2 @@ side :> 3, head |-> main]

\* A conflict beside an added file; no conflict, and a file deleted on one
\* side; a file changed here and deleted there; one renamed here and deleted
\* there.
MCInitial ==
    {History(<<a, Absent>>, <<b, Absent>>, <<c, a>>),
     History(<<a, a>>, <<b, a>>, <<a, Absent>>),
     History(<<a, Absent>>, <<b, Absent>>, <<Absent, Absent>>),
     History(<<a, Absent>>, <<Absent, a>>, <<Absent, Absent>>)}
=============================================================================
