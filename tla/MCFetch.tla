------------------------------ MODULE MCFetch ------------------------------
(* Push and Fetch on four commits: base, two children a and b of it, and     *)
(* their merge.                                                              *)
EXTENDS Fetch, TLC

CONSTANTS base, a, b, m, main, side, alice, bob

Graph == (base :> {}) @@ (a :> {base}) @@ (b :> {base}) @@ (m :> {a, b})
Stores == (alice :> {base, a}) @@ (bob :> {base, a, b, m})

Set(r, id) == [dst |-> r, id |-> id, force |-> "no", upstream |-> FALSE]
Tracked(r, id) == [Set(r, id) EXCEPT !.upstream = TRUE]
Plus(r, id) == [Set(r, id) EXCEPT !.force = "plus"]
Force(r, id) == [Set(r, id) EXCEPT !.force = "option"]

\* Updates, creations and deletions, alone and in pairs of which the second
\* may fail after the first took effect.
Cmds == {<<Tracked(main, a)>>, <<Plus(main, b)>>, <<Force(main, b)>>,
         <<Tracked(side, a), Set(main, m)>>, <<Set(side, None), Set(main, b)>>,
         <<Set(main, a), Set(main, None)>>}

\* One reference is loose, the other packed.
Nothing == (main :> None) @@ (side :> None)
Base(r) == [Nothing EXCEPT ![r] = base]
Refs == {[loose |-> Base(main), packed |-> Base(side)]}

\* No clone yet, one that has fetched nothing, and one that tracks one branch
\* and has a commit of its own.
Clones == {[own |-> {}, tracking |-> Nothing, dir |-> "absent"],
           [own |-> {}, tracking |-> Nothing, dir |-> "ready"],
           [own |-> {b}, tracking |-> Base(side), dir |-> "ready"]}
=============================================================================
