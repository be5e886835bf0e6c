------------------------------ MODULE MCBisect ------------------------------
(***************************************************************************)
(* A history of six commits with a merge,                                  *)
(*         1 -- 2 -- 4 -- 5 -- 6                                           *)
(*          `------ 3 ---'                                                 *)
(* and three names for branches, one of them free.                         *)
(***************************************************************************)
EXTENDS Bisect

CONSTANTS main, topic, new

MCCommit == 1 .. 6
MCParents == <<<<>>, <<1>>, <<1>>, <<2>>, <<4, 3>>, <<5>>>>
MCBranch == {main, topic, new}
MCInitBranch == {main :> 6 @@ topic :> 3 @@ new :> None}
MCStart(option, rev) ==
    [names |-> option = "names", noCheckout |-> option = "no-checkout",
     firstParent |-> option = "first-parent", bad |-> rev[1], good |-> rev[2]]
MCStarts ==
    {MCStart("none", <<5, {2}>>)} \cup
    {MCStart(o, r) : o \in {"none", "names", "no-checkout", "first-parent"},
                     r \in {<<None, {}>>, <<6, {1}>>}}
MCRanges == {<<1, 4>>}
=============================================================================
