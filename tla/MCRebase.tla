------------------------------ MODULE MCRebase ------------------------------
(* Rebase of a topic of two commits onto a branch with one commit of its     *)
(* own, over many choices of the three trees.                                *)
EXTENDS Rebase
CONSTANTS p, q, a, b, main, topic

T(x, y) == p :> x @@ q :> y
Base == T(a, Absent)
Trees == {Base, T(b, Absent), T(Absent, a), T(a, a)}
Forked == {main :> <<Base, m>> @@ topic :> <<Base, t, u>> :
              m \in {T(Absent, a), T(a, a)}, t \in Trees \ {Base}, u \in Trees}
=============================================================================
