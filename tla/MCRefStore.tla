----------------------------- MODULE MCRefStore -----------------------------
(* RefStore on two names and one or two object ids.                        *)
EXTENDS RefStore, TLC

\* Object ids are interchangeable, and so are the writers.
Symmetry == Permutations(Id) \cup Permutations(Writers)
=============================================================================
