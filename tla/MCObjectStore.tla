--------------------------- MODULE MCObjectStore ---------------------------
(* ObjectStore on a history of two objects, a blob and a commit that holds  *)
(* it, or three, with a commit on top of that one.                          *)
EXTENDS ObjectStore, TLC
CONSTANTS blob, base, tip

Short == blob :> {} @@ base :> {blob}
History == blob :> {} @@ base :> {blob} @@ tip :> {base}
Symmetry == Permutations(Maint) \cup Permutations(Writer)
=============================================================================
