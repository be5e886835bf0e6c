------------------------------- MODULE RefMap -------------------------------
(***************************************************************************)
(* What the reference store of zmin-git-core (refs.rs) promises to one     *)
(* command at a time: a map from reference names to what they resolve to.  *)
(* Only write_ref and write_symbolic_ref give a name a value, one name per *)
(* step; only delete_ref takes one away.  While a deletion runs the name   *)
(* may show an earlier value of its own (the packed one, once the loose    *)
(* file is gone), and an interrupted deletion may leave that value behind. *)
(* Packing never shows: it is a stuttering step here.                      *)
(***************************************************************************)
CONSTANTS
    Ref,      \* reference names
    Target,   \* what a reference may hold: object ids and symbolic targets
    NoTarget  \* the name does not resolve

VARIABLES
    value,    \* value[r]: what r resolves to
    past,     \* past[r]: everything r was ever set to
    deleting  \* the names that delete_ref is working on

mapVars == <<value, past, deleting>>

MapInit ==
    /\ value \in [Ref -> Target \cup {NoTarget}]
    /\ past = [r \in Ref |-> {value[r]} \ {NoTarget}]
    /\ deleting = {}

Set(r, t) ==
    /\ value' = [value EXCEPT ![r] = t]
    /\ past' = [past EXCEPT ![r] = @ \cup {t}]
    /\ UNCHANGED deleting

\* The loose file goes: nothing, or an earlier value, shows through.
StartDelete(r) ==
    /\ deleting' = deleting \cup {r}
    /\ \E t \in past[r] \cup {NoTarget} : value' = [value EXCEPT ![r] = t]
    /\ UNCHANGED past

\* The deletion completes, or ends early and leaves what shows.
FinishDelete(r) ==
    /\ r \in deleting
    /\ deleting' = deleting \ {r}
    /\ value' \in {value, [value EXCEPT ![r] = NoTarget]}
    /\ UNCHANGED past

MapNext ==
    \E r \in Ref :
        \/ \E t \in Target : Set(r, t)
        \/ StartDelete(r)
        \/ FinishDelete(r)

MapSpec == MapInit /\ [][MapNext]_mapVars
=============================================================================
