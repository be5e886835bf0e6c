------------------------------ MODULE Worktree ------------------------------
(***************************************************************************)
(* The commands that move files between HEAD, the index and the worktree:  *)
(* add, rm, mv, restore, clean, commit, reset, switch, checkout -B, merge  *)
(* (with --abort and --continue) and stash.  A command first reads         *)
(* everything it needs and decides, then writes: files one at a time, the  *)
(* index, the branch, HEAD, MERGE_HEAD, MERGE_MSG, refs/stash and its log. *)
(* None of these writes is undone when the process dies between two of     *)
(* them, so a command is modelled by the sequence of its writes, `todo`,   *)
(* and Kill drops what is left of it.                                      *)
(*                                                                         *)
(* Abstractions: a commit is a tree and its parents, numbered in the order *)
(* of creation; a tree maps paths to contents; the stages of an unmerged   *)
(* path are one value; objects are written before anything refers to them  *)
(* and are never lost (ObjectStore); one command runs at a time, and the   *)
(* user edits files only between two of them.  ORIG_HEAD, reflogs of       *)
(* branches, hooks and messages are left out.                              *)
(***************************************************************************)
EXTENDS Integers, SequencesExt

CONSTANTS
    Path,           \* paths, numbered in the order of the index
    Content,        \* contents of files
    Absent,         \* there is no file or entry
    Unmerged,       \* an entry with stages other than 0
    None,           \* no commit, no file
    MergeFile(_, _, _), \* merge_file_core on base, ours and theirs
    Written,        \* contents that the user writes
    Branch,
    Initial,        \* histories to start from
    MaxCommands,    \* bound: commands run
    MaxEdits,       \* bound: files edited by the user
    MaxKills        \* bound: commands killed

File == Content \cup {Absent}
Tree == [Path -> File]
Index == [Path -> File \cup {Unmerged}]

\* An entry of the stash: the commit it was made on, the tracked files, the
\* index unless only that was asked for, and the untracked files.
Entry == [base : Nat, tree : Tree, index : Tree \cup {None}, untracked : Tree]

ASSUME WorktreeAssumption ==
    /\ Path \subseteq Nat /\ IsFiniteSet(Path)
    /\ None \notin Tree /\ None \notin Seq(Entry)
    /\ {Absent, Unmerged} \cap Content = {} /\ Absent # Unmerged
    /\ Written \subseteq Content
    /\ \A b, o, t \in Content :
          MergeFile(b, o, t) \in [conflict : BOOLEAN, content : Content]
    /\ \A r \in Initial :
          /\ r.commits \in Seq([tree : Tree, parents : Seq(Nat)])
          /\ \A c \in DOMAIN r.commits :
                ToSet(r.commits[c].parents) \subseteq 1 .. c - 1
          /\ r.branch \in [Branch -> DOMAIN r.commits] /\ r.head \in Branch
    /\ {MaxCommands, MaxEdits, MaxKills} \subseteq Nat

VARIABLES
    commits, branch, head,  \* commits, branch tips, the branch HEAD names
    index, work,            \* the index; the files in the worktree
    mergeHead, mergeMsg,    \* MERGE_HEAD; whether MERGE_MSG exists
    stashRef, stashLog,     \* refs/stash; its log, oldest entry first
    cmd, todo,              \* the command that runs, and the writes it still has to do
    count,                  \* commands, edits and kills so far
    merged, stale, doomed   \* history, see below

repo == <<branch, head, index, work, mergeHead, mergeMsg, stashRef, stashLog>>
ghosts == <<merged, stale, doomed>>
vars == <<commits, repo, cmd, todo, count, ghosts>>

(* merged: the tip whose changes a merge that did not commit left in the   *)
(* index.  stale: since MERGE_HEAD was written, a command other than       *)
(* merge --continue and those that stage single paths has run.  doomed:    *)
(* paths that an abort which has started, and may have been killed, has to *)
(* remove.                                                                 *)

NoCmd == [op |-> "none", force |-> FALSE, edits |-> {}, tip |-> None, entry |-> None]
Op == {"none", "add", "rm", "mv", "restore", "clean", "commit", "reset", "switch", "merge",
       "abort", "continue", "push", "push staged", "apply", "pop", "drop"}
StagingOp == {"add", "rm", "mv", "restore"}

Tip == branch[head]
TreeOf(c) == commits[c].tree
HeadTree == TreeOf(Tip)

Init ==
    /\ \E r \in Initial : commits = r.commits /\ branch = r.branch /\ head = r.head
    /\ index = HeadTree /\ work = index
    /\ mergeHead = None /\ mergeMsg = FALSE
    /\ stashRef = None /\ stashLog = None
    /\ cmd = NoCmd /\ todo = <<>>
    /\ count = [commands |-> 0, edits |-> 0, kills |-> 0]
    /\ merged = None /\ stale = FALSE /\ doomed = {}

-----------------------------------------------------------------------------
(* Trees, indexes and files *)

StageZero(idx) == {p \in Path : idx[p] \notin {Absent, Unmerged}}

\* worktree_clean: untracked files do not count, unmerged entries do.
Clean ==
    /\ index = HeadTree
    /\ \A p \in StageZero(index) : work[p] = index[p]

\* diff_indexes
Changed(old, new) == {p \in Path : old[p] # new[p]}

\* remove_tracked_paths_missing_from_target
RemoveMissing(files, old, new) ==
    [p \in Path |-> IF old[p] # Absent /\ new[p] = Absent THEN Absent ELSE files[p]]

\* checkout_index with force, for the entries of the paths given
Checkout(files, new, paths) ==
    [p \in Path |-> IF p \in paths \cap StageZero(new) THEN new[p] ELSE files[p]]

Nth(S, n) == CHOOSE p \in S : Cardinality({q \in S : q < p}) = n - 1
Ascending(S) == [n \in 1 .. Cardinality(S) |-> Nth(S, n)]

\* The writes that turn the files `now` into `then`: first the removals,
\* from the last path to the first, then the others in the order of the index.
InOrder(order, then) ==
    [i \in DOMAIN order |-> [on |-> "file", path |-> order[i], to |-> then[order[i]]]]
FileWrites(now, then) ==
    LET gone == {p \in Changed(now, then) : then[p] = Absent}
    IN  InOrder(Reverse(Ascending(gone)) \o Ascending(Changed(now, then) \ gone), then)

\* Removals from the first path to the last, then the other files.
FileWritesUp(now, then) ==
    LET gone == {p \in Changed(now, then) : then[p] = Absent}
    IN  InOrder(Ascending(gone) \o Ascending(Changed(now, then) \ gone), then)

Put(on, to) == <<[on |-> on, to |-> to]>>
PutBranch(b, c) == <<[on |-> "branch", name |-> b, to |-> c]>>

-----------------------------------------------------------------------------
(* History *)

\* commit_depths_cached: the commits at distance k from c along parents
Layer(c) ==
    LET layer[k \in 0 .. Len(commits)] ==
          IF k = 0 THEN {c}
          ELSE UNION {ToSet(commits[d].parents) : d \in layer[k - 1]}
    IN  layer
Ancestors(c) == UNION {Layer(c)[k] : k \in 0 .. Len(commits)}
Depth(c, d) == Min({k \in 0 .. Len(commits) : d \in Layer(c)[k]})

\* best_merge_base_cached: a common ancestor of least total depth; the ids
\* that decide between equals are arbitrary.
MergeBases(l, r) ==
    LET common == Ancestors(l) \cap Ancestors(r)
        Score(d) == Depth(l, d) + Depth(r, d)
    IN  CASE r \in Ancestors(l) -> {r}
          [] l \in Ancestors(r) -> {l}
          [] OTHER -> {d \in common : \A e \in common : Score(d) <= Score(e)}

-----------------------------------------------------------------------------
(* merge_indexes *)

\* exact_rename_entry: the first other path of a side with the base's content
Renames(b, side, other) ==
    LET Same(p) == {q \in Path \ {p} : side[q] = b[p]}
    IN  {pq \in Path \X Path :
            LET p == pq[1]  q == pq[2] IN
            /\ b[p] # Absent /\ Same(p) # {} /\ q = Min(Same(p))
            /\ other[p] = Absent /\ other[q] = Absent}

\* merge_exact_rename_delete_conflicts takes these paths out of the merge.
Consumed(b, o, t) == UNION {{pq[1], pq[2]} : pq \in Renames(b, o, t) \cup Renames(b, t, o)}

\* merge_indexes_inner: a path that at most one side changed
OneSided(b, o, t) ==
    IF o = t \/ b = t THEN {o} ELSE IF b = o THEN {t} ELSE {}

\* merge_content_entries gives up, before anything is written, on a path
\* that both sides added.
AddAdd(b, o, t) ==
    \E p \in Path \ Consumed(b, o, t) : b[p] = Absent /\ OneSided(b[p], o[p], t[p]) = {}

\* merge_indexes: an entry, and the file of a conflict
MergeEntry(b, o, t, p) ==
    LET taken == OneSided(b[p], o[p], t[p])
        into == {pq[2] : pq \in Renames(b, o, t) \cup Renames(b, t, o)}
        text == MergeFile(b[p], o[p], t[p])
        left == IF o[p] # Absent THEN o[p] ELSE t[p]
    IN  CASE p \in into -> [entry |-> Unmerged, file |-> left]
          [] p \in Consumed(b, o, t) \ into -> [entry |-> Absent, file |-> Absent]
          [] p \notin Consumed(b, o, t) /\ taken # {} ->
                LET e == CHOOSE e \in taken : TRUE IN [entry |-> e, file |-> e]
          [] p \notin Consumed(b, o, t) /\ taken = {} /\ Absent \in {o[p], t[p]} ->
                [entry |-> Unmerged, file |-> left]
          [] OTHER -> [entry |-> IF text.conflict THEN Unmerged ELSE text.content,
                       file |-> text.content]

MergeIndexes(b, o, t) ==
    [index |-> [p \in Path |-> MergeEntry(b, o, t, p).entry],
     files |-> [p \in Path |-> MergeEntry(b, o, t, p).file]]

-----------------------------------------------------------------------------
(* Commands *)

\* Files of which the worktree has a version that the index does not have
Edits == {p \in StageZero(index) : work[p] \notin {Absent, index[p]}}

Idle == todo = <<>> /\ count.commands < MaxCommands

\* A command that got past its checks starts to write.
Run(c, writes) ==
    /\ Idle /\ writes # <<>>
    /\ count' = [count EXCEPT !.commands = @ + 1]
    /\ cmd' = [NoCmd EXCEPT !.op = c.op, !.force = c.force, !.tip = c.tip, !.entry = c.entry,
                            !.edits = IF c.op = "push" THEN Path ELSE Edits]
    /\ todo' = writes
    /\ stale' = (stale \/ (mergeHead # None /\ c.op \notin StagingOp \cup {"continue"}))
    /\ doomed' = IF c.op = "abort" THEN doomed \cup (Changed(index, HeadTree) \cap
                                                     {p \in Path : HeadTree[p] = Absent})
                 ELSE {}
    /\ UNCHANGED <<repo, merged>>

Plain(op) == [NoCmd EXCEPT !.op = op]
Forced(op, f) == [NoCmd EXCEPT !.op = op, !.force = f]

\* The id of the next commit, and the object database with it
NewId == Len(commits) + 1
Store(tree, parents) == commits' = Append(commits, [tree |-> tree, parents |-> parents])

\* stage_tracked_worktree_changes: unmerged entries are skipped.
StageTracked == [p \in Path |-> IF p \in StageZero(index) THEN work[p] ELSE index[p]]

\* add <path>: a path without a file is an error.
Add(p) ==
    /\ work[p] # Absent
    /\ Run(Plain("add"), Put("index", [index EXCEPT ![p] = work[p]]))
    /\ UNCHANGED commits

\* add -A: an unmerged path without a file stays unmerged.
AddAll ==
    /\ Run(Plain("add"), Put("index", [p \in Path |-> IF work[p] # Absent THEN work[p]
                                                     ELSE StageTracked[p]]))
    /\ UNCHANGED commits

\* ensure_rm_safe: a file that is new in the index is not protected.
RmSafe(p, cached) ==
    /\ HeadTree[p] # Absent => index[p] = HeadTree[p]
    /\ cached \/ work[p] \in {Absent, index[p]}

\* rm, with --cached and -f: the file goes before the index is written.  An
\* unmerged path is not found.
Rm(p, cached, force) ==
    /\ p \in StageZero(index)
    /\ force \/ RmSafe(p, cached)
    /\ Run(Forced("rm", force),
           (IF cached THEN <<>> ELSE FileWrites(work, [work EXCEPT ![p] = Absent]))
           \o Put("index", [index EXCEPT ![p] = Absent]))
    /\ UNCHANGED commits

\* mv, with -f: what is in the way is removed before the rename, which fails
\* when the source is missing, or is what was in the way.  (Moves onto an
\* unmerged path are left out.)
Mv(p, q, force) ==
    LET cleared == FileWrites(work, [work EXCEPT ![q] = Absent])
    IN  /\ p \in StageZero(index) /\ index[q] # Unmerged
        /\ force \/ (index[q] = Absent /\ work[q] = Absent)
        /\ Run(Forced("mv", force),
               IF p = q \/ work[p] = Absent THEN cleared
               ELSE cleared \o <<[on |-> "rename", path |-> p, to |-> q]>>
                    \o Put("index", [index EXCEPT ![p] = Absent, ![q] = index[p]]))
        /\ UNCHANGED commits

\* restore of one path, from the index, HEAD or a commit, into the index, the
\* worktree or both: checkout <path> and checkout <commit> <path> call it too.
Restore(p, source, mode) ==
    LET from == IF source # None THEN TreeOf(source)
                ELSE IF mode = "worktree" THEN index ELSE HeadTree
        new == IF p \in StageZero(from) THEN from[p] ELSE Absent
    IN  /\ p \in StageZero(from) \cup StageZero(index)
        /\ Run(Forced("restore", TRUE),
               (IF mode = "worktree" THEN <<>> ELSE Put("index", [index EXCEPT ![p] = new]))
               \o (IF mode = "staged" THEN <<>>
                   ELSE FileWrites(work, [work EXCEPT ![p] = new])))
        /\ UNCHANGED commits

\* clean -f
CleanUntracked ==
    /\ Run(Forced("clean", TRUE),
           FileWritesUp(work, [p \in Path |-> IF index[p] = Absent THEN Absent ELSE work[p]]))
    /\ UNCHANGED commits

\* commit, with -a and --amend.  With -a the index is written before it is
\* known whether there is anything to commit, and whether it can be.
Commit(all, amend) ==
    LET new == IF all THEN StageTracked ELSE index
        staged == IF all THEN Put("index", new) ELSE <<>>
        ok == StageZero(new) = {p \in Path : new[p] # Absent} /\ (amend \/ new # HeadTree)
    IN  \/ /\ Idle /\ ok
           /\ Run(Plain("commit"), staged \o PutBranch(head, NewId))
           /\ Store(new, IF amend THEN commits[Tip].parents ELSE <<Tip>>)
        \/ /\ Idle /\ ~ok
           /\ Run(Plain("commit"), staged)
           /\ UNCHANGED commits

\* reset --soft, --mixed, --hard: the branch moves first.
Reset(mode, target) ==
    LET new == TreeOf(target)
        files == Checkout(RemoveMissing(work, index, new), new, Path)
    IN  /\ Run(Forced("reset", mode = "hard"),
               PutBranch(head, target)
               \o (IF mode = "soft" THEN <<>>
                   ELSE IF mode = "mixed" THEN Put("index", new)
                   ELSE FileWrites(work, RemoveMissing(work, index, new))
                        \o Put("index", new)
                        \o FileWrites(RemoveMissing(work, index, new), files)))
        /\ UNCHANGED commits

\* Mutant: nothing is compared with the worktree.
MutTransitionClean(new) == TRUE

\* verify_checkout_transition_clean: no tracked file is in the way that
\* differs from its entry, where the target has another entry.
TransitionClean(new) ==
    \A p \in StageZero(index) : index[p] # new[p] => work[p] \in {Absent, index[p]}

\* checkout_clean_worktree_transition: files, then the index
Transition(new) ==
    FileWrites(work, Checkout(RemoveMissing(work, index, new), new, Changed(index, new)))
    \o Put("index", new)

\* checkout_existing, with HEAD at commit `from`: where the branch is at the
\* same commit, only HEAD moves.
SwitchWrites(b, from, to, force) ==
    LET new == TreeOf(to)
    IN  (IF from = to THEN <<>>
         ELSE IF force
         THEN FileWrites(work, Checkout(RemoveMissing(work, HeadTree, new), new, Path))
              \o Put("index", new)
         ELSE Transition(new))
        \o Put("head", b)

Switch(b, force) ==
    /\ Idle /\ b # head
    /\ force \/ branch[b] = Tip \/ TransitionClean(TreeOf(branch[b]))
    /\ Run(Forced("switch", force), SwitchWrites(b, Tip, branch[b], force))
    /\ UNCHANGED commits

\* checkout -B of a branch that exists: the branch moves before anything is
\* checked, and with it HEAD when it is the current one.
ResetBranch(b, start) ==
    LET from == IF b = head THEN start ELSE Tip
    IN  /\ Run(Plain("switch"),
               PutBranch(b, start)
               \o IF from = start \/ TransitionClean(TreeOf(start))
                  THEN SwitchWrites(b, from, start, FALSE) ELSE <<>>)
        /\ UNCHANGED commits

-----------------------------------------------------------------------------
(* merge *)

\* Mutant: MERGE_HEAD is there before the files are touched.
MutMergeWrites(tip, m, mode) ==
    Put("mergeHead", tip) \o Put("mergeMsg", TRUE)
    \o FileWrites(work, m.files) \o Put("index", m.index)

\* What merge_commit writes when the histories have diverged: files and
\* index, then, with conflicts or --no-commit, MERGE_HEAD and MERGE_MSG,
\* with --squash their removal, otherwise the branch.
MergeWrites(tip, m, mode) ==
    LET clean == RemoveMissing(work, HeadTree, m.index)
        files == Checkout(clean, m.index, Path)
        conflicts == {p \in Path : m.index[p] = Unmerged}
        texts == [p \in Path |-> IF p \in conflicts THEN m.files[p] ELSE files[p]]
    IN  FileWrites(work, clean) \o FileWrites(clean, files) \o FileWrites(files, texts)
        \o Put("index", m.index)
        \o CASE conflicts # {} \/ mode = "no-commit" ->
                  Put("mergeHead", tip) \o Put("mergeMsg", TRUE)
             [] conflicts = {} /\ mode = "squash" ->
                  Put("mergeHead", None) \o Put("mergeMsg", FALSE)
             [] OTHER -> PutBranch(head, NewId)

\* merge refuses to start on local changes, and has nothing to do when it is
\* up to date.  A MERGE_HEAD that is there already is not asked for.
CanMerge(b) == Idle /\ Clean /\ branch[b] \notin Ancestors(Tip)

\* merge -s ours
MergeOurs(b) ==
    /\ CanMerge(b)
    /\ Run(Plain("merge"), PutBranch(head, NewId))
    /\ Store(HeadTree, <<Tip, branch[b]>>)

\* --no-ff and --squash ask for a merge where HEAD could be moved.
FastForwards(b, mode) == mode \in {"ff", "no-commit"} /\ Tip \in Ancestors(branch[b])

\* fast_forward_to_cached, which --ff-only calls too
FastForward(b, mode) ==
    /\ CanMerge(b) /\ FastForwards(b, mode)
    /\ Run(Plain("merge"), Transition(TreeOf(branch[b])) \o PutBranch(head, branch[b]))
    /\ UNCHANGED commits

\* merge_commit: merge, also with --no-ff, --no-commit and --squash, of
\* histories that have a common commit.
MergeCommit(b, mode) ==
    /\ CanMerge(b) /\ ~FastForwards(b, mode)
    /\ \E base \in MergeBases(Tip, branch[b]) :
          LET old == TreeOf(base)
              theirs == TreeOf(branch[b])
              m == MergeIndexes(old, HeadTree, theirs)
              writes == MergeWrites(branch[b], m, mode)
              open == Contains(writes, [on |-> "mergeHead", to |-> branch[b]])
          IN  /\ ~AddAdd(old, HeadTree, theirs)
              /\ Run([Plain("merge") EXCEPT !.tip = IF open THEN branch[b] ELSE None], writes)
              /\ IF Last(writes).on = "branch" THEN Store(m.index, <<Tip, branch[b]>>)
                 ELSE UNCHANGED commits

\* Mutant: the files that only the merge had added stay.
MutAbortWrites ==
    Put("index", HeadTree) \o FileWrites(work, Checkout(work, HeadTree, Path))
    \o Put("mergeHead", None) \o Put("mergeMsg", FALSE)

\* merge_abort: a path leaves the index after its file, and MERGE_HEAD goes last.
AbortWrites ==
    LET files == RemoveMissing(work, index, HeadTree)
    IN  FileWrites(work, files) \o Put("index", HeadTree)
        \o FileWrites(files, Checkout(files, HeadTree, Path))
        \o Put("mergeHead", None) \o Put("mergeMsg", FALSE)

MergeAbort ==
    /\ mergeHead # None
    /\ Run(Forced("abort", TRUE), AbortWrites)
    /\ UNCHANGED commits

\* merge --continue needs MERGE_HEAD, MERGE_MSG and no unmerged entry.
MergeContinue ==
    /\ mergeHead # None /\ mergeMsg
    /\ \A p \in Path : index[p] # Unmerged
    /\ Run(Plain("continue"),
           PutBranch(head, NewId) \o Put("mergeHead", None) \o Put("mergeMsg", FALSE))
    /\ Store(index, <<Tip, mergeHead>>)

-----------------------------------------------------------------------------
(* stash *)

\* stash_entries, newest first: without a log, what refs/stash names.
StashEntries ==
    IF stashLog # None THEN Reverse(stashLog)
    ELSE IF stashRef # None THEN <<stashRef>> ELSE <<>>

\* stage_tracked_worktree_changes and stage_recreated_tracked_worktree_paths
Snapshot ==
    [p \in Path |-> IF index[p] = Absent /\ HeadTree[p] # Absent THEN work[p]
                    ELSE StageTracked[p]]

Untracked == [p \in Path |-> IF index[p] = Absent THEN work[p] ELSE Absent]
NoFiles == [p \in Path |-> Absent]

\* write_stash_ref_update, then the files and the index
PushWrites(e, reset) ==
    Put("stashRef", e)
    \o Put("stashLog", Append(IF stashLog = None THEN <<>> ELSE stashLog, e))
    \o reset

\* stash push, with --include-untracked and --keep-index
StashPush(untracked, keep) ==
    LET e == [base |-> Tip, tree |-> Snapshot, index |-> index,
              untracked |-> IF untracked THEN Untracked ELSE NoFiles]
        gone == [p \in Path |-> IF e.untracked[p] # Absent THEN Absent ELSE work[p]]
        files == RemoveMissing(gone, index, HeadTree)
        reset == Checkout(files, HeadTree, Path)
        kept == RemoveMissing(reset, HeadTree, index)
    IN  /\ Idle
        /\ \A p \in Path : index[p] # Unmerged
        /\ ~Clean \/ e.untracked # NoFiles
        /\ Run(Plain("push"),
               PushWrites(e,
                   FileWritesUp(work, gone) \o FileWrites(gone, files) \o FileWrites(files, reset)
                   \o Put("index", HeadTree)
                   \o IF keep THEN FileWrites(reset, kept) \o Put("index", index)
                                  \o FileWrites(kept, Checkout(kept, index, Path))
                      ELSE <<>>))
        /\ UNCHANGED commits

\* stash push --staged.  The files of the staged paths are set to HEAD, with
\* what they hold beyond the index.
StashPushStaged ==
    LET changed == Changed(HeadTree, index)
        e == [base |-> Tip, tree |-> index, index |-> None, untracked |-> NoFiles]
        files == [p \in Path |-> IF p \in changed THEN HeadTree[p] ELSE work[p]]
    IN  /\ Idle /\ changed # {}
        /\ \A p \in Path : index[p] # Unmerged
        /\ Run(Plain("push staged"),
               PushWrites(e, FileWritesUp(work, files) \o Put("index", HeadTree)))
        /\ UNCHANGED commits

\* drop_stash_entry: refs/stash, then the log, which is truncated and
\* written anew, or both are removed.
DropWrites(i) ==
    LET rest == RemoveAt(StashEntries, i)
    IN  IF rest = <<>> THEN Put("stashRef", None) \o Put("stashLog", None)
        ELSE Put("stashRef", rest[1])
             \o Put("stashLog", <<>>) \o Put("stashLog", Reverse(rest))

\* stash_apply_can_preserve_dirty_paths
CanPreserve(e) ==
    LET changed == Changed(TreeOf(e.base), e.tree)
    IN  changed # {} =>
          /\ \A p \in Path : index[p] # Unmerged
          /\ \A p \in changed :
                /\ index[p] = HeadTree[p] \/ (index[p] = e.tree[p] /\ index[p] # Absent)
                /\ index[p] # Absent => work[p] = index[p]

\* apply_tree_delta fails where HEAD has neither of the two entries.
Conflict(base, patch) ==
    \E p \in Changed(base, patch) : HeadTree[p] \notin {base[p], patch[p]}

\* The index that apply_stash_commit leaves, with and without --index
FinalIndex(e, restore) ==
    LET base == TreeOf(e.base) IN
    [p \in Path |->
        CASE restore /\ base[p] # e.index[p] -> e.index[p]
          [] /\ ~restore /\ e.index # None /\ p \in Changed(base, e.tree)
             /\ base[p] = Absent /\ index[p] = Absent -> e.index[p]
          [] OTHER -> index[p]]

\* restore_stash_untracked_index overwrites what is there.
RestoreUntracked(now, e) ==
    LET writes == FileWrites(now, Checkout(now, e.untracked, Path))
    IN  [i \in DOMAIN writes |-> [on |-> "untracked", path |-> writes[i].path, to |-> writes[i].to]]

\* apply_stash_commit
ApplyWrites(e, restore) ==
    LET changed == Changed(TreeOf(e.base), e.tree)
        source == [p \in Path |-> IF p \in changed THEN e.tree[p] ELSE index[p]]
        gone == [p \in Path |-> IF p \in changed /\ e.tree[p] = Absent THEN Absent ELSE work[p]]
        files == Checkout(gone, source, changed)
    IN  FileWrites(work, gone) \o Put("index", source) \o FileWrites(gone, files)
        \o RestoreUntracked(files, e) \o Put("index", FinalIndex(e, restore))

\* Mutant: pop drops the entry before it has applied it.
MutApplyAndDrop(e, restore, i) == DropWrites(i) \o ApplyWrites(e, restore)

ApplyAndDrop(e, restore, i) == ApplyWrites(e, restore) \o DropWrites(i)

\* stash apply and stash pop, with --index.  What cannot be applied is an
\* error, but its untracked files are restored first.
StashApply(i, restore, pop) ==
    LET e == StashEntries[i]
        base == TreeOf(e.base)
        op == [Plain(IF pop THEN "pop" ELSE "apply") EXCEPT !.entry = e]
        fails == Conflict(base, e.tree) \/ (restore /\ Conflict(base, e.index))
    IN  /\ Idle /\ i \in DOMAIN StashEntries
        /\ CanPreserve(e) /\ (restore => e.index # None)
        /\ Run(op, IF fails THEN RestoreUntracked(work, e)
                   ELSE IF pop THEN ApplyAndDrop(e, restore, i)
                   ELSE ApplyWrites(e, restore))
        /\ UNCHANGED commits

StashDrop(i) ==
    /\ i \in DOMAIN StashEntries
    /\ Run(Plain("drop"), DropWrites(i))
    /\ UNCHANGED commits

StashClear ==
    /\ {stashRef, stashLog} # {None}
    /\ Run(Plain("drop"), Put("stashRef", None) \o Put("stashLog", None))
    /\ UNCHANGED commits

-----------------------------------------------------------------------------
(* The writes of a command, one at a time *)

Next1(on) == todo # <<>> /\ Head(todo).on \in on
Rest == /\ todo' = Tail(todo)
        /\ cmd' = IF Tail(todo) = <<>> THEN NoCmd ELSE cmd
        /\ UNCHANGED <<commits, count>>

WriteFile ==
    /\ Next1({"file", "untracked"})
    /\ work' = [work EXCEPT ![Head(todo).path] = Head(todo).to]
    /\ Rest
    /\ UNCHANGED <<branch, head, index, mergeHead, mergeMsg, stashRef, stashLog, ghosts>>

\* fs::rename of rename_worktree_path
RenameFile ==
    /\ Next1({"rename"})
    /\ work' = [work EXCEPT ![Head(todo).to] = work[Head(todo).path],
                            ![Head(todo).path] = Absent]
    /\ Rest
    /\ UNCHANGED <<branch, head, index, mergeHead, mergeMsg, stashRef, stashLog, ghosts>>

\* GitIndex::write_to_path
WriteIndex ==
    /\ Next1({"index"})
    /\ index' = Head(todo).to
    /\ merged' = CASE cmd.op = "merge" -> cmd.tip
                   [] cmd.op \in StagingOp -> merged
                   [] OTHER -> None
    /\ Rest
    /\ UNCHANGED <<branch, head, work, mergeHead, mergeMsg, stashRef, stashLog, stale, doomed>>

\* update_head_to_commit, where HEAD names a branch, and write_ref
WriteBranch ==
    /\ Next1({"branch"})
    /\ branch' = [branch EXCEPT ![Head(todo).name] = Head(todo).to]
    /\ Rest
    /\ UNCHANGED <<head, index, work, mergeHead, mergeMsg, stashRef, stashLog, ghosts>>

\* write_head_symbolic
WriteHead ==
    /\ Next1({"head"})
    /\ head' = Head(todo).to
    /\ Rest
    /\ UNCHANGED <<branch, index, work, mergeHead, mergeMsg, stashRef, stashLog, ghosts>>

\* write_merge_state, and the removal of its files
WriteMergeHead ==
    /\ Next1({"mergeHead"})
    /\ mergeHead' = Head(todo).to
    /\ stale' = FALSE /\ doomed' = {}
    /\ merged' = IF mergeHead' = None THEN None ELSE merged
    /\ Rest
    /\ UNCHANGED <<branch, head, index, work, mergeMsg, stashRef, stashLog>>

WriteMergeMsg ==
    /\ Next1({"mergeMsg"})
    /\ mergeMsg' = Head(todo).to
    /\ Rest
    /\ UNCHANGED <<branch, head, index, work, mergeHead, stashRef, stashLog, ghosts>>

WriteStashRef ==
    /\ Next1({"stashRef"})
    /\ stashRef' = Head(todo).to
    /\ Rest
    /\ UNCHANGED <<branch, head, index, work, mergeHead, mergeMsg, stashLog, ghosts>>

\* append_stash_reflog and rewrite_stash_reflog
WriteStashLog ==
    /\ Next1({"stashLog"})
    /\ stashLog' = Head(todo).to
    /\ Rest
    /\ UNCHANGED <<branch, head, index, work, mergeHead, mergeMsg, stashRef, ghosts>>

-----------------------------------------------------------------------------
(* What happens to the commands *)

\* The process dies between two writes.
Kill ==
    /\ todo # <<>> /\ count.kills < MaxKills
    /\ count' = [count EXCEPT !.kills = @ + 1]
    /\ todo' = <<>> /\ cmd' = NoCmd
    /\ UNCHANGED <<commits, repo, ghosts>>

\* The user writes or removes a file between two commands.
EditFile(p, v) ==
    /\ todo = <<>> /\ count.edits < MaxEdits
    /\ v # work[p]
    /\ work' = [work EXCEPT ![p] = v]
    /\ count' = [count EXCEPT !.edits = @ + 1]
    /\ doomed' = doomed \ {p}
    /\ UNCHANGED <<commits, branch, head, index, mergeHead, mergeMsg, stashRef, stashLog,
                   cmd, todo, merged, stale>>

Write == \/ WriteFile \/ RenameFile \/ WriteIndex \/ WriteBranch \/ WriteHead \/ WriteMergeHead
         \/ WriteMergeMsg \/ WriteStashRef \/ WriteStashLog

Next ==
    \/ \E p \in Path : Add(p)
    \/ AddAll
    \/ \E p \in Path, cached, force \in BOOLEAN : Rm(p, cached, force)
    \/ \E p, q \in Path, force \in BOOLEAN : Mv(p, q, force)
    \/ \E p \in Path, source \in {None} \cup {branch[b] : b \in Branch \ {head}},
          mode \in {"worktree", "staged", "both"} : Restore(p, source, mode)
    \/ CleanUntracked
    \/ \E all, amend \in BOOLEAN : Commit(all, amend)
    \/ \E mode \in {"soft", "mixed", "hard"}, b \in Branch : Reset(mode, branch[b])
    \/ \E b \in Branch, force \in BOOLEAN : Switch(b, force)
    \/ \E b, start \in Branch : ResetBranch(b, branch[start])
    \/ \E b \in Branch : MergeOurs(b)
    \/ \E b \in Branch, mode \in {"ff", "no-commit"} : FastForward(b, mode)
    \/ \E b \in Branch, mode \in {"ff", "no-ff", "no-commit", "squash"} : MergeCommit(b, mode)
    \/ MergeAbort
    \/ MergeContinue
    \/ \E untracked, keep \in BOOLEAN : StashPush(untracked, keep)
    \/ StashPushStaged
    \/ \E i \in DOMAIN StashEntries, restore, pop \in BOOLEAN : StashApply(i, restore, pop)
    \/ \E i \in DOMAIN StashEntries : StashDrop(i)
    \/ StashClear
    \/ Write
    \/ Kill
    \/ \E p \in Path, v \in Written \cup {Absent} : EditFile(p, v)

Spec == Init /\ [][Next]_vars

-----------------------------------------------------------------------------
(* Properties *)

\* The state is what the operations expect: every path has a file or none,
\* entries of the stash are trees, and references name commits that exist.
TypeOK ==
    /\ commits \in Seq([tree : Tree, parents : Seq(Nat)])
    /\ \A c \in DOMAIN commits : ToSet(commits[c].parents) \subseteq 1 .. c - 1
    /\ branch \in [Branch -> DOMAIN commits] /\ head \in Branch
    /\ index \in Index /\ work \in Tree
    /\ mergeHead \in DOMAIN commits \cup {None} /\ mergeMsg \in BOOLEAN
    /\ stashRef \in Entry \cup {None} /\ stashLog \in Seq(Entry) \cup {None}
    /\ \A e \in ToSet(StashEntries) : e.base \in DOMAIN commits
    /\ cmd.op \in Op /\ (todo = <<>>) = (cmd = NoCmd)
    /\ merged \in DOMAIN commits \cup {None} /\ stale \in BOOLEAN /\ doomed \subseteq Path

\* Some commit, the index or a listed stash has this version of the file.
Holds(p, v) ==
    \/ \E c \in DOMAIN commits : commits[c].tree[p] = v
    \/ index[p] = v
    \/ \E e \in ToSet(StashEntries) :
          v \in {e.tree[p], e.untracked[p]} \/ (e.index # None /\ v = e.index[p])

\* No command that was not forced overwrites or removes a file whose version
\* is recorded nowhere: neither an edit, not yet staged, of a tracked file,
\* nor, for stash push, any file at all.  Killed commands included, and
\* whatever the commands before left behind.  (verify_checkout_transition_clean,
\* worktree_clean, stash_apply_can_preserve_dirty_paths, and the order of
\* writes in stash_push.)  Three cases are not covered: untracked files that
\* stash pop restores over a tracked file, files that were untracked or
\* unmerged when the command started, and stash push --staged, which records
\* the index only and then resets the file with its later edits.
EditsAreKept ==
    [][\A p \in cmd.edits, v \in Content :
          (/\ ~cmd.force /\ cmd.op # "push staged"
           /\ Head(todo).on = "file" /\ work[p] = v /\ work'[p] # v)
             => Holds(p, v)']_work

\* merge --abort ends, even when earlier attempts were killed anywhere, with
\* the index and all tracked files as in HEAD and without the files that
\* only the merge had added.  (merge_abort: MERGE_HEAD is removed last, and
\* the index forgets a path only when its file is gone.)
AbortRestores ==
    [][cmd.op = "abort" => Clean /\ \A p \in doomed : work[p] = Absent]_mergeHead

\* The commit that merge --continue makes joins HEAD with the commit whose
\* changes the index holds, however the merge was killed, unless a command
\* other than add, rm, mv and restore ran while MERGE_HEAD was there: commit,
\* reset, switch and stash leave it, and so does an abort that is killed.  (merge_commit writes
\* MERGE_HEAD after the index.)
ContinueJoinsTheMerged ==
    [][(cmd.op = "continue" /\ ~stale /\ branch' # branch)
          => commits[branch'[head]].parents = <<Tip, merged>>]_branch

\* stash pop takes an entry off the list only when every change that it
\* holds, and every untracked file, is in the worktree.  (stash_apply, which
\* drops the entry last.)
PoppedIsApplied ==
    [][cmd.op = "pop" =>
          LET e == cmd.entry IN
          \A p \in Path :
             IF e.untracked[p] # Absent THEN work[p] = e.untracked[p]
             ELSE p \in Changed(TreeOf(e.base), e.tree) => work[p] = e.tree[p]]_stashLog

=============================================================================
