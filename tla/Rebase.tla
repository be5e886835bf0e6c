------------------------------- MODULE Rebase -------------------------------
(***************************************************************************)
(* rebase, cherry-pick and revert (sequencer_impl.rs): a list of commits   *)
(* is replayed one after the other, each by index, worktree and HEAD, and  *)
(* an interactive rebase may stop in between, leaving its state in the     *)
(* directory rebase-merge for `--continue` or `--abort`.                   *)
(*                                                                         *)
(* Abstractions: a commit is the sequence of the trees of its history      *)
(* (linear; messages, authors and dates are left out), so that an ancestor *)
(* is a prefix; a tree maps paths to contents.  HEAD always names one of   *)
(* the places in Branch; a detached HEAD is a place of its own.  Whatever  *)
(* the user does between two commands (edit a file, amend the commit,      *)
(* switch branches) is an action of the environment.                       *)
(***************************************************************************)
EXTENDS SequencesExt

CONSTANTS
    Path,           \* paths
    Content,        \* file contents, with Absent for a path that is not there
    Absent,
    Amended,        \* trees that the user may amend a commit to
    Branch,         \* branches, and HEAD itself when it is detached
    None,           \* no branch, no file, no plan
    Initial,        \* the values of the branches to start from
    MaxItems,       \* bound: items of an edited todo list
    MaxCommands,    \* bound: commands run
    MaxTodos,       \* bound: interactive rebases among them
    MaxEvents       \* bound: commands killed and actions of the user in between

Tree == [Path -> Content]

ASSUME RebaseAssumption ==
    /\ Absent \in Content
    /\ Amended \subseteq Tree
    /\ None \notin Branch
    /\ Initial \subseteq [Branch -> Seq(Tree)]
    /\ \A r \in Initial, b \in Branch : Len(r[b]) > 0
    /\ {MaxItems, MaxCommands, MaxTodos, MaxEvents} \subseteq Nat

VARIABLES
    ref, head,      \* the commit of each branch; the branch that HEAD names
    index, work,    \* the index; the files in the worktree
    dir,            \* rebase-merge: git-rebase-todo and orig-head
    pc, mode,       \* the command that is running
    items,          \* commits still to be replayed, with their commands
    target, orig,   \* new_base_id (or orig-head), and HEAD at the start
    result,         \* how the last command ended
    from, plan,     \* HEAD before the first item, and all items (history)
    saved,          \* what was left of the plan at the last stop, if that is
                    \* what git-rebase-todo should hold (history)
    count           \* commands, interactive ones and events so far

repo == <<ref, head, index, work>>
ghosts == <<from, plan, saved>>
vars == <<ref, head, index, work, dir, pc, mode, items, target, orig, result,
          from, plan, saved, count>>

TodoCommand == {"pick", "reword", "edit", "squash", "fixup", "drop"}
Commit == {c \in Seq(Tree) : Len(c) > 0}
Item == [cmd : TodoCommand \cup {"revert", "apply"}, commit : Commit]
NoDir == [todo |-> None, orig |-> None]
Mode == {"plain", "todo", "continue", "abort", "ff", "pick"}

TypeOK ==
    /\ ref \in [Branch -> Commit]
    /\ head \in Branch
    /\ {index, work} \subseteq Tree
    /\ dir \in [todo : Seq(Item) \cup {None}, orig : Commit \cup {None}]
    /\ pc \in {"idle", "editor", "checkout", "move", "next", "commit",
               "stop", "stopOrig", "rmdir", "done"}
    /\ mode \in Mode
    /\ items \in Seq(Item) /\ plan \in Seq(Item)
    /\ {target, orig, from} \subseteq Commit \cup {None}
    /\ saved \in Seq(Item) \cup {None}
    /\ result \in {"none", "ok", "staged", "stopped", "error", "editor",
                   "refused", "killed"}
    /\ count \in [commands : 0 .. MaxCommands, todos : 0 .. MaxTodos,
                  events : 0 .. MaxEvents]

HEAD == ref[head]

Init ==
    /\ ref \in Initial
    /\ head \in Branch
    /\ index = Last(HEAD) /\ work = index
    /\ dir = NoDir
    /\ pc = "idle" /\ mode = "plain" /\ items = <<>>
    /\ target = None /\ orig = None
    /\ result = "none"
    /\ from = None /\ plan = <<>> /\ saved = None
    /\ count = [commands |-> 0, todos |-> 0, events |-> 0]

-----------------------------------------------------------------------------
(* Trees *)

\* worktree_clean: untracked files do not count.
Clean ==
    /\ index = Last(HEAD)
    /\ \A p \in Path : index[p] # Absent => work[p] = index[p]

\* diff_indexes
Changed(base, patch) == {p \in Path : base[p] # patch[p]}

\* apply_tree_delta fails where the current entry is neither of the two.
Conflict(base, patch, cur) ==
    \E p \in Changed(base, patch) : cur[p] \notin {base[p], patch[p]}

\* apply_tree_delta otherwise
ApplyTreeDelta(base, patch, cur) ==
    [p \in Path |-> IF p \in Changed(base, patch) THEN patch[p] ELSE cur[p]]

\* remove_tracked_paths_missing_from_target
RemoveMissing(files, old, new) ==
    [p \in Path |-> IF old[p] # Absent /\ new[p] = Absent
                    THEN Absent ELSE files[p]]

\* checkout_index with force: an untracked file in the way is overwritten.
CheckoutIndex(files, new) ==
    [p \in Path |-> IF new[p] # Absent THEN new[p] ELSE files[p]]

-----------------------------------------------------------------------------
(* Commands that start, and refuse to *)

Run(todos) ==
    /\ pc = "idle"
    /\ count.commands < MaxCommands /\ count.todos + todos <= MaxTodos
    /\ count' = [count EXCEPT !.commands = @ + 1, !.todos = @ + todos]

\* The command is over; the process exits.
End(r) == pc' = "done" /\ result' = r

Exit ==
    /\ pc = "done"
    /\ pc' = "idle" /\ mode' = "plain"
    /\ items' = <<>> /\ plan' = <<>>
    /\ target' = None /\ orig' = None /\ from' = None
    /\ UNCHANGED <<repo, dir, result, saved, count>>

Refuse ==
    /\ End("refused")
    /\ UNCHANGED <<repo, dir, mode, items, target, orig, ghosts>>

\* The commits of h that u does not have, oldest first.
NotIn(u, h) ==
    LET old == {i \in 1 .. Len(h) : IsPrefix(SubSeq(h, 1, i), u)}
    IN  [i \in 1 .. Len(h) - Cardinality(old) |->
            SubSeq(h, 1, i + Cardinality(old))]

Picks(cs) == [i \in DOMAIN cs |-> [cmd |-> "pick", commit |-> cs[i]]]

\* rebase [-i] [--onto onto] u [b]; with b, HEAD is made to name b and nothing
\* is checked out.
Rebase(u, onto, b, interactive) ==
    /\ Run(IF interactive THEN 1 ELSE 0)
    /\ IF ~Clean THEN Refuse ELSE
       LET h == IF b = None THEN head ELSE b
           cs == NotIn(ref[u], ref[h])
       IN  /\ head' = h
           /\ orig' = ref[h]
           /\ target' = ref[IF onto = None THEN u ELSE onto]
           /\ IF onto = None /\ IsPrefix(ref[h], ref[u])
              THEN /\ mode' = "ff" /\ pc' = "checkout"
                   /\ UNCHANGED <<dir, items, saved>>
              ELSE /\ items' = Picks(cs)
                   /\ mode' = IF interactive THEN "todo" ELSE "plain"
                   /\ pc' = IF interactive THEN "editor" ELSE "checkout"
                   /\ dir' = IF interactive THEN [dir EXCEPT !.todo = Picks(cs)]
                                            ELSE dir
                   /\ saved' = IF interactive THEN None ELSE saved
           /\ UNCHANGED <<ref, index, work, result, from, plan>>

\* run_sequence_editor, then rebase-merge is removed and the list parsed.
EditTodo ==
    /\ pc = "editor"
    /\ \/ \E n \in 0 .. MaxItems :
            \E s \in [1 .. n -> [cmd : TodoCommand,
                                 commit : {items[i].commit : i \in DOMAIN items}]] :
                items' = s
          /\ dir' = NoDir /\ pc' = "checkout" /\ UNCHANGED result
       \/ dir' = NoDir /\ End("editor") /\ UNCHANGED items  \* does not parse
       \/ End("editor") /\ UNCHANGED <<dir, items>>         \* the editor failed
    /\ UNCHANGED <<repo, mode, target, orig, ghosts, count>>

\* cherry-pick or revert of one commit, with or without --no-commit.
SequencerPick(cmd, c) ==
    /\ Run(0)
    /\ IF ~Clean THEN Refuse ELSE
       /\ items' = <<[cmd |-> cmd, commit |-> c]>>
       /\ mode' = "pick" /\ pc' = "next"
       /\ UNCHANGED <<repo, dir, target, orig, result, ghosts>>

\* rebase --continue: the state is removed before the first item is replayed.
RebaseContinue ==
    /\ Run(0)
    /\ IF dir.todo = None \/ ~Clean THEN Refuse ELSE
       /\ items' = dir.todo
       /\ dir' = NoDir
       /\ mode' = "continue" /\ pc' = "next"
       /\ from' = HEAD /\ plan' = IF saved = None THEN items' ELSE saved
       /\ UNCHANGED <<repo, target, orig, result, saved>>

\* rebase --abort
RebaseAbort ==
    /\ Run(0)
    /\ IF dir.orig = None THEN Refuse ELSE
       /\ target' = dir.orig
       /\ mode' = "abort" /\ pc' = "checkout"
       /\ UNCHANGED <<repo, dir, items, orig, result, ghosts>>

-----------------------------------------------------------------------------
(* Steps *)

\* checkout_worktree(target)
CheckoutWorktree ==
    /\ pc = "checkout"
    /\ work' = CheckoutIndex(RemoveMissing(work, Last(HEAD), Last(target)),
                             Last(target))
    /\ index' = Last(target)
    /\ pc' = "move"
    /\ UNCHANGED <<ref, head, dir, mode, items, target, orig, result, ghosts,
                   count>>

\* update_head_to_commit(target)
MoveHead ==
    /\ pc = "move"
    /\ ref' = [ref EXCEPT ![head] = target]
    /\ CASE mode = "ff" -> End("ok") /\ UNCHANGED <<from, plan>>
         [] mode = "abort" -> pc' = "rmdir" /\ UNCHANGED <<result, from, plan>>
         [] OTHER -> pc' = "next" /\ from' = target /\ plan' = items
                     /\ UNCHANGED result
    /\ UNCHANGED <<head, index, work, dir, mode, items, target, orig, saved,
                   count>>

\* remove_path_if_exists(rebase_dir) at the end of --abort
RemoveDir ==
    /\ pc = "rmdir"
    /\ dir' = NoDir
    /\ End("ok")
    /\ UNCHANGED <<repo, mode, items, target, orig, ghosts, count>>

Melds(it) == it.cmd \in {"squash", "fixup"}

\* The two trees whose difference is applied.
BaseTree(it) == Last(IF it.cmd = "revert" THEN it.commit ELSE Front(it.commit))
PatchTree(it) == Last(IF it.cmd = "revert" THEN Front(it.commit) ELSE it.commit)

\* Mutant: the index is written before the conflict is noticed.
MutPickApply ==
    /\ pc = "next"
    /\ items # <<>>
    /\ LET it == Head(items)
       IN  /\ Conflict(BaseTree(it), PatchTree(it), Last(HEAD))
           /\ index' = ApplyTreeDelta(BaseTree(it), PatchTree(it), Last(HEAD))
    /\ End("error")
    /\ UNCHANGED <<ref, head, work, dir, mode, items, target, orig, ghosts,
                   count>>

\* sequencer_pick, rebase_pick_commit_with_message and rebase_squash_commit,
\* up to the point where index and worktree hold the result.  A plain rebase
\* leaves the worktree to the end, but for the files that go.
PickApply ==
    /\ pc = "next"
    /\ items # <<>>
    /\ LET it == Head(items)
           cur == Last(HEAD)
           new == ApplyTreeDelta(BaseTree(it), PatchTree(it), cur)
           rest == RemoveMissing(work, cur, new)
       IN  /\ it.cmd # "drop"
           /\ \/ /\ it.cmd = "reword"              \* the editor failed
                 /\ End("editor") /\ UNCHANGED <<index, work>>
              \/ IF \/ mode # "plain" /\ ~Melds(it) /\ ~Clean
                    \/ Len(it.commit) = 1
                    \/ Conflict(BaseTree(it), PatchTree(it), cur)
                 THEN End("error") /\ UNCHANGED <<index, work>>
                 ELSE /\ index' = new
                      /\ work' = IF mode = "plain" THEN rest
                                 ELSE CheckoutIndex(rest, new)
                      /\ pc' = "commit" /\ UNCHANGED result
    /\ UNCHANGED <<ref, head, dir, mode, items, target, orig, ghosts, count>>

DropItem ==
    /\ pc = "next"
    /\ items # <<>> /\ Head(items).cmd = "drop"
    /\ items' = Tail(items)
    /\ UNCHANGED <<repo, dir, pc, mode, target, orig, result, ghosts, count>>

\* The commit that replaces or follows HEAD.
NewCommit(it) == Append(IF Melds(it) THEN Front(HEAD) ELSE HEAD, index)

\* ... and the rest of them: write the commit and move HEAD.
PickCommit ==
    /\ pc = "commit"
    /\ LET it == Head(items)
       IN  \/ /\ it.cmd = "squash"                 \* the editor failed
              /\ End("editor") /\ UNCHANGED <<ref, items>>
           \/ IF it.cmd = "apply"
              THEN End("staged") /\ UNCHANGED <<ref, items>>
              ELSE IF ~Melds(it) /\ index = Last(HEAD)
              THEN End("error") /\ UNCHANGED <<ref, items>>
              ELSE /\ ref' = [ref EXCEPT ![head] = NewCommit(it)]
                   /\ items' = Tail(items)
                   /\ pc' = IF it.cmd = "edit" /\ mode = "todo"
                            THEN "stop" ELSE "next"
                   /\ UNCHANGED result
    /\ UNCHANGED <<head, index, work, dir, mode, target, orig, ghosts, count>>

\* Mutant: the item that was edited is written to the list again.
MutStopTodo ==
    /\ pc = "stop"
    /\ dir' = [dir EXCEPT !.todo = SubSeq(plan, Len(plan) - Len(items), Len(plan))]
    /\ saved' = items
    /\ pc' = "stopOrig"
    /\ UNCHANGED <<repo, mode, items, target, orig, result, from, plan, count>>

\* write_rebase_edit_state: the todo list ...
StopTodo ==
    /\ pc = "stop"
    /\ dir' = [dir EXCEPT !.todo = items]
    /\ saved' = items
    /\ pc' = "stopOrig"
    /\ UNCHANGED <<repo, mode, items, target, orig, result, from, plan, count>>

\* ... then orig-head.
StopOrig ==
    /\ pc = "stopOrig"
    /\ dir' = [dir EXCEPT !.orig = orig]
    /\ End("stopped")
    /\ UNCHANGED <<repo, mode, items, target, orig, ghosts, count>>

\* The list is through; a plain rebase that picked anything now brings the
\* worktree up to the index.
Finish ==
    /\ pc = "next"
    /\ items = <<>>
    /\ work' = IF mode = "plain" /\ plan # <<>> THEN CheckoutIndex(work, index)
                                               ELSE work
    /\ End("ok")
    /\ UNCHANGED <<ref, head, index, dir, mode, items, target, orig, ghosts,
                   count>>

Kill ==
    /\ pc \notin {"idle", "done"}
    /\ count.events < MaxEvents
    /\ count' = [count EXCEPT !.events = @ + 1]
    /\ End("killed")
    /\ UNCHANGED <<repo, dir, mode, items, target, orig, ghosts>>

-----------------------------------------------------------------------------
(* The user, between two commands *)

User ==
    /\ pc = "idle"
    /\ count.events < MaxEvents
    /\ count' = [count EXCEPT !.events = @ + 1]
    /\ result' = "none"
    /\ UNCHANGED <<dir, pc, mode, items, target, orig, ghosts>>

\* A file appears, changes or goes.
EditFile(p, v) ==
    /\ User
    /\ work' = [work EXCEPT ![p] = v]
    /\ UNCHANGED <<ref, head, index>>

\* git commit --amend, with everything staged
Amend(t) ==
    /\ User
    /\ Clean
    /\ ref' = [ref EXCEPT ![head] = Append(Front(HEAD), t)]
    /\ index' = t
    /\ work' = CheckoutIndex(RemoveMissing(work, Last(HEAD), t), t)
    /\ UNCHANGED head

\* git switch b
Switch(b) ==
    /\ User
    /\ Clean
    /\ head' = b
    /\ index' = Last(ref[b])
    /\ work' = CheckoutIndex(RemoveMissing(work, Last(HEAD), index'), index')
    /\ UNCHANGED ref

Next ==
    \/ \E u \in Branch, onto, b \in Branch \cup {None}, i \in BOOLEAN :
        Rebase(u, onto, b, i)
    \/ \E b \in Branch, cmd \in {"pick", "revert", "apply"} :
        SequencerPick(cmd, ref[b])
    \/ EditTodo \/ RebaseContinue \/ RebaseAbort
    \/ CheckoutWorktree \/ MoveHead \/ RemoveDir
    \/ PickApply \/ DropItem \/ PickCommit \/ StopTodo \/ StopOrig \/ Finish
    \/ Exit \/ Kill
    \/ \E p \in Path, v \in Content : EditFile(p, v)
    \/ \E t \in Amended : Amend(t)
    \/ \E b \in Branch : Switch(b)

Spec == Init /\ [][Next]_vars

-----------------------------------------------------------------------------
(* Properties *)

\* The items of s that set path p to something else than their parent has.
Setters(s, p) ==
    {i \in DOMAIN s : s[i].cmd # "drop"
                      /\ Last(s[i].commit)[p] # Last(Front(s[i].commit))[p]}

\* A rebase that succeeds, in one go or after a stop, an amended commit and
\* --continue, has replayed its whole plan: every path is as the last item
\* that changes it says and otherwise as it was in the new base (or the
\* amended commit), and there is one commit per item that does not meld.
ReplaysPlan ==
    pc = "done" /\ result = "ok" /\ mode \in {"plain", "todo", "continue"} =>
        /\ \A p \in Path :
            LET S == Setters(plan, p)
            IN  Last(HEAD)[p] = IF S = {} THEN Last(from)[p]
                                ELSE Last(plan[Max(S)].commit)[p]
        /\ Len(HEAD) = Len(from)
             + Cardinality({i \in DOMAIN plan :
                   plan[i].cmd \notin {"drop", "squash", "fixup"}})

\* A command that succeeds leaves index and tracked files as HEAD has them,
\* even a plain rebase, which lets the worktree lag behind while it picks; and
\* an interactive rebase, a cherry-pick or a revert that gives up on an item (a
\* conflict, nothing to commit) has not begun to change index or files for that
\* item: what was replayed so far is checked out and clean.
ItemsLeaveClean ==
    pc = "done" /\ (result = "ok" \/ (result = "error" /\ mode # "plain")) => Clean
=============================================================================
