---------------------------- MODULE RebaseProofs ----------------------------
(***************************************************************************)
(* What rebase, cherry-pick and revert guarantee, for any commits and any  *)
(* todo list: a rebase that succeeds has replayed its plan, and whatever   *)
(* succeeds, or gives up on an item, leaves index and tracked files as     *)
(* HEAD has them.                                                          *)
(***************************************************************************)
EXTENDS Rebase, TLAPS, FiniteSetTheorems, SequenceTheorems

-----------------------------------------------------------------------------
(* The inductive invariant *)

TodoItem == [cmd : TodoCommand, commit : Commit]

\* The todo list on disk is what the last stop left, and only cherry-pick and
\* revert replay anything else than the items of such a list.
TodoInv ==
    /\ dir.todo \in Seq(TodoItem) \cup {None}
    /\ dir.todo # None /\ saved # None => dir.todo = saved
    /\ mode # "pick" => items \in Seq(TodoItem)
    /\ pc = "idle" => mode = "plain" /\ items = <<>>
    /\ pc = "editor" => mode = "todo" /\ target \in Commit
    /\ pc \in {"stop", "stopOrig"} => mode = "todo"
    /\ pc \in {"checkout", "move"} =>
          target \in Commit /\ mode \in {"plain", "todo", "ff", "abort"}
    /\ pc \in {"next", "commit"} => mode \in {"plain", "todo", "continue", "pick"}
    /\ pc = "rmdir" => mode = "abort"

\* The tracked files are as the index has them.
Tracked == \A x \in Path : index[x] # Absent => work[x] = index[x]

\* The tree that the item at hand leads to.
Picked ==
    ApplyTreeDelta(BaseTree(Head(items)), PatchTree(Head(items)), Last(HEAD))

\* Where index and worktree are, step by step.
StageInv ==
    /\ pc = "move" => index = Last(target) /\ Tracked
    /\ pc = "next" => index = Last(HEAD) /\ (mode # "plain" \/ plan = <<>> => Tracked)
    /\ pc = "commit" =>
          /\ items # <<>> /\ Head(items).cmd # "drop"
          /\ index = Picked
          /\ mode # "plain" => Tracked
    /\ pc = "rmdir" => Clean
    /\ pc \in {"next", "commit"} /\ plan = <<>> /\ mode = "plain" => items = <<>>

\* Path x has the contents v once the first k items of s are replayed on c.
Replayed(s, c, x, k, v) ==
    \/ v = Last(c)[x] /\ \A i \in Setters(s, x) : i > k
    \/ \E i \in Setters(s, x) :
          /\ i <= k /\ v = Last(s[i].commit)[x]
          /\ \A j \in Setters(s, x) : j > i => j > k

\* Those of the first k items of s that make a commit of their own.
OwnCommits(s, k) ==
    {i \in DOMAIN s : i <= k /\ s[i].cmd \notin {"drop", "squash", "fixup"}}

\* How far the list has been replayed.
Done == Len(plan) - Len(items)

PlanInv ==
    pc \in {"next", "commit"} /\ mode # "pick" =>
        /\ plan \in Seq(TodoItem) /\ from \in Commit
        /\ Len(items) <= Len(plan)
        /\ \A i \in 1 .. Len(items) : items[i] = plan[Done + i]
        /\ \A x \in Path : Replayed(plan, from, x, Done, Last(HEAD)[x])
        /\ Len(HEAD) = Len(from) + Cardinality(OwnCommits(plan, Done))

Progress == StageInv /\ PlanInv /\ ReplaysPlan /\ ItemsLeaveClean

RebaseInv == TypeOK /\ TodoInv /\ Progress

-----------------------------------------------------------------------------
(* Commits and trees *)

LEMMA CommitFacts ==
  ASSUME NEW c \in Commit
  PROVE  /\ c \in Seq(Tree) /\ Len(c) \in Nat \ {0} /\ Last(c) \in Tree
         /\ Front(c) \in Seq(Tree) /\ Len(Front(c)) = Len(c) - 1
         /\ Len(c) # 1 => Front(c) \in Commit
<1>1. c \in Seq(Tree) /\ Len(c) \in Nat \ {0}
  BY DEF Commit
<1>2. Last(c) \in Tree
  BY <1>1 DEF Last
<1>3. 1 \in Int /\ Len(c) - 1 \in Int /\ \A i \in 1 .. Len(c) - 1 : c[i] \in Tree
  BY <1>1
<1> DEFINE f == SubSeq(c, 1, Len(c) - 1)
<1>4. f \in Seq(Tree) /\ Len(f) = IF 1 <= Len(c) - 1 THEN Len(c) - 1 - 1 + 1 ELSE 0
  BY <1>3, SubSeqProperties
<1>5. Front(c) = f
  BY DEF Front
<1> HIDE DEF f
<1>6. Len(f) = Len(c) - 1
  <2>1. CASE 1 <= Len(c) - 1
    BY <1>1, <1>4, <2>1
  <2>2. CASE ~(1 <= Len(c) - 1)
    <3>1. Len(c) \in Nat /\ Len(c) > 0
      BY <1>1
    <3>2. Len(c) = 1
      BY <2>2, <3>1
    <3>3. Len(f) = 0
      BY <1>4, <2>2
    <3> QED
      BY <3>2, <3>3
  <2> QED
    BY <2>1, <2>2
<1>7. Front(c) \in Seq(Tree) /\ Len(Front(c)) = Len(c) - 1
  BY <1>4, <1>5, <1>6
<1> QED
  BY <1>1, <1>2, <1>7 DEF Commit

LEMMA AppendFacts ==
  ASSUME NEW s \in Seq(Tree), NEW t \in Tree
  PROVE  /\ Append(s, t) \in Commit /\ Last(Append(s, t)) = t
         /\ Len(Append(s, t)) = Len(s) + 1
  BY DEF Last, Commit

LEMMA HeadCommit == ASSUME TypeOK PROVE HEAD \in Commit
  BY DEF TypeOK, HEAD

LEMMA TreeOps ==
  ASSUME NEW f \in Tree, NEW t \in Tree, NEW u \in Tree
  PROVE  /\ RemoveMissing(f, t, u) \in Tree
         /\ CheckoutIndex(f, t) \in Tree
         /\ ApplyTreeDelta(f, t, u) \in Tree
  BY RebaseAssumption
     DEF RebaseAssumption, RemoveMissing, CheckoutIndex, ApplyTreeDelta, Changed, Tree

\* What is checked out is there.
LEMMA CheckedOut ==
  ASSUME NEW f, NEW t, NEW x \in Path, t[x] # Absent
  PROVE  CheckoutIndex(f, t)[x] = t[x]
  BY DEF CheckoutIndex

LEMMA ItemTrees ==
  ASSUME NEW it \in Item, Len(it.commit) # 1
  PROVE  BaseTree(it) \in Tree /\ PatchTree(it) \in Tree
<1>1. it.commit \in Commit
  BY DEF Item
<1>2. Last(it.commit) \in Tree /\ Front(it.commit) \in Commit
  BY <1>1, CommitFacts
<1>3. Last(Front(it.commit)) \in Tree
  BY <1>2, CommitFacts
<1> QED
  BY <1>2, <1>3 DEF BaseTree, PatchTree

\* The list that rebase starts from.
LEMMA PicksType ==
  ASSUME NEW u \in Commit, NEW h \in Commit
  PROVE  Picks(NotIn(u, h)) \in Seq(TodoItem)
<1> DEFINE old == {i \in 1 .. Len(h) : IsPrefix(SubSeq(h, 1, i), u)}
           n == Cardinality(old)
<1>0. h \in Seq(Tree) /\ Len(h) \in Nat
  BY CommitFacts
<1>1. n \in Nat
  <2>1. IsFiniteSet(1 .. Len(h))
    BY <1>0, FS_Interval
  <2>2. IsFiniteSet(old)
    BY <2>1, FS_Subset
  <2> QED
    BY <2>2, FS_CardinalityType
<1> HIDE DEF n, old
<1>2. NotIn(u, h) = [i \in 1 .. Len(h) - n |-> SubSeq(h, 1, i + n)]
  BY DEF NotIn, n, old
<1>3. ASSUME NEW i \in 1 .. Len(h) - n PROVE SubSeq(h, 1, i + n) \in Commit
  <2>1. i + n \in 1 .. Len(h) /\ i + n \in 0 .. Len(h) /\ 1 \in 1 .. Len(h) + 1
    BY <1>0, <1>1
  <2>2. SubSeq(h, 1, i + n) \in Seq(Tree) /\ Len(SubSeq(h, 1, i + n)) = i + n
    BY <1>0, <2>1, SubSeqProperties
  <2> QED
    BY <2>1, <2>2 DEF Commit
<1>4. DOMAIN NotIn(u, h) = 1 .. Len(h) - n
  BY <1>2
<1>5. Picks(NotIn(u, h)) =
        [i \in 1 .. Len(h) - n |-> [cmd |-> "pick", commit |-> SubSeq(h, 1, i + n)]]
  BY <1>2, <1>4 DEF Picks
<1>6. \A i \in 1 .. Len(h) - n :
         [cmd |-> "pick", commit |-> SubSeq(h, 1, i + n)] \in TodoItem
  BY <1>3 DEF TodoItem, TodoCommand
<1>7. CASE n <= Len(h)
  <2>1. Len(h) - n \in Nat
    BY <1>0, <1>1, <1>7
  <2> QED
    BY <1>5, <1>6, <2>1, SeqDef
<1>8. CASE ~(n <= Len(h))
  <2>1. 1 .. Len(h) - n = 1 .. 0
    BY <1>0, <1>1, <1>8
  <2>2. Picks(NotIn(u, h)) \in [1 .. 0 -> TodoItem]
    BY <1>5, <1>6, <2>1
  <2> QED
    BY <2>2, SeqDef
<1> QED
  BY <1>7, <1>8

LEMMA TodoItems ==
  ASSUME NEW s \in Seq(TodoItem)
  PROVE  /\ s \in Seq(Item)
         /\ s # <<>> => Tail(s) \in Seq(TodoItem) /\ Head(s) \in TodoItem
<1>1. TodoItem \subseteq Item
  BY DEF TodoItem, Item
<1> QED
  BY <1>1

-----------------------------------------------------------------------------
(* Replaying one more item *)

LEMMA ReplayStart ==
  ASSUME NEW s \in Seq(TodoItem), NEW c, NEW x
  PROVE  /\ Replayed(s, c, x, 0, Last(c)[x])
         /\ Cardinality(OwnCommits(s, 0)) = 0
<1>1. \A i \in Setters(s, x) : i > 0
  BY DEF Setters
<1>2. OwnCommits(s, 0) = {}
  BY DEF OwnCommits
<1> QED
  BY <1>1, <1>2, FS_EmptySet DEF Replayed

LEMMA ReplayDrop ==
  ASSUME NEW s \in Seq(TodoItem), NEW c, NEW x, NEW k \in 0 .. Len(s) - 1, NEW v,
         s[k + 1].cmd = "drop", Replayed(s, c, x, k, v)
  PROVE  Replayed(s, c, x, k + 1, v)
<1>1. \A i \in Setters(s, x) : i \in Nat /\ i # k + 1
  BY DEF Setters
<1> QED
  BY <1>1 DEF Replayed

LEMMA ReplayPick ==
  ASSUME NEW s \in Seq(TodoItem), NEW c, NEW x \in Path, NEW k \in 0 .. Len(s) - 1,
         NEW v \in Tree, s[k + 1].cmd # "drop", Replayed(s, c, x, k, v[x])
  PROVE  Replayed(s, c, x, k + 1,
                  ApplyTreeDelta(BaseTree(s[k + 1]), PatchTree(s[k + 1]), v)[x])
<1> DEFINE it == s[k + 1]
           new == ApplyTreeDelta(BaseTree(it), PatchTree(it), v)
<1>0. it \in TodoItem /\ k + 1 \in DOMAIN s
  OBVIOUS
<1>1. BaseTree(it) = Last(Front(it.commit)) /\ PatchTree(it) = Last(it.commit)
  BY <1>0 DEF BaseTree, PatchTree, TodoItem, TodoCommand
<1>2. \A i \in Setters(s, x) : i \in Nat
  BY DEF Setters
<1>3. CASE BaseTree(it)[x] # PatchTree(it)[x]
  <2>1. new[x] = Last(it.commit)[x]
    BY <1>1, <1>3 DEF ApplyTreeDelta, Changed
  <2>2. k + 1 \in Setters(s, x)
    BY <1>0, <1>1, <1>3 DEF Setters
  <2> QED
    BY <1>2, <2>1, <2>2 DEF Replayed
<1>4. CASE BaseTree(it)[x] = PatchTree(it)[x]
  <2>1. new[x] = v[x]
    BY <1>4 DEF ApplyTreeDelta, Changed
  <2>2. k + 1 \notin Setters(s, x)
    BY <1>0, <1>1, <1>4 DEF Setters
  <2> HIDE DEF new
  <2>3. \A i \in Setters(s, x) : i > k => i > k + 1
    BY <1>2, <2>2
  <2>4. Replayed(s, c, x, k + 1, v[x])
    BY <1>2, <2>3 DEF Replayed
  <2> QED
    BY <2>1, <2>4 DEF new
<1> QED
  BY <1>3, <1>4

LEMMA OwnCommitStep ==
  ASSUME NEW s \in Seq(TodoItem), NEW k \in 0 .. Len(s) - 1
  PROVE  /\ Cardinality(OwnCommits(s, k)) \in Nat
         /\ Cardinality(OwnCommits(s, k + 1)) =
              Cardinality(OwnCommits(s, k))
                + IF s[k + 1].cmd \in {"drop", "squash", "fixup"} THEN 0 ELSE 1
<1> DEFINE A == OwnCommits(s, k)
           B == OwnCommits(s, k + 1)
<1>1. IsFiniteSet(A)
  <2>1. IsFiniteSet(1 .. Len(s))
    BY FS_Interval
  <2>2. A \subseteq 1 .. Len(s)
    BY DEF OwnCommits
  <2> QED
    BY <2>1, <2>2, FS_Subset
<1>2. Cardinality(A) \in Nat
  BY <1>1, FS_CardinalityType
<1>3. CASE s[k + 1].cmd \in {"drop", "squash", "fixup"}
  <2>1. A = B
    BY <1>3 DEF OwnCommits
  <2> QED
    BY <1>2, <1>3, <2>1
<1>4. CASE s[k + 1].cmd \notin {"drop", "squash", "fixup"}
  <2>1. B = A \cup {k + 1} /\ k + 1 \notin A
    BY <1>4 DEF OwnCommits
  <2>2. Cardinality(A \cup {k + 1}) = Cardinality(A) + 1
    BY <1>1, <2>1, FS_AddElement
  <2> QED
    BY <1>2, <1>4, <2>1, <2>2
<1> QED
  BY <1>3, <1>4

\* At the end of the list: what ReplaysPlan says.
LEMMA ReplayAll ==
  ASSUME NEW s \in Seq(TodoItem), NEW c, NEW x, NEW v, Replayed(s, c, x, Len(s), v)
  PROVE  v = IF Setters(s, x) = {} THEN Last(c)[x]
             ELSE Last(s[Max(Setters(s, x))].commit)[x]
<1>1. \A i \in Setters(s, x) : i \in 1 .. Len(s)
  BY DEF Setters
<1>2. CASE Setters(s, x) = {}
  BY <1>2 DEF Replayed
<1>3. CASE Setters(s, x) # {}
  <2>1. PICK i \in Setters(s, x) :
          /\ v = Last(s[i].commit)[x]
          /\ \A j \in Setters(s, x) : j > i => j > Len(s)
    BY <1>1, <1>3 DEF Replayed
  <2>2. \A j \in Setters(s, x) : i >= j
    BY <1>1, <2>1
  <2>3. Max(Setters(s, x)) = i
    <3>1. \A m \in Setters(s, x) : (\A j \in Setters(s, x) : m >= j) => m = i
      BY <1>1, <2>1, <2>2
    <3> QED
      BY <2>1, <2>2, <3>1 DEF Max
  <2> QED
    BY <1>3, <2>1, <2>3
<1> QED
  BY <1>2, <1>3

LEMMA OwnCommitsAll ==
  ASSUME NEW s \in Seq(TodoItem)
  PROVE  OwnCommits(s, Len(s)) =
           {i \in DOMAIN s : s[i].cmd \notin {"drop", "squash", "fixup"}}
  BY DEF OwnCommits

-----------------------------------------------------------------------------
(* Types *)

LEMMA InitType == Init => TypeOK
<1> SUFFICES ASSUME Init PROVE TypeOK
  OBVIOUS
<1>1. ref \in [Branch -> Commit] /\ head \in Branch
  BY RebaseAssumption DEF RebaseAssumption, Init, Commit
<1>2. HEAD \in Commit
  BY <1>1 DEF HEAD
<1>3. index \in Tree /\ work \in Tree
  BY <1>2, CommitFacts DEF Init
<1>4. count \in [commands : 0 .. MaxCommands, todos : 0 .. MaxTodos,
                 events : 0 .. MaxEvents]
  BY RebaseAssumption DEF RebaseAssumption, Init
<1> QED
  BY <1>1, <1>3, <1>4 DEF Init, TypeOK, Mode, NoDir

\* The bounds are kept.
LEMMA CountType ==
  ASSUME TypeOK, NEW n \in {0, 1}, Run(n) \/ User \/ Kill
  PROVE  count' \in [commands : 0 .. MaxCommands, todos : 0 .. MaxTodos,
                     events : 0 .. MaxEvents]
<1>1. /\ MaxCommands \in Nat /\ MaxTodos \in Nat /\ MaxEvents \in Nat
      /\ count.commands \in 0 .. MaxCommands /\ count.todos \in 0 .. MaxTodos
      /\ count.events \in 0 .. MaxEvents
      /\ count \in [commands : 0 .. MaxCommands, todos : 0 .. MaxTodos,
                    events : 0 .. MaxEvents]
  BY RebaseAssumption DEF RebaseAssumption, TypeOK
<1>2. CASE Run(n)
  <2>1. /\ count' = [count EXCEPT !.commands = @ + 1, !.todos = @ + n]
        /\ count.commands + 1 \in 0 .. MaxCommands /\ count.todos + n \in 0 .. MaxTodos
    BY <1>1, <1>2 DEF Run
  <2> QED
    BY <1>1, <2>1
<1>3. CASE User \/ Kill
  <2>1. /\ count' = [count EXCEPT !.events = @ + 1]
        /\ count.events + 1 \in 0 .. MaxEvents
    BY <1>1, <1>3 DEF User, Kill
  <2> QED
    BY <1>1, <2>1
<1> QED
  BY <1>2, <1>3

\* Writing a todo list or orig-head keeps the rest of the directory.
LEMMA DirType ==
  ASSUME TypeOK
  PROVE  /\ NoDir \in [todo : Seq(Item) \cup {None}, orig : Commit \cup {None}]
         /\ \A s \in Seq(Item) :
              [dir EXCEPT !.todo = s] \in
                 [todo : Seq(Item) \cup {None}, orig : Commit \cup {None}]
         /\ \A c \in Commit \cup {None} :
              [dir EXCEPT !.orig = c] \in
                 [todo : Seq(Item) \cup {None}, orig : Commit \cup {None}]
         /\ dir.todo \in Seq(Item) \cup {None} /\ dir.orig \in Commit \cup {None}
  BY DEF TypeOK, NoDir

LEMMA RebaseType ==
  ASSUME TypeOK, NEW u \in Branch, NEW onto \in Branch \cup {None},
         NEW b \in Branch \cup {None}, NEW i \in BOOLEAN, Rebase(u, onto, b, i)
  PROVE  TypeOK'
<1> DEFINE h == IF b = None THEN head ELSE b
           t == ref[IF onto = None THEN u ELSE onto]
           s == Picks(NotIn(ref[u], ref[h]))
<1>1. Run(IF i THEN 1 ELSE 0) /\ (IF i THEN 1 ELSE 0) \in {0, 1}
  BY DEF Rebase
<1>2. count' \in [commands : 0 .. MaxCommands, todos : 0 .. MaxTodos,
                  events : 0 .. MaxEvents]
  BY <1>1, CountType
<1>3. CASE ~Clean
  BY <1>2, <1>3 DEF Rebase, Refuse, End, TypeOK, repo, ghosts
<1>4. CASE Clean
  <2>1. h \in Branch /\ ref[h] \in Commit /\ t \in Commit /\ ref[u] \in Commit
    BY DEF TypeOK
  <2>2. s \in Seq(Item)
    <3>1. s \in Seq(TodoItem)
      BY <2>1, PicksType
    <3> HIDE DEF s
    <3> QED
      BY <3>1, TodoItems
  <2>3. /\ head' = h /\ orig' = ref[h] /\ target' = t
        /\ UNCHANGED <<ref, index, work, result, from, plan>>
        /\ \/ mode' = "ff" /\ pc' = "checkout" /\ UNCHANGED <<dir, items, saved>>
           \/ /\ items' = s
              /\ mode' \in {"todo", "plain"} /\ pc' \in {"editor", "checkout"}
              /\ dir' = [dir EXCEPT !.todo = s] \/ dir' = dir
              /\ saved' = None \/ saved' = saved
    BY <1>4 DEF Rebase
  <2> HIDE DEF h, t, s
  <2>4. dir' \in [todo : Seq(Item) \cup {None}, orig : Commit \cup {None}]
    <3>1. dir \in [todo : Seq(Item) \cup {None}, orig : Commit \cup {None}]
      BY DEF TypeOK
    <3> QED
      BY <2>2, <2>3, <3>1, DirType
  <2>5. items' \in Seq(Item) /\ mode' \in Mode /\ saved' \in Seq(Item) \cup {None}
        /\ pc' \in {"editor", "checkout"}
    BY <2>2, <2>3 DEF TypeOK, Mode
  <2>6. {target', orig', from'} \subseteq Commit \cup {None}
        /\ ref' \in [Branch -> Commit] /\ head' \in Branch
    BY <2>1, <2>3 DEF TypeOK
  <2> QED
    BY <1>2, <2>3, <2>4, <2>5, <2>6 DEF TypeOK
<1> QED
  BY <1>3, <1>4

LEMMA TypeStep == TypeOK /\ TodoInv /\ StageInv /\ [Next]_vars => TypeOK'
<1> SUFFICES ASSUME TypeOK, TodoInv, StageInv, [Next]_vars PROVE TypeOK'
  OBVIOUS
<1> DEFINE Count == [commands : 0 .. MaxCommands, todos : 0 .. MaxTodos,
                     events : 0 .. MaxEvents]
           Dir == [todo : Seq(Item) \cup {None}, orig : Commit \cup {None}]
<1>1. HEAD \in Commit /\ Last(HEAD) \in Tree /\ Front(HEAD) \in Seq(Tree)
  BY HeadCommit, CommitFacts
<1>2. index \in Tree /\ work \in Tree /\ dir \in Dir /\ count \in Count
  BY DEF TypeOK
<1>3. ASSUME NEW u \in Branch, NEW onto \in Branch \cup {None},
             NEW b \in Branch \cup {None}, NEW i \in BOOLEAN, Rebase(u, onto, b, i)
      PROVE  TypeOK'
  BY <1>3, RebaseType
<1>4. ASSUME NEW b \in Branch, NEW cmd \in {"pick", "revert", "apply"},
             SequencerPick(cmd, ref[b])
      PROVE  TypeOK'
  <2>1. count' \in Count
    BY <1>4, CountType DEF SequencerPick
  <2>2. [cmd |-> cmd, commit |-> ref[b]] \in Item
    BY DEF Item, TodoCommand, TypeOK
  <2>3. <<[cmd |-> cmd, commit |-> ref[b]]>> \in Seq(Item)
    BY <2>2
  <2> QED
    BY <1>4, <2>1, <2>3 DEF SequencerPick, Refuse, End, TypeOK, repo, ghosts, Mode
<1>5. CASE EditTodo
  <2>1. dir' \in Dir
    BY <1>2, <1>5, DirType DEF EditTodo
  <2>2. items' \in Seq(Item)
    <3>1. CASE UNCHANGED items
      BY <3>1 DEF TypeOK
    <3>2. ASSUME NEW n \in 0 .. MaxItems,
                 NEW s \in [1 .. n -> [cmd : TodoCommand,
                              commit : {items[i].commit : i \in DOMAIN items}]],
                 items' = s
          PROVE  items' \in Seq(Item)
      <4>1. \A i \in DOMAIN items : items[i].commit \in Commit
        <5>1. items \in Seq(Item)
          BY DEF TypeOK
        <5>2. \A i \in DOMAIN items : items[i] \in Item
          BY <5>1
        <5> QED
          BY <5>2 DEF Item
      <4>2. n \in Nat /\ \A i \in 1 .. n : s[i] \in Item
        BY <4>1, RebaseAssumption DEF RebaseAssumption, Item
      <4>3. s \in [1 .. n -> Item]
        BY <4>2
      <4> QED
        BY <3>2, <4>2, <4>3, SeqDef
    <3> QED
      BY <1>5, <3>1, <3>2 DEF EditTodo
  <2> QED
    BY <1>5, <2>1, <2>2 DEF EditTodo, End, TypeOK, repo, ghosts
<1>6. CASE RebaseContinue
  <2>1. count' \in Count
    BY <1>6, CountType DEF RebaseContinue
  <2>2. CASE dir.todo = None \/ ~Clean
    BY <1>6, <2>1, <2>2 DEF RebaseContinue, Refuse, End, TypeOK, repo, ghosts
  <2>3. CASE ~(dir.todo = None \/ ~Clean)
    <3>1. dir.todo \in Seq(Item) /\ dir' = NoDir /\ dir' \in Dir
      BY <1>6, <2>3, DirType DEF RebaseContinue
    <3>2. items' \in Seq(Item) /\ plan' \in Seq(Item)
      BY <1>6, <2>3, <3>1 DEF RebaseContinue, TypeOK
    <3> QED
      BY <1>1, <1>6, <2>1, <2>3, <3>1, <3>2 DEF RebaseContinue, TypeOK, repo, Mode
  <2> QED
    BY <2>2, <2>3
<1>7. CASE RebaseAbort
  <2>1. count' \in Count
    BY <1>7, CountType DEF RebaseAbort
  <2>2. target' \in Commit \cup {None}
    BY <1>7, DirType DEF RebaseAbort, Refuse, TypeOK
  <2> QED
    BY <1>7, <2>1, <2>2 DEF RebaseAbort, Refuse, End, TypeOK, repo, ghosts, Mode
<1>8. CASE CheckoutWorktree
  <2>1. Last(target) \in Tree
    BY <1>8, CommitFacts DEF CheckoutWorktree, TodoInv
  <2>2. work' \in Tree /\ index' \in Tree
    BY <1>1, <1>2, <1>8, <2>1, TreeOps DEF CheckoutWorktree
  <2> QED
    BY <1>8, <2>2 DEF CheckoutWorktree, TypeOK, ghosts
<1>9. CASE MoveHead
  <2>1. target \in Commit
    BY <1>9 DEF MoveHead, TodoInv
  <2>2. ref' \in [Branch -> Commit]
    BY <1>9, <2>1 DEF MoveHead, TypeOK
  <2>3. /\ pc' \in {"done", "rmdir", "next"}
        /\ result' \in {"ok", result} /\ from' \in {from, target} /\ plan' \in {plan, items}
    BY <1>9 DEF MoveHead, End, TodoInv
  <2> QED
    BY <1>9, <2>1, <2>2, <2>3 DEF MoveHead, TypeOK
<1>10. CASE RemoveDir
  <2>1. dir' \in Dir
    BY <1>10, DirType DEF RemoveDir
  <2> QED
    BY <1>10, <2>1 DEF RemoveDir, End, TypeOK, repo, ghosts
<1>11. CASE PickApply
  <2> DEFINE it == Head(items)
             new == ApplyTreeDelta(BaseTree(it), PatchTree(it), Last(HEAD))
             rest == RemoveMissing(work, Last(HEAD), new)
  <2>1. index' \in Tree /\ work' \in Tree
    <3>1. CASE UNCHANGED <<index, work>>
      BY <1>2, <3>1
    <3>2. CASE Len(it.commit) # 1 /\ index' = new /\ work' \in {rest, CheckoutIndex(rest, new)}
      <4>1. it \in Item
        BY <1>11 DEF PickApply, TypeOK
      <4>2. new \in Tree
        BY <1>1, <3>2, <4>1, ItemTrees, TreeOps
      <4> HIDE DEF new
      <4>3. rest \in Tree
        BY <1>1, <1>2, <4>2, TreeOps
      <4> HIDE DEF rest
      <4> QED
        BY <3>2, <4>2, <4>3, TreeOps
    <3> QED
      BY <1>11, <3>1, <3>2 DEF PickApply
  <2> QED
    BY <1>11, <2>1 DEF PickApply, End, TypeOK, ghosts
<1>12. CASE DropItem
  BY <1>12 DEF DropItem, TypeOK, repo, ghosts
<1>13. CASE PickCommit
  <2>0. items # <<>>
    BY <1>13 DEF PickCommit, StageInv
  <2>1. ref' \in [Branch -> Commit]
    <3>1. NewCommit(Head(items)) \in Commit
      BY <1>1, <1>2, AppendFacts, CommitFacts DEF NewCommit
    <3> QED
      BY <1>13, <3>1 DEF PickCommit, TypeOK
  <2>2. items' \in Seq(Item)
    <3>1. items \in Seq(Item) /\ Tail(items) \in Seq(Item)
      BY <2>0 DEF TypeOK
    <3>2. items' = items \/ items' = Tail(items)
      BY <1>13 DEF PickCommit
    <3> QED
      BY <3>1, <3>2
  <2> QED
    BY <1>13, <2>1, <2>2 DEF PickCommit, End, TypeOK, ghosts
<1>14. CASE StopTodo
  <2>1. dir' \in Dir
    BY <1>14, DirType DEF StopTodo, TypeOK
  <2> QED
    BY <1>14, <2>1 DEF StopTodo, TypeOK, repo
<1>15. CASE StopOrig
  <2>1. dir' \in Dir
    BY <1>15, DirType DEF StopOrig, TypeOK
  <2> QED
    BY <1>15, <2>1 DEF StopOrig, End, TypeOK, repo, ghosts
<1>16. CASE Finish
  <2>1. work' \in Tree
    BY <1>2, <1>16, TreeOps DEF Finish
  <2> QED
    BY <1>16, <2>1 DEF Finish, End, TypeOK, ghosts
<1>17. CASE Exit
  BY <1>17 DEF Exit, TypeOK, repo, Mode
<1>18. CASE Kill
  <2>1. count' \in Count
    BY <1>18, CountType
  <2> QED
    BY <1>18, <2>1 DEF Kill, End, TypeOK, repo, ghosts
<1>19. ASSUME NEW x \in Path, NEW v \in Content, EditFile(x, v) PROVE TypeOK'
  <2>1. count' \in Count
    BY <1>19, CountType DEF EditFile
  <2>2. work' \in Tree
    BY <1>2, <1>19 DEF EditFile, Tree
  <2> QED
    BY <1>19, <2>1, <2>2 DEF EditFile, User, TypeOK, ghosts
<1>20. ASSUME NEW t \in Amended, Amend(t) PROVE TypeOK'
  <2>1. count' \in Count
    BY <1>20, CountType DEF Amend
  <2>2. t \in Tree
    BY RebaseAssumption DEF RebaseAssumption
  <2>3. work' \in Tree /\ index' \in Tree
    BY <1>1, <1>2, <1>20, <2>2, TreeOps DEF Amend
  <2>4. ref' \in [Branch -> Commit]
    BY <1>1, <1>20, <2>2, AppendFacts DEF Amend, TypeOK
  <2> QED
    BY <1>20, <2>1, <2>3, <2>4 DEF Amend, User, TypeOK, ghosts
<1>21. ASSUME NEW b \in Branch, Switch(b) PROVE TypeOK'
  <2>1. count' \in Count
    BY <1>21, CountType DEF Switch
  <2>2. Last(ref[b]) \in Tree
    BY CommitFacts DEF TypeOK
  <2>3. work' \in Tree /\ index' \in Tree
    BY <1>1, <1>2, <1>21, <2>2, TreeOps DEF Switch
  <2> QED
    BY <1>21, <2>1, <2>3 DEF Switch, User, TypeOK, ghosts
<1>22. CASE UNCHANGED vars
  BY <1>22 DEF vars, TypeOK
<1> QED
  BY <1>3, <1>4, <1>5, <1>6, <1>7, <1>8, <1>9, <1>10, <1>11, <1>12, <1>13, <1>14,
     <1>15, <1>16, <1>17, <1>18, <1>19, <1>20, <1>21, <1>22 DEF Next

-----------------------------------------------------------------------------
(* The todo list *)

LEMMA InitTodo == Init => TodoInv
<1>1. <<>> \in Seq(TodoItem)
  OBVIOUS
<1> QED
  BY <1>1 DEF Init, TodoInv, NoDir

LEMMA RebaseTodo ==
  ASSUME TypeOK, TodoInv, NEW u \in Branch, NEW onto \in Branch \cup {None},
         NEW b \in Branch \cup {None}, NEW i \in BOOLEAN, Rebase(u, onto, b, i)
  PROVE  TodoInv'
<1> DEFINE h == IF b = None THEN head ELSE b
           t == ref[IF onto = None THEN u ELSE onto]
           s == Picks(NotIn(ref[u], ref[h]))
<1>1. pc = "idle"
  BY DEF Rebase, Run
<1>2. CASE ~Clean
  BY <1>1, <1>2 DEF Rebase, Refuse, End, TodoInv, repo, ghosts
<1>3. CASE Clean
  <2>1. h \in Branch /\ ref[h] \in Commit /\ t \in Commit /\ ref[u] \in Commit
    BY DEF TypeOK
  <2>2. s \in Seq(TodoItem)
    BY <2>1, PicksType
  <2>3. /\ target' = t
        /\ \/ mode' = "ff" /\ pc' = "checkout" /\ UNCHANGED <<dir, items, saved>>
           \/ /\ items' = s
              /\ i /\ mode' = "todo" /\ pc' = "editor"
              /\ dir' = [dir EXCEPT !.todo = s] /\ saved' = None
           \/ /\ items' = s
              /\ ~i /\ mode' = "plain" /\ pc' = "checkout"
              /\ UNCHANGED <<dir, saved>>
    BY <1>3 DEF Rebase
  <2>4. dir.todo \in Seq(TodoItem) \cup {None}
        /\ dir \in [todo : Seq(Item) \cup {None}, orig : Commit \cup {None}]
    BY DEF TodoInv, TypeOK
  <2> HIDE DEF h, t, s
  <2>5. dir'.todo \in Seq(TodoItem) \cup {None}
    BY <2>2, <2>3, <2>4
  <2> QED
    BY <1>1, <2>1, <2>2, <2>3, <2>5 DEF TodoInv
<1> QED
  BY <1>2, <1>3

LEMMA TodoStep == TypeOK /\ TodoInv /\ StageInv /\ [Next]_vars => TodoInv'
<1> SUFFICES ASSUME TypeOK, TodoInv, StageInv, [Next]_vars PROVE TodoInv'
  OBVIOUS
<1>1. /\ dir.todo \in Seq(TodoItem) \cup {None}
      /\ dir \in [todo : Seq(Item) \cup {None}, orig : Commit \cup {None}]
      /\ NoDir.todo = None
  BY DEF TodoInv, TypeOK, NoDir
<1>2. <<>> \in Seq(TodoItem)
  OBVIOUS
<1>3. ASSUME NEW u \in Branch, NEW onto \in Branch \cup {None},
             NEW b \in Branch \cup {None}, NEW i \in BOOLEAN, Rebase(u, onto, b, i)
      PROVE  TodoInv'
  BY <1>3, RebaseTodo
<1>4. ASSUME NEW b \in Branch, NEW cmd \in {"pick", "revert", "apply"},
             SequencerPick(cmd, ref[b])
      PROVE  TodoInv'
  BY <1>4 DEF SequencerPick, Run, Refuse, End, TodoInv, repo, ghosts
<1>5. CASE EditTodo
  <2>1. items \in Seq(TodoItem)
    BY <1>5 DEF EditTodo, TodoInv
  <2>2. items' \in Seq(TodoItem)
    <3>1. CASE UNCHANGED items
      BY <2>1, <3>1
    <3>2. ASSUME NEW n \in 0 .. MaxItems,
                 NEW s \in [1 .. n -> [cmd : TodoCommand,
                              commit : {items[i].commit : i \in DOMAIN items}]],
                 items' = s
          PROVE  items' \in Seq(TodoItem)
      <4>0. \A i \in DOMAIN items : items[i] \in TodoItem
        BY <2>1
      <4>1. \A i \in DOMAIN items : items[i].commit \in Commit
        BY <4>0 DEF TodoItem
      <4>2. n \in Nat /\ \A i \in 1 .. n : s[i] \in TodoItem
        BY <4>1, RebaseAssumption DEF RebaseAssumption, TodoItem
      <4>3. s \in [1 .. n -> TodoItem]
        BY <4>2
      <4> QED
        BY <3>2, <4>2, <4>3, SeqDef
    <3> QED
      BY <1>5, <3>1, <3>2 DEF EditTodo
  <2>3. /\ pc' \in {"checkout", "done"} /\ mode' = mode /\ mode = "todo"
        /\ saved' = saved /\ target' = target /\ (dir' = NoDir \/ dir' = dir)
    BY <1>5 DEF EditTodo, End, TodoInv, ghosts
  <2>4. pc' = "checkout" => target' \in Commit
    BY <2>3, <1>5 DEF EditTodo, End, TodoInv
  <2> QED
    BY <1>1, <2>2, <2>3, <2>4 DEF TodoInv
<1>6. CASE RebaseContinue
  <2>1. CASE dir.todo = None \/ ~Clean
    BY <1>6, <2>1 DEF RebaseContinue, Run, Refuse, End, TodoInv, repo, ghosts
  <2>2. CASE ~(dir.todo = None \/ ~Clean)
    BY <1>1, <1>6, <2>2 DEF RebaseContinue, Run, TodoInv, repo
  <2> QED
    BY <2>1, <2>2
<1>7. CASE RebaseAbort
  BY <1>1, <1>2, <1>7, DirType DEF RebaseAbort, Run, Refuse, End, TodoInv, repo, ghosts
<1>8. CASE CheckoutWorktree
  BY <1>8 DEF CheckoutWorktree, TodoInv, ghosts
<1>9. CASE MoveHead
  BY <1>9 DEF MoveHead, End, TodoInv
<1>10. CASE RemoveDir
  BY <1>1, <1>10 DEF RemoveDir, End, TodoInv, repo, ghosts
<1>11. CASE PickApply
  BY <1>11 DEF PickApply, End, TodoInv, ghosts
<1>12. CASE DropItem
  BY <1>12, TodoItems DEF DropItem, TodoInv, repo, ghosts
<1>13. CASE PickCommit
  <2>1. items # <<>>
    BY <1>13 DEF PickCommit, StageInv
  <2>2. mode # "pick" => items' \in Seq(TodoItem)
    <3>1. items' = items \/ items' = Tail(items)
      BY <1>13 DEF PickCommit
    <3> QED
      BY <2>1, <3>1, TodoItems DEF TodoInv
  <2>3. /\ pc' \in {"done", "next"} \/ (pc' = "stop" /\ mode = "todo")
        /\ UNCHANGED <<mode, dir, saved, target>>
    BY <1>13 DEF PickCommit, End, ghosts
  <2>4. mode \in {"plain", "todo", "continue", "pick"}
    BY <1>13 DEF PickCommit, TodoInv
  <2> QED
    BY <2>2, <2>3, <2>4 DEF TodoInv
<1>14. CASE StopTodo
  <2>1. mode = "todo" /\ items \in Seq(TodoItem) /\ dir'.todo = items
    BY <1>1, <1>14 DEF StopTodo, TodoInv
  <2> QED
    BY <1>14, <2>1 DEF StopTodo, TodoInv, repo
<1>15. CASE StopOrig
  <2>1. dir'.todo = dir.todo
    BY <1>1, <1>15 DEF StopOrig
  <2> QED
    BY <1>15, <2>1 DEF StopOrig, End, TodoInv, repo, ghosts
<1>16. CASE Finish
  BY <1>16 DEF Finish, End, TodoInv, ghosts
<1>17. CASE Exit
  BY <1>2, <1>17 DEF Exit, TodoInv, repo
<1>18. CASE Kill
  BY <1>18 DEF Kill, End, TodoInv, repo, ghosts
<1>19. ASSUME NEW x \in Path, NEW v \in Content, EditFile(x, v) PROVE TodoInv'
  BY <1>19 DEF EditFile, User, TodoInv, ghosts
<1>20. ASSUME NEW t \in Amended, Amend(t) PROVE TodoInv'
  BY <1>20 DEF Amend, User, TodoInv, ghosts
<1>21. ASSUME NEW b \in Branch, Switch(b) PROVE TodoInv'
  BY <1>21 DEF Switch, User, TodoInv, ghosts
<1>22. CASE UNCHANGED vars
  BY <1>22 DEF vars, TodoInv
<1> QED
  BY <1>3, <1>4, <1>5, <1>6, <1>7, <1>8, <1>9, <1>10, <1>11, <1>12, <1>13, <1>14,
     <1>15, <1>16, <1>17, <1>18, <1>19, <1>20, <1>21, <1>22 DEF Next

-----------------------------------------------------------------------------
(* Index, worktree and HEAD *)

\* Nothing is claimed while no item is being replayed.
LEMMA Vacuous ==
  ASSUME \/ pc' \in {"idle", "editor", "checkout", "stop", "stopOrig"}
         \/ pc' = "done" /\ result' \notin {"ok", "error"}
  PROVE  Progress'
  BY DEF Progress, StageInv, PlanInv, ReplaysPlan, ItemsLeaveClean

LEMMA CleanIsTracked == Clean <=> index = Last(HEAD) /\ Tracked
  BY DEF Clean, Tracked

\* checkout_worktree brings index and tracked files to the target.
LEMMA CheckoutProgress ==
  ASSUME TypeOK, TodoInv, Progress, CheckoutWorktree
  PROVE  Progress'
<1>1. Last(target) = index' /\ target' = target /\ pc' = "move"
  BY DEF CheckoutWorktree
<1>2. Tracked'
  BY <1>1, CheckedOut DEF CheckoutWorktree, Tracked
<1> QED
  BY <1>1, <1>2 DEF Progress, StageInv, PlanInv, ReplaysPlan, ItemsLeaveClean

\* Where a list is begun: on the new base, or on the HEAD that --continue finds.
LEMMA StartProgress ==
  ASSUME pc' = "next", (index = Last(HEAD))', Tracked', HEAD' \in Commit,
         items' \in Seq(TodoItem), plan' = items', from' = HEAD'
  PROVE  Progress'
<1>1. StageInv'
  BY DEF StageInv
<1>2. PlanInv'
  <2> DEFINE s == plan'
             c == HEAD'
  <2>1. s \in Seq(TodoItem) /\ Len(s) \in Nat /\ Len(c) \in Nat
    BY CommitFacts
  <2>2. Done' = 0
    <3>1. Done' = Len(s) - Len(s)
      BY DEF Done
    <3> QED
      BY <2>1, <3>1
  <2>3. \A x \in Path : Replayed(s, c, x, 0, Last(c)[x])
    BY <2>1, ReplayStart
  <2>4. \A x \in Path : Replayed(plan, from, x, Done, Last(HEAD)[x])'
    BY <2>2, <2>3
  <2>5. Cardinality(OwnCommits(s, 0)) = 0
    BY <2>1, ReplayStart
  <2>6. (Len(HEAD) = Len(from) + Cardinality(OwnCommits(plan, Done)))'
    BY <2>1, <2>2, <2>5
  <2>7. (\A i \in 1 .. Len(items) : items[i] = plan[Done + i])'
    BY <2>2
  <2> QED
    BY <2>1, <2>4, <2>6, <2>7 DEF PlanInv
<1> QED
  BY <1>1, <1>2 DEF Progress, ReplaysPlan, ItemsLeaveClean

LEMMA ContinueProgress ==
  ASSUME TypeOK, TodoInv, Progress, RebaseContinue
  PROVE  Progress'
<1>1. CASE dir.todo = None \/ ~Clean
  BY <1>1, Vacuous DEF RebaseContinue, Refuse, End
<1>2. CASE ~(dir.todo = None \/ ~Clean)
  <2>1. /\ pc' = "next" /\ items' = dir.todo /\ from' = HEAD /\ UNCHANGED repo
        /\ plan' = IF saved = None THEN items' ELSE saved
    BY <1>2 DEF RebaseContinue
  <2>2. items' \in Seq(TodoItem) /\ plan' = items'
    BY <1>2, <2>1 DEF TodoInv
  <2>3. (index = Last(HEAD))' /\ Tracked' /\ HEAD' = HEAD
    BY <1>2, <2>1, CleanIsTracked DEF repo, Tracked, HEAD
  <2> QED
    BY <2>1, <2>2, <2>3, HeadCommit, StartProgress
<1> QED
  BY <1>1, <1>2

LEMMA MoveProgress ==
  ASSUME TypeOK, TodoInv, Progress, MoveHead
  PROVE  Progress'
<1>1. /\ pc = "move" /\ target \in Commit /\ mode \in {"plain", "todo", "ff", "abort"}
      /\ index = Last(target) /\ Tracked
  BY DEF MoveHead, TodoInv, Progress, StageInv
<1>2. HEAD' = target /\ UNCHANGED <<index, work, mode, items>>
  BY DEF MoveHead, TypeOK, HEAD
<1>3. (index = Last(HEAD))' /\ Tracked' /\ Clean'
  BY <1>1, <1>2 DEF Tracked, Clean
<1>4. CASE mode = "ff"
  <2>1. pc' = "done" /\ mode' = "ff"
    BY <1>2, <1>4 DEF MoveHead, End
  <2> QED
    BY <1>3, <2>1 DEF Progress, StageInv, PlanInv, ReplaysPlan, ItemsLeaveClean
<1>5. CASE mode = "abort"
  <2>1. pc' = "rmdir"
    BY <1>5 DEF MoveHead
  <2> QED
    BY <1>3, <2>1 DEF Progress, StageInv, PlanInv, ReplaysPlan, ItemsLeaveClean
<1>6. CASE mode \in {"plain", "todo"}
  <2>1. pc' = "next" /\ from' = target /\ plan' = items
    BY <1>6 DEF MoveHead
  <2>2. items' \in Seq(TodoItem)
    BY <1>2, <1>6 DEF TodoInv
  <2> QED
    BY <1>1, <1>2, <1>3, <2>1, <2>2, StartProgress
<1> QED
  BY <1>1, <1>4, <1>5, <1>6

\* An item whose tree is worked out goes to the index, and to the worktree
\* unless the rebase is a plain one; one that is given up leaves both alone.
LEMMA ApplyProgress ==
  ASSUME TypeOK, TodoInv, Progress, PickApply
  PROVE  Progress'
<1> DEFINE new == Picked
           rest == RemoveMissing(work, Last(HEAD), new)
<1>1. /\ pc = "next" /\ items # <<>> /\ Head(items).cmd # "drop"
      /\ UNCHANGED <<ref, head, mode, items, plan, from>> /\ HEAD' = HEAD
  BY DEF PickApply, ghosts, HEAD
<1>2. /\ index = Last(HEAD) /\ (mode # "plain" \/ plan = <<>> => Tracked)
      /\ mode = "plain" => plan # <<>>
  BY <1>1 DEF Progress, StageInv
<1>3. CASE End("editor")
  BY <1>3, Vacuous DEF End
<1>4. CASE End("error") /\ UNCHANGED <<index, work>>
  <2>1. mode # "plain" => Clean'
    BY <1>1, <1>2, <1>4 DEF Clean, Tracked
  <2> QED
    BY <1>1, <1>4, <2>1
       DEF End, Progress, StageInv, PlanInv, ReplaysPlan, ItemsLeaveClean
<1>5. CASE /\ pc' = "commit" /\ index' = new
           /\ work' = IF mode = "plain" THEN rest ELSE CheckoutIndex(rest, new)
  <2>1. (index = Picked)'
    BY <1>1, <1>5 DEF Picked
  <2> HIDE DEF new, rest
  <2>2. mode # "plain" => Tracked'
    BY <1>5, CheckedOut DEF Tracked
  <2>3. StageInv'
    BY <1>1, <1>2, <1>5, <2>1, <2>2 DEF StageInv
  <2>4. PlanInv'
    <3>1. CASE mode # "pick"
      <4>1. Done' = Done
        BY <1>1 DEF Done
      <4>2. pc \in {"next", "commit"} /\ mode # "pick" /\ PlanInv
        BY <1>1, <3>1 DEF Progress
      <4> QED
        BY <1>1, <4>1, <4>2 DEF PlanInv
    <3>2. CASE mode = "pick"
      BY <1>1, <3>2 DEF PlanInv
    <3> QED
      BY <3>1, <3>2
  <2> QED
    BY <1>5, <2>3, <2>4 DEF Progress, ReplaysPlan, ItemsLeaveClean
<1> QED
  <2>1. \/ End("editor")
        \/ End("error") /\ UNCHANGED <<index, work>>
        \/ /\ pc' = "commit" /\ index' = new
           /\ work' = IF mode = "plain" THEN rest ELSE CheckoutIndex(rest, new)
    BY DEF PickApply, Picked
  <2> HIDE DEF new, rest
  <2> QED
    BY <1>3, <1>4, <1>5, <2>1

\* One item less to replay.
LEMMA ListStep ==
  ASSUME PlanInv, pc \in {"next", "commit"}, mode # "pick", items # <<>>,
         items \in Seq(TodoItem), items' = Tail(items), plan' = plan
  PROVE  /\ Done \in 0 .. Len(plan) - 1 /\ Done' = Done + 1
         /\ plan[Done + 1] = Head(items)
         /\ Len(items') <= Len(plan')
         /\ (\A i \in 1 .. Len(items) : items[i] = plan[Done + i])'
<1>1. /\ plan \in Seq(TodoItem) /\ Len(plan) \in Nat /\ Len(items) <= Len(plan)
      /\ \A i \in 1 .. Len(items) : items[i] = plan[Done + i]
  BY DEF PlanInv
<1>2. /\ Len(items) \in Nat /\ Len(items) > 0 /\ Head(items) = items[1]
      /\ Len(items') = Len(items) - 1
      /\ \A i \in 1 .. Len(items') : items'[i] = items[i + 1]
  OBVIOUS
<1>3. Done \in 0 .. Len(plan) - 1 /\ Done' = Done + 1 /\ Len(items') <= Len(plan')
  BY <1>1, <1>2 DEF Done
<1>4. plan[Done + 1] = Head(items)
  BY <1>1, <1>2
<1>5. ASSUME NEW i \in 1 .. Len(items') PROVE items'[i] = plan'[Done' + i]
  <2>1. i + 1 \in 1 .. Len(items) /\ items'[i] = items[i + 1]
    BY <1>2
  <2>2. items[i + 1] = plan[Done + (i + 1)]
    BY <1>1, <2>1
  <2>3. Done + (i + 1) = Done' + i
    BY <1>3
  <2> QED
    BY <2>1, <2>2, <2>3
<1> QED
  BY <1>3, <1>4, <1>5

LEMMA DropProgress ==
  ASSUME TypeOK, TodoInv, Progress, DropItem
  PROVE  Progress'
<1>1. /\ pc = "next" /\ pc' = "next" /\ items # <<>> /\ Head(items).cmd = "drop"
      /\ items' = Tail(items)
      /\ UNCHANGED <<ref, head, index, work, mode, plan, from>> /\ HEAD' = HEAD
      /\ Tracked' = Tracked
  BY DEF DropItem, repo, ghosts, HEAD, Tracked
<1>2. StageInv'
  BY <1>1 DEF Progress, StageInv
<1>3. PlanInv'
  <2>1. CASE mode = "pick"
    BY <1>1, <2>1 DEF PlanInv
  <2>2. CASE mode # "pick"
    <3>0. items \in Seq(TodoItem) /\ PlanInv
      BY <2>2 DEF TodoInv, Progress
    <3>1. /\ Done \in 0 .. Len(plan) - 1 /\ Done' = Done + 1
          /\ plan[Done + 1] = Head(items)
          /\ Len(items') <= Len(plan')
          /\ (\A i \in 1 .. Len(items) : items[i] = plan[Done + i])'
      BY <1>1, <2>2, <3>0, ListStep
    <3>2. /\ plan \in Seq(TodoItem) /\ from \in Commit
          /\ \A x \in Path : Replayed(plan, from, x, Done, Last(HEAD)[x])
          /\ Len(HEAD) = Len(from) + Cardinality(OwnCommits(plan, Done))
      BY <1>1, <2>2, <3>0 DEF PlanInv
    <3>3. \A x \in Path : Replayed(plan, from, x, Done + 1, Last(HEAD)[x])
      BY <1>1, <3>1, <3>2, ReplayDrop
    <3>4. Cardinality(OwnCommits(plan, Done + 1)) = Cardinality(OwnCommits(plan, Done))
      BY <1>1, <3>1, <3>2, OwnCommitStep
    <3>5. (\A x \in Path : Replayed(plan, from, x, Done, Last(HEAD)[x]))'
      BY <1>1, <3>1, <3>3
    <3>6. (Len(HEAD) = Len(from) + Cardinality(OwnCommits(plan, Done)))'
      BY <1>1, <3>1, <3>2, <3>4
    <3> QED
      BY <1>1, <3>1, <3>2, <3>5, <3>6 DEF PlanInv
  <2> QED
    BY <2>1, <2>2
<1> QED
  BY <1>1, <1>2, <1>3 DEF Progress, ReplaysPlan, ItemsLeaveClean

\* The commit that an item makes carries the item's changes, and there is one
\* more of them unless it melds into the one before.
LEMMA CommitProgress ==
  ASSUME TypeOK, TodoInv, Progress, PickCommit
  PROVE  Progress'
<1> DEFINE it == Head(items)
<1>1. /\ pc = "commit" /\ items # <<>> /\ it.cmd # "drop"
      /\ index = Picked /\ (mode # "plain" => Tracked)
      /\ plan = <<>> /\ mode = "plain" => items = <<>>
      /\ UNCHANGED <<head, index, work, mode, plan, from>> /\ Tracked' = Tracked
  BY DEF PickCommit, ghosts, Progress, StageInv, Tracked
<1>2. CASE pc' = "stop" \/ End("editor") \/ End("staged")
  BY <1>2, Vacuous DEF End
<1>3. CASE End("error") /\ index = Last(HEAD) /\ UNCHANGED <<ref, items>>
  <2>1. mode # "plain" => Clean'
    BY <1>1, <1>3 DEF Clean, Tracked, HEAD
  <2> QED
    BY <1>1, <1>3, <2>1
       DEF End, Progress, StageInv, PlanInv, ReplaysPlan, ItemsLeaveClean
<1>4. CASE /\ pc' = "next" /\ items' = Tail(items)
           /\ ref' = [ref EXCEPT ![head] = NewCommit(it)]
  <2>1. HEAD' = NewCommit(it)
    BY <1>1, <1>4 DEF HEAD, TypeOK
  <2>2. HEAD \in Commit /\ HEAD \in Seq(Tree) /\ Len(HEAD) \in Nat /\ Last(HEAD) \in Tree
        /\ Front(HEAD) \in Seq(Tree) /\ Len(Front(HEAD)) = Len(HEAD) - 1
        /\ index \in Tree
    BY HeadCommit, CommitFacts DEF TypeOK
  <2>3. /\ Last(HEAD') = index
        /\ Len(HEAD') = Len(HEAD) + IF Melds(it) THEN 0 ELSE 1
    <3>1. CASE Melds(it)
      BY <2>1, <2>2, <3>1, AppendFacts DEF NewCommit
    <3>2. CASE ~Melds(it)
      BY <2>1, <2>2, <3>2, AppendFacts DEF NewCommit
    <3> QED
      BY <3>1, <3>2
  <2>4. StageInv'
    BY <1>1, <1>4, <2>3 DEF StageInv
  <2>5. PlanInv'
    <3>1. CASE mode = "pick"
      BY <1>1, <3>1 DEF PlanInv
    <3>2. CASE mode # "pick"
      <4>0. items \in Seq(TodoItem) /\ PlanInv
        BY <3>2 DEF TodoInv, Progress
      <4>1. /\ Done \in 0 .. Len(plan) - 1 /\ Done' = Done + 1
            /\ plan[Done + 1] = it
            /\ Len(items') <= Len(plan')
            /\ (\A i \in 1 .. Len(items) : items[i] = plan[Done + i])'
        BY <1>1, <1>4, <3>2, <4>0, ListStep
      <4>2. /\ plan \in Seq(TodoItem) /\ from \in Commit /\ Len(from) \in Nat
            /\ \A x \in Path : Replayed(plan, from, x, Done, Last(HEAD)[x])
            /\ Len(HEAD) = Len(from) + Cardinality(OwnCommits(plan, Done))
        BY <1>1, <3>2, <4>0, CommitFacts DEF PlanInv
      <4>3. \A x \in Path : Replayed(plan, from, x, Done + 1, index[x])
        <5> DEFINE k == Done
        <5>1. index = ApplyTreeDelta(BaseTree(it), PatchTree(it), Last(HEAD))
          BY <1>1 DEF Picked
        <5>2. k \in 0 .. Len(plan) - 1 /\ plan[k + 1] = it /\ plan[k + 1].cmd # "drop"
          BY <1>1, <4>1
        <5>3. \A x \in Path : Replayed(plan, from, x, k, Last(HEAD)[x])
          BY <4>2
        <5> HIDE DEF it, k
        <5>4. ASSUME NEW x \in Path
              PROVE  Replayed(plan, from, x, k + 1,
                        ApplyTreeDelta(BaseTree(plan[k + 1]), PatchTree(plan[k + 1]),
                                       Last(HEAD))[x])
          BY <2>2, <4>2, <5>2, <5>3, ReplayPick
        <5>5. ASSUME NEW x \in Path PROVE Replayed(plan, from, x, k + 1, index[x])
          BY <5>1, <5>2, <5>4
        <5> QED
          BY <5>5 DEF k
      <4>4. Cardinality(OwnCommits(plan, Done)) \in Nat
            /\ Cardinality(OwnCommits(plan, Done + 1)) =
                 Cardinality(OwnCommits(plan, Done)) + IF Melds(it) THEN 0 ELSE 1
        BY <1>1, <4>1, <4>2, OwnCommitStep DEF Melds
      <4>5. (\A x \in Path : Replayed(plan, from, x, Done, Last(HEAD)[x]))'
        BY <1>1, <2>3, <4>1, <4>3
      <4>6. (Len(HEAD) = Len(from) + Cardinality(OwnCommits(plan, Done)))'
        <5> DEFINE a == Cardinality(OwnCommits(plan, Done))
                   d == IF Melds(it) THEN 0 ELSE 1
        <5>1. a \in Nat /\ d \in Nat /\ Len(HEAD') = (Len(from) + a) + d
          BY <2>3, <4>2, <4>4
        <5>2. Cardinality(OwnCommits(plan, Done))' = a + d
          BY <1>1, <4>1, <4>4
        <5> HIDE DEF a, d
        <5> QED
          BY <1>1, <4>2, <5>1, <5>2
      <4> QED
        BY <1>1, <4>1, <4>2, <4>5, <4>6 DEF PlanInv
    <3> QED
      BY <3>1, <3>2
  <2> QED
    BY <1>4, <2>4, <2>5 DEF Progress, ReplaysPlan, ItemsLeaveClean
<1> QED
  <2>1. \/ End("editor") \/ End("staged")
        \/ End("error") /\ index = Last(HEAD) /\ UNCHANGED <<ref, items>>
        \/ /\ pc' \in {"stop", "next"} /\ items' = Tail(items)
           /\ ref' = [ref EXCEPT ![head] = NewCommit(it)]
    BY DEF PickCommit
  <2> QED
    BY <1>2, <1>3, <1>4, <2>1

\* At the end of the list everything is replayed and checked out.
LEMMA FinishProgress ==
  ASSUME TypeOK, TodoInv, Progress, Finish
  PROVE  Progress'
<1>1. /\ pc = "next" /\ items = <<>> /\ pc' = "done" /\ HEAD' = HEAD
      /\ UNCHANGED <<index, mode, plan, from>>
      /\ index = Last(HEAD) /\ (mode # "plain" \/ plan = <<>> => Tracked)
  BY DEF Finish, End, ghosts, HEAD, Progress, StageInv
<1>2. Clean'
  <2>1. Tracked'
    <3>1. CASE mode = "plain" /\ plan # <<>>
      BY <1>1, <3>1, CheckedOut DEF Finish, Tracked
    <3>2. CASE ~(mode = "plain" /\ plan # <<>>)
      BY <1>1, <3>2 DEF Finish, Tracked
    <3> QED
      BY <3>1, <3>2
  <2> QED
    BY <1>1, <2>1 DEF Clean, Tracked
<1>3. ReplaysPlan'
  <2>1. CASE mode = "pick"
    BY <1>1, <2>1 DEF ReplaysPlan
  <2>2. CASE mode # "pick"
    <3>1. /\ plan \in Seq(TodoItem)
          /\ \A x \in Path : Replayed(plan, from, x, Done, Last(HEAD)[x])
          /\ Len(HEAD) = Len(from) + Cardinality(OwnCommits(plan, Done))
      BY <1>1, <2>2 DEF Progress, PlanInv
    <3>2. Done = Len(plan)
      BY <1>1, <3>1 DEF Done
    <3>3. \A x \in Path :
            Last(HEAD)[x] = IF Setters(plan, x) = {} THEN Last(from)[x]
                            ELSE Last(plan[Max(Setters(plan, x))].commit)[x]
      BY <3>1, <3>2, ReplayAll
    <3>4. OwnCommits(plan, Done) =
            {i \in DOMAIN plan : plan[i].cmd \notin {"drop", "squash", "fixup"}}
      BY <3>1, <3>2, OwnCommitsAll
    <3> QED
      BY <1>1, <3>1, <3>3, <3>4 DEF ReplaysPlan
  <2> QED
    BY <2>1, <2>2
<1> QED
  BY <1>1, <1>2, <1>3 DEF Progress, StageInv, PlanInv, ItemsLeaveClean

LEMMA ProgressStep == TypeOK /\ TodoInv /\ Progress /\ [Next]_vars => Progress'
<1> SUFFICES ASSUME TypeOK, TodoInv, Progress, [Next]_vars PROVE Progress'
  OBVIOUS
<1>1. ASSUME NEW u \in Branch, NEW onto \in Branch \cup {None},
             NEW b \in Branch \cup {None}, NEW i \in BOOLEAN, Rebase(u, onto, b, i)
      PROVE  Progress'
  BY <1>1, Vacuous DEF Rebase, Refuse, End
<1>2. ASSUME NEW b \in Branch, NEW cmd \in {"pick", "revert", "apply"},
             SequencerPick(cmd, ref[b])
      PROVE  Progress'
  <2>1. CASE ~Clean
    BY <1>2, <2>1, Vacuous DEF SequencerPick, Refuse, End
  <2>2. CASE Clean
    <3>1. pc' = "next" /\ mode' = "pick" /\ UNCHANGED repo
      BY <1>2, <2>2 DEF SequencerPick
    <3>2. (index = Last(HEAD))' /\ Tracked'
      BY <2>2, <3>1, CleanIsTracked DEF repo, Tracked, HEAD
    <3> QED
      BY <3>1, <3>2 DEF Progress, StageInv, PlanInv, ReplaysPlan, ItemsLeaveClean
  <2> QED
    BY <2>1, <2>2
<1>3. CASE EditTodo
  BY <1>3, Vacuous DEF EditTodo, End
<1>4. CASE RebaseContinue
  BY <1>4, ContinueProgress
<1>5. CASE RebaseAbort
  BY <1>5, Vacuous DEF RebaseAbort, Refuse, End
<1>6. CASE CheckoutWorktree
  BY <1>6, CheckoutProgress
<1>7. CASE MoveHead
  BY <1>7, MoveProgress
<1>8. CASE RemoveDir
  <2>1. pc = "rmdir" /\ mode' = "abort" /\ pc' = "done"
    BY <1>8 DEF RemoveDir, End, TodoInv
  <2>2. Clean'
    BY <1>8, <2>1 DEF RemoveDir, repo, Clean, HEAD, Progress, StageInv
  <2> QED
    BY <2>1, <2>2 DEF Progress, StageInv, PlanInv, ReplaysPlan, ItemsLeaveClean
<1>9. CASE PickApply
  BY <1>9, ApplyProgress
<1>10. CASE DropItem
  BY <1>10, DropProgress
<1>11. CASE PickCommit
  BY <1>11, CommitProgress
<1>12. CASE StopTodo \/ StopOrig \/ Exit \/ Kill
  BY <1>12, Vacuous DEF StopTodo, StopOrig, Exit, Kill, End
<1>13. CASE Finish
  BY <1>13, FinishProgress
<1>14. ASSUME User PROVE Progress'
  BY <1>14, Vacuous DEF User
<1>15. CASE UNCHANGED vars
  BY <1>15
     DEF vars, Progress, StageInv, PlanInv, ReplaysPlan, ItemsLeaveClean, Clean,
         Tracked, HEAD, Picked, NewCommit, Done
<1> QED
  BY <1>1, <1>2, <1>3, <1>4, <1>5, <1>6, <1>7, <1>8, <1>9, <1>10, <1>11, <1>12,
     <1>13, <1>14, <1>15 DEF Next, EditFile, Amend, Switch

\* The inductive invariant: where index, worktree and HEAD are at every step of
\* a command, and how much of its list is replayed.
THEOREM RebaseInvariant == Spec => []RebaseInv
<1>1. Init => RebaseInv
  BY InitType, InitTodo
     DEF Init, RebaseInv, Progress, StageInv, PlanInv, ReplaysPlan, ItemsLeaveClean
<1>2. RebaseInv /\ [Next]_vars => RebaseInv'
  BY TypeStep, TodoStep, ProgressStep DEF RebaseInv, Progress
<1> QED
  BY <1>1, <1>2, PTL DEF Spec

-----------------------------------------------------------------------------
(* Theorems *)

\* Whatever the commands, the todo lists, the moments they are killed at and
\* what the user does in between, the sequencer of sequencer_impl.rs keeps
\* refs, index, worktree and rebase-merge well formed: the list replayed is
\* always a list of commits that have a history.
THEOREM RebaseTypeOK == Spec => []TypeOK
  BY RebaseInvariant, PTL DEF RebaseInv

\* A rebase that reports success (rebase and rebase_continue in
\* sequencer_impl.rs), for any list and any trees: every path is as the last
\* item that changes it says, or as in the new base, and the commits made are
\* those of the items that do not meld; across a stop, an amended commit and
\* --continue too.
THEOREM RebaseReplaysPlan == Spec => []ReplaysPlan
  BY RebaseInvariant, PTL DEF RebaseInv, Progress

\* A command that succeeds, and an interactive rebase, cherry-pick or revert
\* that gives up on an item (rebase_pick_commit_with_message, sequencer_pick),
\* leaves index and tracked files as HEAD has them.
THEOREM RebaseLeavesClean == Spec => []ItemsLeaveClean
  BY RebaseInvariant, PTL DEF RebaseInv, Progress
=============================================================================
