--------------------------- MODULE WorktreeProofs ---------------------------
(***************************************************************************)
(* Theorems about Worktree, for any set of paths, contents and branches,   *)
(* any histories, any number of commands, edits and kills: no command that *)
(* was not forced destroys an edit, an abort that ends has undone the      *)
(* merge, merge --continue joins what was merged, and an entry of the      *)
(* stash leaves the list only when it is applied.                          *)
(***************************************************************************)
EXTENDS Worktree, FiniteSetTheorems, SequenceTheorems, WellFoundedInduction, TLAPS

-----------------------------------------------------------------------------
(* Paths in order *)

\* The place of a path determines it, and there are as many places as paths:
\* Ascending lists exactly the paths of S.
LEMMA AscendingFacts ==
  ASSUME NEW S \in SUBSET Path
  PROVE  Ascending(S) \in Seq(S) /\ ToSet(Ascending(S)) = S
<1> DEFINE Before(p) == {q \in S : q < p}
           size == Cardinality(S)
           rank == [p \in S |-> Cardinality(Before(p))]
<1>0. S \in SUBSET Nat /\ IsFiniteSet(S)
  BY WorktreeAssumption, FS_Subset
<1>1. size \in Nat
  BY <1>0, FS_CardinalityType
<1>2. ASSUME NEW p \in S
      PROVE  /\ IsFiniteSet(Before(p)) /\ Cardinality(Before(p)) \in 0 .. size - 1
  <2>0. p \in Nat
    BY <1>0
  <2>1. IsFiniteSet(Before(p)) /\ Before(p) # S /\ Before(p) \subseteq S
    BY <1>0, <2>0, FS_Subset
  <2> HIDE DEF Before
  <2>2. Cardinality(Before(p)) \in Nat /\ Cardinality(Before(p)) <= size
        /\ Cardinality(Before(p)) # size
    BY <1>0, <2>1, FS_Subset, FS_CardinalityType
  <2> QED
    BY <1>1, <2>1, <2>2
<1>3. ASSUME NEW p \in S, NEW q \in S, p < q
      PROVE  Cardinality(Before(p)) # Cardinality(Before(q))
  <2>1. Before(p) \subseteq Before(q) /\ p \in Before(q) /\ p \notin Before(p)
    <3>1. p \in Nat /\ q \in Nat /\ \A d \in S : d \in Nat
      BY <1>0
    <3>2. \A d \in S : d < p => d < q
      BY <1>3, <3>1
    <3>3. ~(p < p)
      BY <3>1
    <3> QED
      BY <1>3, <3>2, <3>3
  <2>2. IsFiniteSet(Before(q))
    BY <1>2
  <2> HIDE DEF Before
  <2> QED
    BY <2>1, <2>2, FS_Subset
<1>4. ASSUME NEW p \in S, NEW q \in S, Cardinality(Before(p)) = Cardinality(Before(q))
      PROVE  p = q
  <2>1. ~(p < q) /\ ~(q < p)
    BY <1>3, <1>4
  <2>2. p \in Nat /\ q \in Nat
    BY <1>0
  <2> QED
    BY <2>1, <2>2
<1>5. rank \in Surjection(S, 0 .. size - 1)
  <2>1. rank \in [S -> 0 .. size - 1]
    BY <1>2
  <2>2. \A p, q \in S : rank[p] = rank[q] => p = q
    BY <1>4
  <2> HIDE DEF rank
  <2>3. rank \in Injection(S, 0 .. size - 1)
    BY <2>1, <2>2 DEF Injection, IsInjective
  <2> HIDE DEF size
  <2>4. 0 \in Int /\ size - 1 \in Int
    BY <1>1
  <2>5. /\ IsFiniteSet(0 .. size - 1)
        /\ Cardinality(0 .. size - 1) = IF 0 > size - 1 THEN 0 ELSE size - 1 - 0 + 1
    BY <2>4, FS_Interval
  <2>6. Cardinality(0 .. size - 1) = size
    BY <1>1, <2>5
  <2> QED
    BY <1>0, <2>3, <2>5, <2>6, FS_Injection DEF size
<1>6. ASSUME NEW n \in 1 .. size PROVE Nth(S, n) \in S
  <2>1. n - 1 \in 0 .. size - 1
    BY <1>1
  <2>2. PICK p \in S : rank[p] = n - 1
    <3> HIDE DEF rank
    <3> QED
      BY <1>5, <2>1 DEF Surjection
  <2>3. Cardinality(Before(p)) = n - 1
    BY <2>2
  <2> QED
    BY <2>3 DEF Nth
<1>7. ASSUME NEW p \in S PROVE \E n \in 1 .. size : Nth(S, n) = p
  <2> DEFINE n == Cardinality(Before(p)) + 1
  <2>0. Cardinality(Before(p)) \in 0 .. size - 1
    BY <1>2
  <2>1. n \in 1 .. size /\ n - 1 = Cardinality(Before(p))
    <3> HIDE DEF Before, size
    <3> QED
      BY <1>1, <2>0
  <2> HIDE DEF n
  <2>2. Nth(S, n) \in S /\ Cardinality(Before(Nth(S, n))) = n - 1
    BY <2>1 DEF Nth
  <2>3. Nth(S, n) = p
    <3> HIDE DEF Before
    <3> QED
      BY <1>4, <2>1, <2>2
  <2> QED
    BY <2>1, <2>3
<1> HIDE DEF size
<1>8. Ascending(S) = [n \in 1 .. size |-> Nth(S, n)]
  BY DEF Ascending, size
<1>9. Ascending(S) \in Seq(S)
  BY <1>1, <1>6, <1>8
<1>10. ToSet(Ascending(S)) = S
  BY <1>6, <1>7, <1>8 DEF ToSet
<1> QED
  BY <1>9, <1>10

-----------------------------------------------------------------------------
(* Sequences of writes *)

FileW == [on : {"file", "untracked"}, path : Path, to : File]
RenameW == [on : {"rename"}, path : Path, to : Path]
IndexW == [on : {"index"}, to : Index]
BranchW == [on : {"branch"}, name : Branch, to : Nat]
HeadW == [on : {"head"}, to : Branch]
MergeHeadW == [on : {"mergeHead"}, to : Nat \cup {None}]
MergeMsgW == [on : {"mergeMsg"}, to : BOOLEAN]
StashRefW == [on : {"stashRef"}, to : Entry \cup {None}]
StashLogW == [on : {"stashLog"}, to : Seq(Entry) \cup {None}]

Writes == FileW \cup RenameW \cup IndexW \cup BranchW \cup HeadW \cup MergeHeadW \cup MergeMsgW
          \cup StashRefW \cup StashLogW

On(K) == {w \in Writes : w.on \in K}
FileAt(p) == {w \in Writes : w.on = "file" /\ w.path = p}

\* After a write of A there is none of B.
Ordered(t, A, B) == \A i, j \in DOMAIN t : i < j /\ t[i] \in A => t[j] \notin B

LEMMA WriteKinds ==
  ASSUME NEW w \in Writes
  PROVE  /\ w.on \in {"file", "untracked"} => w \in FileW
         /\ w.on = "rename" => w \in RenameW
         /\ w.on = "index" => w \in IndexW
         /\ w.on = "branch" => w \in BranchW
         /\ w.on = "head" => w \in HeadW
         /\ w.on = "mergeHead" => w \in MergeHeadW
         /\ w.on = "mergeMsg" => w \in MergeMsgW
         /\ w.on = "stashRef" => w \in StashRefW
         /\ w.on = "stashLog" => w \in StashLogW
         /\ w.on \in {"file", "untracked", "rename", "index", "branch", "head", "mergeHead",
                      "mergeMsg", "stashRef", "stashLog"}
<1>1. \/ w \in FileW /\ w.on \in {"file", "untracked"}
      \/ w \in RenameW /\ w.on = "rename"
      \/ w \in IndexW /\ w.on = "index"
      \/ w \in BranchW /\ w.on = "branch"
      \/ w \in HeadW /\ w.on = "head"
      \/ w \in MergeHeadW /\ w.on = "mergeHead"
      \/ w \in MergeMsgW /\ w.on = "mergeMsg"
      \/ w \in StashRefW /\ w.on = "stashRef"
      \/ w \in StashLogW /\ w.on = "stashLog"
  BY DEF Writes, FileW, RenameW, IndexW, BranchW, HeadW, MergeHeadW, MergeMsgW, StashRefW,
         StashLogW
<1> QED
  BY <1>1

LEMMA SeqJoin ==
  ASSUME NEW W, NEW a \in Seq(W), NEW b \in Seq(W)
  PROVE  a \o b \in Seq(W) /\ ToSet(a \o b) = ToSet(a) \cup ToSet(b)
<1>1. a \o b \in Seq(W) /\ Len(a \o b) = Len(a) + Len(b) /\ Len(a) \in Nat /\ Len(b) \in Nat
  OBVIOUS
<1>2. /\ \A i \in 1 .. Len(a) : (a \o b)[i] = a[i]
      /\ \A i \in 1 .. Len(b) : (a \o b)[Len(a) + i] = b[i]
  OBVIOUS
<1>3. /\ \A i \in 1 .. Len(a) : i \in 1 .. Len(a \o b)
      /\ \A i \in 1 .. Len(b) : Len(a) + i \in 1 .. Len(a \o b)
      /\ \A i \in 1 .. Len(a \o b) :
            i \in 1 .. Len(a) \/ (i - Len(a) \in 1 .. Len(b) /\ Len(a) + (i - Len(a)) = i)
  BY <1>1
<1>4. DOMAIN a = 1 .. Len(a) /\ DOMAIN b = 1 .. Len(b) /\ DOMAIN (a \o b) = 1 .. Len(a \o b)
  BY <1>1
<1>5. \A i \in 1 .. Len(a \o b) : (a \o b)[i] \in ToSet(a) \cup ToSet(b)
  <2> SUFFICES ASSUME NEW i \in 1 .. Len(a \o b) PROVE (a \o b)[i] \in ToSet(a) \cup ToSet(b)
    OBVIOUS
  <2>1. CASE i \in 1 .. Len(a)
    BY <1>2, <1>4, <2>1 DEF ToSet
  <2>2. CASE i - Len(a) \in 1 .. Len(b) /\ Len(a) + (i - Len(a)) = i
    <3>1. (a \o b)[i] = b[i - Len(a)]
      BY <1>2, <2>2
    <3> QED
      BY <1>4, <2>2, <3>1 DEF ToSet
  <2> QED
    BY <1>3, <2>1, <2>2
<1>6. ToSet(a) \subseteq ToSet(a \o b)
  BY <1>2, <1>3, <1>4 DEF ToSet
<1>7. ToSet(b) \subseteq ToSet(a \o b)
  BY <1>2, <1>3, <1>4 DEF ToSet
<1>8. ToSet(a \o b) \subseteq ToSet(a) \cup ToSet(b)
  BY <1>4, <1>5 DEF ToSet
<1> QED
  BY <1>1, <1>6, <1>7, <1>8

LEMMA SeqOne ==
  ASSUME NEW w PROVE ToSet(<<w>>) = {w} /\ \A W : w \in W => <<w>> \in Seq(W)
BY DEF ToSet

LEMMA SeqNone ==
  ToSet(<<>>) = {} /\ \A W : <<>> \in Seq(W)
BY DEF ToSet

LEMMA SeqFirst ==
  ASSUME NEW W, NEW t \in Seq(W), t # <<>>
  PROVE  /\ Head(t) \in W /\ Tail(t) \in Seq(W)
         /\ ToSet(t) = {Head(t)} \cup ToSet(Tail(t))
         /\ ToSet(t) \subseteq W
<1>1. /\ Tail(t) \in Seq(W) /\ Len(t) \in Nat \ {0} /\ Len(Tail(t)) = Len(t) - 1
      /\ Head(t) = t[1] /\ Head(t) \in W
      /\ \A i \in 1 .. Len(t) - 1 : Tail(t)[i] = t[i + 1]
  OBVIOUS
<1>2. DOMAIN t = 1 .. Len(t) /\ DOMAIN Tail(t) = 1 .. Len(t) - 1
  BY <1>1
<1>3. \A i \in 1 .. Len(t) : i = 1 \/ (i - 1 \in 1 .. Len(t) - 1 /\ (i - 1) + 1 = i)
  BY <1>1
<1>4. ToSet(t) \subseteq {Head(t)} \cup ToSet(Tail(t))
  <2> SUFFICES ASSUME NEW i \in 1 .. Len(t) PROVE t[i] \in {Head(t)} \cup ToSet(Tail(t))
    BY <1>2 DEF ToSet
  <2>1. CASE i = 1
    BY <1>1, <2>1
  <2>2. CASE i - 1 \in 1 .. Len(t) - 1 /\ (i - 1) + 1 = i
    <3>1. Tail(t)[i - 1] = t[i]
      BY <1>1, <2>2
    <3> QED
      BY <1>2, <2>2, <3>1 DEF ToSet
  <2> QED
    BY <1>3, <2>1, <2>2
<1>5. ToSet(Tail(t)) \subseteq ToSet(t)
  <2>1. \A i \in 1 .. Len(t) - 1 : i + 1 \in 1 .. Len(t)
    BY <1>1
  <2> QED
    BY <1>1, <1>2, <2>1 DEF ToSet
<1>6. Head(t) \in ToSet(t)
  BY <1>1, <1>2 DEF ToSet
<1>7. ToSet(t) \subseteq W
  BY <1>2 DEF ToSet
<1> QED
  BY <1>1, <1>4, <1>5, <1>6, <1>7

LEMMA OrderedOne ==
  ASSUME NEW w, NEW A, NEW B PROVE Ordered(<<w>>, A, B)
BY DEF Ordered

LEMMA OrderedJoin ==
  ASSUME NEW W, NEW a \in Seq(W), NEW b \in Seq(W), NEW A, NEW B,
         Ordered(a, A, B), Ordered(b, A, B),
         ToSet(a) \cap A = {} \/ ToSet(b) \cap B = {}
  PROVE  Ordered(a \o b, A, B)
<1>1. a \o b \in Seq(W) /\ Len(a \o b) = Len(a) + Len(b) /\ Len(a) \in Nat /\ Len(b) \in Nat
  OBVIOUS
<1>2. /\ \A i \in 1 .. Len(a) : (a \o b)[i] = a[i]
      /\ \A i \in 1 .. Len(b) : (a \o b)[Len(a) + i] = b[i]
  OBVIOUS
<1>3. DOMAIN a = 1 .. Len(a) /\ DOMAIN b = 1 .. Len(b) /\ DOMAIN (a \o b) = 1 .. Len(a \o b)
  BY <1>1
<1> SUFFICES ASSUME NEW i \in 1 .. Len(a \o b), NEW j \in 1 .. Len(a \o b), i < j,
                    (a \o b)[i] \in A, (a \o b)[j] \in B
             PROVE  FALSE
  BY <1>3 DEF Ordered
<1>4. CASE i \in 1 .. Len(a) /\ j \in 1 .. Len(a)
  BY <1>2, <1>3, <1>4 DEF Ordered
<1>5. CASE i \in 1 .. Len(a) /\ j \notin 1 .. Len(a)
  <2>1. j - Len(a) \in 1 .. Len(b) /\ Len(a) + (j - Len(a)) = j
    BY <1>1, <1>5
  <2>2. a[i] \in A /\ b[j - Len(a)] \in B
    BY <1>2, <1>5, <2>1
  <2> QED
    BY <1>3, <1>5, <2>1, <2>2 DEF ToSet
<1>6. CASE i \notin 1 .. Len(a)
  <2>1. /\ j - Len(a) \in 1 .. Len(b) /\ Len(a) + (j - Len(a)) = j
        /\ i - Len(a) \in 1 .. Len(b) /\ Len(a) + (i - Len(a)) = i
        /\ i - Len(a) < j - Len(a)
    BY <1>1, <1>6
  <2>2. b[i - Len(a)] \in A /\ b[j - Len(a)] \in B
    BY <1>2, <2>1
  <2> QED
    BY <1>3, <2>1, <2>2 DEF Ordered
<1> QED
  BY <1>4, <1>5, <1>6

LEMMA OrderedFirst ==
  ASSUME NEW W, NEW t \in Seq(W), t # <<>>, NEW A, NEW B, Ordered(t, A, B)
  PROVE  Ordered(Tail(t), A, B) /\ (Head(t) \in A => ToSet(Tail(t)) \cap B = {})
<1>1. /\ Tail(t) \in Seq(W) /\ Len(t) \in Nat \ {0} /\ Len(Tail(t)) = Len(t) - 1
      /\ Head(t) = t[1]
      /\ \A i \in 1 .. Len(t) - 1 : Tail(t)[i] = t[i + 1]
  OBVIOUS
<1>2. DOMAIN t = 1 .. Len(t) /\ DOMAIN Tail(t) = 1 .. Len(t) - 1
  BY <1>1
<1>3. \A i \in 1 .. Len(t) - 1 : i + 1 \in 1 .. Len(t) /\ 1 < i + 1
  BY <1>1
<1>4. \A i, j \in 1 .. Len(t) - 1 : i < j => i + 1 < j + 1
  BY <1>1
<1>5. Ordered(Tail(t), A, B)
  BY <1>1, <1>2, <1>3, <1>4 DEF Ordered
<1>6. ASSUME Head(t) \in A, NEW i \in 1 .. Len(t) - 1 PROVE Tail(t)[i] \notin B
  BY <1>1, <1>2, <1>3, <1>6 DEF Ordered
<1> QED
  BY <1>2, <1>5, <1>6 DEF ToSet

\* No write of A at all, or none of B
LEMMA OrderedFree ==
  ASSUME NEW t, NEW A, NEW B, ToSet(t) \cap A = {} \/ ToSet(t) \cap B = {}
  PROVE  Ordered(t, A, B)
BY DEF Ordered, ToSet


\* The writes of files: one for each path that changes, with what it becomes.
FileWrite(p, v) == [on |-> "file", path |-> p, to |-> v]

LEMMA InOrderFacts ==
  ASSUME NEW s \in Seq(Path), NEW then \in Tree
  PROVE  /\ InOrder(s, then) \in Seq(FileW)
         /\ ToSet(InOrder(s, then)) = {FileWrite(p, then[p]) : p \in ToSet(s)}
<1>1. DOMAIN s = 1 .. Len(s) /\ Len(s) \in Nat
  OBVIOUS
<1>2. InOrder(s, then) = [i \in 1 .. Len(s) |-> FileWrite(s[i], then[s[i]])]
  BY <1>1 DEF InOrder, FileWrite
<1>3. \A i \in 1 .. Len(s) : s[i] \in Path /\ FileWrite(s[i], then[s[i]]) \in FileW
  BY <1>1 DEF FileWrite, FileW, Tree
<1> QED
  BY <1>1, <1>2, <1>3 DEF ToSet

LEMMA ReverseFacts ==
  ASSUME NEW W, NEW s \in Seq(W)
  PROVE  Reverse(s) \in Seq(W) /\ ToSet(Reverse(s)) = ToSet(s)
<1>1. DOMAIN s = 1 .. Len(s) /\ Len(s) \in Nat
  OBVIOUS
<1>2. Reverse(s) = [i \in 1 .. Len(s) |-> s[(Len(s) - i) + 1]]
  BY DEF Reverse
<1>3. \A i \in 1 .. Len(s) : /\ (Len(s) - i) + 1 \in 1 .. Len(s)
                            /\ (Len(s) - ((Len(s) - i) + 1)) + 1 = i
  BY <1>1
<1>4. Reverse(s) \in Seq(W) /\ DOMAIN Reverse(s) = 1 .. Len(s)
  BY <1>1, <1>2, <1>3
<1>5. ToSet(Reverse(s)) \subseteq ToSet(s)
  BY <1>1, <1>2, <1>3, <1>4 DEF ToSet
<1>6. \A i \in 1 .. Len(s) : Reverse(s)[(Len(s) - i) + 1] = s[i]
  BY <1>2, <1>3
<1>7. ToSet(s) \subseteq ToSet(Reverse(s))
  BY <1>1, <1>3, <1>4, <1>6 DEF ToSet
<1> QED
  BY <1>4, <1>5, <1>7

LEMMA FileWritesFacts ==
  ASSUME NEW now, NEW then \in Tree
  PROVE  /\ FileWrites(now, then) \in Seq(FileW) /\ FileWritesUp(now, then) \in Seq(FileW)
         /\ ToSet(FileWrites(now, then)) = {FileWrite(p, then[p]) : p \in Changed(now, then)}
         /\ ToSet(FileWritesUp(now, then)) = {FileWrite(p, then[p]) : p \in Changed(now, then)}
<1> DEFINE gone == {p \in Changed(now, then) : then[p] = Absent}
           rest == Changed(now, then) \ gone
<1>1. gone \in SUBSET Path /\ rest \in SUBSET Path /\ gone \cup rest = Changed(now, then)
  BY DEF Changed
<1>2. /\ FileWrites(now, then) = InOrder(Reverse(Ascending(gone)) \o Ascending(rest), then)
      /\ FileWritesUp(now, then) = InOrder(Ascending(gone) \o Ascending(rest), then)
  BY DEF FileWrites, FileWritesUp
<1> HIDE DEF gone, rest
<1>3. /\ Ascending(gone) \in Seq(Path) /\ ToSet(Ascending(gone)) = gone
      /\ Ascending(rest) \in Seq(Path) /\ ToSet(Ascending(rest)) = rest
  <2>1. Ascending(gone) \in Seq(gone) /\ Ascending(rest) \in Seq(rest)
    BY <1>1, AscendingFacts
  <2> QED
    BY <1>1, <2>1, AscendingFacts
<1>4. Reverse(Ascending(gone)) \in Seq(Path) /\ ToSet(Reverse(Ascending(gone))) = gone
  BY <1>3, ReverseFacts
<1>5. /\ Reverse(Ascending(gone)) \o Ascending(rest) \in Seq(Path)
      /\ ToSet(Reverse(Ascending(gone)) \o Ascending(rest)) = Changed(now, then)
      /\ Ascending(gone) \o Ascending(rest) \in Seq(Path)
      /\ ToSet(Ascending(gone) \o Ascending(rest)) = Changed(now, then)
  <2> DEFINE up == Ascending(gone)
             down == Reverse(up)
             others == Ascending(rest)
  <2>1. up \in Seq(Path) /\ down \in Seq(Path) /\ others \in Seq(Path)
    BY <1>3, <1>4
  <2>2. /\ ToSet(up) \cup ToSet(others) = Changed(now, then)
        /\ ToSet(down) \cup ToSet(others) = Changed(now, then)
    BY <1>1, <1>3, <1>4
  <2> HIDE DEF up, down, others
  <2>3. up \o others \in Seq(Path) /\ ToSet(up \o others) = Changed(now, then)
    <3>1. up \o others \in Seq(Path) /\ ToSet(up \o others) = ToSet(up) \cup ToSet(others)
      BY <2>1, SeqJoin
    <3> QED
      BY <2>2, <3>1
  <2>4. down \o others \in Seq(Path) /\ ToSet(down \o others) = Changed(now, then)
    <3>1. down \o others \in Seq(Path) /\ ToSet(down \o others) = ToSet(down) \cup ToSet(others)
      BY <2>1, SeqJoin
    <3> QED
      BY <2>2, <3>1
  <2> QED
    BY <2>3, <2>4 DEF up, down, others
<1> QED
  BY <1>2, <1>5, InOrderFacts

\* The same, as statements about single writes
LEMMA FileWritesIn ==
  ASSUME NEW now, NEW then \in Tree, NEW t \in {FileWrites(now, then), FileWritesUp(now, then)}
  PROVE  /\ t \in Seq(Writes)
         /\ \A w \in ToSet(t) : /\ w \in Writes /\ w.on = "file" /\ w.path \in Path
                                /\ w.to = then[w.path] /\ now[w.path] # then[w.path]
         /\ \A p \in Path : now[p] # then[p] =>
               \E w \in ToSet(t) : w.on = "file" /\ w.path = p /\ w.to = then[p]
<1>1. t \in Seq(FileW) /\ ToSet(t) = {FileWrite(p, then[p]) : p \in Changed(now, then)}
  BY FileWritesFacts
<1>2. FileW \subseteq Writes
  BY DEF Writes
<1>3. t \in Seq(Writes)
  BY <1>1, <1>2
<1>4. \A p \in Path : /\ FileWrite(p, then[p]).on = "file" /\ FileWrite(p, then[p]).path = p
                      /\ FileWrite(p, then[p]).to = then[p]
                      /\ FileWrite(p, then[p]) \in Writes
  <2> SUFFICES ASSUME NEW p \in Path
               PROVE  /\ FileWrite(p, then[p]).on = "file" /\ FileWrite(p, then[p]).path = p
                      /\ FileWrite(p, then[p]).to = then[p]
                      /\ FileWrite(p, then[p]) \in FileW
    BY <1>2
  <2> QED
    BY DEF FileWrite, FileW, Tree
<1>5. \A w \in ToSet(t) : \E p \in Path : w = FileWrite(p, then[p]) /\ now[p] # then[p]
  BY <1>1 DEF Changed
<1>6. \A p \in Path : now[p] # then[p] => FileWrite(p, then[p]) \in ToSet(t)
  BY <1>1 DEF Changed
<1> QED
  BY <1>3, <1>4, <1>5, <1>6

-----------------------------------------------------------------------------
(* The inductive invariant *)

Cmd == [op : Op, force : BOOLEAN, edits : SUBSET Path, tip : Nat \cup {None},
        entry : Entry \cup {None}]

\* The commits that a write refers to are among the first n.
Refers(w, n) ==
    /\ w.on = "branch" => w.to \in 1 .. n
    /\ w.on = "mergeHead" => w.to \in 1 .. n \cup {None}
    /\ w.on = "stashRef" /\ w.to # None => w.to.base \in 1 .. n
    /\ w.on = "stashLog" /\ w.to # None => \A e \in ToSet(w.to) : e.base \in 1 .. n

HistoryOK ==
    /\ commits \in Seq([tree : Tree, parents : Seq(Nat)])
    /\ \A c \in DOMAIN commits : ToSet(commits[c].parents) \subseteq 1 .. c - 1
    /\ branch \in [Branch -> 1 .. Len(commits)] /\ head \in Branch

FilesOK == index \in Index /\ work \in Tree

StashOK ==
    /\ stashRef \in Entry \cup {None} /\ stashLog \in Seq(Entry) \cup {None}
    /\ stashRef # None => stashRef.base \in 1 .. Len(commits)
    /\ stashLog # None => \A e \in ToSet(stashLog) : e.base \in 1 .. Len(commits)

MergeOK ==
    /\ mergeHead \in 1 .. Len(commits) \cup {None} /\ mergeMsg \in BOOLEAN
    /\ merged \in 1 .. Len(commits) \cup {None} /\ stale \in BOOLEAN /\ doomed \subseteq Path

CmdOK ==
    /\ cmd \in Cmd /\ todo \in Seq(Writes)
    /\ todo = <<>> <=> cmd = NoCmd
    /\ todo # <<>> => cmd.op # "none"
    /\ \A w \in ToSet(todo) : Refers(w, Len(commits))
    /\ cmd.tip \in 1 .. Len(commits) \cup {None}

TypeInv == HistoryOK /\ FilesOK /\ StashOK /\ MergeOK /\ CmdOK

\* An unforced command other than stash push has no file to write of which it
\* met an edit.
EditsInv ==
    ~cmd.force /\ cmd.op \notin {"push", "push staged"} =>
        \A w \in ToSet(todo) : w.on = "file" => w.path \notin cmd.edits

\* A commit or the entry e has this version of the file.
Kept(e, p, v) ==
    \/ v = Absent
    \/ \E c \in DOMAIN commits : commits[c].tree[p] = v
    \/ v \in {e.tree[p], e.untracked[p]}
    \/ e.index # None /\ v = e.index[p]

\* stash push: the entry e is in the log before the first file is touched, and
\* has whatever the files hold that will be written.
Saves(t, e) ==
    /\ e \in Entry
    /\ Ordered(t, On({"file"}), On({"stashLog"}))
    /\ \A w \in ToSet(t) : w.on = "stashLog" => w.to # None /\ e \in ToSet(w.to)
    /\ \/ \E w \in ToSet(t) : w.on = "stashLog"
       \/ stashLog # None /\ e \in ToSet(stashLog)
    /\ \A w \in ToSet(t) :
          /\ w.on \notin {"rename", "untracked"}
          /\ w.on = "file" => Kept(e, w.path, w.to) /\ Kept(e, w.path, work[w.path])

PushInv == cmd.op = "push" => \E e : Saves(todo, e)

\* MERGE_HEAD names what was merged; it is written after the index, and
\* nothing but MERGE_MSG is written after it.
MergeInv ==
    /\ mergeHead # None /\ ~stale => merged = mergeHead
    /\ Ordered(todo, On({"mergeHead"}), Writes \ On({"mergeMsg"}))
    /\ (cmd.op \notin StagingOp \cup {"continue"} /\ \E w \in ToSet(todo) : w.on = "index")
          => (mergeHead = None \/ stale)
    /\ \A w \in ToSet(todo) :
          w.on = "mergeHead" /\ w.to # None =>
             /\ cmd.op = "merge" /\ w.to = cmd.tip
             /\ merged = cmd.tip \/ \E x \in ToSet(todo) : x.on = "index"

\* merge --continue writes the branch once, before it removes MERGE_HEAD.
ContinueInv ==
    cmd.op = "continue" =>
       /\ Ordered(todo, On({"branch"}), On({"branch"}))
       /\ \A w \in ToSet(todo) :
             /\ w.on \in {"branch", "mergeHead", "mergeMsg"}
             /\ w.on = "branch" =>
                   /\ w.name = head /\ mergeHead # None
                   /\ commits[w.to].parents = <<Tip, mergeHead>>

\* The writes of kind K at p that are left make v of the file, which now is f.
Sets(t, f, K, p, v) ==
    /\ \A w \in ToSet(t) : w.on \in K /\ w.path = p => w.to = v
    /\ f = v \/ \E w \in ToSet(t) : w.on \in K /\ w.path = p

\* merge --abort: what the merge has added goes, then the index is set to HEAD,
\* and then the files that HEAD has.
Aborts(t) ==
    /\ \A w \in ToSet(t) : /\ w.on \in {"file", "index", "mergeHead", "mergeMsg"}
                           /\ w.on = "index" => w.to = HeadTree
    /\ index = HeadTree \/ \E w \in ToSet(t) : w.on = "index"
    /\ \A p \in Path : HeadTree[p] # Absent => Sets(t, work[p], {"file"}, p, HeadTree[p])
    /\ \A p \in doomed : Sets(t, work[p], {"file"}, p, Absent)
    /\ \A p \in Path : HeadTree[p] = Absent => Ordered(t, On({"index"}), FileAt(p))

AbortInv ==
    /\ doomed # {} => cmd.op \in {"none", "abort"}
    /\ \A p \in doomed : HeadTree[p] = Absent /\ (index[p] # Absent \/ work[p] = Absent)
    /\ cmd.op = "abort" => Aborts(todo)

\* stash pop: the files of e, then its untracked files, then the log.
Applies(t, e) ==
    /\ Ordered(t, On({"stashLog"}), On({"file", "untracked"}))
    /\ Ordered(t, On({"untracked"}), On({"file"}))
    /\ \A w \in ToSet(t) : w.on # "rename"
    /\ \A p \in Path :
          IF e.untracked[p] # Absent
          THEN /\ \A w \in ToSet(t) : w.on = "untracked" /\ w.path = p => w.to = e.untracked[p]
               /\ \/ \E w \in ToSet(t) : w.on = "untracked" /\ w.path = p
                  \/ Sets(t, work[p], {"file"}, p, e.untracked[p])
          ELSE p \in Changed(TreeOf(e.base), e.tree) =>
                  /\ \A w \in ToSet(t) : w.on = "untracked" => w.path # p
                  /\ Sets(t, work[p], {"file"}, p, e.tree[p])

PopInv ==
    cmd.op = "pop" /\ (\E w \in ToSet(todo) : w.on = "stashLog") => Applies(todo, cmd.entry)

WorktreeInv == TypeInv /\ EditsInv /\ PushInv /\ MergeInv /\ ContinueInv /\ AbortInv /\ PopInv

-----------------------------------------------------------------------------
(* The writes of a command *)

\* What each of the actions of Write does.
LEMMA WriteEffect ==
  ASSUME Write
  PROVE  /\ todo # <<>> /\ todo' = Tail(todo) /\ commits' = commits /\ count' = count
         /\ (todo' = <<>> /\ cmd' = NoCmd) \/ (todo' # <<>> /\ cmd' = cmd)
         /\ Head(todo).on \in {"file", "untracked"} =>
               work' = [work EXCEPT ![Head(todo).path] = Head(todo).to]
         /\ Head(todo).on = "rename" =>
               work' = [work EXCEPT ![Head(todo).to] = work[Head(todo).path],
                                    ![Head(todo).path] = Absent]
         /\ Head(todo).on \notin {"file", "untracked", "rename"} => work' = work
         /\ IF Head(todo).on = "index" THEN index' = Head(todo).to ELSE index' = index
         /\ IF Head(todo).on = "branch"
            THEN branch' = [branch EXCEPT ![Head(todo).name] = Head(todo).to]
            ELSE branch' = branch
         /\ IF Head(todo).on = "head" THEN head' = Head(todo).to ELSE head' = head
         /\ IF Head(todo).on = "mergeHead"
            THEN mergeHead' = Head(todo).to /\ stale' = FALSE /\ doomed' = {}
            ELSE UNCHANGED <<mergeHead, stale, doomed>>
         /\ IF Head(todo).on = "mergeMsg" THEN mergeMsg' = Head(todo).to ELSE mergeMsg' = mergeMsg
         /\ IF Head(todo).on = "stashRef" THEN stashRef' = Head(todo).to ELSE stashRef' = stashRef
         /\ IF Head(todo).on = "stashLog" THEN stashLog' = Head(todo).to ELSE stashLog' = stashLog
         /\ Head(todo).on \notin {"index", "mergeHead"} => merged' = merged
         /\ Head(todo).on = "index" =>
               /\ cmd.op = "merge" => merged' = cmd.tip
               /\ cmd.op \in StagingOp => merged' = merged
               /\ cmd.op \notin StagingOp \cup {"merge"} => merged' = None
         /\ Head(todo).on = "mergeHead" => merged' = IF mergeHead' = None THEN None ELSE merged
<1> DEFINE h == Head(todo)
<1>1. CASE WriteFile
  <2>1. h.on \in {"file", "untracked"}
    BY <1>1 DEF WriteFile, Next1
  <2>2. /\ todo # <<>> /\ todo' = Tail(todo) /\ commits' = commits /\ count' = count
        /\ (todo' = <<>> /\ cmd' = NoCmd) \/ (todo' # <<>> /\ cmd' = cmd)
    BY <1>1 DEF WriteFile, Next1, Rest
  <2> HIDE DEF h
  <2> QED
    BY <1>1, <2>1, <2>2 DEF WriteFile, ghosts, h
<1>2. CASE RenameFile
  <2>1. h.on = "rename"
    BY <1>2 DEF RenameFile, Next1
  <2>2. /\ todo # <<>> /\ todo' = Tail(todo) /\ commits' = commits /\ count' = count
        /\ (todo' = <<>> /\ cmd' = NoCmd) \/ (todo' # <<>> /\ cmd' = cmd)
    BY <1>2 DEF RenameFile, Next1, Rest
  <2> HIDE DEF h
  <2> QED
    BY <1>2, <2>1, <2>2 DEF RenameFile, ghosts, h
<1>3. CASE WriteIndex
  <2>1. h.on = "index"
    BY <1>3 DEF WriteIndex, Next1
  <2>0. cmd.op = "merge" => cmd.op \notin StagingOp
    BY DEF StagingOp
  <2>3. cmd.op = "merge" => merged' = cmd.tip
    BY <1>3, <2>0, Zenon DEF WriteIndex
  <2>4. cmd.op \in StagingOp => merged' = merged
    BY <1>3, <2>0, Zenon DEF WriteIndex
  <2>5. cmd.op \notin StagingOp \cup {"merge"} => merged' = None
    BY <1>3, Zenon DEF WriteIndex
  <2>2. /\ todo # <<>> /\ todo' = Tail(todo) /\ commits' = commits /\ count' = count
        /\ (todo' = <<>> /\ cmd' = NoCmd) \/ (todo' # <<>> /\ cmd' = cmd)
    BY <1>3 DEF WriteIndex, Next1, Rest
  <2> HIDE DEF h
  <2> QED
    BY <1>3, <2>1, <2>2, <2>3, <2>4, <2>5 DEF WriteIndex, ghosts, h
<1>4. CASE WriteBranch
  <2>1. h.on = "branch"
    BY <1>4 DEF WriteBranch, Next1
  <2>2. /\ todo # <<>> /\ todo' = Tail(todo) /\ commits' = commits /\ count' = count
        /\ (todo' = <<>> /\ cmd' = NoCmd) \/ (todo' # <<>> /\ cmd' = cmd)
    BY <1>4 DEF WriteBranch, Next1, Rest
  <2> HIDE DEF h
  <2> QED
    BY <1>4, <2>1, <2>2 DEF WriteBranch, ghosts, h
<1>5. CASE WriteHead
  <2>1. h.on = "head"
    BY <1>5 DEF WriteHead, Next1
  <2>2. /\ todo # <<>> /\ todo' = Tail(todo) /\ commits' = commits /\ count' = count
        /\ (todo' = <<>> /\ cmd' = NoCmd) \/ (todo' # <<>> /\ cmd' = cmd)
    BY <1>5 DEF WriteHead, Next1, Rest
  <2> HIDE DEF h
  <2> QED
    BY <1>5, <2>1, <2>2 DEF WriteHead, ghosts, h
<1>6. CASE WriteMergeHead
  <2>1. h.on = "mergeHead"
    BY <1>6 DEF WriteMergeHead, Next1
  <2>2. /\ todo # <<>> /\ todo' = Tail(todo) /\ commits' = commits /\ count' = count
        /\ (todo' = <<>> /\ cmd' = NoCmd) \/ (todo' # <<>> /\ cmd' = cmd)
    BY <1>6 DEF WriteMergeHead, Next1, Rest
  <2> HIDE DEF h
  <2> QED
    BY <1>6, <2>1, <2>2 DEF WriteMergeHead, ghosts, h
<1>7. CASE WriteMergeMsg
  <2>1. h.on = "mergeMsg"
    BY <1>7 DEF WriteMergeMsg, Next1
  <2>2. /\ todo # <<>> /\ todo' = Tail(todo) /\ commits' = commits /\ count' = count
        /\ (todo' = <<>> /\ cmd' = NoCmd) \/ (todo' # <<>> /\ cmd' = cmd)
    BY <1>7 DEF WriteMergeMsg, Next1, Rest
  <2> HIDE DEF h
  <2> QED
    BY <1>7, <2>1, <2>2 DEF WriteMergeMsg, ghosts, h
<1>8. CASE WriteStashRef
  <2>1. h.on = "stashRef"
    BY <1>8 DEF WriteStashRef, Next1
  <2>2. /\ todo # <<>> /\ todo' = Tail(todo) /\ commits' = commits /\ count' = count
        /\ (todo' = <<>> /\ cmd' = NoCmd) \/ (todo' # <<>> /\ cmd' = cmd)
    BY <1>8 DEF WriteStashRef, Next1, Rest
  <2> HIDE DEF h
  <2> QED
    BY <1>8, <2>1, <2>2 DEF WriteStashRef, ghosts, h
<1>9. CASE WriteStashLog
  <2>1. h.on = "stashLog"
    BY <1>9 DEF WriteStashLog, Next1
  <2>2. /\ todo # <<>> /\ todo' = Tail(todo) /\ commits' = commits /\ count' = count
        /\ (todo' = <<>> /\ cmd' = NoCmd) \/ (todo' # <<>> /\ cmd' = cmd)
    BY <1>9 DEF WriteStashLog, Next1, Rest
  <2> HIDE DEF h
  <2> QED
    BY <1>9, <2>1, <2>2 DEF WriteStashLog, ghosts, h
<1> QED
  BY <1>1, <1>2, <1>3, <1>4, <1>5, <1>6, <1>7, <1>8, <1>9 DEF Write

\* What is left of the writes
LEMMA WriteRest ==
  ASSUME TypeInv, Write
  PROVE  /\ Head(todo) \in Writes /\ Head(todo) \in ToSet(todo) /\ todo' \in Seq(Writes)
         /\ ToSet(todo) = {Head(todo)} \cup ToSet(todo')
         /\ ToSet(todo') \subseteq Writes
         /\ cmd'.op # "none" => cmd' = cmd
         /\ cmd'.op \in {cmd.op, "none"}
<1>1. todo \in Seq(Writes) /\ todo # <<>> /\ todo' = Tail(todo)
  BY WriteEffect DEF TypeInv, CmdOK
<1>2. cmd' = cmd \/ cmd'.op = "none"
  BY WriteEffect DEF NoCmd
<1>3. /\ Head(todo) \in Writes /\ todo' \in Seq(Writes)
      /\ ToSet(todo) = {Head(todo)} \cup ToSet(todo') /\ ToSet(todo) \subseteq Writes
  BY <1>1, SeqFirst
<1> QED
  BY <1>2, <1>3

LEMMA WriteKeepsTypes ==
  ASSUME TypeInv, Write PROVE TypeInv'
<1> DEFINE h == Head(todo)
           n == Len(commits)
<1>0. /\ h \in Writes /\ h \in ToSet(todo) /\ todo' \in Seq(Writes)
      /\ ToSet(todo) = {h} \cup ToSet(todo')
  BY WriteRest
<1>1. Refers(h, n)
  BY <1>0 DEF TypeInv, CmdOK
<1>2. HistoryOK'
  <2>1. h.on = "branch" => h.name \in Branch /\ h.to \in 1 .. n
    BY <1>0, <1>1, WriteKinds DEF BranchW, Refers
  <2>2. h.on = "head" => h.to \in Branch
    BY <1>0, WriteKinds DEF HeadW
  <2>3. commits' = commits
    BY WriteEffect
  <2>4. branch' \in [Branch -> 1 .. n]
    <3>1. CASE h.on = "branch"
      <4>1. branch' = [branch EXCEPT ![h.name] = h.to]
        BY <3>1, WriteEffect
      <4> QED
        BY <2>1, <3>1, <4>1 DEF TypeInv, HistoryOK
    <3>2. CASE h.on # "branch"
      BY <3>2, WriteEffect DEF TypeInv, HistoryOK
    <3> QED
      BY <3>1, <3>2
  <2>5. head' \in Branch
    BY <2>2, WriteEffect DEF TypeInv, HistoryOK
  <2> QED
    BY <2>3, <2>4, <2>5 DEF TypeInv, HistoryOK
<1>3. FilesOK'
  <2>1. h.on = "index" => h.to \in Index
    BY <1>0, WriteKinds DEF IndexW
  <2>2. h.on \in {"file", "untracked"} => h.path \in Path /\ h.to \in File
    BY <1>0, WriteKinds DEF FileW
  <2>3. h.on = "rename" => h.path \in Path /\ h.to \in Path
    BY <1>0, WriteKinds DEF RenameW
  <2>4. index' \in Index
    BY <2>1, WriteEffect DEF TypeInv, FilesOK
  <2>5. work \in Tree
    BY DEF TypeInv, FilesOK
  <2>6. work' \in Tree
    <3>1. CASE h.on \in {"file", "untracked"}
      <4>1. work' = [work EXCEPT ![h.path] = h.to]
        BY <3>1, WriteEffect
      <4> QED
        BY <2>2, <2>5, <3>1, <4>1 DEF Tree
    <3>2. CASE h.on = "rename"
      <4>1. work' = [work EXCEPT ![h.to] = work[h.path], ![h.path] = Absent]
        BY <3>2, WriteEffect
      <4> QED
        BY <2>3, <2>5, <3>2, <4>1 DEF Tree, File
    <3>3. CASE h.on \notin {"file", "untracked", "rename"}
      BY <2>5, <3>3, WriteEffect
    <3> QED
      BY <3>1, <3>2, <3>3
  <2> QED
    BY <2>4, <2>6 DEF FilesOK
<1>4. StashOK'
  <2>1. h.on = "stashRef" => h.to \in Entry \cup {None}
                             /\ (h.to # None => h.to.base \in 1 .. n)
    BY <1>0, <1>1, WriteKinds DEF StashRefW, Refers
  <2>2. h.on = "stashLog" => h.to \in Seq(Entry) \cup {None}
                             /\ (h.to # None => \A e \in ToSet(h.to) : e.base \in 1 .. n)
    BY <1>0, <1>1, WriteKinds DEF StashLogW, Refers
  <2>3. /\ stashRef' \in Entry \cup {None} 
        /\ stashRef' # None => stashRef'.base \in 1 .. n
    BY <2>1, WriteEffect DEF TypeInv, StashOK
  <2>4. /\ stashLog' \in Seq(Entry) \cup {None}
        /\ stashLog' # None => \A e \in ToSet(stashLog') : e.base \in 1 .. n
    BY <2>2, WriteEffect DEF TypeInv, StashOK
  <2>5. commits' = commits
    BY WriteEffect
  <2> QED
    BY <2>3, <2>4, <2>5 DEF StashOK
<1>5. MergeOK'
  <2>1. h.on = "mergeHead" => h.to \in 1 .. n \cup {None}
    BY <1>0, <1>1, WriteKinds DEF MergeHeadW, Refers
  <2>2. h.on = "mergeMsg" => h.to \in BOOLEAN
    BY <1>0, WriteKinds DEF MergeMsgW
  <2>3. commits' = commits
    BY WriteEffect
  <2>4. mergeHead' \in 1 .. n \cup {None}
    BY <2>1, WriteEffect DEF TypeInv, MergeOK
  <2>5. mergeMsg' \in BOOLEAN
    BY <2>2, WriteEffect DEF TypeInv, MergeOK
  <2>6. stale' \in BOOLEAN /\ doomed' \subseteq Path
    BY WriteEffect DEF TypeInv, MergeOK
  <2>7. cmd.tip \in 1 .. n \cup {None} /\ merged \in 1 .. n \cup {None}
    BY DEF TypeInv, MergeOK, CmdOK
  <2>8. merged' \in 1 .. n \cup {None}
    <3>1. CASE h.on = "index"
      <4>1. merged' \in {cmd.tip, merged, None}
        BY <3>1, WriteEffect
      <4> QED
        BY <2>7, <4>1
    <3>2. CASE h.on = "mergeHead"
      BY <2>7, <3>2, WriteEffect
    <3>3. CASE h.on \notin {"index", "mergeHead"}
      BY <2>7, <3>3, WriteEffect
    <3> QED
      BY <3>1, <3>2, <3>3
  <2> QED
    BY <2>3, <2>4, <2>5, <2>6, <2>8 DEF MergeOK
<1>6. CmdOK'
  <2>1. NoCmd \in Cmd /\ NoCmd.op = "none" /\ NoCmd.tip = None
    BY DEF NoCmd, Cmd, Op
  <2>2. cmd \in Cmd /\ (todo = <<>> <=> cmd = NoCmd) /\ (todo # <<>> => cmd.op # "none")
        /\ cmd.tip \in 1 .. n \cup {None} /\ \A w \in ToSet(todo) : Refers(w, n)
    BY DEF TypeInv, CmdOK
  <2>3. todo # <<>> /\ commits' = commits
    BY WriteEffect
  <2>4. (todo' = <<>> /\ cmd' = NoCmd) \/ (todo' # <<>> /\ cmd' = cmd)
    BY WriteEffect
  <2>5. \A w \in ToSet(todo') : Refers(w, n)
    BY <1>0, <2>2
  <2> HIDE DEF n
  <2>6. n' = n
    BY <2>3 DEF n
  <2> QED
    BY <1>0, <2>1, <2>2, <2>3, <2>4, <2>5 DEF CmdOK, n
<1> QED
  BY <1>2, <1>3, <1>4, <1>5, <1>6 DEF TypeInv

LEMMA WriteKeepsEdits ==
  ASSUME TypeInv, EditsInv, Write PROVE EditsInv'
<1>1. ToSet(todo') \subseteq ToSet(todo) /\ (cmd'.op # "none" => cmd' = cmd)
  BY WriteRest
<1>2. cmd' = cmd \/ (cmd' = NoCmd /\ todo' = <<>>)
  BY WriteEffect
<1>3. CASE cmd' = cmd
  BY <1>1, <1>3 DEF EditsInv
<1>4. CASE todo' = <<>>
  BY <1>4, SeqNone DEF EditsInv
<1> QED
  BY <1>2, <1>3, <1>4

LEMMA WriteKeepsPush ==
  ASSUME TypeInv, PushInv, Write PROVE PushInv'
<1> SUFFICES ASSUME cmd'.op = "push" PROVE \E e : Saves(todo, e)'
  BY DEF PushInv
<1> DEFINE h == Head(todo)
           t == todo'
<1>0. /\ h \in Writes /\ todo # <<>> /\ t = Tail(todo) /\ todo \in Seq(Writes)
      /\ ToSet(todo) = {h} \cup ToSet(t) /\ ToSet(t) \subseteq Writes
      /\ cmd' = cmd /\ commits' = commits
  BY WriteRest, WriteEffect DEF TypeInv, CmdOK
<1>1. PICK e : Saves(todo, e)
  BY <1>0 DEF PushInv
<1>2. h.on \notin {"rename", "untracked"}
  BY <1>0, <1>1 DEF Saves
<1>3. Ordered(t, On({"file"}), On({"stashLog"}))
  BY <1>0, <1>1, OrderedFirst DEF Saves
<1>4. \A w \in ToSet(t) : w.on = "stashLog" => w.to # None /\ e \in ToSet(w.to)
  BY <1>0, <1>1 DEF Saves
<1>5. \/ \E w \in ToSet(t) : w.on = "stashLog"
      \/ stashLog' # None /\ e \in ToSet(stashLog')
  <2>1. CASE h.on = "stashLog"
    <3>1. h.to # None /\ e \in ToSet(h.to) /\ stashLog' = h.to
      BY <1>0, <1>1, <2>1, WriteEffect DEF Saves
    <3> QED
      BY <3>1
  <2>2. CASE h.on # "stashLog"
    <3>1. stashLog' = stashLog
      BY <2>2, WriteEffect
    <3> QED
      BY <1>0, <1>1, <2>2, <3>1 DEF Saves
  <2> QED
    BY <2>1, <2>2
<1>6. \A p, v : Kept(e, p, v)' <=> Kept(e, p, v)
  BY <1>0 DEF Kept
<1>7. ASSUME NEW w \in ToSet(t), w.on = "file"
      PROVE  Kept(e, w.path, w.to) /\ Kept(e, w.path, work'[w.path])
  <2>1. Kept(e, w.path, w.to) /\ Kept(e, w.path, work[w.path])
    BY <1>0, <1>1, <1>7 DEF Saves
  <2>2. CASE h.on = "file"
    <3>1. /\ work' = [work EXCEPT ![h.path] = h.to] /\ work \in Tree
          /\ w.path \in Path /\ h.path \in Path
      BY <1>0, <1>7, <2>2, WriteEffect, WriteKinds DEF FileW, TypeInv, FilesOK
    <3>2. work'[w.path] = IF w.path = h.path THEN h.to ELSE work[w.path]
      BY <3>1 DEF Tree
    <3>3. Kept(e, h.path, h.to)
      BY <1>0, <1>1, <2>2 DEF Saves
    <3> QED
      BY <2>1, <3>2, <3>3
  <2>3. CASE h.on # "file"
    BY <1>2, <2>1, <2>3, WriteEffect
  <2> QED
    BY <2>2, <2>3
<1>8. Saves(todo, e)'
  <2>1. \A w \in ToSet(t) : w.on \notin {"rename", "untracked"}
    BY <1>0, <1>1 DEF Saves
  <2> QED
    BY <1>1, <1>3, <1>4, <1>5, <1>6, <1>7, <2>1 DEF Saves
<1> QED
  BY <1>8

LEMMA WriteKeepsMerge ==
  ASSUME TypeInv, MergeInv, ContinueInv, Write PROVE MergeInv'
<1> DEFINE h == Head(todo)
           t == todo'
<1>0. /\ h \in Writes /\ todo # <<>> /\ t = Tail(todo) /\ todo \in Seq(Writes)
      /\ ToSet(todo) = {h} \cup ToSet(t) /\ ToSet(t) \subseteq Writes
      /\ h \in ToSet(todo)
  BY WriteRest, WriteEffect DEF TypeInv, CmdOK
<1>1. cmd' = cmd \/ (cmd'.op = "none" /\ ToSet(t) = {})
  BY WriteEffect, SeqNone DEF NoCmd
<1>2. /\ Ordered(t, On({"mergeHead"}), Writes \ On({"mergeMsg"}))
      /\ h \in On({"mergeHead"}) => ToSet(t) \cap (Writes \ On({"mergeMsg"})) = {}
  BY <1>0, OrderedFirst DEF MergeInv
<1>3. h.on = "mergeHead" => \A w \in ToSet(t) : w.on = "mergeMsg"
  BY <1>0, <1>2 DEF On
<1>4. h.on = "index" => cmd.op # "continue"
  BY <1>0 DEF ContinueInv
<1>5. mergeHead' # None /\ ~stale' => merged' = mergeHead'
  <2>1. CASE h.on = "mergeHead"
    <3>1. mergeHead' = h.to /\ (h.to # None => merged' = merged)
      BY <2>1, WriteEffect
    <3>2. h.to # None => /\ cmd.op = "merge" /\ h.to = cmd.tip
                         /\ merged = cmd.tip \/ \E x \in ToSet(todo) : x.on = "index"
      BY <1>0, <2>1 DEF MergeInv
    <3>3. ~ \E x \in ToSet(todo) : x.on = "index"
      BY <1>0, <1>3, <2>1
    <3> QED
      BY <3>1, <3>2, <3>3
  <2>2. CASE h.on = "index"
    <3>1. mergeHead' = mergeHead /\ stale' = stale
      BY <2>2, WriteEffect
    <3>2. CASE cmd.op \in StagingOp
      BY <2>2, <3>1, <3>2, WriteEffect DEF MergeInv
    <3>3. CASE cmd.op \notin StagingOp
      BY <1>0, <1>4, <2>2, <3>1, <3>3 DEF MergeInv
    <3> QED
      BY <3>2, <3>3
  <2>3. CASE h.on \notin {"index", "mergeHead"}
    BY <2>3, WriteEffect DEF MergeInv
  <2> QED
    BY <2>1, <2>2, <2>3
<1>6. ASSUME cmd'.op \notin StagingOp \cup {"continue"}, NEW w \in ToSet(t), w.on = "index"
      PROVE  mergeHead' = None \/ stale'
  <2>1. h.on # "mergeHead"
    BY <1>3, <1>6
  <2>2. cmd' = cmd
    BY <1>1, <1>6
  <2>3. mergeHead' = mergeHead /\ stale' = stale
    BY <2>1, WriteEffect
  <2> QED
    BY <1>0, <1>6, <2>2, <2>3 DEF MergeInv
<1>7. ASSUME NEW w \in ToSet(t), w.on = "mergeHead", w.to # None
      PROVE  /\ cmd'.op = "merge" /\ w.to = cmd'.tip
             /\ merged' = cmd'.tip \/ \E x \in ToSet(t) : x.on = "index"
  <2>1. /\ cmd.op = "merge" /\ w.to = cmd.tip
        /\ merged = cmd.tip \/ \E x \in ToSet(todo) : x.on = "index"
    BY <1>0, <1>7 DEF MergeInv
  <2>2. cmd' = cmd
    BY <1>1, <1>7
  <2>3. h.on # "mergeHead"
    BY <1>3, <1>7
  <2>4. CASE h.on = "index"
    BY <2>1, <2>2, <2>4, WriteEffect
  <2>5. CASE h.on # "index"
    BY <1>0, <2>1, <2>2, <2>3, <2>5, WriteEffect
  <2> QED
    BY <2>4, <2>5
<1> QED
  BY <1>2, <1>5, <1>6, <1>7 DEF MergeInv

LEMMA WriteKeepsContinue ==
  ASSUME TypeInv, MergeInv, ContinueInv, Write PROVE ContinueInv'
<1> DEFINE h == Head(todo)
           t == todo'
<1>0. /\ h \in Writes /\ todo # <<>> /\ t = Tail(todo) /\ todo \in Seq(Writes)
      /\ ToSet(todo) = {h} \cup ToSet(t) /\ ToSet(t) \subseteq Writes
      /\ h \in ToSet(todo) /\ commits' = commits
      /\ cmd'.op # "none" => cmd' = cmd
  BY WriteRest, WriteEffect DEF TypeInv, CmdOK
<1> SUFFICES ASSUME cmd'.op = "continue"
             PROVE  /\ Ordered(t, On({"branch"}), On({"branch"}))
                    /\ \A w \in ToSet(t) :
                          /\ w.on \in {"branch", "mergeHead", "mergeMsg"}
                          /\ w.on = "branch" =>
                                /\ w.name = head' /\ mergeHead' # None
                                /\ commits'[w.to].parents = <<Tip', mergeHead'>>
  BY DEF ContinueInv
<1>1. cmd.op = "continue"
  BY <1>0
<1>2. /\ Ordered(t, On({"branch"}), On({"branch"}))
      /\ h \in On({"branch"}) => ToSet(t) \cap On({"branch"}) = {}
  BY <1>0, <1>1, OrderedFirst DEF ContinueInv
<1>3. h.on = "branch" => \A w \in ToSet(t) : w.on # "branch"
  BY <1>0, <1>2 DEF On
<1>4. h \in On({"mergeHead"}) => ToSet(t) \cap (Writes \ On({"mergeMsg"})) = {}
  BY <1>0, OrderedFirst DEF MergeInv
<1>5. h.on = "mergeHead" => \A w \in ToSet(t) : w.on # "branch"
  BY <1>0, <1>4 DEF On
<1>6. ASSUME NEW w \in ToSet(t), w.on = "branch"
      PROVE  /\ w.name = head' /\ mergeHead' # None
             /\ commits'[w.to].parents = <<Tip', mergeHead'>>
  <2>1. h.on = "mergeMsg"
    BY <1>0, <1>1, <1>3, <1>5, <1>6 DEF ContinueInv
  <2>2. head' = head /\ branch' = branch /\ mergeHead' = mergeHead
    BY <2>1, WriteEffect
  <2>3. Tip' = Tip
    BY <2>2 DEF Tip
  <2> QED
    BY <1>0, <1>1, <1>6, <2>2, <2>3 DEF ContinueInv
<1> QED
  BY <1>0, <1>1, <1>2, <1>6 DEF ContinueInv

\* A write of another kind, or at another path, does not disturb the file.
LEMMA SetsStep ==
  ASSUME TypeInv, Write, NEW K, NEW p \in Path, NEW v, Sets(todo, work[p], K, p, v),
         K \subseteq {"file", "untracked"}, Head(todo).on # "rename",
         \/ Head(todo).on \in K
         \/ Head(todo).on \notin {"file", "untracked"}
         \/ Head(todo).path # p
  PROVE  Sets(todo', work'[p], K, p, v)
<1> DEFINE h == Head(todo)
<1>0. /\ h \in Writes /\ ToSet(todo) = {h} \cup ToSet(todo') /\ work \in Tree
  BY WriteRest DEF TypeInv, FilesOK
<1>1. CASE h.on \in K /\ h.path = p
  <2>1. work' = [work EXCEPT ![h.path] = h.to] /\ h.to = v
    BY <1>0, <1>1, WriteEffect DEF Sets
  <2>2. work'[p] = v
    BY <1>0, <1>1, <2>1 DEF Tree
  <2> QED
    BY <1>0, <2>2 DEF Sets
<1>2. CASE ~(h.on \in K /\ h.path = p)
  <2>1. work'[p] = work[p]
    <3>1. CASE h.on \in {"file", "untracked"}
      <4>1. work' = [work EXCEPT ![h.path] = h.to] /\ h.path # p
        BY <1>2, <3>1, WriteEffect
      <4> QED
        BY <1>0, <4>1 DEF Tree
    <3>2. CASE h.on \notin {"file", "untracked"}
      BY <3>2, WriteEffect
    <3> QED
      BY <3>1, <3>2
  <2> QED
    BY <1>0, <1>2, <2>1 DEF Sets
<1> QED
  BY <1>1, <1>2

LEMMA WriteKeepsAbort ==
  ASSUME TypeInv, MergeInv, AbortInv, Write PROVE AbortInv'
<1> DEFINE h == Head(todo)
           t == todo'
<1>0. /\ h \in Writes /\ todo # <<>> /\ t = Tail(todo) /\ todo \in Seq(Writes)
      /\ ToSet(todo) = {h} \cup ToSet(t) /\ ToSet(t) \subseteq Writes
      /\ h \in ToSet(todo) /\ commits' = commits /\ doomed' \in {doomed, {}}
      /\ cmd'.op # "none" => cmd' = cmd
      /\ work \in Tree /\ doomed \subseteq Path /\ cmd.op # "none"
      /\ cmd'.op \in {cmd.op, "none"}
  BY WriteRest, WriteEffect DEF TypeInv, CmdOK, FilesOK, MergeOK
<1>1. CASE cmd.op # "abort"
  <2>1. doomed = {}
    BY <1>0, <1>1 DEF AbortInv
  <2>2. doomed' = {} /\ cmd'.op # "abort"
    BY <1>0, <1>1, <2>1
  <2> QED
    BY <2>2 DEF AbortInv
<1>2. CASE cmd.op = "abort"
  <2>1. Aborts(todo)
    BY <1>2 DEF AbortInv
  <2>2. h.on \in {"file", "index", "mergeHead", "mergeMsg"} /\ (h.on = "index" => h.to = HeadTree)
    BY <1>0, <2>1 DEF Aborts
  <2>3. HeadTree' = HeadTree
    <3>1. branch' = branch /\ head' = head
      BY <2>2, WriteEffect
    <3> QED
      BY <1>0, <3>1 DEF HeadTree, TreeOf, Tip
  <2>4. \A w \in ToSet(t) : /\ w.on \in {"file", "index", "mergeHead", "mergeMsg"}
                            /\ w.on = "index" => w.to = HeadTree
    BY <1>0, <2>1 DEF Aborts
  <2>5. index' = HeadTree \/ \E w \in ToSet(t) : w.on = "index"
    <3>1. CASE h.on = "index"
      BY <2>2, <3>1, WriteEffect
    <3>2. CASE h.on # "index"
      BY <1>0, <2>1, <3>2, WriteEffect DEF Aborts
    <3> QED
      BY <3>1, <3>2
  <2>6. \/ h.on \in {"file"} \/ h.on \notin {"file", "untracked"}
    BY <2>2
  <2>7. ASSUME NEW p \in Path, HeadTree[p] # Absent
        PROVE  Sets(t, work'[p], {"file"}, p, HeadTree[p])
    <3>1. Sets(todo, work[p], {"file"}, p, HeadTree[p])
      BY <2>1, <2>7 DEF Aborts
    <3> QED
      BY <2>2, <2>6, <3>1, SetsStep
  <2>8. ASSUME NEW p \in doomed
        PROVE  Sets(t, work'[p], {"file"}, p, Absent)
    <3>1. Sets(todo, work[p], {"file"}, p, Absent) /\ p \in Path
      BY <1>0, <2>1 DEF Aborts
    <3> QED
      BY <2>2, <2>6, <3>1, SetsStep
  <2>9. ASSUME NEW p \in Path, HeadTree[p] = Absent
        PROVE  /\ Ordered(t, On({"index"}), FileAt(p))
               /\ h \in On({"index"}) => ToSet(t) \cap FileAt(p) = {}
    <3>1. Ordered(todo, On({"index"}), FileAt(p))
      BY <2>1, <2>9 DEF Aborts
    <3> QED
      BY <1>0, <3>1, OrderedFirst
  <2>10. Aborts(todo)'
    <3>1. \A p \in doomed' : Sets(t, work'[p], {"file"}, p, Absent)
      BY <1>0, <2>8
    <3> QED
      BY <2>3, <2>4, <2>5, <2>7, <2>9, <3>1 DEF Aborts
  <2>11. ASSUME NEW p \in doomed'
         PROVE  HeadTree'[p] = Absent /\ (index'[p] # Absent \/ work'[p] = Absent)
    <3>1. p \in doomed /\ p \in Path /\ HeadTree[p] = Absent /\ (index[p] # Absent \/ work[p] = Absent)
      BY <1>0 DEF AbortInv
    <3>2. Sets(t, work'[p], {"file"}, p, Absent)
      BY <2>8, <3>1
    <3>3. CASE h.on = "index"
      <4>1. ~ \E w \in ToSet(t) : w.on \in {"file"} /\ w.path = p
        BY <1>0, <2>9, <3>1, <3>3 DEF On, FileAt
      <4> QED
        BY <2>3, <3>1, <3>2, <4>1 DEF Sets
    <3>4. CASE h.on = "file"
      <4>1. index' = index /\ work' = [work EXCEPT ![h.path] = h.to]
        BY <3>4, WriteEffect
      <4>2. h.path = p => h.to = Absent
        BY <1>0, <2>1, <3>1, <3>4 DEF Aborts, Sets
      <4>3. work'[p] \in {work[p], Absent}
        BY <1>0, <3>1, <4>1, <4>2 DEF Tree
      <4> QED
        BY <2>3, <3>1, <4>1, <4>3
    <3>5. CASE h.on \notin {"index", "file"}
      <4>1. index' = index /\ work' = work
        BY <2>2, <3>5, WriteEffect
      <4> QED
        BY <2>3, <3>1, <4>1
    <3> QED
      BY <3>3, <3>4, <3>5
  <2> QED
    BY <1>0, <1>2, <2>10, <2>11 DEF AbortInv
<1> QED
  BY <1>1, <1>2

LEMMA WriteKeepsPop ==
  ASSUME TypeInv, PopInv, Write PROVE PopInv'
<1> DEFINE h == Head(todo)
           t == todo'
           e == cmd.entry
<1>0. /\ h \in Writes /\ todo # <<>> /\ t = Tail(todo) /\ todo \in Seq(Writes)
      /\ ToSet(todo) = {h} \cup ToSet(t) /\ ToSet(t) \subseteq Writes
      /\ h \in ToSet(todo) /\ commits' = commits
      /\ cmd'.op # "none" => cmd' = cmd
      /\ work \in Tree
  BY WriteRest, WriteEffect DEF TypeInv, CmdOK, FilesOK
<1> SUFFICES ASSUME cmd'.op = "pop", \E w \in ToSet(t) : w.on = "stashLog"
             PROVE  Applies(todo, e)'
  <2>1. cmd'.op = "pop" => cmd'.entry = e
    BY <1>0
  <2> QED
    BY <2>1 DEF PopInv
<1>1. Applies(todo, e)
  BY <1>0 DEF PopInv
<1>2. cmd' = cmd
  BY <1>0
<1> HIDE DEF e
<1>3. e' = e
  BY <1>2 DEF e
<1>4. h.on # "rename"
  BY <1>0, <1>1 DEF Applies
<1>5. /\ Ordered(t, On({"stashLog"}), On({"file", "untracked"}))
      /\ Ordered(t, On({"untracked"}), On({"file"}))
      /\ h \in On({"untracked"}) => ToSet(t) \cap On({"file"}) = {}
  <2>1. Ordered(todo, On({"stashLog"}), On({"file", "untracked"}))
    BY <1>1 DEF Applies
  <2>2. Ordered(todo, On({"untracked"}), On({"file"}))
    BY <1>1 DEF Applies
  <2>3. Ordered(t, On({"stashLog"}), On({"file", "untracked"}))
    BY <1>0, <2>1, OrderedFirst
  <2> QED
    BY <1>0, <2>2, <2>3, OrderedFirst
<1>6. h.on = "untracked" => \A w \in ToSet(t) : w.on # "file"
  BY <1>0, <1>5 DEF On
<1>7. \A w \in ToSet(t) : w.on # "rename"
  BY <1>0, <1>1 DEF Applies
<1>8. ASSUME NEW p \in Path, e.untracked[p] # Absent
      PROVE  /\ \A w \in ToSet(t) : w.on = "untracked" /\ w.path = p => w.to = e.untracked[p]
             /\ \/ \E w \in ToSet(t) : w.on = "untracked" /\ w.path = p
                \/ Sets(t, work'[p], {"file"}, p, e.untracked[p])
  <2> DEFINE u == e.untracked[p]
  <2>1. /\ \A w \in ToSet(todo) : w.on = "untracked" /\ w.path = p => w.to = u
        /\ \/ \E w \in ToSet(todo) : w.on = "untracked" /\ w.path = p
           \/ Sets(todo, work[p], {"file"}, p, u)
    BY <1>1, <1>8 DEF Applies
  <2> HIDE DEF u
  <2> SUFFICES \/ \E w \in ToSet(t) : w.on = "untracked" /\ w.path = p
               \/ Sets(t, work'[p], {"file"}, p, u)
    BY <1>0, <2>1 DEF u
  <2>2. CASE h.on = "untracked" /\ h.path = p
    <3>1. work' = [work EXCEPT ![h.path] = h.to] /\ h.to = u
      BY <1>0, <2>1, <2>2, WriteEffect
    <3>2. work'[p] = u
      BY <1>0, <2>2, <3>1 DEF Tree
    <3> QED
      BY <1>6, <2>2, <3>2 DEF Sets
  <2>3. CASE ~(h.on = "untracked" /\ h.path = p)
    <3>1. CASE \E w \in ToSet(todo) : w.on = "untracked" /\ w.path = p
      BY <1>0, <2>3, <3>1
    <3>2. CASE Sets(todo, work[p], {"file"}, p, u)
      <4>1. \/ h.on \in {"file"} \/ h.on \notin {"file", "untracked"} \/ h.path # p
        BY <2>3
      <4>2. Sets(t, work'[p], {"file"}, p, u)
        BY <1>4, <3>2, <4>1, SetsStep
      <4> QED
        BY <4>2
    <3> QED
      BY <2>1, <3>1, <3>2
  <2> QED
    BY <2>2, <2>3
<1>9. ASSUME NEW p \in Path, e.untracked[p] = Absent, p \in Changed(TreeOf(e.base), e.tree)
      PROVE  /\ \A w \in ToSet(t) : w.on = "untracked" => w.path # p
             /\ Sets(t, work'[p], {"file"}, p, e.tree[p])
  <2>1. /\ \A w \in ToSet(todo) : w.on = "untracked" => w.path # p
        /\ Sets(todo, work[p], {"file"}, p, e.tree[p])
    BY <1>1, <1>9 DEF Applies
  <2>2. \/ h.on \in {"file"} \/ h.on \notin {"file", "untracked"} \/ h.path # p
    BY <1>0, <2>1
  <2>3. Sets(t, work'[p], {"file"}, p, e.tree[p])
    BY <1>4, <2>1, <2>2, SetsStep
  <2> QED
    BY <1>0, <2>1, <2>3
<1>10. \A c : TreeOf(c)' = TreeOf(c)
  BY <1>0 DEF TreeOf
<1> QED
  BY <1>3, <1>5, <1>7, <1>8, <1>9, <1>10 DEF Applies

LEMMA WriteStep ==
  ASSUME WorktreeInv, Write PROVE WorktreeInv'
BY WriteKeepsTypes, WriteKeepsEdits, WriteKeepsPush, WriteKeepsMerge, WriteKeepsContinue,
   WriteKeepsAbort, WriteKeepsPop DEF WorktreeInv

-----------------------------------------------------------------------------
(* A command starts *)

\* A commit is added, or none.
Grows ==
    \/ commits' = commits
    \/ \E tree \in Tree, parents \in Seq(Nat) :
          /\ ToSet(parents) \subseteq 1 .. Len(commits)
          /\ commits' = Append(commits, [tree |-> tree, parents |-> parents])

LEMMA GrowsFacts ==
  ASSUME HistoryOK, Grows
  PROVE  /\ Len(commits) \in Nat /\ Len(commits') \in Nat /\ Len(commits) <= Len(commits')
         /\ commits' \in Seq([tree : Tree, parents : Seq(Nat)])
         /\ \A c \in DOMAIN commits' : ToSet(commits'[c].parents) \subseteq 1 .. c - 1
         /\ \A c \in 1 .. Len(commits) : c \in 1 .. Len(commits') /\ commits'[c] = commits[c]
         /\ 1 .. Len(commits) \subseteq 1 .. Len(commits')
<1> DEFINE C == [tree : Tree, parents : Seq(Nat)]
<1>0. commits \in Seq(C) /\ Len(commits) \in Nat /\ DOMAIN commits = 1 .. Len(commits)
  BY DEF HistoryOK
<1>1. CASE commits' = commits
  BY <1>0, <1>1 DEF HistoryOK
<1>2. ASSUME NEW tree \in Tree, NEW parents \in Seq(Nat),
             ToSet(parents) \subseteq 1 .. Len(commits),
             commits' = Append(commits, [tree |-> tree, parents |-> parents])
      PROVE  /\ Len(commits) \in Nat /\ Len(commits') \in Nat /\ Len(commits) <= Len(commits')
             /\ commits' \in Seq([tree : Tree, parents : Seq(Nat)])
             /\ \A c \in DOMAIN commits' : ToSet(commits'[c].parents) \subseteq 1 .. c - 1
             /\ \A c \in 1 .. Len(commits) : c \in 1 .. Len(commits') /\ commits'[c] = commits[c]
             /\ 1 .. Len(commits) \subseteq 1 .. Len(commits')
  <2> DEFINE r == [tree |-> tree, parents |-> parents]
  <2>1. r \in C /\ r.parents = parents
    OBVIOUS
  <2> HIDE DEF C, r
  <2>2. /\ commits' \in Seq(C) /\ Len(commits') = Len(commits) + 1
        /\ \A c \in 1 .. Len(commits) : commits'[c] = commits[c]
        /\ commits'[Len(commits) + 1] = r
    BY <1>0, <1>2, <2>1 DEF r
  <2>3. \A c \in 1 .. Len(commits') : c \in 1 .. Len(commits) \/ c = Len(commits) + 1
    BY <1>0, <2>2
  <2>4. DOMAIN commits' = 1 .. Len(commits')
    BY <2>2
  <2>5. ASSUME NEW c \in 1 .. Len(commits') PROVE ToSet(commits'[c].parents) \subseteq 1 .. c - 1
    <3>1. CASE c \in 1 .. Len(commits)
      BY <1>0, <2>2, <3>1 DEF HistoryOK
    <3>2. CASE c = Len(commits) + 1
      <4>1. c - 1 = Len(commits)
        BY <1>0, <3>2
      <4> QED
        BY <1>2, <2>1, <2>2, <3>2, <4>1
    <3> QED
      BY <2>3, <3>1, <3>2
  <2>6. \A c \in 1 .. Len(commits) : c \in 1 .. Len(commits')
    BY <1>0, <2>2
  <2> QED
    BY <1>0, <2>2, <2>4, <2>5, <2>6 DEF C
<1> QED
  BY <1>1, <1>2 DEF Grows

\* What a command has to be like, with n commits
Fits(c, t, n) ==
    /\ c \in Cmd /\ c.op # "none" /\ c.tip \in 1 .. n \cup {None}
    /\ t \in Seq(Writes) /\ \A w \in ToSet(t) : Refers(w, n)

\* What Run does.
LEMMA RunFrame ==
  ASSUME NEW c, NEW t, c \in Cmd, Run(c, t)
  PROVE  /\ todo = <<>> /\ todo' = t /\ t # <<>>
         /\ UNCHANGED <<branch, head, index, work, mergeHead, mergeMsg, stashRef, stashLog, merged>>
         /\ cmd' \in Cmd
         /\ cmd'.op = c.op /\ cmd'.force = c.force /\ cmd'.tip = c.tip /\ cmd'.entry = c.entry
         /\ cmd'.edits = IF c.op = "push" THEN Path ELSE Edits
         /\ stale' = (stale \/ (mergeHead # None /\ c.op \notin StagingOp \cup {"continue"}))
         /\ c.op # "abort" => doomed' = {}
         /\ c.op = "abort" => doomed' = doomed \cup (Changed(index, HeadTree) \cap
                                                     {p \in Path : HeadTree[p] = Absent})
<1>1. /\ todo = <<>> /\ todo' = t /\ t # <<>>
      /\ UNCHANGED <<branch, head, index, work, mergeHead, mergeMsg, stashRef, stashLog, merged>>
  BY DEF Run, Idle, repo
<1>2. /\ stale' = (stale \/ (mergeHead # None /\ c.op \notin StagingOp \cup {"continue"}))
      /\ c.op # "abort" => doomed' = {}
      /\ c.op = "abort" => doomed' = doomed \cup (Changed(index, HeadTree) \cap
                                                  {p \in Path : HeadTree[p] = Absent})
  BY DEF Run
<1> DEFINE E == IF c.op = "push" THEN Path ELSE Edits
<1>3. E \in SUBSET Path
  BY DEF Edits, StageZero
<1>4. cmd' = [op |-> c.op, force |-> c.force, edits |-> E, tip |-> c.tip, entry |-> c.entry]
  BY DEF Run, NoCmd
<1> HIDE DEF E
<1>5. /\ cmd' \in Cmd /\ cmd'.op = c.op /\ cmd'.force = c.force /\ cmd'.tip = c.tip
      /\ cmd'.entry = c.entry /\ cmd'.edits = E
  BY <1>3, <1>4 DEF Cmd
<1> QED
  BY <1>1, <1>2, <1>5 DEF E

LEMMA RunTypes ==
  ASSUME WorktreeInv, Grows, NEW c, NEW t, Fits(c, t, Len(commits')), Run(c, t)
  PROVE  TypeInv' /\ HeadTree' = HeadTree /\ Tip' = Tip
<1> USE DEF WorktreeInv, TypeInv
<1> DEFINE n == Len(commits)
           m == Len(commits')
<1>1. /\ n \in Nat /\ m \in Nat /\ 1 .. n \subseteq 1 .. m
      /\ \A k \in 1 .. n : commits'[k] = commits[k]
  BY GrowsFacts
<1>2. UNCHANGED <<branch, head, index, work, mergeHead, mergeMsg, stashRef, stashLog, merged>>
  BY RunFrame DEF Fits
<1>3. branch \in [Branch -> 1 .. n] /\ head \in Branch
  BY DEF HistoryOK
<1>4. Tip' = Tip /\ Tip \in 1 .. n
  BY <1>2, <1>3 DEF Tip
<1>5. HeadTree' = HeadTree
  BY <1>1, <1>4 DEF HeadTree, TreeOf
<1> HIDE DEF n, m
<1>6. HistoryOK'
  <2>1. branch' \in [Branch -> 1 .. m] /\ head' \in Branch
    BY <1>1, <1>2, <1>3
  <2> QED
    BY <2>1, GrowsFacts DEF HistoryOK, m
<1>7. FilesOK'
  BY <1>2 DEF FilesOK
<1>8. StashOK'
  <2>1. /\ stashRef \in Entry \cup {None} /\ stashLog \in Seq(Entry) \cup {None}
        /\ stashRef # None => stashRef.base \in 1 .. n
        /\ stashLog # None => \A e \in ToSet(stashLog) : e.base \in 1 .. n
    BY DEF StashOK, n
  <2>2. /\ stashRef # None => stashRef.base \in 1 .. m
        /\ stashLog # None => \A e \in ToSet(stashLog) : e.base \in 1 .. m
    BY <1>1, <2>1
  <2> QED
    BY <1>2, <2>1, <2>2 DEF StashOK, m
<1>9. MergeOK'
  <2>1. /\ mergeHead \in 1 .. n \cup {None} /\ mergeMsg \in BOOLEAN
        /\ merged \in 1 .. n \cup {None} /\ stale \in BOOLEAN /\ doomed \subseteq Path
    BY DEF MergeOK, n
  <2>2. mergeHead \in 1 .. m \cup {None} /\ merged \in 1 .. m \cup {None}
    BY <1>1, <2>1
  <2>3. stale' \in BOOLEAN
    BY <2>1, RunFrame DEF Fits
  <2>4. doomed' \subseteq Path
    BY <2>1, RunFrame DEF Fits, Changed
  <2> QED
    BY <1>2, <2>1, <2>2, <2>3, <2>4 DEF MergeOK, m
<1>10. CmdOK'
  <2>1. NoCmd.op = "none"
    BY DEF NoCmd
  <2>2. /\ c.op # "none" /\ c.tip \in 1 .. m \cup {None}
        /\ t \in Seq(Writes) /\ \A w \in ToSet(t) : Refers(w, m)
    BY DEF Fits, m
  <2>3. todo' = t /\ t # <<>> /\ cmd' \in Cmd /\ cmd'.op = c.op /\ cmd'.tip = c.tip
    BY RunFrame DEF Fits
  <2> QED
    BY <2>1, <2>2, <2>3 DEF CmdOK, m
<1> QED
  BY <1>4, <1>5, <1>6, <1>7, <1>8, <1>9, <1>10

\* The part of the invariant about merges when a command starts: it is enough
\* that the writes are in order, and that a MERGE_HEAD is that of a merge which
\* writes the index first.
LEMMA RunMerge ==
  ASSUME WorktreeInv, NEW c, NEW t, c \in Cmd, Run(c, t),
         Ordered(t, On({"mergeHead"}), Writes \ On({"mergeMsg"})),
         \A w \in ToSet(t) : w.on = "mergeHead" /\ w.to # None =>
            /\ c.op = "merge" /\ w.to = c.tip
            /\ \E x \in ToSet(t) : x.on = "index"
  PROVE  MergeInv'
<1>1. /\ todo' = t /\ cmd'.op = c.op /\ cmd'.tip = c.tip
      /\ UNCHANGED <<mergeHead, merged>>
      /\ stale' = (stale \/ (mergeHead # None /\ c.op \notin StagingOp \cup {"continue"}))
  BY RunFrame
<1>2. mergeHead' # None /\ ~stale' => merged' = mergeHead'
  BY <1>1 DEF WorktreeInv, MergeInv
<1> QED
  BY <1>1, <1>2 DEF MergeInv

\* A command that neither touches MERGE_HEAD nor is one of those that have a
\* plan of their own
LEMMA RunPlain ==
  ASSUME WorktreeInv, Grows, NEW c, NEW t, Fits(c, t, Len(commits')), Run(c, t),
         c.op \notin {"push", "abort", "continue", "pop"},
         \A w \in ToSet(t) : w.on # "mergeHead",
         c.force \/ c.op = "push staged" \/
            \A w \in ToSet(t) : w.on = "file" => w.path \notin Edits
  PROVE  WorktreeInv'
<1>1. TypeInv'
  BY RunTypes
<1>2. /\ todo' = t /\ cmd'.op = c.op /\ cmd'.force = c.force /\ cmd'.edits = Edits
      /\ doomed' = {}
  BY RunFrame DEF Fits
<1>3. Ordered(t, On({"mergeHead"}), Writes \ On({"mergeMsg"}))
  <2>1. ToSet(t) \cap On({"mergeHead"}) = {}
    BY DEF On
  <2> QED
    BY <2>1, OrderedFree
<1>4. MergeInv'
  BY <1>3, RunMerge DEF Fits
<1>5. EditsInv'
  BY <1>2 DEF EditsInv
<1>6. PushInv' /\ ContinueInv' /\ AbortInv' /\ PopInv'
  BY <1>2 DEF PushInv, ContinueInv, AbortInv, PopInv
<1> QED
  BY <1>1, <1>4, <1>5, <1>6 DEF WorktreeInv

-----------------------------------------------------------------------------
(* Nothing runs *)

LEMMA QuietStep ==
  ASSUME TypeInv', todo' = <<>>, cmd' = NoCmd,
         mergeHead' # None /\ ~stale' => merged' = mergeHead',
         \A p \in doomed' : HeadTree'[p] = Absent /\ (index'[p] # Absent \/ work'[p] = Absent)
  PROVE  WorktreeInv'
<1>1. ToSet(todo') = {} /\ cmd'.op = "none"
  BY SeqNone DEF NoCmd
<1>2. Ordered(todo', On({"mergeHead"}), Writes \ On({"mergeMsg"}))
  BY <1>1, OrderedFree
<1>3. MergeInv'
  BY <1>1, <1>2 DEF MergeInv
<1> QED
  BY <1>1, <1>3 DEF WorktreeInv, EditsInv, PushInv, ContinueInv, AbortInv, PopInv

LEMMA NoCmdOK == NoCmd \in Cmd /\ NoCmd.op = "none" /\ NoCmd.tip = None
BY DEF NoCmd, Cmd, Op

LEMMA KillStep ==
  ASSUME WorktreeInv, Kill PROVE WorktreeInv'
<1>1. /\ todo' = <<>> /\ cmd' = NoCmd
      /\ UNCHANGED <<commits, branch, head, index, work, mergeHead, mergeMsg, stashRef, stashLog,
                     merged, stale, doomed>>
  BY DEF Kill, repo, ghosts
<1>2. TypeInv'
  <2>1. CmdOK'
    BY <1>1, NoCmdOK, SeqNone DEF CmdOK
  <2> QED
    BY <1>1, <2>1 DEF WorktreeInv, TypeInv, HistoryOK, FilesOK, StashOK, MergeOK
<1>3. HeadTree' = HeadTree
  BY <1>1 DEF HeadTree, TreeOf, Tip
<1> QED
  BY <1>1, <1>2, <1>3, QuietStep DEF WorktreeInv, MergeInv, AbortInv

LEMMA EditFileStep ==
  ASSUME WorktreeInv, NEW p \in Path, NEW v \in Written \cup {Absent}, EditFile(p, v)
  PROVE  WorktreeInv'
<1>1. /\ todo = <<>> /\ work' = [work EXCEPT ![p] = v] /\ doomed' = doomed \ {p}
      /\ UNCHANGED <<commits, branch, head, index, mergeHead, mergeMsg, stashRef, stashLog,
                     cmd, todo, merged, stale>>
  BY DEF EditFile
<1>2. cmd = NoCmd /\ work \in Tree /\ doomed \subseteq Path
  BY <1>1 DEF WorktreeInv, TypeInv, CmdOK, FilesOK, MergeOK
<1>3. work' \in Tree
  BY <1>1, <1>2, WorktreeAssumption DEF Tree, File
<1>4. TypeInv'
  BY <1>1, <1>2, <1>3 DEF WorktreeInv, TypeInv, HistoryOK, FilesOK, StashOK, MergeOK, CmdOK
<1>5. HeadTree' = HeadTree
  BY <1>1 DEF HeadTree, TreeOf, Tip
<1>6. \A q \in doomed' : HeadTree'[q] = Absent /\ (index'[q] # Absent \/ work'[q] = Absent)
  <2> SUFFICES ASSUME NEW q \in doomed'
               PROVE  HeadTree'[q] = Absent /\ (index'[q] # Absent \/ work'[q] = Absent)
    OBVIOUS
  <2>1. q \in doomed /\ q # p /\ q \in Path
    BY <1>1, <1>2
  <2>2. work'[q] = work[q]
    BY <1>1, <1>2, <2>1 DEF Tree
  <2> QED
    BY <1>1, <1>5, <2>1, <2>2 DEF WorktreeInv, AbortInv
<1> QED
  BY <1>1, <1>2, <1>4, <1>6, QuietStep DEF WorktreeInv, MergeInv

LEMMA InitInv ==
  ASSUME Init PROVE WorktreeInv
<1>1. PICK r \in Initial : commits = r.commits /\ branch = r.branch /\ head = r.head
  BY DEF Init
<1>2. /\ commits \in Seq([tree : Tree, parents : Seq(Nat)])
      /\ \A c \in DOMAIN commits : ToSet(commits[c].parents) \subseteq 1 .. c - 1
      /\ branch \in [Branch -> DOMAIN commits] /\ head \in Branch
  BY <1>1, WorktreeAssumption
<1>3. DOMAIN commits = 1 .. Len(commits)
  BY <1>2
<1>4. HistoryOK
  BY <1>2, <1>3 DEF HistoryOK
<1>5. HeadTree \in Tree
  <2>1. Tip \in DOMAIN commits
    BY <1>2 DEF Tip
  <2> DEFINE C == [tree : Tree, parents : Seq(Nat)]
  <2>2. \A r2 \in C : r2.tree \in Tree
    OBVIOUS
  <2>3. commits \in Seq(C)
    BY <1>2
  <2> HIDE DEF C
  <2>4. commits[Tip] \in C
    BY <1>3, <2>1, <2>3
  <2> QED
    BY <2>2, <2>4 DEF HeadTree, TreeOf
<1>6. index = HeadTree /\ work = index /\ mergeHead = None /\ mergeMsg = FALSE /\ stashRef = None
      /\ stashLog = None /\ cmd = NoCmd /\ todo = <<>> /\ merged = None /\ stale = FALSE
      /\ doomed = {}
  BY DEF Init
<1>7. Tree \subseteq Index
  BY DEF Tree, Index
<1>8. TypeInv
  <2>1. CmdOK
    BY <1>6, NoCmdOK, SeqNone DEF CmdOK
  <2>2. FilesOK
    BY <1>5, <1>6, <1>7 DEF FilesOK
  <2> QED
    BY <1>4, <1>6, <2>1, <2>2 DEF TypeInv, StashOK, MergeOK
<1>9. ToSet(todo) = {} /\ cmd.op = "none"
  BY <1>6, SeqNone, NoCmdOK
<1>10. Ordered(todo, On({"mergeHead"}), Writes \ On({"mergeMsg"}))
  BY <1>9, OrderedFree
<1>11. MergeInv
  BY <1>6, <1>9, <1>10 DEF MergeInv
<1> QED
  BY <1>6, <1>8, <1>9, <1>11 DEF WorktreeInv, EditsInv, PushInv, ContinueInv, AbortInv, PopInv

-----------------------------------------------------------------------------
(* Trees, and the parts that plans are made of *)

LEMMA StateFacts ==
  ASSUME TypeInv
  PROVE  /\ Len(commits) \in Nat /\ DOMAIN commits = 1 .. Len(commits)
         /\ \A b \in Branch : branch[b] \in 1 .. Len(commits)
         /\ head \in Branch /\ Tip \in 1 .. Len(commits)
         /\ \A c \in 1 .. Len(commits) : TreeOf(c) \in Tree /\ commits[c].parents \in Seq(Nat)
                                         /\ ToSet(commits[c].parents) \subseteq 1 .. c - 1
         /\ HeadTree \in Tree /\ index \in Index /\ work \in Tree
<1> DEFINE C == [tree : Tree, parents : Seq(Nat)]
<1>1. commits \in Seq(C) /\ branch \in [Branch -> 1 .. Len(commits)] /\ head \in Branch
  BY DEF TypeInv, HistoryOK
<1>2. \A r \in C : r.tree \in Tree /\ r.parents \in Seq(Nat)
  OBVIOUS
<1> HIDE DEF C
<1>3. Len(commits) \in Nat /\ DOMAIN commits = 1 .. Len(commits)
  BY <1>1
<1>4. \A c \in 1 .. Len(commits) : commits[c] \in C
  BY <1>1
<1>5. Tip \in 1 .. Len(commits)
  BY <1>1 DEF Tip
<1>6. \A c \in 1 .. Len(commits) : TreeOf(c) \in Tree /\ commits[c].parents \in Seq(Nat)
  BY <1>2, <1>4 DEF TreeOf
<1>7. HeadTree \in Tree
  BY <1>5, <1>6 DEF HeadTree
<1> QED
  BY <1>1, <1>3, <1>5, <1>6, <1>7 DEF TypeInv, HistoryOK, FilesOK

LEMMA TreeFacts ==
  /\ Tree \subseteq Index /\ Absent \in File
  /\ \A idx \in Index : \A p \in StageZero(idx) : p \in Path /\ idx[p] \in File
  /\ \A f \in Tree : \A old, new : RemoveMissing(f, old, new) \in Tree
  /\ \A f \in Tree, new \in Index : \A P : Checkout(f, new, P) \in Tree
  /\ \A f \in Tree, p \in Path, v \in File : [f EXCEPT ![p] = v] \in Tree
  /\ \A f \in Index, p \in Path, v \in File : [f EXCEPT ![p] = v] \in Index
<1>1. Tree \subseteq Index /\ Absent \in File
  BY DEF Tree, Index, File
<1>2. \A idx \in Index : \A p \in StageZero(idx) : p \in Path /\ idx[p] \in File
  BY DEF StageZero, Index, File
<1>3. \A f \in Tree : \A old, new : RemoveMissing(f, old, new) \in Tree
  BY <1>1 DEF RemoveMissing, Tree
<1>4. ASSUME NEW f \in Tree, NEW new \in Index, NEW P PROVE Checkout(f, new, P) \in Tree
  <2>1. \A p \in Path : (IF p \in P \cap StageZero(new) THEN new[p] ELSE f[p]) \in File
    BY <1>2 DEF Tree
  <2> QED
    BY <2>1 DEF Checkout, Tree
<1>5. \A f \in Tree, p \in Path, v \in File : [f EXCEPT ![p] = v] \in Tree
  BY DEF Tree
<1>6. \A f \in Index, p \in Path, v \in File : [f EXCEPT ![p] = v] \in Index
  BY DEF Index
<1> QED
  BY <1>1, <1>2, <1>3, <1>4, <1>5, <1>6

\* What RemoveMissing and Checkout do to a path
LEMMA RemovedAt ==
  ASSUME NEW f, NEW old, NEW new, NEW p \in Path
  PROVE  RemoveMissing(f, old, new)[p] =
            IF old[p] # Absent /\ new[p] = Absent THEN Absent ELSE f[p]
BY DEF RemoveMissing

LEMMA CheckedOutAt ==
  ASSUME NEW f, NEW new, NEW P, NEW p \in Path
  PROVE  Checkout(f, new, P)[p] =
            IF p \in P /\ new[p] \notin {Absent, Unmerged} THEN new[p] ELSE f[p]
BY DEF Checkout, StageZero

\* Writes of the kinds K that refer to the first n commits
Plan(t, K, n) ==
    /\ t \in Seq(Writes)
    /\ \A w \in ToSet(t) : Refers(w, n) /\ w.on \in K

\* No file of D is written.
Spares(t, D) == \A w \in ToSet(t) : w.on = "file" => w.path \notin D

LEMMA PlanJoin ==
  ASSUME NEW a, NEW b, NEW K, NEW n, Plan(a, K, n), Plan(b, K, n)
  PROVE  /\ Plan(a \o b, K, n) /\ ToSet(a \o b) = ToSet(a) \cup ToSet(b)
         /\ \A D : Spares(a, D) /\ Spares(b, D) => Spares(a \o b, D)
<1>1. a \in Seq(Writes) /\ b \in Seq(Writes)
  BY DEF Plan
<1>2. a \o b \in Seq(Writes) /\ ToSet(a \o b) = ToSet(a) \cup ToSet(b)
  BY <1>1, SeqJoin
<1> QED
  BY <1>2 DEF Plan, Spares

LEMMA PlanNone ==
  ASSUME NEW K, NEW n
  PROVE  Plan(<<>>, K, n) /\ ToSet(<<>>) = {} /\ \A D : Spares(<<>>, D)
BY SeqNone DEF Plan, Spares

LEMMA PlanOne ==
  ASSUME NEW w \in Writes, NEW K, NEW n, Refers(w, n), w.on \in K
  PROVE  /\ Plan(<<w>>, K, n) /\ ToSet(<<w>>) = {w}
         /\ w.on # "file" => \A D : Spares(<<w>>, D)
<1>1. <<w>> \in Seq(Writes) /\ ToSet(<<w>>) = {w}
  BY SeqOne
<1> QED
  BY <1>1 DEF Plan, Spares

PutW(on, to) == [on |-> on, to |-> to]

LEMMA PutFields ==
  ASSUME NEW on, NEW to
  PROVE  Put(on, to) = <<PutW(on, to)>> /\ PutW(on, to).on = on /\ PutW(on, to).to = to
BY DEF Put, PutW

LEMMA PutPlan ==
  ASSUME NEW on, NEW to, NEW K, NEW n, on \in K, PutW(on, to) \in Writes, Refers(PutW(on, to), n)
  PROVE  /\ Plan(Put(on, to), K, n) /\ ToSet(Put(on, to)) = {PutW(on, to)}
         /\ on # "file" => \A D : Spares(Put(on, to), D)
<1> DEFINE w == PutW(on, to)
<1>1. Put(on, to) = <<w>> /\ w.on = on
  BY PutFields
<1> HIDE DEF w
<1>2. w \in Writes /\ Refers(w, n) /\ w.on \in K
  BY <1>1 DEF w
<1> QED
  BY <1>1, <1>2, PlanOne DEF w

LEMMA PlanIndex ==
  ASSUME NEW v \in Index, NEW K, NEW n, "index" \in K
  PROVE  /\ Plan(Put("index", v), K, n) /\ ToSet(Put("index", v)) = {PutW("index", v)}
         /\ \A D : Spares(Put("index", v), D)
<1>1. PutW("index", v) \in Writes
  BY DEF PutW, Writes, IndexW
<1>2. Refers(PutW("index", v), n)
  BY PutFields DEF Refers
<1> QED
  BY <1>1, <1>2, PutPlan

LEMMA PlanHead ==
  ASSUME NEW v \in Branch, NEW K, NEW n, "head" \in K
  PROVE  /\ Plan(Put("head", v), K, n) /\ ToSet(Put("head", v)) = {PutW("head", v)}
         /\ \A D : Spares(Put("head", v), D)
<1>1. PutW("head", v) \in Writes
  BY DEF PutW, Writes, HeadW
<1>2. Refers(PutW("head", v), n)
  BY PutFields DEF Refers
<1> QED
  BY <1>1, <1>2, PutPlan

LEMMA PlanMergeHead ==
  ASSUME NEW K, NEW n \in Nat, NEW v \in 1 .. n \cup {None}, "mergeHead" \in K
  PROVE  /\ Plan(Put("mergeHead", v), K, n)
         /\ ToSet(Put("mergeHead", v)) = {PutW("mergeHead", v)}
         /\ \A D : Spares(Put("mergeHead", v), D)
<1>1. PutW("mergeHead", v) \in Writes
  <2>1. v \in Nat \cup {None}
    OBVIOUS
  <2> QED
    BY <2>1 DEF PutW, Writes, MergeHeadW
<1>2. Refers(PutW("mergeHead", v), n)
  BY PutFields DEF Refers
<1> QED
  BY <1>1, <1>2, PutPlan

LEMMA PlanMergeMsg ==
  ASSUME NEW v \in BOOLEAN, NEW K, NEW n, "mergeMsg" \in K
  PROVE  /\ Plan(Put("mergeMsg", v), K, n)
         /\ ToSet(Put("mergeMsg", v)) = {PutW("mergeMsg", v)}
         /\ \A D : Spares(Put("mergeMsg", v), D)
<1>1. PutW("mergeMsg", v) \in Writes
  BY DEF PutW, Writes, MergeMsgW
<1>2. Refers(PutW("mergeMsg", v), n)
  BY PutFields DEF Refers
<1> QED
  BY <1>1, <1>2, PutPlan

LEMMA PlanStashRef ==
  ASSUME NEW n, NEW v \in Entry \cup {None}, v # None => v.base \in 1 .. n, NEW K,
         "stashRef" \in K
  PROVE  /\ Plan(Put("stashRef", v), K, n)
         /\ ToSet(Put("stashRef", v)) = {PutW("stashRef", v)}
         /\ \A D : Spares(Put("stashRef", v), D)
<1>1. PutW("stashRef", v) \in Writes
  BY DEF PutW, Writes, StashRefW
<1>2. Refers(PutW("stashRef", v), n)
  BY PutFields DEF Refers
<1> QED
  BY <1>1, <1>2, PutPlan

LEMMA PlanStashLog ==
  ASSUME NEW n, NEW v \in Seq(Entry) \cup {None},
         v # None => \A e \in ToSet(v) : e.base \in 1 .. n, NEW K, "stashLog" \in K
  PROVE  /\ Plan(Put("stashLog", v), K, n)
         /\ ToSet(Put("stashLog", v)) = {PutW("stashLog", v)}
         /\ \A D : Spares(Put("stashLog", v), D)
<1>1. PutW("stashLog", v) \in Writes
  BY DEF PutW, Writes, StashLogW
<1>2. Refers(PutW("stashLog", v), n)
  BY PutFields DEF Refers
<1> QED
  BY <1>1, <1>2, PutPlan

BranchWrite(b, c) == [on |-> "branch", name |-> b, to |-> c]

LEMMA PlanBranch ==
  ASSUME NEW n \in Nat, NEW b \in Branch, NEW c \in 1 .. n, NEW K, "branch" \in K
  PROVE  /\ Plan(PutBranch(b, c), K, n) /\ ToSet(PutBranch(b, c)) = {BranchWrite(b, c)}
         /\ \A D : Spares(PutBranch(b, c), D)
<1> DEFINE w == BranchWrite(b, c)
<1>1. PutBranch(b, c) = <<w>> /\ w.on = "branch" /\ w.to = c
  BY DEF PutBranch, BranchWrite
<1>2. w \in Writes
  BY DEF BranchWrite, Writes, BranchW
<1> HIDE DEF w
<1>3. Refers(w, n) /\ w.on \in K /\ w.on # "file"
  BY <1>1 DEF Refers
<1> QED
  BY <1>1, <1>2, <1>3, PlanOne DEF w

LEMMA PlanFiles ==
  ASSUME NEW now, NEW then \in Tree, NEW t \in {FileWrites(now, then), FileWritesUp(now, then)},
         NEW K, NEW n, "file" \in K
  PROVE  /\ Plan(t, K, n)
         /\ \A w \in ToSet(t) : /\ w \in Writes /\ w.on = "file" /\ w.path \in Path
                                /\ w.to = then[w.path] /\ now[w.path] # then[w.path]
         /\ \A p \in Path : now[p] # then[p] =>
               \E w \in ToSet(t) : w.on = "file" /\ w.path = p /\ w.to = then[p]
<1>1. /\ t \in Seq(Writes)
      /\ \A w \in ToSet(t) : /\ w \in Writes /\ w.on = "file" /\ w.path \in Path
                             /\ w.to = then[w.path] /\ now[w.path] # then[w.path]
      /\ \A p \in Path : now[p] # then[p] =>
            \E w \in ToSet(t) : w.on = "file" /\ w.path = p /\ w.to = then[p]
  BY FileWritesIn
<1>2. \A w \in ToSet(t) : Refers(w, n)
  BY <1>1 DEF Refers
<1> QED
  BY <1>1, <1>2 DEF Plan

LEMMA FilesSpare ==
  ASSUME NEW now, NEW then \in Tree, NEW t \in {FileWrites(now, then), FileWritesUp(now, then)},
         NEW D, \A p \in D \cap Path : now[p] = then[p]
  PROVE  Spares(t, D)
BY FileWritesIn DEF Spares

\* The commands without a plan of their own
PlainKinds == {"file", "untracked", "rename", "index", "branch", "head", "stashRef", "stashLog"}
OwnPlan == {"none", "push", "abort", "continue", "pop"}

LEMMA PlainStep ==
  ASSUME WorktreeInv, Grows, NEW c \in Cmd, NEW t, Run(c, t), c.op \notin OwnPlan, c.tip = None,
         Plan(t, PlainKinds, Len(commits')),
         c.force \/ c.op = "push staged" \/ Spares(t, Edits)
  PROVE  WorktreeInv'
<1>1. Fits(c, t, Len(commits'))
  BY DEF Fits, Plan, OwnPlan
<1>2. \A w \in ToSet(t) : w.on # "mergeHead"
  BY DEF Plan, PlainKinds
<1> QED
  BY <1>1, <1>2, RunPlain DEF OwnPlan, Spares

LEMMA CmdFacts ==
  ASSUME NEW op \in Op, NEW force \in BOOLEAN
  PROVE  /\ Plain(op) \in Cmd /\ Plain(op).op = op /\ Plain(op).force = FALSE
         /\ Plain(op).tip = None /\ Plain(op).entry = None
         /\ Forced(op, force) \in Cmd /\ Forced(op, force).op = op
         /\ Forced(op, force).force = force
         /\ Forced(op, force).tip = None
BY DEF Plain, Forced, NoCmd, Cmd

-----------------------------------------------------------------------------
(* Staging, cleaning and committing *)

LEMMA StagedFacts ==
  ASSUME TypeInv PROVE StageTracked \in Index
<1>1. index \in Index /\ work \in Tree
  BY StateFacts
<1> QED
  BY <1>1 DEF StageTracked, Index, Tree

LEMMA IndexRun ==
  ASSUME WorktreeInv, NEW v \in Index, Run(Plain("add"), Put("index", v)), UNCHANGED commits
  PROVE  WorktreeInv'
<1> DEFINE c == Plain("add")
           t == Put("index", v)
<1>1. c \in Cmd /\ c.op = "add" /\ c.tip = None
  BY CmdFacts DEF Op
<1>2. Plan(t, PlainKinds, Len(commits')) /\ Spares(t, Edits)
  BY PlanIndex DEF PlainKinds
<1>3. Grows /\ c.op \notin OwnPlan
  BY <1>1 DEF Grows, OwnPlan
<1> HIDE DEF c, t
<1> QED
  BY <1>1, <1>2, <1>3, PlainStep DEF c, t

LEMMA AddStep ==
  ASSUME WorktreeInv, NEW p \in Path, Add(p) PROVE WorktreeInv'
<1>1. index \in Index /\ work \in Tree
  BY StateFacts DEF WorktreeInv
<1>2. [index EXCEPT ![p] = work[p]] \in Index
  BY <1>1, TreeFacts DEF Tree
<1> QED
  BY <1>2, IndexRun DEF Add

LEMMA AddAllStep ==
  ASSUME WorktreeInv, AddAll PROVE WorktreeInv'
<1> DEFINE v == [p \in Path |-> IF work[p] # Absent THEN work[p] ELSE StageTracked[p]]
<1>1. StageTracked \in Index /\ work \in Tree
  BY StateFacts, StagedFacts DEF WorktreeInv
<1>2. v \in Index
  BY <1>1 DEF Index, Tree
<1> HIDE DEF v
<1> QED
  BY <1>2, IndexRun DEF AddAll, v

LEMMA RmStep ==
  ASSUME WorktreeInv, NEW p \in Path, NEW cached \in BOOLEAN, NEW force \in BOOLEAN,
         Rm(p, cached, force)
  PROVE  WorktreeInv'
<1> DEFINE c == Forced("rm", force)
           new == [work EXCEPT ![p] = Absent]
           a == IF cached THEN <<>> ELSE FileWrites(work, new)
           b == Put("index", [index EXCEPT ![p] = Absent])
           n == Len(commits')
<1>1. c \in Cmd /\ c.op = "rm" /\ c.tip = None /\ c.force = force
  <2>1. "rm" \in Op
    BY DEF Op
  <2> QED
    BY <2>1, CmdFacts, Zenon
<1>2. index \in Index /\ work \in Tree
  BY StateFacts DEF WorktreeInv
<1>3. new \in Tree /\ [index EXCEPT ![p] = Absent] \in Index
  BY <1>2, TreeFacts
<1>4. Plan(b, PlainKinds, n) /\ Spares(b, Edits)
  BY <1>3, PlanIndex DEF PlainKinds
<1>5. Run(c, a \o b) /\ Grows /\ c.op \notin OwnPlan
  BY <1>1 DEF Rm, Grows, OwnPlan
<1>6. force \/ cached \/ p \notin Edits
  BY DEF Rm, RmSafe, Edits
<1>7. \A q \in Path : q # p => work[q] = new[q]
  BY <1>2 DEF Tree
<1> HIDE DEF new, b, n, c
<1>8. Plan(a, PlainKinds, n) /\ (force \/ Spares(a, Edits))
  <2>1. CASE cached
    BY <2>1, PlanNone
  <2>2. CASE ~cached
    <3>1. Plan(a, PlainKinds, n)
      BY <1>3, <2>2, PlanFiles DEF PlainKinds
    <3>2. ASSUME ~force PROVE \A q \in Edits \cap Path : work[q] = new[q]
      BY <1>6, <1>7, <2>2, <3>2
    <3>3. ASSUME ~force PROVE Spares(a, Edits)
      BY <1>3, <2>2, <3>2, <3>3, FilesSpare
    <3> QED
      BY <3>1, <3>3
  <2> QED
    BY <2>1, <2>2
<1> HIDE DEF a
<1> DEFINE t == a \o b
<1>9. Plan(t, PlainKinds, n) /\ (c.force \/ Spares(t, Edits))
  BY <1>1, <1>4, <1>8, PlanJoin
<1>10. Run(c, t)
  BY <1>5
<1> HIDE DEF t
<1> QED
  BY <1>1, <1>5, <1>9, <1>10, PlainStep DEF n

LEMMA MvStep ==
  ASSUME WorktreeInv, NEW p \in Path, NEW q \in Path, NEW force \in BOOLEAN, Mv(p, q, force)
  PROVE  WorktreeInv'
<1> DEFINE c == Forced("mv", force)
           new == [work EXCEPT ![q] = Absent]
           cleared == FileWrites(work, new)
           r == [on |-> "rename", path |-> p, to |-> q]
           idx == [index EXCEPT ![p] = Absent, ![q] = index[p]]
           b == Put("index", idx)
           n == Len(commits')
           t == IF p = q \/ work[p] = Absent THEN cleared ELSE cleared \o <<r>> \o b
<1>1. c \in Cmd /\ c.op = "mv" /\ c.tip = None /\ c.force = force
  <2>1. "mv" \in Op
    BY DEF Op
  <2> QED
    BY <2>1, CmdFacts, Zenon
<1>2. index \in Index /\ work \in Tree
  BY StateFacts DEF WorktreeInv
<1>3. new \in Tree /\ idx \in Index
  <2>1. index[p] \in File
    BY <1>2, TreeFacts DEF Mv
  <2>2. [index EXCEPT ![p] = Absent] \in Index
    BY <1>2, TreeFacts
  <2>3. idx = [[index EXCEPT ![p] = Absent] EXCEPT ![q] = index[p]]
    BY <1>2 DEF Index
  <2> QED
    BY <1>2, <2>1, <2>2, <2>3, TreeFacts
<1>4. Plan(b, PlainKinds, n) /\ Spares(b, Edits)
  BY <1>3, PlanIndex DEF PlainKinds
<1>5. Plan(<<r>>, PlainKinds, n) /\ Spares(<<r>>, Edits)
  <2>1. r \in Writes /\ r.on = "rename"
    BY DEF Writes, RenameW
  <2> HIDE DEF r
  <2>2. Refers(r, n) /\ r.on \in PlainKinds /\ r.on # "file"
    BY <2>1 DEF Refers, PlainKinds
  <2> QED
    BY <2>1, <2>2, PlanOne
<1>6. Run(c, t) /\ Grows /\ c.op \notin OwnPlan
  BY <1>1 DEF Mv, Grows, OwnPlan
<1>7. force \/ q \notin Edits
  BY DEF Mv, Edits, StageZero
<1>8. \A x \in Path : x # q => work[x] = new[x]
  BY <1>2 DEF Tree
<1> HIDE DEF new, b, n, c, r
<1>9. Plan(cleared, PlainKinds, n) /\ (force \/ Spares(cleared, Edits))
  <2>1. Plan(cleared, PlainKinds, n)
    BY <1>3, PlanFiles DEF PlainKinds
  <2>2. ASSUME ~force PROVE Spares(cleared, Edits)
    <3>1. \A x \in Edits \cap Path : work[x] = new[x]
      BY <1>7, <1>8, <2>2
    <3> QED
      BY <1>3, <3>1, FilesSpare
  <2> QED
    BY <2>1, <2>2
<1> HIDE DEF cleared
<1>10. Plan(cleared \o <<r>>, PlainKinds, n) /\ (force \/ Spares(cleared \o <<r>>, Edits))
  BY <1>5, <1>9, PlanJoin
<1>11. Plan(cleared \o <<r>> \o b, PlainKinds, n)
       /\ (force \/ Spares(cleared \o <<r>> \o b, Edits))
  BY <1>4, <1>10, PlanJoin
<1>12. Plan(t, PlainKinds, n) /\ (force \/ Spares(t, Edits))
  BY <1>9, <1>11
<1> HIDE DEF t
<1> QED
  BY <1>1, <1>6, <1>12, PlainStep DEF n

LEMMA RestoreStep ==
  ASSUME WorktreeInv, NEW p \in Path,
         NEW source \in {None} \cup {branch[b] : b \in Branch \ {head}},
         NEW mode \in {"worktree", "staged", "both"}, Restore(p, source, mode)
  PROVE  WorktreeInv'
<1> DEFINE c == Forced("restore", TRUE)
           from == IF source # None THEN TreeOf(source)
                   ELSE IF mode = "worktree" THEN index ELSE HeadTree
           new == IF p \in StageZero(from) THEN from[p] ELSE Absent
           a == IF mode = "worktree" THEN <<>> ELSE Put("index", [index EXCEPT ![p] = new])
           b == IF mode = "staged" THEN <<>> ELSE FileWrites(work, [work EXCEPT ![p] = new])
           n == Len(commits')
           t == a \o b
<1>1. c \in Cmd /\ c.op = "restore" /\ c.tip = None /\ c.force = TRUE
  BY CmdFacts DEF Op
<1>2. /\ index \in Index /\ work \in Tree /\ HeadTree \in Tree
      /\ \A x \in Branch : TreeOf(branch[x]) \in Tree
  BY StateFacts DEF WorktreeInv
<1>3. from \in Index
  BY <1>2, TreeFacts
<1>4. new \in File
  <2> HIDE DEF from
  <2> QED
    BY <1>3, TreeFacts
<1>5. Run(c, t) /\ Grows /\ c.op \notin OwnPlan
  BY <1>1 DEF Restore, Grows, OwnPlan
<1> HIDE DEF new, n, c
<1>6. [index EXCEPT ![p] = new] \in Index /\ [work EXCEPT ![p] = new] \in Tree
  BY <1>2, <1>4, TreeFacts
<1>7. Plan(a, PlainKinds, n)
  BY <1>6, PlanIndex, PlanNone DEF PlainKinds
<1>8. Plan(b, PlainKinds, n)
  BY <1>6, PlanFiles, PlanNone DEF PlainKinds
<1> HIDE DEF a, b
<1>9. Plan(t, PlainKinds, n)
  BY <1>7, <1>8, PlanJoin
<1> HIDE DEF t
<1> QED
  BY <1>1, <1>5, <1>9, PlainStep DEF n

LEMMA CleanStep ==
  ASSUME WorktreeInv, CleanUntracked PROVE WorktreeInv'
<1> DEFINE c == Forced("clean", TRUE)
           new == [p \in Path |-> IF index[p] = Absent THEN Absent ELSE work[p]]
           t == FileWritesUp(work, new)
           n == Len(commits')
<1>1. c \in Cmd /\ c.op = "clean" /\ c.tip = None /\ c.force = TRUE
  BY CmdFacts DEF Op
<1>2. work \in Tree
  BY StateFacts DEF WorktreeInv
<1>3. new \in Tree
  BY <1>2, TreeFacts DEF Tree
<1>4. Run(c, t) /\ Grows /\ c.op \notin OwnPlan
  BY <1>1 DEF CleanUntracked, Grows, OwnPlan
<1> HIDE DEF new, c, n
<1>5. Plan(t, PlainKinds, n)
  BY <1>3, PlanFiles DEF PlainKinds
<1> HIDE DEF t
<1> QED
  BY <1>1, <1>4, <1>5, PlainStep DEF n

\* A commit that is stored is a commit.
LEMMA StoreFacts ==
  ASSUME TypeInv, NEW tree \in Tree, NEW parents \in Seq(Nat),
         ToSet(parents) \subseteq 1 .. Len(commits), Store(tree, parents)
  PROVE  /\ Grows /\ Len(commits') = Len(commits) + 1 /\ NewId \in 1 .. Len(commits')
         /\ Len(commits') \in Nat
         /\ commits'[NewId].parents = parents
<1> DEFINE C == [tree : Tree, parents : Seq(Nat)]
           r == [tree |-> tree, parents |-> parents]
<1>1. commits' = Append(commits, r) /\ r \in C /\ r.parents = parents /\ commits \in Seq(C)
  BY DEF Store, TypeInv, HistoryOK
<1>2. Grows
  BY <1>1 DEF Grows
<1> HIDE DEF C, r
<1>3. Len(commits) \in Nat /\ Len(commits') = Len(commits) + 1 /\ commits'[Len(commits) + 1] = r
  BY <1>1
<1> QED
  BY <1>1, <1>2, <1>3 DEF NewId

LEMMA PairParents ==
  ASSUME NEW n \in Nat, NEW x \in 1 .. n, NEW y \in 1 .. n
  PROVE  /\ <<x>> \in Seq(Nat) /\ ToSet(<<x>>) \subseteq 1 .. n
         /\ <<x, y>> \in Seq(Nat) /\ ToSet(<<x, y>>) \subseteq 1 .. n
<1>1. <<x>> \in Seq(Nat) /\ <<x, y>> \in Seq(Nat)
  OBVIOUS
<1>2. ToSet(<<x>>) = {x}
  BY DEF ToSet
<1>3. ToSet(<<x, y>>) \subseteq {x, y}
  BY DEF ToSet
<1> QED
  BY <1>1, <1>2, <1>3

LEMMA CommitStep ==
  ASSUME WorktreeInv, NEW all \in BOOLEAN, NEW amend \in BOOLEAN, Commit(all, amend)
  PROVE  WorktreeInv'
<1> DEFINE c == Plain("commit")
           new == IF all THEN StageTracked ELSE index
           staged == IF all THEN Put("index", new) ELSE <<>>
           ok == StageZero(new) = {p \in Path : new[p] # Absent} /\ (amend \/ new # HeadTree)
           ps == IF amend THEN commits[Tip].parents ELSE <<Tip>>
           n == Len(commits')
<1>1. c \in Cmd /\ c.op = "commit" /\ c.tip = None /\ c.op \notin OwnPlan
  BY CmdFacts DEF Op, OwnPlan
<1>2. /\ index \in Index /\ Tip \in 1 .. Len(commits) /\ Len(commits) \in Nat
      /\ commits[Tip].parents \in Seq(Nat) /\ head \in Branch
      /\ ToSet(commits[Tip].parents) \subseteq 1 .. Tip - 1
  BY StateFacts DEF WorktreeInv
<1>3. new \in Index
  BY <1>2, StagedFacts DEF WorktreeInv
<1>4. \/ ok /\ Run(c, staged \o PutBranch(head, NewId)) /\ Store(new, ps)
      \/ Run(c, staged) /\ UNCHANGED commits
  BY DEF Commit
<1>5. ok => new \in Tree
  <2> SUFFICES ASSUME ok, NEW p \in Path PROVE new[p] \in File
    BY <1>3 DEF Tree, Index
  <2>1. new[p] = Absent \/ p \in StageZero(new)
    OBVIOUS
  <2> HIDE DEF new
  <2> QED
    BY <1>3, <2>1, TreeFacts
<1>6. ps \in Seq(Nat) /\ ToSet(ps) \subseteq 1 .. Len(commits)
  <2>1. 1 .. Tip - 1 \subseteq 1 .. Len(commits)
    BY <1>2
  <2> QED
    BY <1>2, <2>1, PairParents
<1> HIDE DEF c, new, ps, ok
<1>7. Plan(staged, PlainKinds, n) /\ Spares(staged, Edits)
  BY <1>3, PlanIndex, PlanNone DEF PlainKinds
<1> HIDE DEF staged
<1>8. CASE ok /\ Run(c, staged \o PutBranch(head, NewId)) /\ Store(new, ps)
  <2>1. Grows /\ NewId \in 1 .. n /\ n \in Nat
    BY <1>5, <1>6, <1>8, StoreFacts DEF WorktreeInv
  <2> DEFINE b == PutBranch(head, NewId)
             t == staged \o b
  <2>2. Plan(b, PlainKinds, n) /\ Spares(b, Edits)
    BY <1>2, <2>1, PlanBranch DEF PlainKinds
  <2> HIDE DEF b
  <2>3. Plan(t, PlainKinds, n) /\ Spares(t, Edits)
    BY <1>7, <2>2, PlanJoin
  <2>4. Run(c, t)
    BY <1>8 DEF b
  <2> HIDE DEF t
  <2> QED
    BY <1>1, <2>1, <2>3, <2>4, PlainStep DEF n
<1>9. CASE Run(c, staged) /\ UNCHANGED commits
  <2>1. Grows
    BY <1>9 DEF Grows
  <2> QED
    BY <1>1, <1>7, <1>9, <2>1, PlainStep DEF n
<1> QED
  BY <1>4, <1>8, <1>9

-----------------------------------------------------------------------------
(* Moving between commits *)

LEMMA TransitionPlan ==
  ASSUME TypeInv, NEW new \in Tree, NEW n
  PROVE  /\ Plan(Transition(new), PlainKinds, n)
         /\ TransitionClean(new) => Spares(Transition(new), Edits)
<1> DEFINE gone == RemoveMissing(work, index, new)
           then == Checkout(gone, new, Changed(index, new))
           a == FileWrites(work, then)
           b == Put("index", new)
<1>1. work \in Tree /\ index \in Index /\ new \in Index
  BY StateFacts, TreeFacts
<1>2. then \in Tree
  BY <1>1, TreeFacts
<1>3. \A p \in Path : then[p] # work[p] => index[p] # new[p]
  <2> SUFFICES ASSUME NEW p \in Path, then[p] # work[p] PROVE index[p] # new[p]
    OBVIOUS
  <2>1. gone[p] = IF index[p] # Absent /\ new[p] = Absent THEN Absent ELSE work[p]
    BY RemovedAt
  <2> HIDE DEF gone
  <2>2. then[p] = IF p \in Changed(index, new) /\ new[p] \notin {Absent, Unmerged}
                  THEN new[p] ELSE gone[p]
    BY CheckedOutAt
  <2> QED
    BY <2>1, <2>2 DEF Changed
<1>4. Transition(new) = a \o b
  BY DEF Transition
<1> HIDE DEF then, gone
<1>5. Plan(a, PlainKinds, n)
  BY <1>2, PlanFiles DEF PlainKinds
<1>6. Plan(b, PlainKinds, n) /\ Spares(b, Edits)
  BY <1>1, PlanIndex DEF PlainKinds
<1>7. ASSUME TransitionClean(new) PROVE Spares(a, Edits)
  <2>1. \A p \in Edits \cap Path : work[p] = then[p]
    BY <1>3, <1>7 DEF TransitionClean, Edits
  <2> QED
    BY <1>2, <2>1, FilesSpare
<1> HIDE DEF a, b
<1> QED
  BY <1>4, <1>5, <1>6, <1>7, PlanJoin

LEMMA SwitchPlan ==
  ASSUME TypeInv, NEW b \in Branch, NEW from, NEW to \in 1 .. Len(commits), NEW force \in BOOLEAN,
         NEW n
  PROVE  /\ Plan(SwitchWrites(b, from, to, force), PlainKinds, n)
         /\ (~force /\ (from = to \/ TransitionClean(TreeOf(to))))
               => Spares(SwitchWrites(b, from, to, force), Edits)
<1> DEFINE new == TreeOf(to)
           f == FileWrites(work, Checkout(RemoveMissing(work, HeadTree, new), new, Path))
           i == Put("index", new)
           a == IF from = to THEN <<>> ELSE IF force THEN f \o i ELSE Transition(new)
           h == Put("head", b)
<1>1. new \in Tree /\ new \in Index /\ work \in Tree
  BY StateFacts, TreeFacts
<1>2. Checkout(RemoveMissing(work, HeadTree, new), new, Path) \in Tree
  BY <1>1, TreeFacts
<1>3. Plan(f, PlainKinds, n)
  BY <1>2, PlanFiles DEF PlainKinds
<1>4. Plan(i, PlainKinds, n)
  BY <1>1, PlanIndex DEF PlainKinds
<1>5. Plan(h, PlainKinds, n) /\ Spares(h, Edits)
  BY PlanHead DEF PlainKinds
<1>6. SwitchWrites(b, from, to, force) = a \o h
  BY DEF SwitchWrites
<1> HIDE DEF f, i, h
<1>7. Plan(f \o i, PlainKinds, n)
  BY <1>3, <1>4, PlanJoin
<1>8. /\ Plan(Transition(new), PlainKinds, n)
      /\ TransitionClean(new) => Spares(Transition(new), Edits)
  BY <1>1, TransitionPlan
<1>9. Plan(a, PlainKinds, n)
  BY <1>7, <1>8, PlanNone
<1>10. (~force /\ (from = to \/ TransitionClean(new))) => Spares(a, Edits)
  BY <1>8, PlanNone
<1> HIDE DEF a
<1>11. Plan(a \o h, PlainKinds, n) /\ (Spares(a, Edits) => Spares(a \o h, Edits))
  BY <1>5, <1>9, PlanJoin
<1> QED
  BY <1>6, <1>10, <1>11

LEMMA SwitchStep ==
  ASSUME WorktreeInv, NEW b \in Branch, NEW force \in BOOLEAN, Switch(b, force)
  PROVE  WorktreeInv'
<1> DEFINE c == Forced("switch", force)
           t == SwitchWrites(b, Tip, branch[b], force)
           n == Len(commits')
<1>1. c \in Cmd /\ c.op = "switch" /\ c.tip = None /\ c.force = force
  <2>1. "switch" \in Op
    BY DEF Op
  <2> QED
    BY <2>1, CmdFacts, Zenon
<1>2. branch[b] \in 1 .. Len(commits)
  BY StateFacts DEF WorktreeInv
<1>3. Run(c, t) /\ Grows /\ c.op \notin OwnPlan
  BY <1>1 DEF Switch, Grows, OwnPlan
<1>4. ~force => (Tip = branch[b] \/ TransitionClean(TreeOf(branch[b])))
  BY DEF Switch
<1>5. Plan(t, PlainKinds, n) /\ (force \/ Spares(t, Edits))
  BY <1>2, <1>4, SwitchPlan DEF WorktreeInv
<1> HIDE DEF t, c
<1> QED
  BY <1>1, <1>3, <1>5, PlainStep

LEMMA ResetBranchStep ==
  ASSUME WorktreeInv, NEW b \in Branch, NEW start \in 1 .. Len(commits), ResetBranch(b, start)
  PROVE  WorktreeInv'
<1> DEFINE c == Plain("switch")
           from == IF b = head THEN start ELSE Tip
           a == PutBranch(b, start)
           s == SwitchWrites(b, from, start, FALSE)
           r == IF from = start \/ TransitionClean(TreeOf(start)) THEN s ELSE <<>>
           t == a \o r
           n == Len(commits')
<1>1. c \in Cmd /\ c.op = "switch" /\ c.tip = None
  BY CmdFacts DEF Op
<1>2. Run(c, t) /\ Grows /\ c.op \notin OwnPlan /\ n = Len(commits)
  BY <1>1 DEF ResetBranch, Grows, OwnPlan
<1>3. Len(commits) \in Nat
  BY StateFacts DEF WorktreeInv
<1> HIDE DEF from, c, n
<1>4. Plan(a, PlainKinds, n) /\ Spares(a, Edits)
  BY <1>2, <1>3, PlanBranch DEF PlainKinds
<1>5. Plan(s, PlainKinds, n)
      /\ ((from = start \/ TransitionClean(TreeOf(start))) => Spares(s, Edits))
  BY SwitchPlan DEF WorktreeInv
<1> HIDE DEF s, a
<1>6. Plan(r, PlainKinds, n) /\ Spares(r, Edits)
  BY <1>5, PlanNone
<1> HIDE DEF r
<1>7. Plan(t, PlainKinds, n) /\ Spares(t, Edits)
  BY <1>4, <1>6, PlanJoin
<1> HIDE DEF t
<1> QED
  BY <1>1, <1>2, <1>7, PlainStep DEF n

LEMMA ResetStep ==
  ASSUME WorktreeInv, NEW mode \in {"soft", "mixed", "hard"}, NEW target \in 1 .. Len(commits),
         Reset(mode, target)
  PROVE  WorktreeInv'
<1> DEFINE force == (mode = "hard")
           c == Forced("reset", force)
           new == TreeOf(target)
           gone == RemoveMissing(work, index, new)
           files == Checkout(gone, new, Path)
           b == PutBranch(head, target)
           i == Put("index", new)
           f == FileWrites(work, gone)
           g == FileWrites(gone, files)
           r == IF mode = "soft" THEN <<>> ELSE IF mode = "mixed" THEN i ELSE f \o i \o g
           t == b \o r
           n == Len(commits')
<1>1. c \in Cmd /\ c.op = "reset" /\ c.tip = None /\ c.force = force
  <2>1. "reset" \in Op /\ force \in BOOLEAN
    BY DEF Op
  <2> HIDE DEF force
  <2> QED
    BY <2>1, CmdFacts, Zenon
<1>2. Run(c, t) /\ Grows /\ c.op \notin OwnPlan /\ n = Len(commits)
  BY <1>1 DEF Reset, Grows, OwnPlan
<1>3. Len(commits) \in Nat /\ head \in Branch /\ new \in Tree /\ new \in Index /\ work \in Tree
  BY StateFacts, TreeFacts DEF WorktreeInv
<1>4. gone \in Tree /\ files \in Tree
  BY <1>3, TreeFacts
<1> HIDE DEF new, c, n, gone, files
<1>5. Plan(b, PlainKinds, n) /\ Spares(b, Edits)
  BY <1>2, <1>3, PlanBranch DEF PlainKinds
<1>6. Plan(i, PlainKinds, n) /\ Spares(i, Edits)
  BY <1>3, PlanIndex DEF PlainKinds
<1>7. Plan(f, PlainKinds, n) /\ Plan(g, PlainKinds, n)
  BY <1>4, PlanFiles DEF PlainKinds
<1> HIDE DEF b, i, f, g
<1>8. Plan(f \o i, PlainKinds, n)
  BY <1>6, <1>7, PlanJoin
<1>9. Plan(f \o i \o g, PlainKinds, n)
  BY <1>7, <1>8, PlanJoin
<1>10. Plan(r, PlainKinds, n) /\ (force \/ Spares(r, Edits))
  BY <1>6, <1>9, PlanNone
<1> HIDE DEF r
<1>11. Plan(t, PlainKinds, n) /\ (force \/ Spares(t, Edits))
  BY <1>5, <1>10, PlanJoin
<1> HIDE DEF t
<1> QED
  BY <1>1, <1>2, <1>11, PlainStep DEF n

-----------------------------------------------------------------------------
(* merge *)

\* f is the walk of commit_depths_cached from c, n layers deep.
IsLayer(f, c, n) ==
    f = [k \in 0 .. n |-> IF k = 0 THEN {c}
                          ELSE UNION {ToSet(commits[d].parents) : d \in f[k - 1]}]

\* Every set of numbers that is not empty has a least one.
LEMMA LeastNumber ==
  ASSUME NEW T \in SUBSET Nat, T # {}
  PROVE  \E n \in T : \A m \in T : n <= m
<1> DEFINE R == OpToRel(<, Nat)
<1>1. IsWellFoundedOn(R, Nat)
  BY NatLessThanWellFounded
<1>2. ASSUME NEW x \in Nat, NEW y \in Nat, ~(<<x, y>> \in R) PROVE ~(x < y)
  BY <1>2 DEF OpToRel
<1> HIDE DEF R
<1>3. PICK n \in T : \A y \in T : ~ (<<y, n>> \in R)
  BY <1>1, WFMin
<1>4. \A m \in T : ~(m < n)
  BY <1>2, <1>3
<1> QED
  BY <1>4

\* The walk can go on to any depth: consider the least that it cannot reach.
LEMMA LayerExists ==
  ASSUME NEW c, NEW n \in Nat PROVE \E f : IsLayer(f, c, n)
<1> DEFINE Bad == {m \in Nat : ~ \E f : IsLayer(f, c, m)}
           Up(S) == UNION {ToSet(commits[d].parents) : d \in S}
<1> SUFFICES ASSUME Bad # {} PROVE FALSE
  OBVIOUS
<1>1. PICK m \in Bad : \A j \in Bad : m <= j
  BY LeastNumber
<1>2. m # 0
  <2>1. IsLayer([i \in 0 .. 0 |-> {c}], c, 0)
    BY DEF IsLayer
  <2> QED
    BY <2>1
<1>3. m - 1 \in Nat /\ m - 1 \notin Bad
  BY <1>1, <1>2
<1>4. PICK g : IsLayer(g, c, m - 1)
  BY <1>3
<1>5. g = [k \in 0 .. m - 1 |-> IF k = 0 THEN {c} ELSE Up(g[k - 1])]
  BY <1>4 DEF IsLayer
<1> DEFINE f == [i \in 0 .. m |-> IF i < m THEN g[i] ELSE Up(g[m - 1])]
<1>6. f = [k \in 0 .. m |-> IF k = 0 THEN {c} ELSE Up(f[k - 1])]
  <2> HIDE DEF Up
  <2>1. ASSUME NEW i \in 0 .. m
        PROVE  f[i] = IF i = 0 THEN {c} ELSE Up(f[i - 1])
    <3>0. i # 0 => f[i - 1] = g[i - 1]
      BY <1>2
    <3>1. CASE i < m
      <4>0. i \in 0 .. m - 1
        BY <1>3, <3>1
      <4>1. g[i] = IF i = 0 THEN {c} ELSE Up(g[i - 1])
        BY <1>5, <4>0
      <4> QED
        BY <3>0, <3>1, <4>1
    <3>2. CASE i = m
      BY <1>2, <3>0, <3>2
    <3> QED
      BY <3>1, <3>2
  <2> QED
    BY <2>1
<1>7. IsLayer(f, c, m)
  <2> HIDE DEF f
  <2> QED
    BY <1>6 DEF IsLayer
<1> QED
  BY <1>7

LEMMA AncestorsExist ==
  ASSUME TypeInv, NEW c \in 1 .. Len(commits)
  PROVE  Ancestors(c) \subseteq 1 .. Len(commits)
<1> DEFINE n == Len(commits)
           f == CHOOSE g : IsLayer(g, c, n)
<1>0. n \in Nat
  BY StateFacts
<1>1. IsLayer(f, c, n)
  BY <1>0, LayerExists
<1>2. Layer(c) = f
  BY DEF Layer, IsLayer
<1> HIDE DEF f
<1>3. /\ f[0] = {c}
      /\ \A k \in 1 .. n : f[k] = UNION {ToSet(commits[d].parents) : d \in f[k - 1]}
  BY <1>0, <1>1, SMTT(30) DEF IsLayer
<1> DEFINE Bad == {k \in 0 .. n : ~(f[k] \subseteq 1 .. n)}
<1>4. Bad = {}
  <2> SUFFICES ASSUME Bad # {} PROVE FALSE
    OBVIOUS
  <2>0. Bad \in SUBSET Nat
    BY <1>0
  <2>1. PICK k \in Bad : \A j \in Bad : k <= j
    <3> HIDE DEF Bad
    <3> QED
      BY <2>0, LeastNumber
  <2>2. k # 0
    BY <1>3, <2>1
  <2>3. k \in 1 .. n /\ k - 1 \in 0 .. n /\ k - 1 \notin Bad
    BY <1>0, <2>1, <2>2
  <2>4. f[k - 1] \subseteq 1 .. n
    BY <2>3
  <2>5. \A d \in 1 .. n : ToSet(commits[d].parents) \subseteq 1 .. n
    <3>1. \A d \in 1 .. n : 1 .. d - 1 \subseteq 1 .. n
      BY <1>0
    <3> QED
      BY <3>1, StateFacts
  <2>6. f[k] \subseteq 1 .. n
    BY <1>3, <2>3, <2>4, <2>5
  <2> QED
    BY <2>1, <2>6
<1>5. \A k \in 0 .. n : f[k] \subseteq 1 .. n
  BY <1>4
<1> QED
  BY <1>2, <1>5 DEF Ancestors

LEMMA MergeBaseExists ==
  ASSUME TypeInv, NEW l \in 1 .. Len(commits), NEW r \in 1 .. Len(commits),
         NEW d \in MergeBases(l, r)
  PROVE  d \in 1 .. Len(commits)
<1>1. Ancestors(l) \subseteq 1 .. Len(commits)
  BY AncestorsExist
<1>2. CASE r \in Ancestors(l) /\ l \in Ancestors(r)
  <2>1. MergeBases(l, r) \in {{r}, {l}}
    BY <1>2, Zenon DEF MergeBases
  <2> QED
    BY <2>1
<1>3. CASE r \in Ancestors(l) /\ l \notin Ancestors(r)
  <2>1. MergeBases(l, r) = {r}
    BY <1>3, Zenon DEF MergeBases
  <2> QED
    BY <2>1
<1>4. CASE r \notin Ancestors(l) /\ l \in Ancestors(r)
  <2>1. MergeBases(l, r) = {l}
    BY <1>4, Zenon DEF MergeBases
  <2> QED
    BY <2>1
<1>5. CASE r \notin Ancestors(l) /\ l \notin Ancestors(r)
  <2>1. d \in Ancestors(l)
    BY <1>5, Zenon DEF MergeBases
  <2> QED
    BY <1>1, <2>1
<1> QED
  BY <1>2, <1>3, <1>4, <1>5

LEMMA MergeEntryFacts ==
  ASSUME NEW b \in Tree, NEW o \in Tree, NEW t \in Tree, NEW p \in Path, ~AddAdd(b, o, t)
  PROVE  /\ MergeEntry(b, o, t, p).entry \in File \cup {Unmerged}
         /\ MergeEntry(b, o, t, p).file \in File
<1> DEFINE taken == OneSided(b[p], o[p], t[p])
           into == {pq[2] : pq \in Renames(b, o, t) \cup Renames(b, t, o)}
           text == MergeFile(b[p], o[p], t[p])
           left == IF o[p] # Absent THEN o[p] ELSE t[p]
           used == Consumed(b, o, t)
           e == CHOOSE x \in taken : TRUE
           r == MergeEntry(b, o, t, p)
<1>1. b[p] \in File /\ o[p] \in File /\ t[p] \in File
  BY DEF Tree
<1>2. left \in File /\ taken \subseteq File
  BY <1>1 DEF OneSided
<1>3. into \subseteq used
  BY DEF Consumed
<1>4. r = CASE p \in into -> [entry |-> Unmerged, file |-> left]
            [] p \in used \ into -> [entry |-> Absent, file |-> Absent]
            [] p \notin used /\ taken # {} -> [entry |-> e, file |-> e]
            [] p \notin used /\ taken = {} /\ Absent \in {o[p], t[p]} ->
                  [entry |-> Unmerged, file |-> left]
            [] OTHER -> [entry |-> IF text.conflict THEN Unmerged ELSE text.content,
                         file |-> text.content]
  BY Zenon DEF MergeEntry
<1>5. p \notin used /\ taken = {} => b[p] # Absent
  BY DEF AddAdd
<1>6. taken # {} => e \in File
  BY <1>2
<1> HIDE DEF taken, into, left, used, e, r
<1>7. CASE p \in into
  <2>1. r = [entry |-> Unmerged, file |-> left]
    BY <1>3, <1>4, <1>7, Zenon
  <2> QED
    BY <1>2, <2>1 DEF r
<1>8. CASE p \in used \ into
  <2>1. r = [entry |-> Absent, file |-> Absent]
    BY <1>4, <1>8, Zenon
  <2> QED
    BY <2>1 DEF r, File
<1>9. CASE p \notin used /\ taken # {}
  <2>1. r = [entry |-> e, file |-> e]
    BY <1>3, <1>4, <1>9, Zenon
  <2> QED
    BY <1>6, <1>9, <2>1 DEF r
<1>10. CASE p \notin used /\ taken = {} /\ Absent \in {o[p], t[p]}
  <2>1. r = [entry |-> Unmerged, file |-> left]
    BY <1>3, <1>4, <1>10, Zenon
  <2> QED
    BY <1>2, <2>1 DEF r
<1>11. CASE p \notin used /\ taken = {} /\ Absent \notin {o[p], t[p]}
  <2>1. r = [entry |-> IF text.conflict THEN Unmerged ELSE text.content, file |-> text.content]
    BY <1>3, <1>4, <1>11, Zenon
  <2>2. b[p] \in Content /\ o[p] \in Content /\ t[p] \in Content
    BY <1>1, <1>5, <1>11 DEF File
  <2>3. text.content \in Content
    BY <2>2, WorktreeAssumption
  <2> QED
    BY <2>1, <2>3 DEF r, File
<1> QED
  BY <1>7, <1>8, <1>9, <1>10, <1>11

LEMMA MergeIndexesFacts ==
  ASSUME NEW b \in Tree, NEW o \in Tree, NEW t \in Tree, ~AddAdd(b, o, t)
  PROVE  MergeIndexes(b, o, t).index \in Index /\ MergeIndexes(b, o, t).files \in Tree
<1>1. \A p \in Path : /\ MergeEntry(b, o, t, p).entry \in File \cup {Unmerged}
                      /\ MergeEntry(b, o, t, p).file \in File
  BY MergeEntryFacts
<1> QED
  BY <1>1 DEF MergeIndexes, Index, Tree

LEMMA CleanHasNoEdits ==
  ASSUME Clean PROVE Edits = {} /\ \A t : Spares(t, Edits)
BY DEF Clean, Edits, Spares

LEMMA MergeOursStep ==
  ASSUME WorktreeInv, NEW b \in Branch, MergeOurs(b) PROVE WorktreeInv'
<1> DEFINE c == Plain("merge")
           t == PutBranch(head, NewId)
           n == Len(commits')
<1>1. c \in Cmd /\ c.op = "merge" /\ c.tip = None /\ c.op \notin OwnPlan
  BY CmdFacts DEF Op, OwnPlan
<1>2. /\ HeadTree \in Tree /\ Tip \in 1 .. Len(commits) /\ branch[b] \in 1 .. Len(commits)
      /\ head \in Branch /\ Len(commits) \in Nat
  BY StateFacts DEF WorktreeInv
<1>3. <<Tip, branch[b]>> \in Seq(Nat) /\ ToSet(<<Tip, branch[b]>>) \subseteq 1 .. Len(commits)
  BY <1>2, PairParents
<1>4. Run(c, t) /\ Store(HeadTree, <<Tip, branch[b]>>) /\ Clean
  BY DEF MergeOurs, CanMerge
<1>5. Grows /\ NewId \in 1 .. n /\ n \in Nat
  BY <1>2, <1>3, <1>4, StoreFacts DEF WorktreeInv
<1>6. Plan(t, PlainKinds, n)
  BY <1>2, <1>5, PlanBranch DEF PlainKinds
<1>7. Spares(t, Edits)
  BY <1>4, CleanHasNoEdits
<1> HIDE DEF c, t
<1> QED
  BY <1>1, <1>4, <1>5, <1>6, <1>7, PlainStep

LEMMA FastForwardStep ==
  ASSUME WorktreeInv, NEW b \in Branch, NEW mode, FastForward(b, mode) PROVE WorktreeInv'
<1> DEFINE c == Plain("merge")
           x == Transition(TreeOf(branch[b]))
           y == PutBranch(head, branch[b])
           t == x \o y
           n == Len(commits')
<1>1. c \in Cmd /\ c.op = "merge" /\ c.tip = None /\ c.op \notin OwnPlan
  BY CmdFacts DEF Op, OwnPlan
<1>2. /\ branch[b] \in 1 .. Len(commits) /\ TreeOf(branch[b]) \in Tree
      /\ head \in Branch /\ Len(commits) \in Nat
  BY StateFacts DEF WorktreeInv
<1>3. Run(c, t) /\ Clean /\ Grows /\ n = Len(commits)
  BY DEF FastForward, CanMerge, Grows
<1> HIDE DEF n
<1>4. Plan(x, PlainKinds, n)
  BY <1>2, TransitionPlan DEF WorktreeInv
<1>5. Plan(y, PlainKinds, n)
  BY <1>2, <1>3, PlanBranch DEF PlainKinds
<1> HIDE DEF x, y
<1>6. Plan(t, PlainKinds, n) /\ Spares(t, Edits)
  BY <1>3, <1>4, <1>5, PlanJoin, CleanHasNoEdits
<1> HIDE DEF c, t
<1> QED
  BY <1>1, <1>3, <1>6, PlainStep DEF n

\* A merge that may stop and leave MERGE_HEAD
LEMMA MergeRun ==
  ASSUME WorktreeInv, Grows, NEW c, NEW t, Fits(c, t, Len(commits')), Run(c, t), c.op = "merge",
         Edits = {}, Ordered(t, On({"mergeHead"}), Writes \ On({"mergeMsg"})),
         \A w \in ToSet(t) : w.on = "mergeHead" /\ w.to # None =>
            w.to = c.tip /\ \E x \in ToSet(t) : x.on = "index"
  PROVE  WorktreeInv'
<1>1. TypeInv'
  BY RunTypes
<1>2. /\ todo' = t /\ cmd'.op = "merge" /\ cmd'.edits = {} /\ doomed' = {}
  BY RunFrame DEF Fits
<1>3. MergeInv'
  BY RunMerge DEF Fits
<1>4. EditsInv'
  BY <1>2 DEF EditsInv
<1>5. PushInv' /\ ContinueInv' /\ AbortInv' /\ PopInv'
  BY <1>2 DEF PushInv, ContinueInv, AbortInv, PopInv
<1> QED
  BY <1>1, <1>3, <1>4, <1>5 DEF WorktreeInv

MergeKinds == PlainKinds \cup {"mergeHead", "mergeMsg"}

\* A plan that ends with MERGE_HEAD and MERGE_MSG is in order.
EndsMerge(t, f, v, msg, n) ==
    /\ Plan(t, MergeKinds, n) /\ t = f \o (Put("mergeHead", v) \o Put("mergeMsg", msg))
    /\ ToSet(t) = ToSet(f) \cup {PutW("mergeHead", v), PutW("mergeMsg", msg)}
    /\ Ordered(t, On({"mergeHead"}), Writes \ On({"mergeMsg"}))
    /\ Last(t).on = "mergeMsg"

LEMMA MergeEnd ==
  ASSUME NEW n, NEW f, Plan(f, PlainKinds, n), NEW v, Plan(Put("mergeHead", v), MergeKinds, n),
         NEW msg, Plan(Put("mergeMsg", msg), MergeKinds, n)
  PROVE  EndsMerge(f \o Put("mergeHead", v) \o Put("mergeMsg", msg), f, v, msg, n)
<1> DEFINE a == Put("mergeHead", v)
           b == Put("mergeMsg", msg)
           A == On({"mergeHead"})
           B == Writes \ On({"mergeMsg"})
<1>1. Plan(f, MergeKinds, n)
  BY DEF Plan, MergeKinds
<1>2. Plan(a, MergeKinds, n) /\ ToSet(a) = {PutW("mergeHead", v)}
  BY PutFields, SeqOne
<1>3. Plan(b, MergeKinds, n) /\ ToSet(b) = {PutW("mergeMsg", msg)}
  BY PutFields, SeqOne
<1>4. b = <<PutW("mergeMsg", msg)>> /\ a = <<PutW("mergeHead", v)>>
      /\ PutW("mergeMsg", msg).on = "mergeMsg"
  BY PutFields
<1> HIDE DEF a, b
<1>5. Plan(f \o a, MergeKinds, n) /\ ToSet(f \o a) = ToSet(f) \cup ToSet(a)
  BY <1>1, <1>2, PlanJoin
<1>6. Plan(f \o a \o b, MergeKinds, n) /\ ToSet(f \o a \o b) = ToSet(f \o a) \cup ToSet(b)
  BY <1>3, <1>5, PlanJoin
<1>7. f \in Seq(Writes) /\ a \in Seq(Writes) /\ b \in Seq(Writes) /\ f \o a \in Seq(Writes)
  BY <1>1, <1>2, <1>3, <1>5 DEF Plan
<1>8. f \o a \o b = f \o (a \o b)
  BY <1>7
<1>9. ToSet(f) \cap A = {} /\ Ordered(f, A, B)
  <2>1. ToSet(f) \cap A = {}
    BY DEF Plan, PlainKinds, On
  <2> QED
    BY <2>1, OrderedFree
<1>10. Ordered(a, A, B) /\ Ordered(b, A, B) /\ ToSet(b) \cap B = {}
  <2>1. PutW("mergeMsg", msg) \notin B
    <3>1. b \in Seq(Writes) /\ ToSet(b) \subseteq Writes
      BY <1>4, <1>7, SeqFirst
    <3> QED
      BY <1>3, <1>4, <3>1 DEF On
  <2> QED
    BY <1>3, <1>4, <2>1, OrderedOne
<1> HIDE DEF A, B
<1>11. Ordered(f \o a, A, B)
  BY <1>7, <1>9, <1>10, OrderedJoin
<1>12. Ordered(f \o a \o b, A, B)
  BY <1>7, <1>10, <1>11, OrderedJoin
<1>13. Last(f \o a \o b) = PutW("mergeMsg", msg)
  <2> DEFINE g == f \o a
             w == PutW("mergeMsg", msg)
  <2> HIDE DEF g, w
  <2>1. g \in Seq(Writes) /\ b = <<w>>
    BY <1>4, <1>7 DEF g, w
  <2>2. Last(g \o <<w>>) = w
    BY <2>1 DEF Last
  <2> QED
    BY <2>1, <2>2 DEF g, w
<1> QED
  BY <1>2, <1>3, <1>4, <1>5, <1>6, <1>8, <1>12, <1>13 DEF a, b, A, B, EndsMerge

LEMMA MergeCommitStep ==
  ASSUME WorktreeInv, NEW b \in Branch, NEW mode, MergeCommit(b, mode) PROVE WorktreeInv'
<1> DEFINE tip == branch[b]
           theirs == TreeOf(tip)
           n == Len(commits)
<1>1. /\ HeadTree \in Tree /\ Tip \in 1 .. n /\ tip \in 1 .. n /\ work \in Tree
      /\ head \in Branch /\ n \in Nat /\ \A d \in 1 .. n : TreeOf(d) \in Tree
  BY StateFacts DEF WorktreeInv
<1>2. PICK base \in MergeBases(Tip, tip) :
        LET old == TreeOf(base)
            m == MergeIndexes(old, HeadTree, theirs)
            writes == MergeWrites(tip, m, mode)
            open == Contains(writes, [on |-> "mergeHead", to |-> tip])
        IN  /\ ~AddAdd(old, HeadTree, theirs)
            /\ Run([Plain("merge") EXCEPT !.tip = IF open THEN tip ELSE None], writes)
            /\ IF Last(writes).on = "branch" THEN Store(m.index, <<Tip, tip>>)
               ELSE UNCHANGED commits
  BY DEF MergeCommit
<1>3. Edits = {}
  BY CleanHasNoEdits DEF MergeCommit, CanMerge
<1> DEFINE old == TreeOf(base)
           m == MergeIndexes(old, HeadTree, theirs)
           t == MergeWrites(tip, m, mode)
           open == Contains(t, [on |-> "mergeHead", to |-> tip])
           c == [Plain("merge") EXCEPT !.tip = IF open THEN tip ELSE None]
<1>4. /\ ~AddAdd(old, HeadTree, theirs) /\ Run(c, t)
      /\ IF Last(t).on = "branch" THEN Store(m.index, <<Tip, tip>>) ELSE UNCHANGED commits
  BY <1>2
<1>5. old \in Tree /\ theirs \in Tree
  BY <1>1, MergeBaseExists DEF WorktreeInv
<1>6. m.index \in Index /\ m.files \in Tree
  <2> HIDE DEF old, theirs
  <2> QED
    BY <1>1, <1>4, <1>5, MergeIndexesFacts
<1> HIDE DEF old, theirs, m
<1> DEFINE clean == RemoveMissing(work, HeadTree, m.index)
           files == Checkout(clean, m.index, Path)
           conflicts == {p \in Path : m.index[p] = Unmerged}
           texts == [p \in Path |-> IF p \in conflicts THEN m.files[p] ELSE files[p]]
           f1 == FileWrites(work, clean)
           f2 == FileWrites(clean, files)
           f3 == FileWrites(files, texts)
           i == Put("index", m.index)
           front == f1 \o f2 \o f3 \o i
           end == CASE conflicts # {} \/ mode = "no-commit" ->
                         Put("mergeHead", tip) \o Put("mergeMsg", TRUE)
                    [] conflicts = {} /\ mode = "squash" ->
                         Put("mergeHead", None) \o Put("mergeMsg", FALSE)
                    [] OTHER -> PutBranch(head, NewId)
           k == Len(commits')
<1>7. t = front \o end
  BY Zenon DEF MergeWrites
<1>8. clean \in Tree
  BY <1>1, TreeFacts
<1>9. files \in Tree
  <2> HIDE DEF clean
  <2> QED
    BY <1>6, <1>8, TreeFacts
<1>10. texts \in Tree
  <2> HIDE DEF files, conflicts
  <2> QED
    BY <1>6, <1>9 DEF Tree
<1>11. c \in Cmd /\ c.op = "merge" /\ c.tip = IF open THEN tip ELSE None
  <2> HIDE DEF open
  <2>1. Plain("merge") \in Cmd /\ Plain("merge").op = "merge"
    BY CmdFacts DEF Op
  <2>2. (IF open THEN tip ELSE None) \in Nat \cup {None}
    BY <1>1
  <2> QED
    BY <2>1, <2>2 DEF Cmd
<1> HIDE DEF clean, files, texts, conflicts, c
<1>12. ASSUME NEW l PROVE Plan(front, PlainKinds, l) /\ \E x \in ToSet(front) : x.on = "index"
  <2>1. Plan(f1, PlainKinds, l) /\ Plan(f2, PlainKinds, l) /\ Plan(f3, PlainKinds, l)
    BY <1>8, <1>9, <1>10, PlanFiles DEF PlainKinds
  <2>2. Plan(i, PlainKinds, l) /\ ToSet(i) = {PutW("index", m.index)}
    BY <1>6, PlanIndex DEF PlainKinds
  <2>3. PutW("index", m.index).on = "index"
    BY PutFields
  <2> HIDE DEF f1, f2, f3, i
  <2>4. Plan(f1 \o f2, PlainKinds, l)
    BY <2>1, PlanJoin
  <2>5. Plan(f1 \o f2 \o f3, PlainKinds, l)
    BY <2>1, <2>4, PlanJoin
  <2> DEFINE g == f1 \o f2 \o f3
  <2> HIDE DEF g
  <2>6. Plan(g \o i, PlainKinds, l) /\ ToSet(g \o i) = ToSet(g) \cup ToSet(i)
    BY <2>2, <2>5, PlanJoin DEF g
  <2> QED
    BY <2>2, <2>3, <2>6 DEF g
<1> HIDE DEF front, end, t
<1>13. t \in Seq(Writes) => (open <=> PutW("mergeHead", tip) \in ToSet(t))
  <2> SUFFICES ASSUME t \in Seq(Writes) PROVE open <=> PutW("mergeHead", tip) \in ToSet(t)
    OBVIOUS
  <2>1. DOMAIN t = 1 .. Len(t)
    OBVIOUS
  <2> QED
    BY <2>1 DEF Contains, ToSet, PutW
<1> HIDE DEF open
<1>14. ASSUME NEW v \in {tip, None}, NEW msg \in BOOLEAN,
              end = Put("mergeHead", v) \o Put("mergeMsg", msg)
       PROVE  WorktreeInv'
  <2> DEFINE u == front \o Put("mergeHead", v) \o Put("mergeMsg", msg)
  <2>0. u = front \o Put("mergeHead", v) \o Put("mergeMsg", msg)
    OBVIOUS
  <2> HIDE DEF u, n, tip
  <2>1. v \in 1 .. n \cup {None} /\ n \in Nat /\ Plan(front, PlainKinds, n)
    BY <1>1, <1>12
  <2>2. /\ Plan(u, MergeKinds, n) /\ u = front \o (Put("mergeHead", v) \o Put("mergeMsg", msg))
        /\ ToSet(u) = ToSet(front) \cup {PutW("mergeHead", v), PutW("mergeMsg", msg)}
        /\ Ordered(u, On({"mergeHead"}), Writes \ On({"mergeMsg"}))
        /\ Last(u).on = "mergeMsg"
    <3>1. Plan(Put("mergeHead", v), MergeKinds, n)
      BY <2>1, PlanMergeHead DEF MergeKinds
    <3>2. Plan(Put("mergeMsg", msg), MergeKinds, n)
      BY PlanMergeMsg DEF MergeKinds
    <3>3. EndsMerge(u, front, v, msg, n)
      BY <2>0, <2>1, <3>1, <3>2, MergeEnd
    <3> QED
      BY <3>3 DEF EndsMerge
  <2> USE DEF n, tip
  <2>3. u = t
    BY <1>7, <1>14, <2>2
  <2>4. commits' = commits
    BY <1>4, <2>2, <2>3
  <2>5. Grows /\ k = n
    BY <2>4 DEF Grows
  <2>6. t \in Seq(Writes) /\ \A w \in ToSet(t) : Refers(w, k)
    BY <2>2, <2>3, <2>5 DEF Plan
  <2>7. c.tip \in 1 .. k \cup {None}
    BY <1>1, <1>11, <2>5
  <2>8. Fits(c, t, k)
    BY <1>11, <2>6, <2>7 DEF Fits
  <2>9. ASSUME NEW w \in ToSet(t), w.on = "mergeHead", w.to # None
        PROVE  w.to = c.tip /\ \E x \in ToSet(t) : x.on = "index"
    <3>1. w \notin ToSet(front) /\ w # PutW("mergeMsg", msg)
      BY <2>1, <2>9, PutFields DEF Plan, PlainKinds
    <3>2. w = PutW("mergeHead", v) /\ w.to = v
      <4>1. w = PutW("mergeHead", v)
        BY <2>2, <2>3, <3>1
      <4>2. PutW("mergeHead", v).to = v
        BY PutFields
      <4> QED
        BY <4>1, <4>2
    <3>3. v = tip /\ open
      BY <1>13, <2>6, <2>9, <3>2
    <3> QED
      BY <1>11, <1>12, <2>2, <2>3, <3>2, <3>3
  <2> QED
    BY <1>3, <1>4, <1>11, <2>2, <2>3, <2>5, <2>8, <2>9, MergeRun
<1>15. ASSUME end = PutBranch(head, NewId), conflicts = {} PROVE WorktreeInv'
  <2> DEFINE w == BranchWrite(head, NewId)
  <2>1. PutBranch(head, NewId) = <<w>> /\ w.on = "branch"
    BY DEF PutBranch, BranchWrite
  <2> HIDE DEF w
  <2>2. front \in Seq(Writes)
    BY <1>12 DEF Plan
  <2>3. Last(t) = w
    <3>1. Last(front \o <<w>>) = w
      BY <2>2 DEF Last
    <3> QED
      BY <1>7, <1>15, <2>1, <3>1
  <2>4. Store(m.index, <<Tip, tip>>)
    BY <1>4, <2>1, <2>3
  <2>5. m.index \in Tree
    BY <1>6, <1>15 DEF conflicts, Index, Tree
  <2>6. <<Tip, tip>> \in Seq(Nat) /\ ToSet(<<Tip, tip>>) \subseteq 1 .. Len(commits)
    BY <1>1, PairParents
  <2>7. Grows /\ NewId \in 1 .. k /\ k \in Nat
    BY <2>4, <2>5, <2>6, StoreFacts DEF WorktreeInv
  <2>8. Plan(end, PlainKinds, k) /\ ToSet(end) = {w}
    BY <1>1, <1>15, <2>7, PlanBranch DEF PlainKinds, w
  <2>9. Plan(t, PlainKinds, k)
    BY <1>7, <1>12, <2>8, PlanJoin
  <2>10. ~open
    <3>1. PutW("mergeHead", tip) \notin ToSet(t) /\ t \in Seq(Writes)
      BY <2>9, PutFields DEF Plan, PlainKinds
    <3> QED
      BY <1>13, <3>1
  <2>11. c.tip = None
    BY <1>11, <2>10
  <2>12. Spares(t, Edits) /\ c.op \notin OwnPlan
    BY <1>3, <1>11 DEF Spares, OwnPlan
  <2> QED
    BY <1>4, <1>11, <2>7, <2>9, <2>11, <2>12, PlainStep
<1>16. CASE conflicts # {} \/ mode = "no-commit"
  <2>1. conflicts # {} \/ mode # "squash"
    BY <1>16
  <2>2. end = Put("mergeHead", tip) \o Put("mergeMsg", TRUE)
    BY <1>16, <2>1, Zenon DEF end
  <2> QED
    BY <1>14, <2>2
<1>17. CASE conflicts = {} /\ mode = "squash"
  <2>1. mode # "no-commit"
    BY <1>17
  <2>2. end = Put("mergeHead", None) \o Put("mergeMsg", FALSE)
    BY <1>17, <2>1, Zenon DEF end
  <2> QED
    BY <1>14, <2>2
<1>18. CASE conflicts = {} /\ mode \notin {"squash", "no-commit"}
  <2>1. mode # "squash" /\ mode # "no-commit"
    BY <1>18
  <2>2. end = PutBranch(head, NewId)
    BY <1>18, <2>1, Zenon DEF end
  <2> QED
    BY <1>15, <1>18, <2>2
<1> QED
  BY <1>16, <1>17, <1>18

LEMMA MergeContinueStep ==
  ASSUME WorktreeInv, MergeContinue PROVE WorktreeInv'
<1> DEFINE c == Plain("continue")
           b == PutBranch(head, NewId)
           x == Put("mergeHead", None)
           y == Put("mergeMsg", FALSE)
           t == b \o x \o y
           n == Len(commits')
           w0 == BranchWrite(head, NewId)
           B == On({"branch"})
<1>1. c \in Cmd /\ c.op = "continue" /\ c.tip = None
  BY CmdFacts DEF Op
<1>2. /\ Tip \in 1 .. Len(commits) /\ Len(commits) \in Nat /\ head \in Branch
      /\ index \in Index
  BY StateFacts DEF WorktreeInv
<1>3. /\ mergeHead # None /\ Run(c, t) /\ Store(index, <<Tip, mergeHead>>)
      /\ \A p \in Path : index[p] # Unmerged
  BY DEF MergeContinue
<1>4. index \in Tree
  BY <1>2, <1>3 DEF Index, Tree
<1>5. mergeHead \in 1 .. Len(commits)
  BY <1>3 DEF WorktreeInv, TypeInv, MergeOK
<1>6. <<Tip, mergeHead>> \in Seq(Nat) /\ ToSet(<<Tip, mergeHead>>) \subseteq 1 .. Len(commits)
  BY <1>2, <1>5, PairParents
<1>7. Grows /\ NewId \in 1 .. n /\ n \in Nat /\ commits'[NewId].parents = <<Tip, mergeHead>>
  BY <1>3, <1>4, <1>6, StoreFacts DEF WorktreeInv
<1>8. Plan(b, PlainKinds, n) /\ ToSet(b) = {w0}
  BY <1>2, <1>7, PlanBranch DEF PlainKinds
<1>9. b = <<w0>> /\ w0.on = "branch" /\ w0.name = head /\ w0.to = NewId
  BY DEF PutBranch, BranchWrite
<1>10. Plan(x, MergeKinds, n) /\ ToSet(x) = {PutW("mergeHead", None)}
  BY <1>7, PlanMergeHead DEF MergeKinds
<1>11. Plan(y, MergeKinds, n) /\ ToSet(y) = {PutW("mergeMsg", FALSE)}
  BY PlanMergeMsg DEF MergeKinds
<1>12. /\ PutW("mergeHead", None).on = "mergeHead" /\ PutW("mergeHead", None).to = None
       /\ PutW("mergeMsg", FALSE).on = "mergeMsg"
  BY PutFields
<1> HIDE DEF b, n, w0, c
<1>13. EndsMerge(t, b, None, FALSE, n)
  BY <1>8, <1>10, <1>11, MergeEnd
<1> HIDE DEF t
<1>14. /\ Plan(t, MergeKinds, n) /\ t = b \o (x \o y)
       /\ ToSet(t) = {w0, PutW("mergeHead", None), PutW("mergeMsg", FALSE)}
       /\ Ordered(t, On({"mergeHead"}), Writes \ On({"mergeMsg"}))
  BY <1>8, <1>13 DEF EndsMerge
<1>15. Ordered(t, B, B)
  <2>1. b \in Seq(Writes) /\ x \in Seq(Writes) /\ y \in Seq(Writes)
    BY <1>8, <1>10, <1>11 DEF Plan
  <2>2. x \o y \in Seq(Writes) /\ ToSet(x \o y) = ToSet(x) \cup ToSet(y)
    BY <2>1, SeqJoin
  <2>3. ToSet(x \o y) \cap B = {}
    BY <1>10, <1>11, <1>12, <2>2 DEF On
  <2> HIDE DEF x, y, B
  <2>4. Ordered(b, B, B)
    BY <1>9, OrderedOne
  <2>5. Ordered(x \o y, B, B)
    BY <2>3, OrderedFree
  <2>6. Ordered(b \o (x \o y), B, B)
    BY <2>1, <2>2, <2>3, <2>4, <2>5, OrderedJoin
  <2> QED
    BY <1>14, <2>6
<1>16. Fits(c, t, n)
  BY <1>1, <1>14 DEF Fits, Plan
<1>17. TypeInv' /\ Tip' = Tip
  BY <1>3, <1>7, <1>16, RunTypes DEF n
<1>18. /\ todo' = t /\ cmd'.op = "continue" /\ doomed' = {}
       /\ head' = head /\ mergeHead' = mergeHead
  BY <1>1, <1>3, RunFrame
<1>19. MergeInv'
  <2>1. \A w \in ToSet(t) : w.on = "mergeHead" => w.to = None
    BY <1>9, <1>12, <1>14
  <2> QED
    BY <1>1, <1>3, <1>14, <2>1, RunMerge
<1>20. EditsInv'
  BY <1>9, <1>12, <1>14, <1>18 DEF EditsInv
<1>21. ContinueInv'
  <2>1. \A w \in ToSet(todo') :
           /\ w.on \in {"branch", "mergeHead", "mergeMsg"}
           /\ w.on = "branch" => w = w0
    BY <1>9, <1>12, <1>14, <1>18
  <2>2. w0.name = head' /\ mergeHead' # None /\ commits'[w0.to].parents = <<Tip', mergeHead'>>
    BY <1>3, <1>7, <1>9, <1>17, <1>18
  <2> QED
    BY <1>15, <1>18, <2>1, <2>2 DEF ContinueInv
<1>22. PushInv' /\ AbortInv' /\ PopInv'
  BY <1>18 DEF PushInv, AbortInv, PopInv
<1> QED
  BY <1>17, <1>19, <1>20, <1>21, <1>22 DEF WorktreeInv

\* What merge --abort has to do, and in which order
LEMMA AbortPlan ==
  ASSUME TypeInv, NEW D \in SUBSET Path,
         \A p \in D : HeadTree[p] = Absent /\ (index[p] # Absent \/ work[p] = Absent)
  PROVE  LET t == AbortWrites IN
         /\ Plan(t, MergeKinds, Len(commits))
         /\ Ordered(t, On({"mergeHead"}), Writes \ On({"mergeMsg"}))
         /\ \A w \in ToSet(t) : /\ w.on \in {"file", "index", "mergeHead", "mergeMsg"}
                                /\ w.on = "index" => w.to = HeadTree
                                /\ w.on = "mergeHead" => w.to = None
         /\ \E w \in ToSet(t) : w.on = "index"
         /\ \A p \in Path : HeadTree[p] # Absent => Sets(t, work[p], {"file"}, p, HeadTree[p])
         /\ \A p \in D : Sets(t, work[p], {"file"}, p, Absent)
         /\ \A p \in Path : HeadTree[p] = Absent => Ordered(t, On({"index"}), FileAt(p))
<1> DEFINE files == RemoveMissing(work, index, HeadTree)
           new == Checkout(files, HeadTree, Path)
           f1 == FileWrites(work, files)
           i == Put("index", HeadTree)
           f2 == FileWrites(files, new)
           x == Put("mergeHead", None)
           y == Put("mergeMsg", FALSE)
           n == Len(commits)
           w1 == PutW("index", HeadTree)
           w2 == PutW("mergeHead", None)
           w3 == PutW("mergeMsg", FALSE)
           front == f1 \o i \o f2
           t == front \o x \o y
<1>1. HeadTree \in Tree /\ work \in Tree /\ index \in Index /\ n \in Nat
  BY StateFacts
<1>2. files \in Tree
  BY <1>1, TreeFacts
<1>3. new \in Tree
  <2> HIDE DEF files
  <2> QED
    BY <1>1, <1>2, TreeFacts
<1>4. \A p \in Path : files[p] = IF index[p] # Absent /\ HeadTree[p] = Absent THEN Absent
                                 ELSE work[p]
  BY RemovedAt
<1>5. \A p \in Path : new[p] = IF HeadTree[p] # Absent THEN HeadTree[p] ELSE files[p]
  <2> TAKE p \in Path
  <2>1. HeadTree[p] # Unmerged
    BY <1>1, WorktreeAssumption DEF Tree, File
  <2> HIDE DEF files
  <2> QED
    BY <2>1, CheckedOutAt
<1>6. t = AbortWrites
  BY DEF AbortWrites
<1> HIDE DEF files, new
<1>7. /\ Plan(f1, PlainKinds, n)
      /\ \A w \in ToSet(f1) : /\ w \in Writes /\ w.on = "file" /\ w.path \in Path
                              /\ w.to = files[w.path] /\ work[w.path] # files[w.path]
      /\ \A p \in Path : work[p] # files[p] =>
            \E w \in ToSet(f1) : w.on = "file" /\ w.path = p /\ w.to = files[p]
  BY <1>2, PlanFiles DEF PlainKinds
<1>8. /\ Plan(f2, PlainKinds, n)
      /\ \A w \in ToSet(f2) : /\ w \in Writes /\ w.on = "file" /\ w.path \in Path
                              /\ w.to = new[w.path] /\ files[w.path] # new[w.path]
      /\ \A p \in Path : files[p] # new[p] =>
            \E w \in ToSet(f2) : w.on = "file" /\ w.path = p /\ w.to = new[p]
  BY <1>3, PlanFiles DEF PlainKinds
<1>9. Plan(i, PlainKinds, n) /\ ToSet(i) = {w1} /\ i = <<w1>>
  BY <1>1, TreeFacts, PlanIndex, PutFields, SMTT(30) DEF PlainKinds
<1>10. Plan(x, MergeKinds, n) /\ Plan(y, MergeKinds, n)
  BY <1>1, PlanMergeHead, PlanMergeMsg DEF MergeKinds
<1>11. /\ w1.on = "index" /\ w1.to = HeadTree /\ w2.on = "mergeHead" /\ w2.to = None
       /\ w3.on = "mergeMsg"
  BY PutFields
<1> HIDE DEF f1, f2, i, n, w1, w2, w3
<1>12. Plan(f1 \o i, PlainKinds, n) /\ ToSet(f1 \o i) = ToSet(f1) \cup {w1}
  BY <1>7, <1>9, PlanJoin
<1>13. Plan(front, PlainKinds, n) /\ ToSet(front) = ToSet(f1) \cup {w1} \cup ToSet(f2)
  BY <1>8, <1>12, PlanJoin
<1>14. \A p \in Path : HeadTree[p] = Absent => Ordered(front, On({"index"}), FileAt(p))
  <2> SUFFICES ASSUME NEW p \in Path, HeadTree[p] = Absent
               PROVE  Ordered(front, On({"index"}), FileAt(p))
    OBVIOUS
  <2> DEFINE A == On({"index"})
             B == FileAt(p)
  <2>1. ToSet(f1) \cap A = {} /\ ToSet(f2) \cap A = {}
    BY <1>7, <1>8 DEF On
  <2>2. ToSet(f2) \cap B = {}
    BY <1>5, <1>8 DEF FileAt
  <2> HIDE DEF A, B
  <2>3. Ordered(f1, A, B) /\ Ordered(f2, A, B) /\ Ordered(i, A, B)
    BY <1>9, <2>1, OrderedFree, OrderedOne
  <2>4. /\ f1 \in Seq(Writes) /\ i \in Seq(Writes) /\ f2 \in Seq(Writes)
        /\ f1 \o i \in Seq(Writes)
    BY <1>7, <1>8, <1>9, <1>12 DEF Plan
  <2>5. Ordered(f1 \o i, A, B)
    BY <2>1, <2>3, <2>4, OrderedJoin
  <2>6. Ordered(f1 \o i \o f2, A, B)
    BY <2>2, <2>3, <2>4, <2>5, OrderedJoin
  <2> QED
    BY <2>6 DEF A, B
<1> HIDE DEF front
<1>15. EndsMerge(t, front, None, FALSE, n)
  BY <1>10, <1>13, MergeEnd
<1> HIDE DEF t
<1>16. /\ Plan(t, MergeKinds, n) /\ t = front \o (x \o y)
       /\ ToSet(t) = ToSet(f1) \cup ToSet(f2) \cup {w1, w2, w3}
       /\ Ordered(t, On({"mergeHead"}), Writes \ On({"mergeMsg"}))
  BY <1>13, <1>15 DEF EndsMerge, w2, w3
<1>17. \A w \in ToSet(t) : /\ w.on \in {"file", "index", "mergeHead", "mergeMsg"}
                           /\ w.on = "index" => w.to = HeadTree
                           /\ w.on = "mergeHead" => w.to = None
                           /\ w.on = "file" => w \in ToSet(f1) \cup ToSet(f2)
  BY <1>7, <1>8, <1>11, <1>16
<1>18. \E w \in ToSet(t) : w.on = "index"
  BY <1>11, <1>16
<1>19. \A p \in Path : HeadTree[p] # Absent => Sets(t, work[p], {"file"}, p, HeadTree[p])
  <2> SUFFICES ASSUME NEW p \in Path, HeadTree[p] # Absent
               PROVE  Sets(t, work[p], {"file"}, p, HeadTree[p])
    OBVIOUS
  <2>1. files[p] = work[p] /\ new[p] = HeadTree[p]
    BY <1>4, <1>5
  <2>2. \A w \in ToSet(t) : w.on = "file" /\ w.path = p => w.to = HeadTree[p]
    BY <1>7, <1>8, <1>17, <2>1
  <2>3. work[p] = HeadTree[p] \/ \E w \in ToSet(t) : w.on = "file" /\ w.path = p
    BY <1>8, <1>16, <2>1
  <2> QED
    BY <2>2, <2>3 DEF Sets
<1>20. \A p \in D : Sets(t, work[p], {"file"}, p, Absent)
  <2> SUFFICES ASSUME NEW p \in D PROVE Sets(t, work[p], {"file"}, p, Absent)
    OBVIOUS
  <2>1. p \in Path /\ new[p] = files[p] /\ files[p] \in {work[p], Absent}
        /\ (files[p] = Absent \/ work[p] = Absent)
    BY <1>4, <1>5
  <2>2. \A w \in ToSet(t) : w.on = "file" /\ w.path = p => w.to = Absent
    BY <1>7, <1>8, <1>17, <2>1
  <2>3. work[p] = Absent \/ \E w \in ToSet(t) : w.on = "file" /\ w.path = p
    BY <1>7, <1>16, <2>1
  <2> QED
    BY <2>2, <2>3 DEF Sets
<1>21. \A p \in Path : HeadTree[p] = Absent => Ordered(t, On({"index"}), FileAt(p))
  <2> SUFFICES ASSUME NEW p \in Path, HeadTree[p] = Absent
               PROVE  Ordered(t, On({"index"}), FileAt(p))
    OBVIOUS
  <2> DEFINE A == On({"index"})
             B == FileAt(p)
  <2>1. front \in Seq(Writes) /\ x \in Seq(Writes) /\ y \in Seq(Writes)
    BY <1>10, <1>13 DEF Plan
  <2>2. x \o y \in Seq(Writes) /\ ToSet(x \o y) = {w2, w3}
    <3>1. ToSet(x) = {w2} /\ ToSet(y) = {w3}
      BY PutFields, SeqOne DEF w2, w3
    <3> HIDE DEF x, y
    <3> QED
      BY <2>1, <3>1, SeqJoin
  <2>3. ToSet(x \o y) \cap B = {}
    BY <1>11, <2>2 DEF FileAt
  <2>4. Ordered(front, A, B)
    BY <1>14
  <2> HIDE DEF A, B, x, y
  <2>5. Ordered(x \o y, A, B)
    BY <2>3, OrderedFree
  <2>6. Ordered(front \o (x \o y), A, B)
    BY <2>1, <2>2, <2>3, <2>4, <2>5, OrderedJoin
  <2> QED
    BY <1>16, <2>6 DEF A, B
<1> QED
  BY <1>6, <1>16, <1>17, <1>18, <1>19, <1>20, <1>21 DEF n

LEMMA MergeAbortStep ==
  ASSUME WorktreeInv, MergeAbort PROVE WorktreeInv'
<1> DEFINE c == Forced("abort", TRUE)
           t == AbortWrites
           D == doomed \cup (Changed(index, HeadTree) \cap {p \in Path : HeadTree[p] = Absent})
           n == Len(commits)
<1>1. c \in Cmd /\ c.op = "abort" /\ c.tip = None /\ c.force = TRUE
  BY CmdFacts DEF Op
<1>2. Run(c, t) /\ Grows /\ commits' = commits
  BY DEF MergeAbort, Grows
<1>3. doomed \subseteq Path
  BY DEF WorktreeInv, TypeInv, MergeOK
<1>4. \A p \in doomed : HeadTree[p] = Absent /\ (index[p] # Absent \/ work[p] = Absent)
  BY DEF WorktreeInv, AbortInv
<1>5. D \in SUBSET Path
  BY <1>3
<1>6. \A p \in D : HeadTree[p] = Absent /\ (index[p] # Absent \/ work[p] = Absent)
  BY <1>4 DEF Changed
<1>7. doomed' = D
  BY <1>1, <1>2, RunFrame
<1> HIDE DEF D, c
<1>8. /\ Plan(t, MergeKinds, n)
      /\ Ordered(t, On({"mergeHead"}), Writes \ On({"mergeMsg"}))
      /\ \A w \in ToSet(t) : /\ w.on \in {"file", "index", "mergeHead", "mergeMsg"}
                             /\ w.on = "index" => w.to = HeadTree
                             /\ w.on = "mergeHead" => w.to = None
      /\ \E w \in ToSet(t) : w.on = "index"
      /\ \A p \in Path : HeadTree[p] # Absent => Sets(t, work[p], {"file"}, p, HeadTree[p])
      /\ \A p \in D : Sets(t, work[p], {"file"}, p, Absent)
      /\ \A p \in Path : HeadTree[p] = Absent => Ordered(t, On({"index"}), FileAt(p))
  BY <1>5, <1>6, AbortPlan DEF WorktreeInv
<1> HIDE DEF t
<1>9. Fits(c, t, Len(commits'))
  BY <1>1, <1>2, <1>8 DEF Fits, Plan
<1>10. TypeInv' /\ HeadTree' = HeadTree
  BY <1>2, <1>9, RunTypes
<1>11. /\ todo' = t /\ cmd'.op = "abort" /\ cmd'.force = TRUE
       /\ index' = index /\ work' = work
  BY <1>1, <1>2, RunFrame
<1>12. MergeInv'
  BY <1>1, <1>2, <1>8, RunMerge
<1>13. Aborts(todo)'
  BY <1>7, <1>8, <1>10, <1>11 DEF Aborts
<1>14. AbortInv'
  BY <1>6, <1>7, <1>10, <1>11, <1>13 DEF AbortInv
<1>15. EditsInv' /\ PushInv' /\ ContinueInv' /\ PopInv'
  BY <1>11 DEF EditsInv, PushInv, ContinueInv, PopInv
<1> QED
  BY <1>10, <1>12, <1>14, <1>15 DEF WorktreeInv

-----------------------------------------------------------------------------
(* The stash *)

LEMMA AppendSet ==
  ASSUME NEW W, NEW s \in Seq(W), NEW e \in W
  PROVE  Append(s, e) \in Seq(W) /\ ToSet(Append(s, e)) = ToSet(s) \cup {e}
<1> DEFINE u == <<e>>
<1>1. u \in Seq(W) /\ ToSet(u) = {e}
  BY SeqOne
<1>2. Append(s, e) = s \o u
  OBVIOUS
<1> HIDE DEF u
<1>3. s \o u \in Seq(W) /\ ToSet(s \o u) = ToSet(s) \cup ToSet(u)
  BY <1>1, SeqJoin
<1> QED
  BY <1>1, <1>2, <1>3

LEMMA PlacesAfter ==
  ASSUME NEW n \in Nat, NEW i \in 1 .. n, NEW m, m = i + 1
  PROVE  /\ m \in 1 .. n + 1 /\ n \in m - 1 .. n
         /\ (IF m <= n THEN n - m + 1 ELSE 0) = n - i
         /\ \A k \in 1 .. n - i : m + k - 1 = i + k /\ k \in 1 .. n - m + 1
OBVIOUS

LEMMA RemoveAtFacts ==
  ASSUME NEW W, NEW s \in Seq(W), NEW i \in 1 .. Len(s)
  PROVE  RemoveAt(s, i) \in Seq(W) /\ ToSet(RemoveAt(s, i)) \subseteq ToSet(s)
<1> DEFINE m == i + 1
           n == Len(s)
           a == SubSeq(s, 1, i - 1)
           b == SubSeq(s, m, n)
<1>0. Len(s) \in Nat /\ DOMAIN s = 1 .. Len(s) /\ i \in Nat
  OBVIOUS
<1>1. /\ a \in Seq(W) /\ Len(a) = i - 1 /\ \A k \in 1 .. i - 1 : a[k] = s[k]
  BY <1>0
<1>2. /\ b \in Seq(W) /\ Len(b) = n - i /\ \A k \in 1 .. n - i : b[k] = s[i + k]
  <2>1. n \in Nat /\ i \in 1 .. n /\ m = i + 1
    BY <1>0
  <2> HIDE DEF m
  <2>2. /\ m \in 1 .. n + 1 /\ n \in m - 1 .. n
        /\ (IF m <= n THEN n - m + 1 ELSE 0) = n - i
        /\ \A k \in 1 .. n - i : m + k - 1 = i + k /\ k \in 1 .. n - m + 1
    <3> HIDE DEF n
    <3> QED
      BY <2>1, PlacesAfter
  <2>3. /\ SubSeq(s, m, n) \in Seq(W)
        /\ Len(SubSeq(s, m, n)) = IF m <= n THEN n - m + 1 ELSE 0
        /\ \A k \in 1 .. n - m + 1 : SubSeq(s, m, n)[k] = s[m + k - 1]
    BY <2>2, SubSeqProperties
  <2> HIDE DEF b, n
  <2>4. Len(b) = n - i /\ b \in Seq(W)
    BY <2>2, <2>3 DEF b
  <2>5. \A k \in 1 .. n - i : b[k] = s[i + k]
    BY <2>2, <2>3 DEF b
  <2> QED
    BY <2>4, <2>5
<1> HIDE DEF a, b
<1>3. ToSet(a) \subseteq ToSet(s)
  <2>1. \A k \in 1 .. i - 1 : k \in 1 .. Len(s)
    BY <1>0
  <2>2. DOMAIN a = 1 .. i - 1
    BY <1>1
  <2> QED
    BY <1>0, <1>1, <2>1, <2>2 DEF ToSet
<1>4. ToSet(b) \subseteq ToSet(s)
  <2>1. \A k \in 1 .. Len(s) - i : i + k \in 1 .. Len(s)
    BY <1>0
  <2>2. DOMAIN b = 1 .. Len(s) - i
    BY <1>2
  <2> QED
    BY <1>0, <1>2, <2>1, <2>2 DEF ToSet
<1>5. a \o b \in Seq(W) /\ ToSet(a \o b) = ToSet(a) \cup ToSet(b)
  BY <1>1, <1>2, SeqJoin
<1> QED
  BY <1>3, <1>4, <1>5 DEF a, b, RemoveAt

\* The entries that the commands see
LEMMA EntriesFacts ==
  ASSUME TypeInv
  PROVE  /\ StashEntries \in Seq(Entry) /\ DOMAIN StashEntries = 1 .. Len(StashEntries)
         /\ \A e \in ToSet(StashEntries) : e.base \in 1 .. Len(commits)
         /\ \A i \in DOMAIN StashEntries : /\ StashEntries[i] \in Entry
                                           /\ StashEntries[i].base \in 1 .. Len(commits)
<1>1. /\ stashRef \in Entry \cup {None} /\ stashLog \in Seq(Entry) \cup {None}
      /\ stashRef # None => stashRef.base \in 1 .. Len(commits)
      /\ stashLog # None => \A e \in ToSet(stashLog) : e.base \in 1 .. Len(commits)
  BY DEF TypeInv, StashOK
<1>2. /\ StashEntries \in Seq(Entry)
      /\ \A e \in ToSet(StashEntries) : e.base \in 1 .. Len(commits)
  <2>1. CASE stashLog # None
    <3>1. StashEntries = Reverse(stashLog) /\ stashLog \in Seq(Entry)
      BY <1>1, <2>1 DEF StashEntries
    <3>2. Reverse(stashLog) \in Seq(Entry) /\ ToSet(Reverse(stashLog)) = ToSet(stashLog)
      BY <3>1, ReverseFacts
    <3> QED
      BY <1>1, <2>1, <3>1, <3>2
  <2>2. CASE stashLog = None /\ stashRef # None
    <3>1. StashEntries = <<stashRef>> /\ stashRef \in Entry
      BY <1>1, <2>2 DEF StashEntries
    <3>2. ToSet(<<stashRef>>) = {stashRef} /\ <<stashRef>> \in Seq(Entry)
      BY <3>1, SeqOne
    <3> QED
      BY <1>1, <2>2, <3>1, <3>2
  <2>3. CASE stashLog = None /\ stashRef = None
    <3>1. StashEntries = <<>>
      BY <2>3 DEF StashEntries
    <3> QED
      BY <3>1, SeqNone
  <2> QED
    BY <2>1, <2>2, <2>3
<1>3. DOMAIN StashEntries = 1 .. Len(StashEntries)
  BY <1>2
<1>4. \A i \in DOMAIN StashEntries : StashEntries[i] \in Entry
  BY <1>2, <1>3
<1> QED
  BY <1>2, <1>3, <1>4 DEF ToSet

\* What drop_stash_entry writes
LEMMA DropPlan ==
  ASSUME TypeInv, NEW i \in DOMAIN StashEntries, NEW K, {"stashRef", "stashLog"} \subseteq K
  PROVE  Plan(DropWrites(i), K, Len(commits))
         /\ \A w \in ToSet(DropWrites(i)) : w.on \in {"stashRef", "stashLog"}
<1> DEFINE s == StashEntries
           rest == RemoveAt(s, i)
           n == Len(commits)
           L == {"stashRef", "stashLog"}
<1>1. /\ s \in Seq(Entry) /\ i \in 1 .. Len(s) /\ \A e \in ToSet(s) : e.base \in 1 .. n
  BY EntriesFacts
<1> HIDE DEF s, n
<1>2. rest \in Seq(Entry) /\ ToSet(rest) \subseteq ToSet(s)
  BY <1>1, RemoveAtFacts
<1>3. /\ None \in Entry \cup {None} /\ None \in Seq(Entry) \cup {None}
      /\ Plan(Put("stashRef", None), L, n) /\ Plan(Put("stashLog", None), L, n)
  BY PlanStashRef, PlanStashLog
<1>4. Plan(Put("stashLog", <<>>), L, n)
  BY PlanStashLog, SeqNone
<1>5. Plan(Put("stashLog", Reverse(rest)), L, n)
  <2>1. Reverse(rest) \in Seq(Entry) /\ ToSet(Reverse(rest)) = ToSet(rest)
    <3> HIDE DEF rest
    <3> QED
      BY <1>2, ReverseFacts
  <2>2. \A e \in ToSet(Reverse(rest)) : e.base \in 1 .. n
    BY <1>1, <1>2, <2>1
  <2> DEFINE v == Reverse(rest)
  <2> HIDE DEF v
  <2> QED
    BY <2>1, <2>2, PlanStashLog DEF v
<1>6. rest # <<>> => Plan(Put("stashRef", rest[1]), L, n)
  <2> SUFFICES ASSUME rest # <<>> PROVE Plan(Put("stashRef", rest[1]), L, n)
    OBVIOUS
  <2> DEFINE v == rest[1]
  <2>1. v \in Entry /\ v \in ToSet(rest)
    <3> HIDE DEF rest
    <3>1. Len(rest) \in Nat /\ Len(rest) # 0 /\ DOMAIN rest = 1 .. Len(rest)
      BY <1>2
    <3> QED
      BY <1>2, <3>1 DEF ToSet
  <2>2. v.base \in 1 .. n
    BY <1>1, <1>2, <2>1
  <2> HIDE DEF v
  <2> QED
    BY <2>1, <2>2, PlanStashRef DEF v
<1>7. Plan(DropWrites(i), L, n)
  <2> DEFINE a == Put("stashRef", None)
             b == Put("stashLog", None)
             x == Put("stashRef", rest[1])
             y == Put("stashLog", <<>>)
             z == Put("stashLog", Reverse(rest))
  <2>1. DropWrites(i) = IF rest = <<>> THEN a \o b ELSE x \o y \o z
    BY DEF DropWrites, s
  <2> HIDE DEF rest, a, b, x, y, z, L
  <2>2. Plan(a \o b, L, n)
    BY <1>3, PlanJoin DEF a, b
  <2>3. rest # <<>> => Plan(x \o y, L, n)
    BY <1>4, <1>6, PlanJoin DEF x, y
  <2>4. rest # <<>> => Plan(x \o y \o z, L, n)
    BY <1>5, <2>3, PlanJoin DEF z
  <2> QED
    BY <2>1, <2>2, <2>4
<1> QED
  BY <1>7 DEF Plan, n

LEMMA StashDropStep ==
  ASSUME WorktreeInv, NEW i \in DOMAIN StashEntries, StashDrop(i) PROVE WorktreeInv'
<1> DEFINE c == Plain("drop")
           t == DropWrites(i)
<1>1. c \in Cmd /\ c.op = "drop" /\ c.tip = None /\ c.op \notin OwnPlan
  BY CmdFacts DEF Op, OwnPlan
<1>2. Run(c, t) /\ Grows /\ commits' = commits
  BY DEF StashDrop, Grows
<1>3. Plan(t, PlainKinds, Len(commits')) /\ Spares(t, Edits)
  BY <1>2, DropPlan DEF PlainKinds, Spares, WorktreeInv
<1> HIDE DEF c, t
<1> QED
  BY <1>1, <1>2, <1>3, PlainStep

LEMMA StashClearStep ==
  ASSUME WorktreeInv, StashClear PROVE WorktreeInv'
<1> DEFINE c == Plain("drop")
           a == Put("stashRef", None)
           b == Put("stashLog", None)
           t == a \o b
           n == Len(commits')
<1>1. c \in Cmd /\ c.op = "drop" /\ c.tip = None /\ c.op \notin OwnPlan
  BY CmdFacts DEF Op, OwnPlan
<1>2. Run(c, t) /\ Grows /\ commits' = commits
  BY DEF StashClear, Grows
<1> HIDE DEF c, n
<1>3. /\ Plan(a, PlainKinds, n) /\ Plan(b, PlainKinds, n)
      /\ \A D : Spares(a, D) /\ Spares(b, D)
  BY PlanStashRef, PlanStashLog DEF PlainKinds
<1> HIDE DEF a, b
<1>4. Plan(t, PlainKinds, n) /\ Spares(t, Edits)
  BY <1>3, PlanJoin
<1> HIDE DEF t
<1> QED
  BY <1>1, <1>2, <1>4, PlainStep DEF n

\* write_stash_ref_update comes first: the new entry is in the log before
\* anything else is written.
PushLog(e) == Append(IF stashLog = None THEN <<>> ELSE stashLog, e)

LEMMA PushPlan ==
  ASSUME TypeInv, NEW e \in Entry, e.base \in 1 .. Len(commits),
         NEW r, Plan(r, {"file", "index"}, Len(commits))
  PROVE  /\ Plan(PushWrites(e, r), PlainKinds, Len(commits))
         /\ ToSet(PushWrites(e, r)) =
               {PutW("stashRef", e), PutW("stashLog", PushLog(e))} \cup ToSet(r)
         /\ PushLog(e) # None /\ e \in ToSet(PushLog(e))
         /\ Ordered(PushWrites(e, r), On({"file"}), On({"stashLog"}))
<1> DEFINE n == Len(commits)
           old == IF stashLog = None THEN <<>> ELSE stashLog
           log == PushLog(e)
           a == Put("stashRef", e)
           b == Put("stashLog", log)
           A == On({"file"})
           B == On({"stashLog"})
<1>1. /\ stashLog \in Seq(Entry) \cup {None}
      /\ stashLog # None => \A x \in ToSet(stashLog) : x.base \in 1 .. n
  BY DEF TypeInv, StashOK
<1>2. old \in Seq(Entry) /\ \A x \in ToSet(old) : x.base \in 1 .. n
  BY <1>1, SeqNone
<1> HIDE DEF old, n
<1>3. log \in Seq(Entry) /\ ToSet(log) = ToSet(old) \cup {e}
  <2>1. log = Append(old, e)
    BY DEF old, PushLog
  <2>2. Append(old, e) \in Seq(Entry) /\ ToSet(Append(old, e)) = ToSet(old) \cup {e}
    BY <1>2, AppendSet
  <2> HIDE DEF log
  <2> QED
    BY <2>1, <2>2
<1>4. log # None /\ e \in ToSet(log) /\ \A x \in ToSet(log) : x.base \in 1 .. n
  BY <1>2, <1>3, WorktreeAssumption DEF n
<1> HIDE DEF log
<1>5. Plan(a, PlainKinds, n) /\ ToSet(a) = {PutW("stashRef", e)} /\ a = <<PutW("stashRef", e)>>
  BY PlanStashRef, PutFields DEF PlainKinds, n
<1>6. /\ Plan(b, PlainKinds, n) /\ ToSet(b) = {PutW("stashLog", log)}
      /\ b = <<PutW("stashLog", log)>>
  BY <1>3, <1>4, PlanStashLog, PutFields DEF PlainKinds
<1>7. Plan(r, PlainKinds, n)
  BY DEF Plan, PlainKinds, n
<1>8. PutW("stashRef", e).on = "stashRef" /\ PutW("stashLog", log).on = "stashLog"
  BY PutFields
<1>9. PushWrites(e, r) = a \o b \o r
  BY DEF PushWrites, PushLog, log
<1> HIDE DEF a, b
<1>10. Plan(a \o b, PlainKinds, n) /\ ToSet(a \o b) = ToSet(a) \cup ToSet(b)
  BY <1>5, <1>6, PlanJoin
<1> DEFINE g == a \o b
<1> HIDE DEF g
<1>11. Plan(g \o r, PlainKinds, n) /\ ToSet(g \o r) = ToSet(g) \cup ToSet(r)
  BY <1>7, <1>10, PlanJoin DEF g
<1>12. ToSet(g) \cap A = {} /\ ToSet(r) \cap B = {}
  <2>1. ToSet(g) \cap A = {}
    BY <1>5, <1>6, <1>8, <1>10 DEF g, On
  <2>2. ToSet(r) \cap B = {}
    BY DEF Plan, On
  <2> QED
    BY <2>1, <2>2
<1>13. g \in Seq(Writes) /\ r \in Seq(Writes)
  BY <1>7, <1>10 DEF Plan, g
<1> HIDE DEF A, B
<1>14. Ordered(g, A, B) /\ Ordered(r, A, B)
  BY <1>12, OrderedFree
<1>15. Ordered(g \o r, A, B)
  BY <1>12, <1>13, <1>14, OrderedJoin
<1>16. PushWrites(e, r) = g \o r
  BY <1>9 DEF g
<1>17. ToSet(g \o r) = {PutW("stashRef", e), PutW("stashLog", log)} \cup ToSet(r)
  BY <1>5, <1>6, <1>10, <1>11 DEF g
<1> QED
  BY <1>4, <1>11, <1>15, <1>16, <1>17 DEF log, A, B, n

LEMMA StashPushStagedStep ==
  ASSUME WorktreeInv, StashPushStaged PROVE WorktreeInv'
<1> DEFINE c == Plain("push staged")
           changed == Changed(HeadTree, index)
           e == [base |-> Tip, tree |-> index, index |-> None, untracked |-> NoFiles]
           files == [p \in Path |-> IF p \in changed THEN HeadTree[p] ELSE work[p]]
           f == FileWritesUp(work, files)
           i == Put("index", HeadTree)
           r == f \o i
           t == PushWrites(e, r)
           n == Len(commits)
           K == {"file", "index"}
<1>1. c \in Cmd /\ c.op = "push staged" /\ c.tip = None /\ c.op \notin OwnPlan
  BY CmdFacts DEF Op, OwnPlan
<1>2. Run(c, t) /\ Grows /\ commits' = commits /\ \A p \in Path : index[p] # Unmerged
  BY DEF StashPushStaged, Grows
<1>3. /\ HeadTree \in Tree /\ work \in Tree /\ index \in Index /\ Tip \in 1 .. n /\ n \in Nat
  BY StateFacts DEF WorktreeInv
<1>4. index \in Tree /\ NoFiles \in Tree
  BY <1>2, <1>3, TreeFacts DEF Index, Tree, NoFiles
<1>5. e \in Entry /\ e.base \in 1 .. n
  BY <1>3, <1>4 DEF Entry
<1>6. files \in Tree
  BY <1>3 DEF Tree
<1> HIDE DEF c, e, files, n
<1>7. Plan(f, K, n) /\ Plan(i, K, n)
  BY <1>3, <1>6, PlanFiles, PlanIndex, TreeFacts
<1> HIDE DEF f, i, K
<1>8. Plan(r, K, n)
  BY <1>7, PlanJoin
<1> HIDE DEF r
<1>9. Plan(t, PlainKinds, n)
  BY <1>5, <1>8, PushPlan DEF WorktreeInv, K, n
<1> HIDE DEF t
<1> QED
  BY <1>1, <1>2, <1>9, PlainStep DEF n

\* stash push: of every file that it touches, a commit or the new entry has
\* what was there and what is put there.
LEMMA StashPushStep ==
  ASSUME WorktreeInv, NEW untracked \in BOOLEAN, NEW keep \in BOOLEAN, StashPush(untracked, keep)
  PROVE  WorktreeInv'
<1> DEFINE c == Plain("push")
           unt == IF untracked THEN Untracked ELSE NoFiles
           e == [base |-> Tip, tree |-> Snapshot, index |-> index, untracked |-> unt]
           gone == [p \in Path |-> IF unt[p] # Absent THEN Absent ELSE work[p]]
           files == RemoveMissing(gone, index, HeadTree)
           reset == Checkout(files, HeadTree, Path)
           kept == RemoveMissing(reset, HeadTree, index)
           last == Checkout(kept, index, Path)
           f1 == FileWritesUp(work, gone)
           f2 == FileWrites(gone, files)
           f3 == FileWrites(files, reset)
           i1 == Put("index", HeadTree)
           f4 == FileWrites(reset, kept)
           i2 == Put("index", index)
           f5 == FileWrites(kept, last)
           tail == IF keep THEN f4 \o i2 \o f5 ELSE <<>>
           r == f1 \o f2 \o f3 \o i1 \o tail
           t == PushWrites(e, r)
           n == Len(commits)
           K == {"file", "index"}
<1>1. c \in Cmd /\ c.op = "push" /\ c.tip = None
  BY CmdFacts DEF Op
<1>2. e.untracked = unt /\ e.base = Tip /\ e.tree = Snapshot /\ e.index = index
  OBVIOUS
<1>3. Run(c, t) /\ Grows /\ commits' = commits /\ \A p \in Path : index[p] # Unmerged
  BY DEF StashPush, Grows
<1>4. /\ HeadTree \in Tree /\ work \in Tree /\ index \in Index /\ Tip \in 1 .. n /\ n \in Nat
      /\ DOMAIN commits = 1 .. n
  BY StateFacts DEF WorktreeInv
<1>5. index \in Tree /\ unt \in Tree
  BY <1>3, <1>4, TreeFacts DEF Index, Tree, NoFiles, Untracked
<1>6. /\ Snapshot \in Tree
      /\ \A p \in Path : index[p] # Absent \/ HeadTree[p] # Absent => Snapshot[p] = work[p]
  <2>1. \A p \in Path : StageTracked[p] = IF index[p] # Absent THEN work[p] ELSE Absent
    BY <1>3 DEF StageTracked, StageZero
  <2>2. \A p \in Path : Snapshot[p] = IF index[p] # Absent \/ HeadTree[p] # Absent THEN work[p]
                                      ELSE Absent
    BY <2>1 DEF Snapshot
  <2>3. Snapshot \in Tree
    BY <1>4, <2>2, TreeFacts DEF Snapshot, Tree
  <2> QED
    BY <2>2, <2>3
<1>7. e \in Entry /\ e.base \in 1 .. n
  BY <1>4, <1>5, <1>6 DEF Entry
<1>8. gone \in Tree
  BY <1>4, TreeFacts DEF Tree
<1>9. \A p \in Path : unt[p] # Absent => unt[p] = work[p]
  BY DEF NoFiles, Untracked
<1>10. \A p \in Path : index[p] # Unmerged /\ HeadTree[p] # Unmerged
  BY <1>3, <1>4, WorktreeAssumption DEF Tree, File
<1>11. \A p \in Path : gone[p] = IF unt[p] # Absent THEN Absent ELSE work[p]
  OBVIOUS
<1> HIDE DEF c, e, unt, gone, n, K
<1>12. files \in Tree /\ \A p \in Path : files[p] =
          IF index[p] # Absent /\ HeadTree[p] = Absent THEN Absent ELSE gone[p]
  BY <1>8, TreeFacts, RemovedAt
<1> HIDE DEF files
<1>13. reset \in Tree /\ \A p \in Path : reset[p] =
          IF HeadTree[p] # Absent THEN HeadTree[p] ELSE files[p]
  <2>1. reset \in Tree
    BY <1>4, <1>12, TreeFacts
  <2>2. \A p \in Path : reset[p] = IF HeadTree[p] # Absent THEN HeadTree[p] ELSE files[p]
    BY <1>10, CheckedOutAt
  <2> QED
    BY <2>1, <2>2
<1> HIDE DEF reset
<1>14. kept \in Tree /\ \A p \in Path : kept[p] =
          IF HeadTree[p] # Absent /\ index[p] = Absent THEN Absent ELSE reset[p]
  BY <1>13, TreeFacts, RemovedAt
<1> HIDE DEF kept
<1>15. last \in Tree /\ \A p \in Path : last[p] = IF index[p] # Absent THEN index[p] ELSE kept[p]
  <2>1. last \in Tree
    BY <1>4, <1>14, TreeFacts
  <2>2. \A p \in Path : last[p] = IF index[p] # Absent THEN index[p] ELSE kept[p]
    BY <1>10, CheckedOutAt
  <2> QED
    BY <2>1, <2>2
<1> HIDE DEF last
<1> DEFINE Known(p) == {Absent, work[p], HeadTree[p], index[p]}
           Alone(p) == index[p] = Absent /\ HeadTree[p] = Absent /\ unt[p] = Absent
           Good(f) == \A p \in Path : f[p] \in Known(p) /\ (Alone(p) => f[p] = work[p])
           KeptAll(a) == \A w \in ToSet(a) : w.on = "file" =>
                            Kept(e, w.path, w.to) /\ Kept(e, w.path, work[w.path])
<1>16. Good(work) /\ Good(gone)
  BY <1>11
<1>17. Good(files)
  BY <1>12, <1>16
<1>18. Good(reset)
  BY <1>13, <1>17
<1>19. Good(kept)
  BY <1>14, <1>18
<1>20. Good(last)
  BY <1>15, <1>19
<1>21. \A p \in Path : ~Alone(p) => Kept(e, p, work[p])
  <2> SUFFICES ASSUME NEW p \in Path, ~Alone(p) PROVE Kept(e, p, work[p])
    OBVIOUS
  <2>1. CASE unt[p] # Absent
    BY <1>2, <1>9, <2>1 DEF Kept
  <2>2. CASE index[p] # Absent \/ HeadTree[p] # Absent
    BY <1>2, <1>6, <2>2 DEF Kept
  <2> QED
    BY <2>1, <2>2
<1>22. \A p \in Path : ~Alone(p) => \A v \in Known(p) : Kept(e, p, v)
  <2> SUFFICES ASSUME NEW p \in Path, ~Alone(p), NEW v \in Known(p) PROVE Kept(e, p, v)
    OBVIOUS
  <2>1. Kept(e, p, Absent)
    BY DEF Kept
  <2>2. Kept(e, p, HeadTree[p])
    BY <1>4 DEF Kept, HeadTree, TreeOf
  <2>3. Kept(e, p, index[p])
    <3>1. e.index # None
      BY <1>2, <1>5, WorktreeAssumption
    <3> QED
      BY <1>2, <3>1 DEF Kept
  <2> QED
    BY <1>21, <2>1, <2>2, <2>3
<1>23. ASSUME NEW x, NEW y \in Tree, Good(x), Good(y),
              NEW q \in {FileWrites(x, y), FileWritesUp(x, y)}
       PROVE  Plan(q, K, n) /\ KeptAll(q)
  <2>1. /\ Plan(q, K, n)
        /\ \A w \in ToSet(q) :
              /\ w.path \in Path /\ w.to = y[w.path] /\ x[w.path] # y[w.path]
    BY PlanFiles DEF K
  <2>2. ASSUME NEW w \in ToSet(q)
        PROVE  Kept(e, w.path, w.to) /\ Kept(e, w.path, work[w.path])
    <3>1. w.path \in Path /\ w.to = y[w.path] /\ x[w.path] # y[w.path]
      BY <2>1
    <3>2. ~Alone(w.path) /\ w.to \in Known(w.path)
      BY <1>23, <3>1
    <3> HIDE DEF Alone
    <3> QED
      BY <1>22, <3>1, <3>2
  <2> QED
    BY <2>1, <2>2
<1> HIDE DEF Good
<1>24. /\ Plan(f1, K, n) /\ Plan(f2, K, n) /\ Plan(f3, K, n) /\ Plan(f4, K, n) /\ Plan(f5, K, n)
       /\ KeptAll(f1) /\ KeptAll(f2) /\ KeptAll(f3) /\ KeptAll(f4) /\ KeptAll(f5)
  <2> HIDE DEF KeptAll
  <2> QED
    BY <1>8, <1>12, <1>13, <1>14, <1>15, <1>16, <1>17, <1>18, <1>19, <1>20, <1>23
<1>25. /\ Plan(i1, K, n) /\ Plan(i2, K, n) /\ KeptAll(i1) /\ KeptAll(i2)
  <2>1. /\ Plan(i1, K, n) /\ ToSet(i1) = {PutW("index", HeadTree)}
        /\ Plan(i2, K, n) /\ ToSet(i2) = {PutW("index", index)}
    BY <1>4, PlanIndex, TreeFacts DEF K
  <2>2. PutW("index", HeadTree).on = "index" /\ PutW("index", index).on = "index"
    BY PutFields
  <2> QED
    BY <2>1, <2>2
<1> DEFINE Fine(a) == Plan(a, K, n) /\ KeptAll(a)
<1>26. ASSUME NEW a, NEW b, Fine(a), Fine(b) PROVE Fine(a \o b)
  <2>1. Plan(a \o b, K, n) /\ ToSet(a \o b) = ToSet(a) \cup ToSet(b)
    BY <1>26, PlanJoin
  <2> QED
    BY <1>26, <2>1
<1>27. Fine(<<>>)
  BY PlanNone
<1>28. /\ Fine(f1) /\ Fine(f2) /\ Fine(f3) /\ Fine(f4) /\ Fine(f5) /\ Fine(i1) /\ Fine(i2)
  BY <1>24, <1>25
<1> HIDE DEF Fine, f1, f2, f3, f4, f5, i1, i2
<1>29. Fine(tail)
  BY <1>26, <1>27, <1>28
<1> HIDE DEF tail
<1>30. Fine(f1 \o f2)
  BY <1>26, <1>28
<1>31. Fine(f1 \o f2 \o f3)
  BY <1>26, <1>28, <1>30
<1>32. Fine(f1 \o f2 \o f3 \o i1)
  BY <1>26, <1>28, <1>31
<1>33. Fine(r)
  BY <1>26, <1>29, <1>32
<1> HIDE DEF r
<1>34. Plan(r, K, n) /\ KeptAll(r)
  BY <1>33 DEF Fine
<1>35. /\ Plan(t, PlainKinds, n)
       /\ ToSet(t) = {PutW("stashRef", e), PutW("stashLog", PushLog(e))} \cup ToSet(r)
       /\ PushLog(e) # None /\ e \in ToSet(PushLog(e))
       /\ Ordered(t, On({"file"}), On({"stashLog"}))
  BY <1>7, <1>34, PushPlan DEF WorktreeInv, K, n
<1>36. /\ PutW("stashRef", e).on = "stashRef"
       /\ PutW("stashLog", PushLog(e)).on = "stashLog"
       /\ PutW("stashLog", PushLog(e)).to = PushLog(e)
  BY PutFields
<1>37. \A w \in ToSet(r) : w.on \in {"file", "index"}
  BY <1>34 DEF Plan, K
<1> HIDE DEF t
<1>38. /\ todo' = t /\ cmd'.op = "push" /\ doomed' = {} /\ work' = work
  BY <1>1, <1>3, RunFrame
<1>39. \E x : Saves(todo, x)'
  <2>0. PICK x : x = e
    OBVIOUS
  <2>1. \A w \in ToSet(t) : w.on = "stashLog" => w.to # None /\ x \in ToSet(w.to)
    BY <1>35, <1>36, <1>37, <2>0
  <2>2. \E w \in ToSet(t) : w.on = "stashLog"
    BY <1>35, <1>36
  <2>3. \A w \in ToSet(t) :
           /\ w.on \notin {"rename", "untracked"}
           /\ w.on = "file" => Kept(x, w.path, w.to) /\ Kept(x, w.path, work[w.path])
    BY <1>34, <1>35, <1>36, <1>37, <2>0
  <2>4. \A w \in ToSet(t) :
           w.on = "file" => Kept(x, w.path, w.to)' /\ Kept(x, w.path, work[w.path])'
    BY <1>3, <1>38, <2>3 DEF Kept
  <2> QED
    BY <1>7, <1>35, <1>38, <2>0, <2>1, <2>2, <2>3, <2>4 DEF Saves
<1>40. Fits(c, t, Len(commits'))
  BY <1>1, <1>3, <1>35 DEF Fits, Plan, n
<1>41. TypeInv'
  BY <1>3, <1>40, RunTypes
<1>42. MergeInv'
  <2>1. \A w \in ToSet(t) : w.on # "mergeHead"
    BY <1>35 DEF Plan, PlainKinds
  <2>2. Ordered(t, On({"mergeHead"}), Writes \ On({"mergeMsg"}))
    <3>1. ToSet(t) \cap On({"mergeHead"}) = {}
      BY <2>1 DEF On
    <3> QED
      BY <3>1, OrderedFree
  <2> QED
    BY <1>1, <1>3, <2>1, <2>2, RunMerge
<1>43. PushInv'
  BY <1>39 DEF PushInv
<1>44. EditsInv' /\ ContinueInv' /\ AbortInv' /\ PopInv'
  BY <1>38 DEF EditsInv, ContinueInv, AbortInv, PopInv
<1> QED
  BY <1>41, <1>42, <1>43, <1>44 DEF WorktreeInv

\* restore_stash_untracked_index
LEMMA UntrackedPlan ==
  ASSUME NEW now \in Tree, NEW e \in Entry, NEW K, NEW n, "untracked" \in K
  PROVE  /\ Plan(RestoreUntracked(now, e), K, n)
         /\ \A w \in ToSet(RestoreUntracked(now, e)) :
               /\ w.on = "untracked" /\ w.path \in Path
               /\ w.to = e.untracked[w.path] /\ e.untracked[w.path] # Absent
         /\ \A p \in Path : e.untracked[p] # Absent /\ now[p] # e.untracked[p] =>
               \E w \in ToSet(RestoreUntracked(now, e)) : w.path = p
<1> DEFINE u == e.untracked
           new == Checkout(now, u, Path)
           s == FileWrites(now, new)
           t == RestoreUntracked(now, e)
<1>1. u \in Tree
  BY DEF Entry
<1>2. \A p \in Path : u[p] # Unmerged
  BY <1>1, WorktreeAssumption DEF Tree, File
<1> HIDE DEF u
<1>3. new \in Tree /\ \A p \in Path : new[p] = IF u[p] # Absent THEN u[p] ELSE now[p]
  <2>1. new \in Tree
    BY <1>1, TreeFacts
  <2>2. \A p \in Path : new[p] = IF u[p] # Absent THEN u[p] ELSE now[p]
    BY <1>2, CheckedOutAt
  <2> QED
    BY <2>1, <2>2
<1> HIDE DEF new
<1>4. /\ s \in Seq(Writes)
      /\ \A w \in ToSet(s) : /\ w \in Writes /\ w.on = "file" /\ w.path \in Path
                             /\ w.to = new[w.path] /\ now[w.path] # new[w.path]
      /\ \A p \in Path : now[p] # new[p] =>
            \E w \in ToSet(s) : w.on = "file" /\ w.path = p /\ w.to = new[p]
  BY <1>3, FileWritesIn
<1>5. t = [i \in DOMAIN s |-> [on |-> "untracked", path |-> s[i].path, to |-> s[i].to]]
  BY DEF RestoreUntracked, u, new
<1> HIDE DEF s, t
<1>6. DOMAIN s = 1 .. Len(s) /\ Len(s) \in Nat
  BY <1>4
<1>7. ASSUME NEW i \in DOMAIN s
      PROVE  /\ t[i].on = "untracked" /\ t[i].path = s[i].path /\ t[i].to = u[s[i].path]
             /\ s[i].path \in Path /\ u[s[i].path] # Absent /\ t[i] \in Writes
  <2>1. s[i] \in ToSet(s)
    BY DEF ToSet
  <2>2. s[i].path \in Path /\ s[i].to = new[s[i].path] /\ now[s[i].path] # new[s[i].path]
    BY <1>4, <2>1
  <2>3. t[i] = [on |-> "untracked", path |-> s[i].path, to |-> s[i].to]
    BY <1>5
  <2>4. u[s[i].path] # Absent /\ s[i].to = u[s[i].path] /\ u[s[i].path] \in File
    BY <1>1, <1>3, <2>2 DEF Tree
  <2>5. t[i] \in FileW
    BY <2>2, <2>3, <2>4 DEF FileW
  <2> QED
    BY <2>2, <2>3, <2>4, <2>5 DEF Writes
<1>8. t \in Seq(Writes) /\ DOMAIN t = DOMAIN s
  <2>1. t = [i \in 1 .. Len(s) |-> t[i]]
    BY <1>5, <1>6
  <2>2. \A i \in 1 .. Len(s) : t[i] \in Writes
    BY <1>6, <1>7
  <2> QED
    BY <1>5, <1>6, <2>1, <2>2
<1>9. \A w \in ToSet(t) : /\ w.on = "untracked" /\ w.path \in Path
                          /\ w.to = u[w.path] /\ u[w.path] # Absent
  BY <1>7, <1>8 DEF ToSet
<1>10. \A p \in Path : u[p] # Absent /\ now[p] # u[p] => \E w \in ToSet(t) : w.path = p
  <2> SUFFICES ASSUME NEW p \in Path, u[p] # Absent, now[p] # u[p]
               PROVE  \E w \in ToSet(t) : w.path = p
    OBVIOUS
  <2>1. PICK w \in ToSet(s) : w.path = p
    BY <1>3, <1>4
  <2>2. PICK i \in DOMAIN s : w = s[i]
    BY <2>1 DEF ToSet
  <2> QED
    BY <1>7, <1>8, <2>1, <2>2 DEF ToSet
<1>11. \A w \in ToSet(t) : Refers(w, n) /\ w.on \in K
  BY <1>9 DEF Refers
<1>12. Plan(t, K, n)
  BY <1>8, <1>11 DEF Plan
<1> QED
  BY <1>9, <1>10, <1>12 DEF t, u

LEMMA FinalIndexFacts ==
  ASSUME TypeInv, NEW e \in Entry, NEW restore \in BOOLEAN, restore => e.index # None
  PROVE  FinalIndex(e, restore) \in Index
<1> DEFINE base == TreeOf(e.base)
           one(p) == restore /\ base[p] # e.index[p]
           two(p) == /\ ~restore /\ e.index # None /\ p \in Changed(base, e.tree)
                     /\ base[p] = Absent /\ index[p] = Absent
           val(p) == CASE restore /\ base[p] # e.index[p] -> e.index[p]
                       [] /\ ~restore /\ e.index # None /\ p \in Changed(base, e.tree)
                          /\ base[p] = Absent /\ index[p] = Absent -> e.index[p]
                       [] OTHER -> index[p]
<1>1. FinalIndex(e, restore) = [p \in Path |-> val(p)]
  BY Zenon DEF FinalIndex
<1>2. e.index # None => e.index \in Tree
  BY DEF Entry
<1>3. index \in Index
  BY StateFacts
<1>4. ASSUME NEW p \in Path PROVE val(p) \in File \cup {Unmerged}
  <2>1. e.index # None => e.index[p] \in File
    BY <1>2 DEF Tree
  <2>2. index[p] \in File \cup {Unmerged}
    BY <1>3 DEF Index
  <2>3. CASE one(p)
    <3>1. val(p) = e.index[p]
      BY <2>3, Zenon
    <3> HIDE DEF val
    <3> QED
      BY <2>1, <2>3, <3>1
  <2>4. CASE two(p)
    <3>1. val(p) = e.index[p]
      BY <2>4, Zenon
    <3> HIDE DEF val
    <3> QED
      BY <2>1, <2>4, <3>1
  <2>5. CASE ~one(p) /\ ~two(p)
    <3>1. val(p) = index[p]
      BY <2>5, Zenon
    <3> HIDE DEF val
    <3> QED
      BY <2>2, <3>1
  <2> HIDE DEF one, two, val
  <2> QED
    BY <2>3, <2>4, <2>5
<1> HIDE DEF val
<1> QED
  BY <1>1, <1>4 DEF Index

\* apply_stash_commit: the files that the entry changes, then its untracked
\* files; no edit is in the way.
LEMMA ApplyPlan ==
  ASSUME TypeInv, NEW e \in Entry, e.base \in 1 .. Len(commits), NEW restore \in BOOLEAN,
         restore => e.index # None, CanPreserve(e)
  PROVE  /\ Plan(ApplyWrites(e, restore), PlainKinds \ {"stashLog"}, Len(commits))
         /\ Spares(ApplyWrites(e, restore), Edits)
         /\ Applies(ApplyWrites(e, restore), e)
<1> DEFINE changed == Changed(TreeOf(e.base), e.tree)
           source == [p \in Path |-> IF p \in changed THEN e.tree[p] ELSE index[p]]
           gone == [p \in Path |-> IF p \in changed /\ e.tree[p] = Absent THEN Absent
                                   ELSE work[p]]
           files == Checkout(gone, source, changed)
           f1 == FileWrites(work, gone)
           i1 == Put("index", source)
           f2 == FileWrites(gone, files)
           u == RestoreUntracked(files, e)
           i2 == Put("index", FinalIndex(e, restore))
           t == f1 \o i1 \o f2 \o u \o i2
           K == PlainKinds \ {"stashLog"}
           n == Len(commits)
<1>1. t = ApplyWrites(e, restore)
  BY DEF ApplyWrites
<1>2. work \in Tree /\ index \in Index
  BY StateFacts
<1>3. e.tree \in Tree /\ e.untracked \in Tree
  BY DEF Entry
<1>4. \A p \in Path : e.tree[p] # Unmerged
  BY <1>3, WorktreeAssumption DEF Tree, File
<1>5. source \in Index
  BY <1>2, <1>3 DEF Tree, Index
<1>6. gone \in Tree
  BY <1>2, TreeFacts DEF Tree
<1>7. \A p \in Path : /\ source[p] = IF p \in changed THEN e.tree[p] ELSE index[p]
                      /\ gone[p] = IF p \in changed /\ e.tree[p] = Absent THEN Absent
                                   ELSE work[p]
  OBVIOUS
<1>8. \A p \in changed : p \notin Edits
  <2> SUFFICES ASSUME NEW p \in changed, p \in Edits PROVE FALSE
    OBVIOUS
  <2>1. index[p] # Absent => work[p] = index[p]
    BY DEF CanPreserve
  <2>2. index[p] # Absent /\ work[p] # index[p]
    BY DEF Edits, StageZero
  <2> QED
    BY <2>1, <2>2
<1> HIDE DEF changed, source, gone
<1>9. files \in Tree
  BY <1>5, <1>6, TreeFacts
<1>10. \A p \in Path : files[p] = IF p \in changed /\ source[p] \notin {Absent, Unmerged}
                                  THEN source[p] ELSE gone[p]
  BY CheckedOutAt
<1> HIDE DEF files
<1>11. \A p \in Path : files[p] = IF p \in changed THEN e.tree[p] ELSE work[p]
  BY <1>4, <1>7, <1>10
<1>12. FinalIndex(e, restore) \in Index
  BY FinalIndexFacts
<1>13. /\ Plan(f1, K, n)
       /\ \A w \in ToSet(f1) : /\ w \in Writes /\ w.on = "file" /\ w.path \in Path
                               /\ w.to = gone[w.path] /\ work[w.path] # gone[w.path]
       /\ \A p \in Path : work[p] # gone[p] =>
             \E w \in ToSet(f1) : w.on = "file" /\ w.path = p /\ w.to = gone[p]
  BY <1>6, PlanFiles DEF PlainKinds
<1>14. /\ Plan(f2, K, n)
       /\ \A w \in ToSet(f2) : /\ w \in Writes /\ w.on = "file" /\ w.path \in Path
                               /\ w.to = files[w.path] /\ gone[w.path] # files[w.path]
       /\ \A p \in Path : gone[p] # files[p] =>
             \E w \in ToSet(f2) : w.on = "file" /\ w.path = p /\ w.to = files[p]
  BY <1>9, PlanFiles DEF PlainKinds
<1>15. /\ Plan(u, K, n)
       /\ \A w \in ToSet(u) : /\ w.on = "untracked" /\ w.path \in Path
                              /\ w.to = e.untracked[w.path] /\ e.untracked[w.path] # Absent
       /\ \A p \in Path : e.untracked[p] # Absent /\ files[p] # e.untracked[p] =>
             \E w \in ToSet(u) : w.path = p
  BY <1>9, UntrackedPlan DEF PlainKinds
<1>16. /\ Plan(i1, K, n) /\ ToSet(i1) = {PutW("index", source)}
       /\ Plan(i2, K, n) /\ ToSet(i2) = {PutW("index", FinalIndex(e, restore))}
  BY <1>5, <1>12, PlanIndex DEF PlainKinds
<1>17. \A w \in ToSet(i1) \cup ToSet(i2) : w.on = "index"
  <2>1. PutW("index", source).on = "index" /\ PutW("index", FinalIndex(e, restore)).on = "index"
    BY PutFields
  <2> QED
    BY <1>16, <2>1
<1> HIDE DEF f1, f2, i1, i2, u, K, n
<1> DEFINE g == f1 \o i1 \o f2
           h == u \o i2
<1>18. Plan(f1 \o i1, K, n) /\ ToSet(f1 \o i1) = ToSet(f1) \cup ToSet(i1)
  BY <1>13, <1>16, PlanJoin
<1>19. Plan(g, K, n) /\ ToSet(g) = ToSet(f1) \cup ToSet(i1) \cup ToSet(f2)
  <2> DEFINE j == f1 \o i1
  <2> HIDE DEF j
  <2>1. Plan(j, K, n) /\ Plan(f2, K, n) /\ ToSet(j) = ToSet(f1) \cup ToSet(i1)
    BY <1>14, <1>18 DEF j
  <2>2. Plan(j \o f2, K, n) /\ ToSet(j \o f2) = ToSet(j) \cup ToSet(f2)
    BY <2>1, PlanJoin
  <2> QED
    BY <2>1, <2>2 DEF j
<1>20. Plan(h, K, n) /\ ToSet(h) = ToSet(u) \cup ToSet(i2)
  BY <1>15, <1>16, PlanJoin
<1>21. t = g \o h
  <2>1. g \in Seq(Writes) /\ u \in Seq(Writes) /\ i2 \in Seq(Writes)
    BY <1>15, <1>16, <1>19 DEF Plan
  <2> HIDE DEF g
  <2>2. (g \o u) \o i2 = g \o (u \o i2)
    BY <2>1, SMTT(30)
  <2> QED
    BY <2>2 DEF g
<1> HIDE DEF g, h, t
<1>22. Plan(t, K, n) /\ ToSet(t) = ToSet(g) \cup ToSet(h)
  BY <1>19, <1>20, <1>21, PlanJoin
<1>23. \A w \in ToSet(t) : /\ w.on \notin {"rename", "stashLog"}
                           /\ w.on = "file" => w \in ToSet(f1) \cup ToSet(f2)
                           /\ w.on = "untracked" => w \in ToSet(u)
  BY <1>13, <1>14, <1>15, <1>17, <1>19, <1>20, <1>22
<1>24. Ordered(t, On({"stashLog"}), On({"file", "untracked"}))
  <2>1. ToSet(t) \cap On({"stashLog"}) = {}
    BY <1>23 DEF On
  <2> QED
    BY <2>1, OrderedFree
<1>25. Ordered(t, On({"untracked"}), On({"file"}))
  <2> DEFINE A == On({"untracked"})
             B == On({"file"})
  <2>1. ToSet(g) \cap A = {}
    BY <1>13, <1>14, <1>17, <1>19 DEF On
  <2>2. ToSet(h) \cap B = {}
    BY <1>15, <1>17, <1>20 DEF On
  <2>3. g \in Seq(Writes) /\ h \in Seq(Writes)
    BY <1>19, <1>20 DEF Plan
  <2> HIDE DEF A, B
  <2>4. Ordered(g, A, B) /\ Ordered(h, A, B)
    BY <2>1, <2>2, OrderedFree
  <2>5. Ordered(g \o h, A, B)
    BY <2>1, <2>3, <2>4, OrderedJoin
  <2> QED
    BY <1>21, <2>5 DEF A, B
<1>26. \A p \in Path : Sets(t, work[p], {"file"}, p, files[p])
  <2> SUFFICES ASSUME NEW p \in Path PROVE Sets(t, work[p], {"file"}, p, files[p])
    OBVIOUS
  <2>1. work[p] # gone[p] => gone[p] = files[p]
    BY <1>7, <1>11
  <2>2. \A w \in ToSet(t) : w.on = "file" /\ w.path = p => w.to = files[p]
    BY <1>13, <1>14, <1>23, <2>1
  <2>3. work[p] = files[p] \/ \E w \in ToSet(t) : w.on = "file" /\ w.path = p
    BY <1>13, <1>14, <1>19, <1>22
  <2> QED
    BY <2>2, <2>3 DEF Sets
<1>27. Spares(t, Edits)
  BY <1>7, <1>8, <1>11, <1>13, <1>14, <1>23 DEF Spares
<1>28. ASSUME NEW p \in Path
       PROVE  IF e.untracked[p] # Absent
              THEN /\ \A w \in ToSet(t) : w.on = "untracked" /\ w.path = p =>
                                             w.to = e.untracked[p]
                   /\ \/ \E w \in ToSet(t) : w.on = "untracked" /\ w.path = p
                      \/ Sets(t, work[p], {"file"}, p, e.untracked[p])
              ELSE p \in changed =>
                      /\ \A w \in ToSet(t) : w.on = "untracked" => w.path # p
                      /\ Sets(t, work[p], {"file"}, p, e.tree[p])
  <2>1. CASE e.untracked[p] # Absent
    <3>1. \A w \in ToSet(t) : w.on = "untracked" /\ w.path = p => w.to = e.untracked[p]
      BY <1>15, <1>23
    <3>2. \/ \E w \in ToSet(t) : w.on = "untracked" /\ w.path = p
          \/ files[p] = e.untracked[p]
      BY <1>15, <1>20, <1>22, <2>1
    <3> QED
      BY <1>26, <2>1, <3>1, <3>2
  <2>2. CASE e.untracked[p] = Absent
    <3>1. \A w \in ToSet(t) : w.on = "untracked" => w.path # p
      BY <1>15, <1>23, <2>2
    <3>2. p \in changed => files[p] = e.tree[p]
      BY <1>11
    <3> QED
      BY <1>26, <2>2, <3>1, <3>2
  <2> QED
    BY <2>1, <2>2
<1>29. Applies(t, e)
  BY <1>23, <1>24, <1>25, <1>28 DEF Applies, changed
<1> QED
  BY <1>1, <1>22, <1>27, <1>29 DEF K, n

\* The entry is dropped after all of that.
LEMMA AppliesJoin ==
  ASSUME NEW e, NEW a, NEW d, a \in Seq(Writes), d \in Seq(Writes), Applies(a, e),
         \A w \in ToSet(a) : w.on # "stashLog",
         \A w \in ToSet(d) : w.on \in {"stashRef", "stashLog"}
  PROVE  Applies(a \o d, e)
<1> DEFINE t == a \o d
           S == On({"stashLog"})
           U == On({"untracked"})
           F == On({"file"})
           G == On({"file", "untracked"})
<1>1. t \in Seq(Writes) /\ ToSet(t) = ToSet(a) \cup ToSet(d)
  BY SeqJoin
<1>2. /\ Ordered(a, S, G) /\ Ordered(a, U, F) /\ \A w \in ToSet(a) : w.on # "rename"
  BY DEF Applies
<1>3. /\ ToSet(a) \cap S = {} /\ ToSet(d) \cap F = {} /\ ToSet(d) \cap G = {}
  BY DEF On
<1> HIDE DEF S, U, F, G
<1>4. Ordered(d, S, G) /\ Ordered(d, U, F)
  BY <1>3, OrderedFree
<1>5. Ordered(t, S, G)
  BY <1>2, <1>3, <1>4, OrderedJoin
<1>6. Ordered(t, U, F)
  BY <1>2, <1>3, <1>4, OrderedJoin
<1> HIDE DEF t
<1>7. /\ \A w \in ToSet(t) : w.on # "rename"
      /\ \A w \in ToSet(t) : w.on \in {"file", "untracked"} => w \in ToSet(a)
      /\ \A w \in ToSet(a) : w \in ToSet(t)
  BY <1>1, <1>2
<1>8. \A f, p, v : Sets(a, f, {"file"}, p, v) => Sets(t, f, {"file"}, p, v)
  BY <1>7 DEF Sets
<1>9. ASSUME NEW p \in Path
      PROVE  IF e.untracked[p] # Absent
             THEN /\ \A w \in ToSet(t) : w.on = "untracked" /\ w.path = p =>
                                            w.to = e.untracked[p]
                  /\ \/ \E w \in ToSet(t) : w.on = "untracked" /\ w.path = p
                     \/ Sets(t, work[p], {"file"}, p, e.untracked[p])
             ELSE p \in Changed(TreeOf(e.base), e.tree) =>
                     /\ \A w \in ToSet(t) : w.on = "untracked" => w.path # p
                     /\ Sets(t, work[p], {"file"}, p, e.tree[p])
  <2>1. IF e.untracked[p] # Absent
        THEN /\ \A w \in ToSet(a) : w.on = "untracked" /\ w.path = p => w.to = e.untracked[p]
             /\ \/ \E w \in ToSet(a) : w.on = "untracked" /\ w.path = p
                \/ Sets(a, work[p], {"file"}, p, e.untracked[p])
        ELSE p \in Changed(TreeOf(e.base), e.tree) =>
                /\ \A w \in ToSet(a) : w.on = "untracked" => w.path # p
                /\ Sets(a, work[p], {"file"}, p, e.tree[p])
    BY DEF Applies
  <2> QED
    BY <1>7, <1>8, <2>1
<1>10. Applies(t, e)
  BY <1>5, <1>6, <1>7, <1>9 DEF Applies, S, U, F, G
<1> QED
  BY <1>10 DEF t

LEMMA StashApplyStep ==
  ASSUME WorktreeInv, NEW i \in DOMAIN StashEntries, NEW restore \in BOOLEAN,
         NEW pop \in BOOLEAN, StashApply(i, restore, pop)
  PROVE  WorktreeInv'
<1> DEFINE e == StashEntries[i]
           base == TreeOf(e.base)
           op == IF pop THEN "pop" ELSE "apply"
           c == [Plain(op) EXCEPT !.entry = e]
           fails == Conflict(base, e.tree) \/ (restore /\ Conflict(base, e.index))
           u == RestoreUntracked(work, e)
           a == ApplyWrites(e, restore)
           d == DropWrites(i)
           t == IF fails THEN u ELSE IF pop THEN a \o d ELSE a
           n == Len(commits)
<1>1. e \in Entry /\ e.base \in 1 .. n
  BY EntriesFacts DEF WorktreeInv
<1>2. /\ CanPreserve(e) /\ (restore => e.index # None) /\ Run(c, t)
      /\ commits' = commits /\ Grows
  BY DEF StashApply, ApplyAndDrop, Grows
<1> HIDE DEF e, fails
<1>3. c \in Cmd /\ c.op = op /\ c.tip = None /\ c.entry = e /\ op \in {"pop", "apply"}
  <2>1. op \in Op /\ op \in {"pop", "apply"}
    BY DEF Op
  <2> HIDE DEF op
  <2>2. Plain(op) \in Cmd /\ Plain(op).op = op /\ Plain(op).tip = None
    BY <2>1, CmdFacts
  <2>3. e \in Entry \cup {None}
    BY <1>1
  <2> QED
    BY <2>1, <2>2, <2>3 DEF Cmd
<1> HIDE DEF c
<1>4. /\ Plan(u, PlainKinds, n) /\ \A w \in ToSet(u) : w.on = "untracked"
  <2>1. work \in Tree
    BY StateFacts DEF WorktreeInv
  <2> QED
    BY <1>1, <2>1, UntrackedPlan DEF PlainKinds
<1>5. /\ Plan(a, PlainKinds \ {"stashLog"}, n) /\ Spares(a, Edits) /\ Applies(a, e)
  BY <1>1, <1>2, ApplyPlan DEF WorktreeInv
<1>6. Plan(d, PlainKinds, n) /\ \A w \in ToSet(d) : w.on \in {"stashRef", "stashLog"}
  BY DropPlan DEF WorktreeInv, PlainKinds
<1> HIDE DEF u, a, d, n
<1>7. Plan(a, PlainKinds, n)
  BY <1>5 DEF Plan
<1>8. Plan(a \o d, PlainKinds, n) /\ Spares(a \o d, Edits)
  <2>1. Spares(d, Edits)
    BY <1>6 DEF Spares
  <2> QED
    BY <1>5, <1>6, <1>7, <2>1, PlanJoin
<1>9. Applies(a \o d, e)
  <2>1. a \in Seq(Writes) /\ d \in Seq(Writes) /\ \A w \in ToSet(a) : w.on # "stashLog"
    BY <1>5, <1>6 DEF Plan
  <2> QED
    BY <1>5, <1>6, <2>1, AppliesJoin
<1>10. Spares(u, Edits)
  BY <1>4 DEF Spares
<1>11. Plan(t, PlainKinds, n) /\ Spares(t, Edits)
  BY <1>4, <1>5, <1>7, <1>8, <1>10
<1>12. (pop /\ \E w \in ToSet(t) : w.on = "stashLog") => Applies(t, e)
  BY <1>4, <1>9
<1> HIDE DEF t
<1>13. CASE ~pop
  <2>1. c.op \notin OwnPlan
    BY <1>3, <1>13 DEF OwnPlan
  <2> QED
    BY <1>2, <1>3, <1>11, <2>1, PlainStep DEF n
<1>14. CASE pop
  <2>1. op = "pop"
    BY <1>14
  <2>2. Fits(c, t, Len(commits'))
    BY <1>2, <1>3, <1>11, <2>1 DEF Fits, Plan, n
  <2>3. TypeInv'
    BY <1>2, <2>2, RunTypes
  <2>4. /\ todo' = t /\ cmd'.op = "pop" /\ cmd'.edits = Edits /\ cmd'.entry = e
        /\ doomed' = {} /\ work' = work
    BY <1>2, <1>3, <2>1, RunFrame
  <2>5. MergeInv'
    <3>1. \A w \in ToSet(t) : w.on # "mergeHead"
      BY <1>11 DEF Plan, PlainKinds
    <3>2. Ordered(t, On({"mergeHead"}), Writes \ On({"mergeMsg"}))
      <4>1. ToSet(t) \cap On({"mergeHead"}) = {}
        BY <3>1 DEF On
      <4> QED
        BY <4>1, OrderedFree
    <3> QED
      BY <1>2, <1>3, <3>1, <3>2, RunMerge
  <2>6. EditsInv'
    BY <1>11, <2>4 DEF EditsInv, Spares
  <2>7. PopInv'
    <3>1. (\E w \in ToSet(t) : w.on = "stashLog") => Applies(t, e)
      BY <1>12, <1>14
    <3>2. Applies(t, e) => Applies(todo, cmd.entry)'
      BY <1>2, <2>4 DEF Applies, Changed, TreeOf
    <3> QED
      BY <2>4, <3>1, <3>2 DEF PopInv
  <2>8. PushInv' /\ ContinueInv' /\ AbortInv'
    BY <2>4 DEF PushInv, ContinueInv, AbortInv
  <2> QED
    BY <2>3, <2>5, <2>6, <2>7, <2>8 DEF WorktreeInv
<1> QED
  BY <1>13, <1>14

-----------------------------------------------------------------------------
(* The invariant holds always *)

LEMMA NextStep ==
  ASSUME WorktreeInv, [Next]_vars PROVE WorktreeInv'
<1>1. \A b \in Branch : branch[b] \in 1 .. Len(commits)
  BY StateFacts DEF WorktreeInv
<1>2. CASE UNCHANGED vars
  <2> USE DEF WorktreeInv
  <2>1. UNCHANGED <<commits, branch, head, index, work, mergeHead, mergeMsg, stashRef, stashLog,
                    cmd, todo, merged, stale, doomed>>
    BY <1>2 DEF vars, repo, ghosts
  <2>2. TypeInv'
    BY <2>1 DEF TypeInv, HistoryOK, FilesOK, StashOK, MergeOK, CmdOK
  <2>3. EditsInv' /\ MergeInv'
    BY <2>1 DEF EditsInv, MergeInv
  <2>4. PushInv'
    BY <2>1 DEF PushInv, Saves, Kept
  <2>5. ContinueInv'
    BY <2>1 DEF ContinueInv, Tip
  <2>6. AbortInv'
    <3>1. HeadTree' = HeadTree
      BY <2>1 DEF HeadTree, TreeOf, Tip
    <3> QED
      BY <2>1, <3>1 DEF AbortInv, Aborts
  <2>7. PopInv'
    BY <2>1 DEF PopInv, Applies, Changed, TreeOf
  <2> QED
    BY <2>2, <2>3, <2>4, <2>5, <2>6, <2>7
<1>3. CASE \E p \in Path : Add(p)
  BY <1>3, AddStep
<1>4. CASE AddAll
  BY <1>4, AddAllStep
<1>5. CASE \E p \in Path, cached, force \in BOOLEAN : Rm(p, cached, force)
  BY <1>5, RmStep, Zenon
<1>6. CASE \E p, q \in Path, force \in BOOLEAN : Mv(p, q, force)
  BY <1>6, MvStep, Zenon
<1>7. CASE \E p \in Path, source \in {None} \cup {branch[b] : b \in Branch \ {head}},
              mode \in {"worktree", "staged", "both"} : Restore(p, source, mode)
  BY <1>7, RestoreStep, Zenon
<1>8. CASE CleanUntracked
  BY <1>8, CleanStep
<1>9. CASE \E all, amend \in BOOLEAN : Commit(all, amend)
  BY <1>9, CommitStep, Zenon
<1>10. CASE \E mode \in {"soft", "mixed", "hard"}, b \in Branch : Reset(mode, branch[b])
  BY <1>1, <1>10, ResetStep
<1>11. CASE \E b \in Branch, force \in BOOLEAN : Switch(b, force)
  BY <1>11, SwitchStep, Zenon
<1>12. CASE \E b, start \in Branch : ResetBranch(b, branch[start])
  BY <1>1, <1>12, ResetBranchStep
<1>13. CASE \E b \in Branch : MergeOurs(b)
  BY <1>13, MergeOursStep
<1>14. CASE \E b \in Branch, mode \in {"ff", "no-commit"} : FastForward(b, mode)
  BY <1>14, FastForwardStep
<1>15. CASE \E b \in Branch, mode \in {"ff", "no-ff", "no-commit", "squash"} :
              MergeCommit(b, mode)
  BY <1>15, MergeCommitStep
<1>16. CASE MergeAbort \/ MergeContinue
  BY <1>16, MergeAbortStep, MergeContinueStep
<1>17. CASE \E untracked, keep \in BOOLEAN : StashPush(untracked, keep)
  BY <1>17, StashPushStep, Zenon
<1>18. CASE StashPushStaged
  BY <1>18, StashPushStagedStep
<1>19. CASE \E i \in DOMAIN StashEntries, restore, pop \in BOOLEAN : StashApply(i, restore, pop)
  BY <1>19, StashApplyStep, Zenon
<1>20. CASE \E i \in DOMAIN StashEntries : StashDrop(i)
  BY <1>20, StashDropStep
<1>21. CASE StashClear
  BY <1>21, StashClearStep
<1>22. CASE Write \/ Kill
  BY <1>22, WriteStep, KillStep
<1>23. CASE \E p \in Path, v \in Written \cup {Absent} : EditFile(p, v)
  BY <1>23, EditFileStep
<1> QED
  BY <1>2, <1>3, <1>4, <1>5, <1>6, <1>7, <1>8, <1>9, <1>10, <1>11, <1>12, <1>13, <1>14, <1>15,
     <1>16, <1>17, <1>18, <1>19, <1>20, <1>21, <1>22, <1>23 DEF Next

\* Whatever commands run and wherever they are killed, the repository and the
\* writes that the running command has left are as the invariant says.
THEOREM WorktreeInvariant == Spec => []WorktreeInv
<1>1. Init => WorktreeInv
  BY InitInv
<1>2. WorktreeInv /\ [Next]_vars => WorktreeInv'
  BY NextStep
<1> QED
  BY <1>1, <1>2, PTL DEF Spec

\* References always name commits that exist, and the index, the worktree and
\* the entries of the stash are trees, also between the writes of a command.
THEOREM WorktreeTypeOK == Spec => []TypeOK
<1>1. WorktreeInv => TypeOK
  <2> SUFFICES ASSUME WorktreeInv PROVE TypeOK
    OBVIOUS
  <2>1. DOMAIN commits = 1 .. Len(commits)
    BY StateFacts DEF WorktreeInv
  <2>2. \A e \in ToSet(StashEntries) : e.base \in DOMAIN commits
    BY <2>1, EntriesFacts DEF WorktreeInv
  <2>3. cmd.op \in Op /\ (todo = <<>>) = (cmd = NoCmd)
    BY DEF WorktreeInv, TypeInv, CmdOK, Cmd
  <2> QED
    BY <2>1, <2>2, <2>3
       DEF WorktreeInv, TypeInv, HistoryOK, FilesOK, StashOK, MergeOK, TypeOK
<1> QED
  BY <1>1, WorktreeInvariant, PTL

-----------------------------------------------------------------------------
(* What a step may not do *)

\* Only writes and the user change what is on disk.
LEMMA OnlyWritesWrite ==
  ASSUME [Next]_vars
  PROVE  Write \/ UNCHANGED repo \/ (todo = <<>> /\ UNCHANGED <<branch, mergeHead, stashLog>>)
<1>1. ASSUME NEW c, NEW t, Run(c, t) PROVE UNCHANGED repo
  BY <1>1 DEF Run
<1>2. CASE UNCHANGED vars
  BY <1>2 DEF vars
<1>3. CASE \/ \E p \in Path : Add(p)
           \/ AddAll
           \/ \E p \in Path, cached, force \in BOOLEAN : Rm(p, cached, force)
           \/ \E p, q \in Path, force \in BOOLEAN : Mv(p, q, force)
           \/ \E p \in Path, source \in {None} \cup {branch[b] : b \in Branch \ {head}},
                 mode \in {"worktree", "staged", "both"} : Restore(p, source, mode)
           \/ CleanUntracked
           \/ \E all, amend \in BOOLEAN : Commit(all, amend)
  BY <1>1, <1>3, ZenonT(40) DEF Add, AddAll, Rm, Mv, Restore, CleanUntracked, Commit
<1>4. CASE \/ \E mode \in {"soft", "mixed", "hard"}, b \in Branch : Reset(mode, branch[b])
           \/ \E b \in Branch, force \in BOOLEAN : Switch(b, force)
           \/ \E b, start \in Branch : ResetBranch(b, branch[start])
           \/ \E b \in Branch : MergeOurs(b)
           \/ \E b \in Branch, mode \in {"ff", "no-commit"} : FastForward(b, mode)
           \/ \E b \in Branch, mode \in {"ff", "no-ff", "no-commit", "squash"} :
                 MergeCommit(b, mode)
           \/ MergeAbort
           \/ MergeContinue
  BY <1>1, <1>4, Zenon DEF Reset, Switch, ResetBranch, MergeOurs, FastForward, MergeCommit,
                           MergeAbort, MergeContinue
<1>5. CASE \/ \E untracked, keep \in BOOLEAN : StashPush(untracked, keep)
           \/ StashPushStaged
           \/ \E i \in DOMAIN StashEntries, restore, pop \in BOOLEAN :
                 StashApply(i, restore, pop)
           \/ \E i \in DOMAIN StashEntries : StashDrop(i)
           \/ StashClear
  BY <1>1, <1>5, Zenon DEF StashPush, StashPushStaged, StashApply, StashDrop, StashClear
<1>6. CASE Kill
  BY <1>6 DEF Kill
<1>7. CASE \E p \in Path, v \in Written \cup {Absent} : EditFile(p, v)
  BY <1>7 DEF EditFile
<1> QED
  BY <1>2, <1>3, <1>4, <1>5, <1>6, <1>7 DEF Next

\* No command that was not forced overwrites or removes an edit of a tracked
\* file, nor stash push any file, that is recorded nowhere: the checks before
\* the first write cover all the files that are written, and the stash has its
\* entry before the first of them.
THEOREM WorktreeKeepsEdits == Spec => EditsAreKept
<1> DEFINE A == \A p \in cmd.edits, v \in Content :
                   (/\ ~cmd.force /\ cmd.op # "push staged"
                    /\ Head(todo).on = "file" /\ work[p] = v /\ work'[p] # v)
                      => Holds(p, v)'
<1>1. WorktreeInv /\ [Next]_vars => [A]_work
  <2> SUFFICES ASSUME WorktreeInv, [Next]_vars, NEW p \in cmd.edits, NEW v \in Content,
                      ~cmd.force, cmd.op # "push staged", Head(todo).on = "file",
                      work[p] = v, work'[p] # v
               PROVE  Holds(p, v)'
    OBVIOUS
  <2> DEFINE w == Head(todo)
  <2>0. TypeInv /\ cmd \in Cmd /\ work \in Tree
    BY DEF WorktreeInv, TypeInv, CmdOK, FilesOK
  <2>1. todo # <<>>
    <3>1. NoCmd.edits = {}
      BY DEF NoCmd
    <3>2. todo = <<>> => cmd = NoCmd
      BY <2>0 DEF TypeInv, CmdOK
    <3> QED
      BY <3>1, <3>2
  <2>2. Write
    BY <2>1, OnlyWritesWrite DEF repo
  <2>3. /\ w \in ToSet(todo) /\ commits' = commits /\ stashLog' = stashLog
        /\ work' = [work EXCEPT ![w.path] = w.to]
    BY <2>0, <2>2, WriteEffect, WriteRest
  <2>4. p = w.path
    <3>1. p \in Path
      BY <2>0 DEF Cmd
    <3> QED
      BY <2>0, <2>3, <3>1 DEF Tree
  <2>5. cmd.op = "push"
    BY <2>3, <2>4 DEF WorktreeInv, EditsInv
  <2>6. PICK e : Saves(todo, e)
    BY <2>5 DEF WorktreeInv, PushInv
  <2>7. Kept(e, p, v) /\ v # Absent
    BY <2>3, <2>4, <2>6, WorktreeAssumption DEF Saves
  <2>8. stashLog # None /\ e \in ToSet(stashLog)
    <3>1. todo \in Seq(Writes) /\ ToSet(todo) = {w} \cup ToSet(Tail(todo)) /\ w \in Writes
      BY <2>0, <2>1, SeqFirst DEF TypeInv, CmdOK
    <3>2. Ordered(todo, On({"file"}), On({"stashLog"}))
      BY <2>6 DEF Saves
    <3>3. ToSet(Tail(todo)) \cap On({"stashLog"}) = {}
      <4>1. w \in On({"file"})
        BY <3>1 DEF On
      <4> QED
        BY <2>1, <3>1, <3>2, <4>1, OrderedFirst
    <3>4. ToSet(Tail(todo)) \subseteq Writes
      BY <2>0, <2>2, WriteEffect, WriteRest
    <3>5. \A x \in ToSet(todo) : x.on # "stashLog"
      BY <3>1, <3>3, <3>4 DEF On
    <3> QED
      BY <2>6, <3>5 DEF Saves
  <2>9. e \in ToSet(StashEntries)'
    <3>1. StashEntries' = Reverse(stashLog) /\ stashLog \in Seq(Entry)
      BY <2>0, <2>3, <2>8 DEF StashEntries, TypeInv, StashOK
    <3>2. ToSet(Reverse(stashLog)) = ToSet(stashLog)
      BY <3>1, ReverseFacts
    <3> QED
      BY <2>8, <3>1, <3>2
  <2> QED
    BY <2>3, <2>7, <2>9 DEF Holds, Kept
<1>2. Spec => [][A]_work
  BY <1>1, WorktreeInvariant, PTL DEF Spec
<1> QED
  BY <1>2 DEF A, EditsAreKept

\* merge --abort ends with the index and all tracked files as in HEAD, and
\* without the files that only the merge had added, also when it is the last
\* of several attempts of which the others were killed.
THEOREM WorktreeAbortRestores == Spec => AbortRestores
<1> DEFINE A == cmd.op = "abort" => Clean /\ \A p \in doomed : work[p] = Absent
<1>1. WorktreeInv /\ [Next]_vars => [A]_mergeHead
  <2> SUFFICES ASSUME WorktreeInv, [Next]_vars, mergeHead' # mergeHead, cmd.op = "abort"
               PROVE  Clean /\ \A p \in doomed : work[p] = Absent
    OBVIOUS
  <2> DEFINE w == Head(todo)
  <2>0. TypeInv
    BY DEF WorktreeInv
  <2>1. Write
    BY OnlyWritesWrite DEF repo
  <2>2. todo # <<>> /\ w.on = "mergeHead"
    BY <2>1, WriteEffect
  <2>3. /\ ToSet(todo) = {w} \cup ToSet(Tail(todo)) /\ w \in Writes /\ todo \in Seq(Writes)
        /\ ToSet(Tail(todo)) \subseteq Writes
    BY <2>0, <2>1, <2>2, SeqFirst, WriteEffect, WriteRest DEF TypeInv, CmdOK
  <2>4. ToSet(Tail(todo)) \cap (Writes \ On({"mergeMsg"})) = {}
    <3>1. Ordered(todo, On({"mergeHead"}), Writes \ On({"mergeMsg"}))
      BY DEF WorktreeInv, MergeInv
    <3>2. w \in On({"mergeHead"})
      BY <2>2, <2>3 DEF On
    <3> QED
      BY <2>2, <2>3, <3>1, <3>2, OrderedFirst
  <2>5. \A x \in ToSet(todo) : x.on \notin {"file", "index"}
    BY <2>2, <2>3, <2>4 DEF On
  <2>6. Aborts(todo)
    BY DEF WorktreeInv, AbortInv
  <2>7. index = HeadTree
    BY <2>5, <2>6 DEF Aborts
  <2>8. \A p \in Path : HeadTree[p] # Absent => work[p] = HeadTree[p]
    BY <2>5, <2>6 DEF Aborts, Sets
  <2>9. \A p \in doomed : work[p] = Absent
    BY <2>5, <2>6 DEF Aborts, Sets
  <2> QED
    BY <2>7, <2>8, <2>9 DEF Clean, StageZero
<1>2. Spec => [][A]_mergeHead
  BY <1>1, WorktreeInvariant, PTL DEF Spec
<1> QED
  BY <1>2 DEF A, AbortRestores

\* merge --continue joins HEAD with the commit whose changes the index holds,
\* wherever the merge was killed, unless another command than those that stage
\* single paths ran while MERGE_HEAD was there.
THEOREM WorktreeContinueJoins == Spec => ContinueJoinsTheMerged
<1> DEFINE A == (cmd.op = "continue" /\ ~stale /\ branch' # branch)
                   => commits[branch'[head]].parents = <<Tip, merged>>
<1>1. WorktreeInv /\ [Next]_vars => [A]_branch
  <2> SUFFICES ASSUME WorktreeInv, [Next]_vars, cmd.op = "continue", ~stale, branch' # branch
               PROVE  commits[branch'[head]].parents = <<Tip, merged>>
    OBVIOUS
  <2> DEFINE w == Head(todo)
  <2>0. TypeInv /\ branch \in [Branch -> 1 .. Len(commits)] /\ head \in Branch
    BY DEF WorktreeInv, TypeInv, HistoryOK
  <2>1. Write
    BY OnlyWritesWrite DEF repo
  <2>2. w.on = "branch" /\ branch' = [branch EXCEPT ![w.name] = w.to] /\ w \in ToSet(todo)
    BY <2>0, <2>1, WriteEffect, WriteRest
  <2>3. w.name = head /\ mergeHead # None /\ commits[w.to].parents = <<Tip, mergeHead>>
    BY <2>2 DEF WorktreeInv, ContinueInv
  <2>4. merged = mergeHead
    BY <2>3 DEF WorktreeInv, MergeInv
  <2> QED
    BY <2>0, <2>2, <2>3, <2>4
<1>2. Spec => [][A]_branch
  BY <1>1, WorktreeInvariant, PTL DEF Spec
<1> QED
  BY <1>2 DEF A, ContinueJoinsTheMerged

\* stash pop takes an entry off the list only when every change that it holds,
\* and every untracked file, is in the worktree.
THEOREM WorktreePoppedIsApplied == Spec => PoppedIsApplied
<1> DEFINE A == cmd.op = "pop" =>
                  LET e == cmd.entry IN
                  \A p \in Path :
                     IF e.untracked[p] # Absent THEN work[p] = e.untracked[p]
                     ELSE p \in Changed(TreeOf(e.base), e.tree) => work[p] = e.tree[p]
<1>1. WorktreeInv /\ [Next]_vars => [A]_stashLog
  <2> DEFINE e == cmd.entry
  <2> SUFFICES ASSUME WorktreeInv, [Next]_vars, stashLog' # stashLog, cmd.op = "pop",
                      NEW p \in Path
               PROVE  IF e.untracked[p] # Absent THEN work[p] = e.untracked[p]
                      ELSE p \in Changed(TreeOf(e.base), e.tree) => work[p] = e.tree[p]
    OBVIOUS
  <2> DEFINE w == Head(todo)
  <2>0. TypeInv
    BY DEF WorktreeInv
  <2>1. Write
    BY OnlyWritesWrite DEF repo
  <2>2. todo # <<>> /\ w.on = "stashLog"
    BY <2>1, WriteEffect
  <2>3. /\ ToSet(todo) = {w} \cup ToSet(Tail(todo)) /\ w \in Writes /\ todo \in Seq(Writes)
        /\ ToSet(Tail(todo)) \subseteq Writes
    BY <2>0, <2>1, <2>2, SeqFirst, WriteEffect, WriteRest DEF TypeInv, CmdOK
  <2>4. Applies(todo, e)
    BY <2>2, <2>3 DEF WorktreeInv, PopInv
  <2>5. ToSet(Tail(todo)) \cap On({"file", "untracked"}) = {}
    <3>1. Ordered(todo, On({"stashLog"}), On({"file", "untracked"}))
      BY <2>4 DEF Applies
    <3>2. w \in On({"stashLog"})
      BY <2>2, <2>3 DEF On
    <3> QED
      BY <2>2, <2>3, <3>1, <3>2, OrderedFirst
  <2>6. \A x \in ToSet(todo) : x.on \notin {"file", "untracked"}
    BY <2>2, <2>3, <2>5 DEF On
  <2> HIDE DEF e
  <2> QED
    BY <2>4, <2>6 DEF Applies, Sets
<1>2. Spec => [][A]_stashLog
  BY <1>1, WorktreeInvariant, PTL DEF Spec
<1> QED
  BY <1>2 DEF A, PoppedIsApplied
=============================================================================
