---------------------------- MODULE BisectProofs ----------------------------
(***************************************************************************)
(* What bisect guarantees together with the commands on branches, for any  *)
(* history and any number of commands and kills: marks are true, the       *)
(* commit reported is the first bad one, reset returns to where the        *)
(* session began, and HEAD keeps its branch.                               *)
(***************************************************************************)
EXTENDS Bisect, TLAPS, FiniteSetTheorems, SequenceTheorems, NaturalsInduction,
        WellFoundedInduction

-----------------------------------------------------------------------------
(* Finite sets of commits *)

LEMMA Least ==
  ASSUME NEW S \in SUBSET Nat, S # {}
  PROVE  Min(S) \in S /\ \A x \in S : Min(S) <= x
<1> DEFINE R == OpToRel(<, Nat)
<1>1. IsWellFoundedOn(R, Nat)
  BY NatLessThanWellFounded
<1>2. ASSUME NEW x \in Nat, NEW y \in Nat, ~(<<x, y>> \in R) PROVE ~(x < y)
  BY <1>2 DEF OpToRel
<1> HIDE DEF R
<1>3. PICK n \in S : \A y \in S : ~(<<y, n>> \in R)
  BY <1>1, WFMin
<1>4. \A x \in S : ~(x < n)
  BY <1>2, <1>3
<1>5. n \in S /\ \A x \in S : n <= x
  BY <1>3, <1>4
<1> QED
  BY <1>5 DEF Min

\* There is an nth commit: as many places as commits, and no two at one place.
LEMMA NthExists ==
  ASSUME NEW S \in SUBSET Nat, IsFiniteSet(S), NEW n \in 1 .. Cardinality(S)
  PROVE  Nth(S, n) \in S
<1> DEFINE Later(c) == {d \in S : d > c}
           size == Cardinality(S)
           rank == [c \in S |-> Cardinality(Later(c))]
<1>1. size \in Nat
  BY FS_CardinalityType
<1>2. ASSUME NEW c \in S
      PROVE  /\ IsFiniteSet(Later(c)) /\ Cardinality(Later(c)) \in 0 .. size - 1
  <2>1. IsFiniteSet(Later(c)) /\ Later(c) # S /\ Later(c) \subseteq S
    BY FS_Subset
  <2> HIDE DEF Later
  <2>2. Cardinality(Later(c)) \in Nat /\ Cardinality(Later(c)) <= size
        /\ Cardinality(Later(c)) # size
    BY <2>1, FS_Subset, FS_CardinalityType
  <2> QED
    BY <1>1, <2>1, <2>2
<1>3. ASSUME NEW c \in S, NEW e \in S, c < e
      PROVE  Cardinality(Later(c)) # Cardinality(Later(e))
  <2>1. Later(e) \subseteq Later(c) /\ e \in Later(c) /\ e \notin Later(e)
    <3>1. c \in Nat /\ e \in Nat /\ \A d \in S : d \in Nat
      OBVIOUS
    <3>2. \A d \in S : d > e => d > c
      BY <1>3, <3>1
    <3>3. e > c /\ ~(e > e)
      BY <1>3, <3>1
    <3> QED
      BY <3>2, <3>3
  <2>2. IsFiniteSet(Later(c))
    BY <1>2
  <2> HIDE DEF Later
  <2> QED
    BY <2>1, <2>2, FS_Subset
<1>4. rank \in Injection(S, 0 .. size - 1)
  <2>1. rank \in [S -> 0 .. size - 1]
    BY <1>2
  <2>2. ASSUME NEW c \in S, NEW e \in S, rank[c] = rank[e] PROVE c = e
    <3>1. ~(c < e) /\ ~(e < c)
      BY <1>3, <2>2
    <3>2. c \in Nat /\ e \in Nat
      OBVIOUS
    <3> QED
      BY <3>1, <3>2
  <2> HIDE DEF rank
  <2> QED
    BY <2>1, <2>2 DEF Injection, IsInjective
<1>5. IsFiniteSet(0 .. size - 1) /\ Cardinality(0 .. size - 1) = size
  <2> HIDE DEF size
  <2>1. 0 \in Int /\ size - 1 \in Int
    BY <1>1
  <2>2. /\ IsFiniteSet(0 .. size - 1)
        /\ Cardinality(0 .. size - 1) = IF 0 > size - 1 THEN 0 ELSE size - 1 - 0 + 1
    BY <2>1, FS_Interval
  <2> QED
    BY <1>1, <2>2
<1>6. rank \in Surjection(S, 0 .. size - 1)
  <2> HIDE DEF rank
  <2> QED
    BY <1>4, <1>5, FS_Injection
<1>7. n - 1 \in 0 .. size - 1
  BY <1>1
<1>8. \E c \in S : rank[c] = n - 1
  <2> HIDE DEF rank
  <2> QED
    BY <1>6, <1>7 DEF Surjection
<1> QED
  BY <1>8 DEF Nth

LEMMA SeqOfSet ==
  ASSUME NEW S, IsFiniteSet(S)
  PROVE  /\ Cardinality(S) \in Nat
         /\ SetToSeq(S) \in [1 .. Cardinality(S) -> S]
         /\ \A x \in S : \E i \in 1 .. Cardinality(S) : SetToSeq(S)[i] = x
<1> DEFINE n == Cardinality(S)
           f == SetToSeq(S)
<1>1. n \in Nat /\ ExistsBijection(1 .. n, S)
  BY FS_CardinalityType
<1>2. PICK g \in Bijection(1 .. n, S) : TRUE
  BY <1>1 DEF ExistsBijection
<1>3. g \in [1 .. n -> S] /\ IsInjective(g)
  BY <1>2 DEF Bijection, Injection, IsInjective
<1>4. f \in [1 .. n -> S] /\ IsInjective(f)
  BY <1>3 DEF SetToSeq
<1>5. IsFiniteSet(1 .. n) /\ Cardinality(1 .. n) = n
  BY <1>1, FS_Interval
<1>6. f \in Injection(1 .. n, S)
  <2> HIDE DEF f, n
  <2> QED
    BY <1>4 DEF Injection, IsInjective
<1>7. f \in Surjection(1 .. n, S)
  <2> HIDE DEF f
  <2> QED
    BY <1>1, <1>5, <1>6, FS_Injection
<1> QED
  BY <1>1, <1>4, <1>7 DEF Surjection

-----------------------------------------------------------------------------
(* Histories *)

LEMMA WalkFacts ==
  ASSUME NEW up, NEW c \in Commit
  PROVE  /\ c \in Walk(up)[c] /\ Walk(up)[c] \subseteq Commit
         /\ \A d \in Walk(up)[c] : Walk(up)[d] \subseteq Walk(up)[c]
  BY DEF Walk

LEMMA AncestorFacts ==
  ASSUME NEW c \in Commit
  PROVE  /\ c \in Ancestors[c] /\ Ancestors[c] \subseteq Commit
         /\ \A d \in Ancestors[c] : Ancestors[d] \subseteq Ancestors[c]
         /\ c \in FirstParents[c] /\ FirstParents[c] \subseteq Commit
  BY WalkFacts DEF Ancestors, FirstParents

\* The marks say the truth.
TrueMarks(k) == (k.bad # None => Bad(k.bad)) /\ \A g \in k.good : ~Bad(g)

ReportType ==
    [kind : {"none", "error", "untestable", "skipped", "done"}, ids : SUBSET Commit]

\* What ReportIsRight asks of the report rep in the state s.
Right(s, rep) ==
    rep.kind \in {"done", "skipped"} /\ Truthful(s)
      /\ (s.names => FirstBad(s) \in Touches)
    => /\ FirstBad(s) \in rep.ids
       /\ rep.kind = "done" => rep.ids = {FirstBad(s)}

LEMMA MarkTypes ==
  ASSUME NEW s \in Repo
  PROVE  /\ BadMark(s) \in Commit \cup {None}
         /\ GoodMarks(s) \subseteq Commit /\ SkipMarks(s) \subseteq Commit
         /\ HeadId(s) \in Commit \cup {None}
         /\ CurrentTarget(s) \in Commit \cup {None}
         /\ Tested(s) \in Commit
         /\ s.loose \in Marks /\ s.packed \in Marks
<1>1. s.loose \in Marks /\ s.packed \in Marks
  BY DEF Repo
<1>2. /\ BadMark(s) \in Commit \cup {None}
      /\ GoodMarks(s) \subseteq Commit /\ SkipMarks(s) \subseteq Commit
  BY <1>1 DEF Marks, BadMark, GoodMarks, SkipMarks
<1>3. HeadId(s) \in Commit \cup {None}
  BY DEF Repo, HeadId
<1> QED
  BY <1>1, <1>2, <1>3 DEF Repo, CurrentTarget, Tested

\* Marks that are true leave the first bad commit among the candidates: what
\* a good commit has is good.
LEMMA FirstBadIsCandidate ==
  ASSUME NEW s \in Repo, culprit \in Commit, BadMark(s) # None, Truthful(s),
         s.names => FirstBad(s) \in Touches
  PROVE  FirstBad(s) \in Candidates(s)
<1> DEFINE B == {c \in History(s) : Bad(c)}
           f == FirstBad(s)
<1>1. BadMark(s) \in Commit /\ GoodMarks(s) \subseteq Commit
  BY MarkTypes
<1>2. History(s) \subseteq Commit /\ BadMark(s) \in History(s)
  BY <1>1, AncestorFacts DEF History
<1>3. B # {} /\ B \subseteq Nat
  BY <1>2, BisectAssumption DEF BisectAssumption, Truthful
<1>4. f \in B
  BY <1>3, Least DEF FirstBad
<1>5. ASSUME NEW g \in GoodMarks(s) PROVE f \notin Ancestors[g]
  <2>1. ~Bad(g) /\ g \in Commit
    BY <1>1 DEF Truthful
  <2>2. culprit \in Ancestors[f]
    BY <1>4 DEF Bad
  <2> HIDE DEF f
  <2> QED
    BY <2>1, <2>2, AncestorFacts DEF Bad
<1> HIDE DEF f
<1> QED
  BY <1>4, <1>5 DEF Candidates, f

LEMMA OpenFacts ==
  ASSUME NEW s \in Repo, BadMark(s) # None
  PROVE  /\ Open(s) \subseteq Commit /\ IsFiniteSet(Open(s))
         /\ Cardinality(Open(s)) \in Nat
         /\ Cardinality(Open(s)) > 1 => Pick(s) \in Open(s)
<1>1. BadMark(s) \in Commit
  BY MarkTypes
<1>2. History(s) \subseteq Commit
  BY <1>1, AncestorFacts DEF History
<1>3. Open(s) \subseteq Commit
  BY <1>2 DEF Open, Candidates
<1>4. IsFiniteSet(Open(s)) /\ Cardinality(Open(s)) \in Nat /\ Open(s) \subseteq Nat
  BY <1>3, FS_Subset, FS_CardinalityType, BisectAssumption DEF BisectAssumption
<1>5. ASSUME Cardinality(Open(s)) > 1 PROVE Pick(s) \in Open(s)
  <2> DEFINE S == Open(s)
             n == Cardinality(S)
  <2>1. n \div 2 + 1 \in 1 .. n
    <3> HIDE DEF n
    <3>1. n \in Nat /\ n > 1
      BY <1>4, <1>5 DEF n
    <3> QED
      BY <3>1
  <2>2. Nth(S, n \div 2 + 1) \in S
    BY <1>4, <2>1, NthExists
  <2>3. S # {}
    BY <1>5, FS_EmptySet
  <2>4. Min(S) \in S
    BY <1>4, <2>3, Least
  <2> HIDE DEF S
  <2> QED
    BY <2>2, <2>4 DEF Pick, S
<1> QED
  BY <1>3, <1>4, <1>5

\* bisect_next reports what is right, or goes to a commit that is open.
LEMMA OutcomeCases ==
  ASSUME NEW s \in Repo, culprit \in Commit
  PROVE  \/ \E rep \in ReportType : Outcome(s) = Put("report", rep) /\ Right(s, rep)
         \/ \E c \in Commit : s.noCheckout /\ Outcome(s) = Put("bisectHead", c)
         \/ \E c \in Commit :
               ~s.noCheckout /\ Outcome(s) = Put("work", c) \o Put("head", c)
<1>1. CASE BadMark(s) = None \/ GoodMarks(s) = {}
  <2>1. Outcome(s) = Put("report", [kind |-> "error", ids |-> {}])
    BY <1>1 DEF Outcome, Report
  <2>2. [kind |-> "error", ids |-> {}] \in ReportType
        /\ Right(s, [kind |-> "error", ids |-> {}])
    BY DEF ReportType, Right
  <2> QED
    BY <2>1, <2>2
<1>2. CASE ~(BadMark(s) = None \/ GoodMarks(s) = {}) /\ s.names /\ Candidates(s) = {}
  <2>1. Outcome(s) = Put("report", [kind |-> "untestable", ids |-> {}])
    BY <1>2 DEF Outcome, Report
  <2>2. [kind |-> "untestable", ids |-> {}] \in ReportType
        /\ Right(s, [kind |-> "untestable", ids |-> {}])
    BY DEF ReportType, Right
  <2> QED
    BY <2>1, <2>2
<1>3. CASE /\ ~(BadMark(s) = None \/ GoodMarks(s) = {}) /\ ~(s.names /\ Candidates(s) = {})
           /\ Cardinality(Open(s)) > 1
  <2>1. Pick(s) \in Commit
    BY <1>3, OpenFacts
  <2>2. Outcome(s) = IF s.noCheckout THEN Put("bisectHead", Pick(s))
                     ELSE Put("work", Pick(s)) \o Put("head", Pick(s))
    BY <1>3 DEF Outcome
  <2> QED
    BY <2>1, <2>2
<1>4. CASE /\ ~(BadMark(s) = None \/ GoodMarks(s) = {}) /\ ~(s.names /\ Candidates(s) = {})
           /\ ~(Cardinality(Open(s)) > 1)
  <2>1. BadMark(s) \in Commit /\ SkipMarks(s) \subseteq Commit
    BY <1>4, MarkTypes
  <2>2. Open(s) \subseteq Commit /\ IsFiniteSet(Open(s)) /\ Cardinality(Open(s)) \in Nat
    BY <1>4, OpenFacts
  <2>3. CASE SkipMarks(s) # {}
    <3> DEFINE rep == [kind |-> "skipped", ids |-> SkipMarks(s) \cup Open(s)]
    <3>1. Outcome(s) = Put("report", rep)
      BY <1>4, <2>3 DEF Outcome, Report
    <3>2. rep \in ReportType
      BY <2>1, <2>2 DEF ReportType
    <3>3. Right(s, rep)
      BY <1>4, FirstBadIsCandidate DEF Right, Open
    <3> HIDE DEF rep
    <3> QED
      BY <3>1, <3>2, <3>3
  <2>4. CASE SkipMarks(s) = {}
    <3> DEFINE ids == IF Open(s) = {} THEN {BadMark(s)} ELSE Open(s)
               rep == [kind |-> "done", ids |-> ids]
    <3>1. Outcome(s) = Put("report", rep)
      BY <1>4, <2>4 DEF Outcome, Report
    <3>2. rep \in ReportType
      BY <2>1, <2>2 DEF ReportType
    <3>3. ASSUME Truthful(s), s.names => FirstBad(s) \in Touches
          PROVE  ids = {FirstBad(s)}
      <4>1. FirstBad(s) \in Open(s)
        BY <1>4, <2>4, <3>3, FirstBadIsCandidate DEF Open
      <4>2. Open(s) # {} /\ Cardinality(Open(s)) # 0
        BY <2>2, <4>1, FS_EmptySet
      <4>3. Cardinality(Open(s)) = 1
        BY <1>4, <2>2, <4>2
      <4>4. \E x : Open(s) = {x}
        BY <2>2, <4>3, FS_Singleton
      <4> QED
        BY <4>1, <4>4
    <3>4. rep.kind = "done" /\ rep.ids = ids
      OBVIOUS
    <3>5. Right(s, rep)
      <4> HIDE DEF rep, ids
      <4> QED
        BY <3>3, <3>4 DEF Right
    <3> HIDE DEF rep
    <3> QED
      BY <3>1, <3>2, <3>5
  <2> QED
    BY <2>3, <2>4
<1> QED
  BY <1>1, <1>2, <1>3, <1>4

-----------------------------------------------------------------------------
(* Writes *)

On(f, T) == [on : {f}, to : T]

WriteType ==
    On("start", Commit \cup {None}) \cup On("startRef", Branch \cup {None})
    \cup On("names", BOOLEAN) \cup On("noCheckout", BOOLEAN)
    \cup On("firstParent", BOOLEAN) \cup On("bisectHead", Commit \cup {None})
    \cup On("work", Commit) \cup On("head", Branch \cup Commit)
    \cup On("branch", Branch \X (Commit \cup {None})) \cup On("packed", Marks)
    \cup On("bad", Commit) \cup On("good", Commit) \cup On("skip", Commit)
    \cup On("clear", {None}) \cup On("report", ReportType)

\* The repository s after the write w, which may be all of ClearMarks.
After(s, w) ==
    IF w.on = "clear" THEN [s EXCEPT !.loose = NoMarks]
    ELSE IF w.on = "report" THEN s ELSE Written(s, w)

LEMMA RepoEqual ==
  ASSUME NEW s \in Repo, NEW t \in Repo,
         s.branch = t.branch, s.head = t.head, s.work = t.work, s.loose = t.loose,
         s.packed = t.packed, s.start = t.start, s.startRef = t.startRef,
         s.names = t.names, s.noCheckout = t.noCheckout,
         s.firstParent = t.firstParent, s.bisectHead = t.bisectHead
  PROVE  s = t
  BY DEF Repo

LEMMA AfterSimple ==
  ASSUME NEW s \in Repo, NEW w \in WriteType
  PROVE  /\ w.on = "start" => After(s, w) = [s EXCEPT !.start = w.to]
         /\ w.on = "startRef" => After(s, w) = [s EXCEPT !.startRef = w.to]
         /\ w.on = "names" => After(s, w) = [s EXCEPT !.names = w.to]
         /\ w.on = "noCheckout" => After(s, w) = [s EXCEPT !.noCheckout = w.to]
         /\ w.on = "firstParent" => After(s, w) = [s EXCEPT !.firstParent = w.to]
         /\ w.on = "bisectHead" => After(s, w) = [s EXCEPT !.bisectHead = w.to]
         /\ w.on = "work" => After(s, w) = [s EXCEPT !.work = w.to]
         /\ w.on = "head" => After(s, w) = [s EXCEPT !.head = w.to]
         /\ w.on = "packed" => After(s, w) = [s EXCEPT !.packed = w.to]
  BY DEF After, Written

LEMMA AfterLoose ==
  ASSUME NEW s \in Repo, NEW w \in WriteType
  PROVE  /\ w.on = "branch" =>
              After(s, w) = [s EXCEPT !.branch = [s.branch EXCEPT ![w.to[1]] = w.to[2]]]
         /\ w.on = "bad" =>
              After(s, w) = [s EXCEPT !.loose = [s.loose EXCEPT !.bad = w.to]]
         /\ w.on = "good" => After(s, w) =
              [s EXCEPT !.loose = [s.loose EXCEPT !.good = s.loose.good \cup {w.to}]]
         /\ w.on = "skip" => After(s, w) =
              [s EXCEPT !.loose = [s.loose EXCEPT !.skip = s.loose.skip \cup {w.to}]]
         /\ w.on = "clear" => After(s, w) = [s EXCEPT !.loose = NoMarks]
         /\ w.on = "report" => After(s, w) = s
  BY DEF After, Written, Repo, Marks

LEMMA WriteKinds ==
  ASSUME NEW w \in WriteType
  PROVE  \/ w.on = "start" /\ w.to \in Commit \cup {None}
         \/ w.on = "startRef" /\ w.to \in Branch \cup {None}
         \/ w.on \in {"names", "noCheckout", "firstParent"} /\ w.to \in BOOLEAN
         \/ w.on = "bisectHead" /\ w.to \in Commit \cup {None}
         \/ w.on = "work" /\ w.to \in Commit
         \/ w.on = "head" /\ w.to \in Branch \cup Commit
         \/ w.on = "branch" /\ w.to \in Branch \X (Commit \cup {None})
         \/ w.on = "packed" /\ w.to \in Marks
         \/ w.on \in {"bad", "good", "skip"} /\ w.to \in Commit
         \/ w.on = "clear"
         \/ w.on = "report" /\ w.to \in ReportType
  BY DEF WriteType, On

LEMMA AfterFields ==
  ASSUME NEW s \in Repo, NEW w \in WriteType
  PROVE  /\ After(s, w) \in Repo
         /\ After(s, w).start = IF w.on = "start" THEN w.to ELSE s.start
         /\ After(s, w).startRef = IF w.on = "startRef" THEN w.to ELSE s.startRef
         /\ After(s, w).names = IF w.on = "names" THEN w.to ELSE s.names
         /\ After(s, w).noCheckout = IF w.on = "noCheckout" THEN w.to ELSE s.noCheckout
         /\ After(s, w).firstParent = IF w.on = "firstParent" THEN w.to ELSE s.firstParent
         /\ After(s, w).bisectHead = IF w.on = "bisectHead" THEN w.to ELSE s.bisectHead
         /\ After(s, w).work = IF w.on = "work" THEN w.to ELSE s.work
         /\ After(s, w).head = IF w.on = "head" THEN w.to ELSE s.head
         /\ After(s, w).packed = IF w.on = "packed" THEN w.to ELSE s.packed
         /\ After(s, w).branch =
              IF w.on = "branch" THEN [s.branch EXCEPT ![w.to[1]] = w.to[2]] ELSE s.branch
         /\ w.on \notin {"bad", "good", "skip", "clear"} => After(s, w).loose = s.loose
         /\ w.on = "bad" => After(s, w).loose = [s.loose EXCEPT !.bad = w.to]
         /\ w.on = "good" =>
              After(s, w).loose = [s.loose EXCEPT !.good = s.loose.good \cup {w.to}]
         /\ w.on = "skip" =>
              After(s, w).loose = [s.loose EXCEPT !.skip = s.loose.skip \cup {w.to}]
         /\ w.on = "clear" => After(s, w).loose = NoMarks
<1>0. NoMarks \in Marks /\ s.loose \in Marks
  BY DEF NoMarks, Marks, Repo
<1>1. CASE w.on \in {"start", "startRef", "names", "noCheckout", "firstParent"}
  BY <1>1, WriteKinds, AfterSimple DEF Repo
<1>2. CASE w.on \in {"bisectHead", "work", "head", "packed"}
  BY <1>2, WriteKinds, AfterSimple DEF Repo
<1>3. CASE w.on = "branch"
  <2>1. w.to[1] \in Branch /\ w.to[2] \in Commit \cup {None}
    BY <1>3, WriteKinds
  <2>2. s.branch \in [Branch -> Commit \cup {None}]
    BY DEF Repo
  <2>3. [s.branch EXCEPT ![w.to[1]] = w.to[2]] \in [Branch -> Commit \cup {None}]
    BY <2>1, <2>2
  <2> QED
    BY <1>3, <2>3, AfterLoose DEF Repo
<1>4. CASE w.on \in {"bad", "good", "skip"}
  <2>1. /\ w.to \in Commit
        /\ w.on = "bad" => [s.loose EXCEPT !.bad = w.to] \in Marks
        /\ w.on = "good" => [s.loose EXCEPT !.good = s.loose.good \cup {w.to}] \in Marks
        /\ w.on = "skip" => [s.loose EXCEPT !.skip = s.loose.skip \cup {w.to}] \in Marks
    BY <1>0, <1>4, WriteKinds DEF Marks
  <2>2. CASE w.on = "bad"
    <3> DEFINE k == [s.loose EXCEPT !.bad = w.to]
    <3>1. k \in Marks /\ After(s, w) = [s EXCEPT !.loose = k]
      BY <2>1, <2>2, AfterLoose
    <3> HIDE DEF k
    <3>2. After(s, w) \in Repo /\ After(s, w).loose = k
      BY <3>1 DEF Repo
    <3> QED
      BY <2>2, <3>1, <3>2 DEF Repo, k
  <2>3. CASE w.on = "good"
    <3> DEFINE k == [s.loose EXCEPT !.good = s.loose.good \cup {w.to}]
    <3>1. k \in Marks /\ After(s, w) = [s EXCEPT !.loose = k]
      BY <2>1, <2>3, AfterLoose
    <3> HIDE DEF k
    <3>2. After(s, w) \in Repo /\ After(s, w).loose = k
      BY <3>1 DEF Repo
    <3> QED
      BY <2>3, <3>1, <3>2 DEF Repo, k
  <2>4. CASE w.on = "skip"
    <3> DEFINE k == [s.loose EXCEPT !.skip = s.loose.skip \cup {w.to}]
    <3>1. k \in Marks /\ After(s, w) = [s EXCEPT !.loose = k]
      BY <2>1, <2>4, AfterLoose
    <3> HIDE DEF k
    <3>2. After(s, w) \in Repo /\ After(s, w).loose = k
      BY <3>1 DEF Repo
    <3> QED
      BY <2>4, <3>1, <3>2 DEF Repo, k
  <2> QED
    BY <1>4, <2>2, <2>3, <2>4
<1>5. CASE w.on \in {"clear", "report"}
  BY <1>0, <1>5, AfterLoose DEF Repo
<1> QED
  BY <1>1, <1>2, <1>3, <1>4, <1>5, WriteKinds

\* u is s with v written to f, where f is not a kind of marks.
Wrote(s, f, v, u) ==
    /\ u.start = IF f = "start" THEN v ELSE s.start
    /\ u.startRef = IF f = "startRef" THEN v ELSE s.startRef
    /\ u.names = IF f = "names" THEN v ELSE s.names
    /\ u.noCheckout = IF f = "noCheckout" THEN v ELSE s.noCheckout
    /\ u.firstParent = IF f = "firstParent" THEN v ELSE s.firstParent
    /\ u.bisectHead = IF f = "bisectHead" THEN v ELSE s.bisectHead
    /\ u.work = IF f = "work" THEN v ELSE s.work
    /\ u.head = IF f = "head" THEN v ELSE s.head
    /\ u.packed = IF f = "packed" THEN v ELSE s.packed
    /\ u.branch = IF f = "branch" THEN [s.branch EXCEPT ![v[1]] = v[2]] ELSE s.branch
    /\ f \notin {"bad", "good", "skip", "clear"} => u.loose = s.loose
    /\ f = "bad" => u.loose = [s.loose EXCEPT !.bad = v]
    /\ f = "clear" => u.loose = NoMarks

LEMMA PutFields ==
  ASSUME NEW s \in Repo, NEW f, NEW v, [on |-> f, to |-> v] \in WriteType
  PROVE  LET u == After(s, [on |-> f, to |-> v]) IN u \in Repo /\ Wrote(s, f, v, u)
<1> DEFINE w == [on |-> f, to |-> v]
           u == After(s, w)
<1>1. w \in WriteType /\ w.on = f /\ w.to = v
  OBVIOUS
<1> HIDE DEF w
<1>2. u \in Repo /\ Wrote(s, w.on, w.to, u)
  BY <1>1, AfterFields, ZenonT(40) DEF Wrote
<1> HIDE DEF u
<1>3. u \in Repo /\ Wrote(s, f, v, u)
  BY <1>1, <1>2
<1> QED
  BY <1>3 DEF u, w

-----------------------------------------------------------------------------
(* The inductive invariant *)

(***************************************************************************)
(* A command decides all its writes in the state that it finds, and may be *)
(* killed between any two of them.  The invariant therefore says that the  *)
(* writes still to be done lead from the repository as it is, through      *)
(* steps each of which is in order where it comes, to a state that is fit  *)
(* for the next command.  What happened to the session so far (o) decides  *)
(* how much is claimed, and c is the command.                              *)
(***************************************************************************)

Steady(o) == o \subseteq {"restarted"}
Unmoved(o) == "moved" \notin o
Kept(o) == o \cap {"moved", "branch"} = {}
Whole(o) == o \cap {"moved", "start"} = {}
Original(o) == o \cap {"restarted", "moved", "start"} = {}

\* Where `bisect reset` goes.
Return(s) == IF s.startRef # None THEN s.startRef ELSE s.start

StepOK(c, o, s, w) ==
    /\ w \in WriteType
    /\ Steady(o) => /\ w.on = "bad" => Bad(w.to)
                    /\ w.on = "good" => ~Bad(w.to)
                    /\ w.on = "packed" => TrueMarks(w.to)
    /\ Unmoved(o) => /\ w.on = "branch" => w.to[1] # s.startRef
                     /\ w.on = "startRef" /\ w.to # None => s.branch[w.to] # None
    /\ Kept(o) /\ w.on = "head" /\ w.to \in Branch => s.branch[w.to] # None
    /\ w.on = "branch" => c = "branch"
    /\ w.on = "start" => c = "start" \/ w.to = None
    /\ w.on = "startRef" => c = "start" \/ s.start = None
    /\ c = "reset" /\ w.on = "start" => s.head = Return(s) /\ s.work = s.start
    /\ w.on = "report" => Right(s, w.to)

\* The writes t lead from s to u.
Plan(c, o, s, t, u) ==
    /\ t \in Seq(WriteType)
    /\ \E st \in [0 .. Len(t) -> Repo] :
          /\ st[0] = s /\ st[Len(t)] = u
          /\ \A i \in 1 .. Len(t) :
                StepOK(c, o, st[i - 1], t[i]) /\ st[i] = After(st[i - 1], t[i])

\* The files are those of HEAD, and BISECT_HEAD is there for --no-checkout only.
Settled(s) == s.work = HeadId(s) /\ (~s.noCheckout => s.bisectHead = None)

\* The session notes where it began, which is r.
Session(o, r, s) ==
    s.start # None =>
        /\ Whole(o) /\ s.startRef # None => s.branch[s.startRef] = s.start
        /\ Original(o) => r = Return(s)

Final(c, o, r, u) ==
    /\ Steady(o) => Settled(u)
    /\ Kept(o) => HeadId(u) # None
    /\ c = "start" => Session(o, r, u)

PlanInv == \E u \in Repo : Plan(cmd, odd, repo, todo, u) /\ Final(cmd, odd, origin, u)
MarksInv == Steady(odd) => TrueMarks(repo.loose) /\ TrueMarks(repo.packed)
StartRefInv ==
    Unmoved(odd) /\ repo.startRef # None => repo.branch[repo.startRef] # None
HeadInv == Kept(odd) /\ (cmd # "branch" \/ todo = <<>>) => HeadId(repo) # None
SessionInv == cmd # "start" \/ todo = <<>> => Session(odd, origin, repo)

CoreInv == PlanInv /\ MarksInv /\ StartRefInv /\ HeadInv /\ SessionInv

BisectInv == TypeOK /\ CoreInv

-----------------------------------------------------------------------------
(* Plans *)

LEMMA PlanEmpty ==
  ASSUME NEW c, NEW o, NEW s \in Repo
  PROVE  Plan(c, o, s, <<>>, s)
<1> DEFINE st == [i \in 0 .. 0 |-> s]
<1>1. st \in [0 .. 0 -> Repo] /\ st[0] = s
  OBVIOUS
<1>2. <<>> \in Seq(WriteType) /\ Len(<<>>) = 0 /\ 1 .. 0 = {}
  OBVIOUS
<1> HIDE DEF st
<1> QED
  BY <1>1, <1>2 DEF Plan

LEMMA PlanOfNothing ==
  ASSUME NEW c, NEW o, NEW s, NEW u, Plan(c, o, s, <<>>, u)
  PROVE  s = u
  BY DEF Plan

LEMMA PlanType ==
  ASSUME NEW c, NEW o, NEW s, NEW t, NEW u, Plan(c, o, s, t, u)
  PROVE  s \in Repo /\ u \in Repo /\ t \in Seq(WriteType)
<1>1. t \in Seq(WriteType) /\ Len(t) \in Nat
  BY DEF Plan
<1>2. 0 \in 0 .. Len(t) /\ Len(t) \in 0 .. Len(t)
  BY <1>1
<1> QED
  BY <1>1, <1>2 DEF Plan

LEMMA PlanPut ==
  ASSUME NEW c, NEW o, NEW s \in Repo, NEW f, NEW v,
         StepOK(c, o, s, [on |-> f, to |-> v])
  PROVE  Plan(c, o, s, Put(f, v), After(s, [on |-> f, to |-> v]))
<1> DEFINE w == [on |-> f, to |-> v]
           u == After(s, w)
           st == [i \in 0 .. 1 |-> IF i = 0 THEN s ELSE u]
<1>1. w \in WriteType
  BY DEF StepOK
<1>2. u \in Repo
  BY <1>1, AfterFields
<1>3. Put(f, v) = <<w>>
  BY DEF Put
<1> HIDE DEF w, u
<1>4. st \in [0 .. 1 -> Repo] /\ st[0] = s /\ st[1] = u
  BY <1>2
<1>5. <<w>> \in Seq(WriteType) /\ Len(<<w>>) = 1 /\ <<w>>[1] = w
  BY <1>1
<1>6. StepOK(c, o, s, w) /\ u = After(s, w)
  BY DEF w, u
<1> HIDE DEF st
<1>7. \A i \in 1 .. 1 : StepOK(c, o, st[i - 1], <<w>>[i])
                        /\ st[i] = After(st[i - 1], <<w>>[i])
  <2> SUFFICES ASSUME NEW i \in 1 .. 1
               PROVE  StepOK(c, o, st[i - 1], <<w>>[i])
                      /\ st[i] = After(st[i - 1], <<w>>[i])
    OBVIOUS
  <2>1. i = 1 /\ i - 1 = 0
    OBVIOUS
  <2> QED
    BY <1>4, <1>5, <1>6, <2>1
<1>8. Plan(c, o, s, <<w>>, u)
  BY <1>4, <1>5, <1>7 DEF Plan
<1> QED
  BY <1>3, <1>8 DEF w, u

LEMMA PlanJoin ==
  ASSUME NEW c, NEW o, NEW s, NEW t, NEW u, NEW t2, NEW v,
         Plan(c, o, s, t, u), Plan(c, o, u, t2, v)
  PROVE  Plan(c, o, s, t \o t2, v)
<1> DEFINE m == Len(t)
           n == Len(t2)
<1>1. t \in Seq(WriteType) /\ t2 \in Seq(WriteType) /\ m \in Nat /\ n \in Nat
  BY DEF Plan
<1>2. PICK a \in [0 .. m -> Repo] :
         /\ a[0] = s /\ a[m] = u
         /\ \A i \in 1 .. m : StepOK(c, o, a[i - 1], t[i]) /\ a[i] = After(a[i - 1], t[i])
  BY DEF Plan
<1>3. PICK b \in [0 .. n -> Repo] :
         /\ b[0] = u /\ b[n] = v
         /\ \A i \in 1 .. n : StepOK(c, o, b[i - 1], t2[i]) /\ b[i] = After(b[i - 1], t2[i])
  BY DEF Plan
<1>4. /\ t \o t2 \in Seq(WriteType) /\ Len(t \o t2) = m + n
      /\ \A i \in 1 .. m + n : (t \o t2)[i] = IF i <= m THEN t[i] ELSE t2[i - m]
  BY <1>1
<1> HIDE DEF m, n
<1> DEFINE q == t \o t2
           st == [i \in 0 .. m + n |-> IF i <= m THEN a[i] ELSE b[i - m]]
<1>5. st \in [0 .. m + n -> Repo]
  <2> SUFFICES ASSUME NEW i \in 0 .. m + n
               PROVE  (IF i <= m THEN a[i] ELSE b[i - m]) \in Repo
    OBVIOUS
  <2>1. CASE i <= m
    <3>1. i \in 0 .. m
      BY <1>1, <2>1
    <3> QED
      BY <2>1, <3>1
  <2>2. CASE ~(i <= m)
    <3>1. i - m \in 0 .. n
      BY <1>1, <2>2
    <3> QED
      BY <2>2, <3>1
  <2> QED
    BY <2>1, <2>2
<1>6. st[0] = s /\ st[m + n] = v
  <2>1. 0 \in 0 .. m + n /\ m + n \in 0 .. m + n /\ 0 <= m
    BY <1>1
  <2>2. CASE n = 0
    BY <1>1, <1>2, <1>3, <2>1, <2>2
  <2>3. CASE n # 0
    <3>1. ~(m + n <= m) /\ m + n - m = n
      BY <1>1, <2>3
    <3>2. \A i \in 0 .. m + n : st[i] = IF i <= m THEN a[i] ELSE b[i - m]
      OBVIOUS
    <3> HIDE DEF st
    <3>3. st[0] = a[0]
      BY <2>1, <3>2
    <3> DEFINE k == m + n
    <3>4. k \in 0 .. m + n /\ ~(k <= m) /\ k - m = n
      BY <1>1, <2>3
    <3> HIDE DEF k
    <3>5. st[k] = b[n]
      BY <3>2, <3>4
    <3> QED
      BY <1>2, <1>3, <3>3, <3>5 DEF k
  <2> QED
    BY <2>2, <2>3
<1>7. ASSUME NEW i \in 1 .. m + n
      PROVE  StepOK(c, o, st[i - 1], q[i]) /\ st[i] = After(st[i - 1], q[i])
  <2>1. CASE i <= m
    <3>1. i \in 1 .. m /\ i - 1 <= m /\ i \in 0 .. m + n /\ i - 1 \in 0 .. m + n
      BY <1>1, <2>1
    <3>2. st[i] = a[i] /\ st[i - 1] = a[i - 1] /\ q[i] = t[i]
      BY <1>4, <2>1, <3>1
    <3> HIDE DEF st, q
    <3> QED
      BY <1>2, <3>1, <3>2
  <2>2. CASE ~(i <= m)
    <3>1. /\ i - m \in 1 .. n /\ i \in 0 .. m + n /\ i - 1 \in 0 .. m + n
          /\ (i - 1) - m = (i - m) - 1
      BY <1>1, <2>2
    <3>2. st[i] = b[i - m] /\ q[i] = t2[i - m]
      BY <1>4, <2>2, <3>1
    <3>3. st[i - 1] = b[(i - m) - 1]
      <4>1. CASE i - 1 <= m
        <5>1. i - 1 = m /\ (i - m) - 1 = 0
          BY <1>1, <2>2, <4>1
        <5>2. st[i - 1] = a[m]
          BY <3>1, <4>1, <5>1
        <5> HIDE DEF st
        <5> QED
          BY <1>2, <1>3, <5>1, <5>2
      <4>2. CASE ~(i - 1 <= m)
        BY <3>1, <4>2
      <4> QED
        BY <4>1, <4>2
    <3> HIDE DEF st, q
    <3> QED
      BY <1>3, <3>1, <3>2, <3>3
  <2> QED
    BY <2>1, <2>2
<1> HIDE DEF st
<1> QED
  BY <1>4, <1>5, <1>6, <1>7 DEF Plan

\* One more write.
LEMMA PlanThen ==
  ASSUME NEW c, NEW o, NEW s, NEW t, NEW u, NEW f, NEW v,
         Plan(c, o, s, t, u), StepOK(c, o, u, [on |-> f, to |-> v])
  PROVE  \E x \in Repo : Plan(c, o, s, t \o Put(f, v), x) /\ Wrote(u, f, v, x)
<1> DEFINE x == After(u, [on |-> f, to |-> v])
<1>1. u \in Repo
  BY PlanType
<1>2. Plan(c, o, u, Put(f, v), x)
  BY <1>1, PlanPut
<1>3. x \in Repo /\ Wrote(u, f, v, x)
  <2>1. [on |-> f, to |-> v] \in WriteType
    BY DEF StepOK
  <2> QED
    BY <1>1, <2>1, PutFields
<1> HIDE DEF x
<1>4. Plan(c, o, s, t \o Put(f, v), x)
  BY <1>2, PlanJoin
<1> QED
  BY <1>3, <1>4

\* The first one.
LEMMA PlanFirst ==
  ASSUME NEW c, NEW o, NEW s \in Repo, NEW f, NEW v, StepOK(c, o, s, [on |-> f, to |-> v])
  PROVE  \E x \in Repo : Plan(c, o, s, Put(f, v), x) /\ Wrote(s, f, v, x)
<1> DEFINE x == After(s, [on |-> f, to |-> v])
<1>1. Plan(c, o, s, Put(f, v), x)
  BY PlanPut
<1>2. x \in Repo /\ Wrote(s, f, v, x)
  <2>1. [on |-> f, to |-> v] \in WriteType
    BY DEF StepOK
  <2> QED
    BY <2>1, PutFields
<1> HIDE DEF x
<1> QED
  BY <1>1, <1>2

\* The first write, and the rest.
LEMMA PlanHead ==
  ASSUME NEW c, NEW o, NEW s, NEW t, NEW u, Plan(c, o, s, t, u), t # <<>>
  PROVE  /\ StepOK(c, o, s, Head(t))
         /\ Plan(c, o, After(s, Head(t)), Tail(t), u)
<1> DEFINE m == Len(t)
           r == Tail(t)
<1>1. t \in Seq(WriteType) /\ m \in Nat /\ m > 0 /\ Head(t) = t[1]
  BY DEF Plan
<1>2. PICK a \in [0 .. m -> Repo] :
         /\ a[0] = s /\ a[m] = u
         /\ \A i \in 1 .. m : StepOK(c, o, a[i - 1], t[i]) /\ a[i] = After(a[i - 1], t[i])
  BY DEF Plan
<1>3. r \in Seq(WriteType) /\ Len(r) = m - 1 /\ \A i \in 1 .. m - 1 : r[i] = t[i + 1]
  BY <1>1
<1> HIDE DEF m, r
<1> DEFINE st == [i \in 0 .. m - 1 |-> a[i + 1]]
<1>4. StepOK(c, o, a[0], t[1]) /\ a[1] = After(a[0], t[1])
  <2>1. 1 \in 1 .. m /\ 1 - 1 = 0
    BY <1>1
  <2> QED
    BY <1>2, <2>1
<1>5. st \in [0 .. m - 1 -> Repo] /\ st[0] = After(s, Head(t)) /\ st[m - 1] = u
  <2>1. \A i \in 0 .. m - 1 : i + 1 \in 0 .. m
    BY <1>1
  <2>2. 0 \in 0 .. m - 1 /\ m - 1 \in 0 .. m - 1 /\ m - 1 + 1 = m /\ 0 + 1 = 1
    BY <1>1
  <2>3. st \in [0 .. m - 1 -> Repo]
    BY <2>1
  <2>4. st[0] = a[1] /\ st[m - 1] = a[m]
    BY <2>2
  <2> QED
    BY <1>1, <1>2, <1>4, <2>3, <2>4
<1>6. ASSUME NEW i \in 1 .. m - 1
      PROVE  StepOK(c, o, st[i - 1], r[i]) /\ st[i] = After(st[i - 1], r[i])
  <2>1. /\ i + 1 \in 1 .. m /\ i \in 0 .. m - 1 /\ i - 1 \in 0 .. m - 1
        /\ (i - 1) + 1 = i /\ (i + 1) - 1 = i
    BY <1>1
  <2>2. st[i] = a[i + 1] /\ st[i - 1] = a[i]
    BY <2>1
  <2> HIDE DEF st
  <2>3. StepOK(c, o, a[i], t[i + 1]) /\ a[i + 1] = After(a[i], t[i + 1])
    BY <1>2, <2>1
  <2> QED
    BY <1>3, <2>2, <2>3
<1>7. Plan(c, o, After(s, Head(t)), r, u)
  <2> HIDE DEF st
  <2> QED
    BY <1>3, <1>5, <1>6 DEF Plan
<1> QED
  BY <1>1, <1>2, <1>4, <1>7 DEF r

\* Marks of one kind, one after the other.
LEMMA PlanMarks ==
  ASSUME NEW c, NEW o, NEW s \in Repo, NEW kind \in {"good", "skip"},
         NEW ids \in SUBSET Commit, Steady(o) /\ kind = "good" => \A x \in ids : ~Bad(x)
  PROVE  \E u \in Repo :
           /\ Plan(c, o, s, PutMarks(kind, ids), u)
           /\ u = [s EXCEPT !.loose = [s.loose EXCEPT ![kind] = s.loose[kind] \cup ids]]
<1> DEFINE n == Cardinality(ids)
           f == SetToSeq(ids)
           More(S) == [s EXCEPT !.loose = [s.loose EXCEPT ![kind] = s.loose[kind] \cup S]]
           Upto(i) == {f[j] : j \in 1 .. i}
           st == [i \in 0 .. n |-> More(Upto(i))]
           t == PutMarks(kind, ids)
<1>1. IsFiniteSet(ids)
  BY FS_Subset, BisectAssumption DEF BisectAssumption
<1>2. /\ n \in Nat /\ f \in [1 .. n -> ids]
      /\ \A x \in ids : \E i \in 1 .. n : f[i] = x
  BY <1>1, SeqOfSet
<1>3. t = [i \in 1 .. n |-> [on |-> kind, to |-> f[i]]]
  BY DEF PutMarks
<1> HIDE DEF n, f, t
<1>4. /\ t \in Seq(WriteType) /\ Len(t) = n
      /\ \A i \in 1 .. n : t[i] = [on |-> kind, to |-> f[i]]
  <2>1. \A i \in 1 .. n : [on |-> kind, to |-> f[i]] \in WriteType
    BY <1>2 DEF WriteType, On
  <2>2. t \in [1 .. n -> WriteType]
    BY <1>3, <2>1
  <2>3. t \in Seq(WriteType)
    BY <1>2, <2>2, SeqDef
  <2>4. Len(t) = n
    BY <1>2, <1>3, <2>3
  <2> QED
    BY <1>3, <2>3, <2>4
<1>5. ASSUME NEW S \in SUBSET Commit
      PROVE  /\ More(S) \in Repo
             /\ \A x \in Commit : After(More(S), [on |-> kind, to |-> x]) = More(S \cup {x})
  <2>1. s.loose \in Marks
    BY DEF Repo
  <2> DEFINE k == [s.loose EXCEPT ![kind] = s.loose[kind] \cup S]
  <2>2. k \in Marks /\ k[kind] = s.loose[kind] \cup S
    BY <2>1 DEF Marks
  <2>3. More(S) \in Repo /\ More(S).loose = k
    <3>1. More(S) = [s EXCEPT !.loose = k]
      OBVIOUS
    <3> HIDE DEF k, More
    <3> QED
      BY <2>2, <3>1 DEF Repo
  <2>4. ASSUME NEW x \in Commit
        PROVE  After(More(S), [on |-> kind, to |-> x]) = More(S \cup {x})
    <3> DEFINE w == [on |-> kind, to |-> x]
               k2 == [k EXCEPT ![kind] = k[kind] \cup {x}]
    <3>1. w \in WriteType /\ w.on = kind /\ w.to = x
      BY DEF WriteType, On
    <3>2. k2 = [s.loose EXCEPT ![kind] = s.loose[kind] \cup (S \cup {x})]
      BY <2>1, <2>2 DEF Marks
    <3>3. After(More(S), w) = [More(S) EXCEPT !.loose = k2]
      <4> HIDE DEF w, More, k
      <4>1. CASE kind = "good"
        BY <2>3, <3>1, <4>1, AfterLoose
      <4>2. CASE kind = "skip"
        BY <2>3, <3>1, <4>2, AfterLoose
      <4> QED
        BY <4>1, <4>2
    <3>4. [More(S) EXCEPT !.loose = k2] = [s EXCEPT !.loose = k2]
      <4>1. More(S) = [s EXCEPT !.loose = k]
        OBVIOUS
      <4> HIDE DEF k, k2, More
      <4> QED
        BY <4>1 DEF Repo
    <3> QED
      BY <3>2, <3>3, <3>4
  <2> QED
    BY <2>3, <2>4
<1>6. \A i \in 0 .. n : Upto(i) \subseteq Commit /\ Upto(i) \subseteq ids
  BY <1>2
<1>7. Upto(0) = {} /\ Upto(n) = ids
  BY <1>2
<1>8. \A i \in 1 .. n : Upto(i) = Upto(i - 1) \cup {f[i]}
  BY <1>2
<1>9. More({}) = s
  BY DEF Repo, Marks
<1> HIDE DEF More, Upto
<1>10. st \in [0 .. n -> Repo] /\ st[0] = s /\ st[n] = More(ids)
  BY <1>2, <1>5, <1>6, <1>7, <1>9
<1>11. ASSUME NEW i \in 1 .. n
       PROVE  StepOK(c, o, st[i - 1], t[i]) /\ st[i] = After(st[i - 1], t[i])
  <2>1. i - 1 \in 0 .. n /\ i \in 0 .. n /\ f[i] \in ids /\ f[i] \in Commit
    BY <1>2
  <2>2. st[i - 1] = More(Upto(i - 1)) /\ st[i] = More(Upto(i))
    BY <2>1
  <2>3. st[i] = After(st[i - 1], t[i])
    <3> HIDE DEF st
    <3> QED
      BY <1>4, <1>5, <1>6, <1>8, <2>1, <2>2
  <2>4. t[i].on = kind /\ t[i].to = f[i] /\ t[i] \in WriteType
    BY <1>4
  <2>5. StepOK(c, o, st[i - 1], t[i])
    <3> HIDE DEF st
    <3> QED
      BY <2>1, <2>4 DEF StepOK
  <2> QED
    BY <2>3, <2>5
<1>12. Plan(c, o, s, t, More(ids))
  <2> HIDE DEF st
  <2> QED
    BY <1>4, <1>10, <1>11 DEF Plan
<1>13. More(ids) \in Repo
  BY <1>5
<1> QED
  BY <1>12, <1>13 DEF More, t

-----------------------------------------------------------------------------
(* What does not change when the culprit does not *)

LEMMA StepFrame ==
  ASSUME culprit' = culprit, NEW c, NEW o, NEW s, NEW w, StepOK(c, o, s, w)
  PROVE  StepOK(c, o, s, w)'
  BY DEF StepOK, TrueMarks, Right, Truthful, FirstBad, Bad

LEMMA PlanFrame ==
  ASSUME culprit' = culprit, NEW c, NEW o, NEW s, NEW t, NEW u, Plan(c, o, s, t, u)
  PROVE  Plan(c, o, s, t, u)'
<1>1. PICK st \in [0 .. Len(t) -> Repo] :
        /\ st[0] = s /\ st[Len(t)] = u
        /\ \A i \in 1 .. Len(t) :
             StepOK(c, o, st[i - 1], t[i]) /\ st[i] = After(st[i - 1], t[i])
  BY DEF Plan
<1>2. ASSUME NEW i \in 1 .. Len(t) PROVE StepOK(c, o, st[i - 1], t[i])'
  BY <1>1, StepFrame
<1> QED
  BY <1>1, <1>2 DEF Plan

-----------------------------------------------------------------------------
(* A write, or a report *)

LEMMA WriteStep ==
  ASSUME BisectInv, todo # <<>>, repo' = After(repo, Head(todo)), todo' = Tail(todo),
         UNCHANGED <<cmd, odd, culprit>>,
         origin' = IF Head(todo).on = "start" /\ cmd \in {"reset", "leave"}
                   THEN None ELSE origin
  PROVE  CoreInv' /\ repo' \in Repo
<1> DEFINE w == Head(todo)
<1>1. PICK u \in Repo : Plan(cmd, odd, repo, todo, u) /\ Final(cmd, odd, origin, u)
  BY DEF BisectInv, CoreInv, PlanInv
<1>2. StepOK(cmd, odd, repo, w) /\ Plan(cmd, odd, repo', todo', u)
  BY <1>1, PlanHead
<1>3. repo \in Repo /\ w \in WriteType
  BY <1>1, <1>2, PlanType DEF StepOK
<1>4. /\ repo' \in Repo
      /\ repo'.start = IF w.on = "start" THEN w.to ELSE repo.start
      /\ repo'.startRef = IF w.on = "startRef" THEN w.to ELSE repo.startRef
      /\ repo'.head = IF w.on = "head" THEN w.to ELSE repo.head
      /\ repo'.packed = IF w.on = "packed" THEN w.to ELSE repo.packed
      /\ repo'.branch = IF w.on = "branch" THEN [repo.branch EXCEPT ![w.to[1]] = w.to[2]]
                                           ELSE repo.branch
      /\ w.on \notin {"bad", "good", "skip", "clear"} => repo'.loose = repo.loose
      /\ w.on = "bad" => repo'.loose = [repo.loose EXCEPT !.bad = w.to]
      /\ w.on = "good" =>
           repo'.loose = [repo.loose EXCEPT !.good = repo.loose.good \cup {w.to}]
      /\ w.on = "skip" =>
           repo'.loose = [repo.loose EXCEPT !.skip = repo.loose.skip \cup {w.to}]
      /\ w.on = "clear" => repo'.loose = NoMarks
  BY <1>3, AfterFields
<1> HIDE DEF w
<1>5. PlanInv'
  <2>1. Final(cmd', odd', origin', u)
    BY <1>1 DEF Final
  <2>2. Plan(cmd', odd', repo', todo', u)
    BY <1>2
  <2> SUFFICES ASSUME NEW c, NEW o, NEW s, NEW t, c = cmd', o = odd', s = repo', t = todo'
               PROVE  PlanInv'
    OBVIOUS
  <2>3. Plan(c, o, s, t, u)'
    BY <2>2, PlanFrame
  <2>4. Plan(cmd, odd, repo, todo, u)'
    BY <2>3
  <2> QED
    BY <2>1, <2>4 DEF PlanInv
<1>6. MarksInv'
  <2> SUFFICES ASSUME Steady(odd) PROVE (TrueMarks(repo.loose) /\ TrueMarks(repo.packed))'
    BY DEF MarksInv
  <2>1. TrueMarks(repo.loose) /\ TrueMarks(repo.packed)
    BY DEF BisectInv, CoreInv, MarksInv
  <2>2. w.on = "packed" => TrueMarks(w.to)
    BY <1>2 DEF StepOK, w
  <2>4. \A x : Bad(x)' <=> Bad(x)
    BY DEF Bad
  <2>5. TrueMarks(repo.packed)'
    BY <1>4, <2>1, <2>2, <2>4 DEF TrueMarks
  <2>6. TrueMarks(repo.loose)'
    <3>0. repo.loose \in Marks
      BY <1>3 DEF Repo
    <3>1. CASE w.on \notin {"bad", "good", "skip", "clear"}
      BY <1>4, <2>1, <2>4, <3>1 DEF TrueMarks
    <3>2. CASE w.on = "bad"
      <4>1. Bad(w.to)
        BY <1>2, <3>2 DEF StepOK, w
      <4>2. repo'.loose.bad = w.to /\ repo'.loose.good = repo.loose.good
        BY <1>4, <3>0, <3>2 DEF Marks
      <4> QED
        BY <2>1, <2>4, <4>1, <4>2 DEF TrueMarks
    <3>3. CASE w.on = "good"
      <4>1. ~Bad(w.to)
        BY <1>2, <3>3 DEF StepOK, w
      <4>2. /\ repo'.loose.bad = repo.loose.bad
            /\ repo'.loose.good = repo.loose.good \cup {w.to}
        BY <1>4, <3>0, <3>3 DEF Marks
      <4> QED
        BY <2>1, <2>4, <4>1, <4>2 DEF TrueMarks
    <3>4. CASE w.on = "skip"
      <4>1. repo'.loose.bad = repo.loose.bad /\ repo'.loose.good = repo.loose.good
        BY <1>4, <3>0, <3>4 DEF Marks
      <4> QED
        BY <2>1, <2>4, <4>1 DEF TrueMarks
    <3>5. CASE w.on = "clear"
      BY <1>4, <3>5 DEF TrueMarks, NoMarks
    <3> QED
      BY <3>1, <3>2, <3>3, <3>4, <3>5
  <2> QED
    BY <2>5, <2>6
<1>7. /\ repo.branch \in [Branch -> Commit \cup {None}]
      /\ repo.startRef \in Branch \cup {None} /\ repo.head \in Branch \cup Commit
      /\ w.on = "branch" => w.to[1] \in Branch /\ w.to[2] \in Commit \cup {None}
      /\ w.on = "head" => w.to \in Branch \cup Commit
      /\ None \notin Branch /\ None \notin Commit /\ Commit \cap Branch = {}
  BY <1>3, WriteKinds, BisectAssumption DEF Repo, BisectAssumption
<1>8. StartRefInv'
  BY <1>2, <1>4, <1>7 DEF StartRefInv, StepOK, BisectInv, CoreInv, w
<1>9. HeadInv'
  <2>1. CASE todo' = <<>>
    <3>1. repo' = u
      BY <1>2, <2>1, PlanOfNothing
    <3>2. Kept(odd) => HeadId(repo') # None
      BY <1>1, <3>1 DEF Final
    <3> QED
      BY <3>2 DEF HeadInv, HeadId
  <2>2. CASE todo' # <<>>
    <3> SUFFICES ASSUME Kept(odd), cmd # "branch" PROVE (HeadId(repo) # None)'
      BY <2>2 DEF HeadInv
    <3>1. HeadId(repo) # None /\ w.on # "branch"
      BY <1>2 DEF BisectInv, CoreInv, HeadInv, StepOK, w
    <3>2. w.on = "head" /\ w.to \in Branch => repo.branch[w.to] # None
      BY <1>2 DEF StepOK, w
    <3> QED
      BY <1>4, <1>7, <3>1, <3>2 DEF HeadId
  <2> QED
    BY <2>1, <2>2
<1>10. SessionInv'
  <2>1. CASE cmd = "start"
    <3>1. CASE todo' = <<>>
      <4>1. repo' = u /\ origin' = origin
        BY <1>2, <2>1, <3>1, PlanOfNothing
      <4>2. Session(odd', origin', repo')
        BY <1>1, <2>1, <4>1 DEF Final
      <4> QED
        BY <4>2 DEF SessionInv
    <3>2. CASE todo' # <<>>
      BY <2>1, <3>2 DEF SessionInv
    <3> QED
      BY <3>1, <3>2
  <2>2. CASE cmd # "start"
    <3>1. Session(odd, origin, repo)
      BY <2>2 DEF BisectInv, CoreInv, SessionInv
    <3>2. CASE w.on = "start"
      <4>1. repo'.start = None
        BY <1>2, <1>4, <2>2, <3>2 DEF StepOK, w
      <4> QED
        BY <4>1 DEF SessionInv, Session
    <3>3. CASE w.on = "startRef"
      <4>1. repo'.start = None
        BY <1>2, <1>4, <2>2, <3>3 DEF StepOK, w
      <4> QED
        BY <4>1 DEF SessionInv, Session
    <3>4. CASE w.on = "branch"
      <4>1. Unmoved(odd) => w.to[1] # repo.startRef
        BY <1>2, <3>4 DEF StepOK, w
      <4>2. Whole(odd) => Unmoved(odd)
        BY DEF Whole, Unmoved
      <4>3. /\ repo'.start = repo.start /\ repo'.startRef = repo.startRef
            /\ origin' = origin
            /\ Whole(odd) /\ repo.startRef # None =>
                 repo'.branch[repo.startRef] = repo.branch[repo.startRef]
        BY <1>4, <1>7, <3>4, <4>1, <4>2 DEF w
      <4> QED
        BY <3>1, <4>3 DEF SessionInv, Session, Return
    <3>5. CASE w.on \notin {"start", "startRef", "branch"}
      <4>1. /\ repo'.start = repo.start /\ repo'.startRef = repo.startRef
            /\ origin' = origin /\ repo'.branch = repo.branch
        BY <1>4, <3>5 DEF w
      <4> QED
        BY <3>1, <4>1 DEF SessionInv, Session, Return
    <3> QED
      BY <3>2, <3>3, <3>4, <3>5
  <2> QED
    BY <2>1, <2>2
<1> QED
  BY <1>4, <1>5, <1>6, <1>8, <1>9, <1>10 DEF CoreInv

\* remove_dir_all takes one kind of marks.
LEMMA ClearStep ==
  ASSUME BisectInv, todo # <<>>, Head(todo).on = "clear",
         NEW kind \in {"bad", "good", "skip"},
         repo' = [repo EXCEPT !.loose[kind] = NoMarks[kind]],
         UNCHANGED <<todo, cmd, odd, culprit, origin>>
  PROVE  CoreInv' /\ repo' \in Repo
<1> DEFINE w == Head(todo)
<1>1. PICK u \in Repo : Plan(cmd, odd, repo, todo, u) /\ Final(cmd, odd, origin, u)
  BY DEF BisectInv, CoreInv, PlanInv
<1>2. StepOK(cmd, odd, repo, w) /\ Plan(cmd, odd, After(repo, w), Tail(todo), u)
  BY <1>1, PlanHead
<1>3. repo \in Repo /\ w \in WriteType /\ todo \in Seq(WriteType)
  BY <1>1, <1>2, PlanType DEF StepOK
<1>4. w = [on |-> "clear", to |-> None]
  BY <1>3 DEF WriteType, On
<1>5. todo = Put("clear", None) \o Tail(todo)
  <2>1. Put("clear", None) = <<w>>
    BY <1>4 DEF Put
  <2>2. todo = <<w>> \o Tail(todo)
    BY <1>3
  <2> QED
    BY <2>1, <2>2
<1> DEFINE k == [repo.loose EXCEPT ![kind] = NoMarks[kind]]
<1>6. k \in Marks /\ repo' = [repo EXCEPT !.loose = k]
  BY <1>3 DEF Repo, Marks, NoMarks
<1>7. repo' \in Repo /\ After(repo', w) = After(repo, w)
  <2> HIDE DEF k
  <2>1. repo' \in Repo
    BY <1>3, <1>6 DEF Repo
  <2>2. /\ After(repo, w) = [repo EXCEPT !.loose = NoMarks]
        /\ After(repo', w) = [repo' EXCEPT !.loose = NoMarks]
    BY <1>3, <1>4, <2>1, AfterLoose
  <2>3. [repo' EXCEPT !.loose = NoMarks] = [repo EXCEPT !.loose = NoMarks]
    BY <1>3, <1>6 DEF Repo
  <2> QED
    BY <2>1, <2>2, <2>3
<1>8. PlanInv'
  <2>1. StepOK(cmd, odd, repo', w)
    <3> HIDE DEF w
    <3> QED
      BY <1>3, <1>4 DEF StepOK
  <2>2. Plan(cmd, odd, repo', Put("clear", None), After(repo', w))
    BY <1>4, <1>7, <2>1, PlanPut
  <2>3. Plan(cmd, odd, repo', todo, u)
    BY <1>2, <1>5, <1>7, <2>2, PlanJoin
  <2> SUFFICES ASSUME NEW c, NEW o, NEW s, NEW t, c = cmd', o = odd', s = repo', t = todo'
               PROVE  PlanInv'
    OBVIOUS
  <2>4. Plan(c, o, s, t, u)'
    BY <2>3, PlanFrame
  <2>5. Plan(cmd, odd, repo, todo, u)'
    BY <2>4
  <2> QED
    BY <1>1, <2>5 DEF PlanInv
<1>9. /\ repo'.branch = repo.branch /\ repo'.head = repo.head /\ repo'.start = repo.start
      /\ repo'.startRef = repo.startRef /\ repo'.packed = repo.packed
      /\ repo'.loose = k
  <2> HIDE DEF k
  <2> QED
    BY <1>3, <1>6 DEF Repo
<1>10. MarksInv'
  <2> SUFFICES ASSUME Steady(odd) PROVE (TrueMarks(repo.loose) /\ TrueMarks(repo.packed))'
    BY DEF MarksInv
  <2>1. TrueMarks(repo.loose) /\ TrueMarks(repo.packed)
    BY DEF BisectInv, CoreInv, MarksInv
  <2>2. k.bad \in {repo.loose.bad, None} /\ k.good \subseteq repo.loose.good
    BY <1>3 DEF Repo, Marks, NoMarks
  <2> QED
    BY <1>9, <2>1, <2>2 DEF TrueMarks, Bad
<1>11. StartRefInv' /\ HeadInv' /\ SessionInv'
  BY <1>9 DEF BisectInv, CoreInv, StartRefInv, HeadInv, SessionInv, HeadId, Session, Return
<1> QED
  BY <1>7, <1>8, <1>10, <1>11 DEF CoreInv

-----------------------------------------------------------------------------
(* A command *)

\* A command of name c, after which o has happened to the session begun at r,
\* has a plan w.
LEMMA CommandStep ==
  ASSUME BisectInv, todo = <<>>, NEW c, NEW o, NEW r, NEW w, NEW u \in Repo,
         cmd' = c, odd' = o, origin' = r, todo' = w, repo' = repo, culprit' = culprit,
         odd \subseteq o, Plan(c, o, repo, w, u), Final(c, o, r, u),
         c # "start" => r = origin
  PROVE  CoreInv'
<1>1. PlanInv'
  <2> SUFFICES ASSUME NEW s, s = repo' PROVE PlanInv'
    OBVIOUS
  <2>1. Plan(c, o, s, w, u)'
    BY PlanFrame
  <2>2. Plan(cmd, odd, repo, todo, u)'
    BY <2>1
  <2> QED
    BY <2>2 DEF PlanInv
<1>2. /\ Steady(o) => Steady(odd)
      /\ Unmoved(o) => Unmoved(odd)
      /\ Kept(o) => Kept(odd)
      /\ Whole(o) => Whole(odd)
      /\ Original(o) => Original(odd)
  BY DEF Steady, Unmoved, Kept, Whole, Original
<1>3. MarksInv'
  BY <1>2 DEF BisectInv, CoreInv, MarksInv, TrueMarks, Bad
<1>4. StartRefInv' /\ HeadInv'
  BY <1>2 DEF BisectInv, CoreInv, StartRefInv, HeadInv, HeadId
<1>5. SessionInv'
  <2>1. CASE c # "start"
    <3>1. Session(odd, origin, repo)
      BY DEF BisectInv, CoreInv, SessionInv
    <3> QED
      BY <1>2, <2>1, <3>1 DEF SessionInv, Session, Return
  <2>2. CASE c = "start" /\ w = <<>>
    <3>1. Session(o, r, repo)
      BY <2>2, PlanOfNothing DEF Final
    <3> QED
      BY <3>1 DEF SessionInv, Session, Return
  <2>3. CASE c = "start" /\ w # <<>>
    BY <2>3 DEF SessionInv
  <2> QED
    BY <2>1, <2>2, <2>3
<1> QED
  BY <1>1, <1>3, <1>4, <1>5 DEF CoreInv

\* What a command finds.
LEMMA Found ==
  ASSUME BisectInv, todo = <<>>
  PROVE  /\ repo \in Repo /\ culprit \in Commit
         /\ Steady(odd) => Settled(repo) /\ TrueMarks(repo.loose) /\ TrueMarks(repo.packed)
         /\ Kept(odd) => HeadId(repo) # None
         /\ Unmoved(odd) /\ repo.startRef # None => repo.branch[repo.startRef] # None
         /\ Session(odd, origin, repo)
<1>1. PICK u \in Repo : Plan(cmd, odd, repo, todo, u) /\ Final(cmd, odd, origin, u)
  BY DEF BisectInv, CoreInv, PlanInv
<1>2. repo = u
  BY <1>1, PlanOfNothing
<1> QED
  BY <1>1, <1>2
     DEF Final, BisectInv, CoreInv, TypeOK, MarksInv, HeadInv, StartRefInv, SessionInv

-----------------------------------------------------------------------------
(* The plans of the commands *)

\* Writes that are in order wherever they come.
LEMMA FreeStep ==
  ASSUME NEW c, NEW o, NEW s, NEW f, NEW v, [on |-> f, to |-> v] \in WriteType,
         f \in {"names", "noCheckout", "firstParent", "bisectHead", "work", "skip", "clear"}
  PROVE  StepOK(c, o, s, [on |-> f, to |-> v])
  BY DEF StepOK

LEMMA HeadStep ==
  ASSUME NEW c, NEW o, NEW s, NEW v \in Branch \cup Commit,
         Kept(o) /\ v \in Branch => s.branch[v] # None
  PROVE  StepOK(c, o, s, [on |-> "head", to |-> v])
<1>1. [on |-> "head", to |-> v] \in WriteType
  BY DEF WriteType, On
<1> QED
  BY <1>1 DEF StepOK

\* u is s with the files of x and HEAD at v.
Moved(s, x, v, u) ==
    /\ u.work = x /\ u.head = v
    /\ u.branch = s.branch /\ u.start = s.start /\ u.startRef = s.startRef
    /\ u.noCheckout = s.noCheckout /\ u.bisectHead = s.bisectHead

LEMMA GoTo ==
  ASSUME NEW c, NEW o, NEW s \in Repo, NEW x \in Commit, NEW v \in Branch \cup Commit,
         Kept(o) /\ v \in Branch => s.branch[v] # None
  PROVE  \E u \in Repo :
           Plan(c, o, s, Put("work", x) \o Put("head", v), u) /\ Moved(s, x, v, u)
<1>1. StepOK(c, o, s, [on |-> "work", to |-> x])
  <2>1. [on |-> "work", to |-> x] \in WriteType
    BY DEF WriteType, On
  <2> QED
    BY <2>1, FreeStep
<1>2. PICK s1 \in Repo : Plan(c, o, s, Put("work", x), s1) /\ Wrote(s, "work", x, s1)
  BY <1>1, PlanFirst
<1>3. s1.branch = s.branch
  BY <1>2 DEF Wrote
<1>4. StepOK(c, o, s1, [on |-> "head", to |-> v])
  BY <1>3, HeadStep
<1>5. PICK u \in Repo : /\ Plan(c, o, s, Put("work", x) \o Put("head", v), u)
                        /\ Wrote(s1, "head", v, u)
  BY <1>2, <1>4, PlanThen
<1> QED
  BY <1>2, <1>5 DEF Wrote, Moved

LEMMA OutcomePlan ==
  ASSUME NEW c, NEW o, NEW s \in Repo, culprit \in Commit
  PROVE  \E u \in Repo :
           /\ Plan(c, o, s, Outcome(s), u)
           /\ u.branch = s.branch /\ u.start = s.start /\ u.startRef = s.startRef
           /\ Settled(s) => Settled(u)
           /\ HeadId(s) # None => HeadId(u) # None
<1>0. None \notin Commit /\ Commit \cap Branch = {}
  BY BisectAssumption DEF BisectAssumption
<1>1. CASE \E rep \in ReportType : Outcome(s) = Put("report", rep) /\ Right(s, rep)
  <2>1. PICK rep \in ReportType : Outcome(s) = Put("report", rep) /\ Right(s, rep)
    BY <1>1
  <2> DEFINE w == [on |-> "report", to |-> rep]
  <2>2. w \in WriteType
    BY DEF WriteType, On
  <2>3. StepOK(c, o, s, w)
    BY <2>1, <2>2 DEF StepOK
  <2>4. After(s, w) = s
    BY DEF After
  <2>5. Plan(c, o, s, Put("report", rep), After(s, w))
    BY <2>3, PlanPut
  <2>6. Plan(c, o, s, Outcome(s), s)
    BY <2>1, <2>4, <2>5
  <2> QED
    BY <2>6
<1>2. CASE \E x \in Commit : s.noCheckout /\ Outcome(s) = Put("bisectHead", x)
  <2>1. PICK x \in Commit : s.noCheckout /\ Outcome(s) = Put("bisectHead", x)
    BY <1>2
  <2>2. [on |-> "bisectHead", to |-> x] \in WriteType
    BY DEF WriteType, On
  <2>3. StepOK(c, o, s, [on |-> "bisectHead", to |-> x])
    BY <2>2, FreeStep
  <2>4. PICK u \in Repo : /\ Plan(c, o, s, Put("bisectHead", x), u)
                          /\ Wrote(s, "bisectHead", x, u)
    BY <2>3, PlanFirst
  <2>5. /\ u.branch = s.branch /\ u.start = s.start /\ u.startRef = s.startRef
        /\ u.work = s.work /\ u.head = s.head /\ u.noCheckout
    BY <2>1, <2>4 DEF Wrote
  <2>6. HeadId(u) = HeadId(s)
    BY <2>5 DEF HeadId
  <2> QED
    BY <2>1, <2>4, <2>5, <2>6 DEF Settled
<1>3. CASE \E x \in Commit :
             ~s.noCheckout /\ Outcome(s) = Put("work", x) \o Put("head", x)
  <2>1. PICK x \in Commit : ~s.noCheckout /\ Outcome(s) = Put("work", x) \o Put("head", x)
    BY <1>3
  <2>2. PICK u \in Repo :
           Plan(c, o, s, Put("work", x) \o Put("head", x), u) /\ Moved(s, x, x, u)
    <3>1. x \in Branch \cup Commit /\ (Kept(o) /\ x \in Branch => s.branch[x] # None)
      BY <1>0
    <3> QED
      BY <3>1, GoTo
  <2>3. HeadId(u) = x /\ x # None
    BY <1>0, <2>2 DEF HeadId, Moved
  <2> QED
    BY <2>1, <2>2, <2>3 DEF Settled, Moved
<1> QED
  BY <1>1, <1>2, <1>3, OutcomeCases

\* bisect_clear_state
LEMMA ClearPlan ==
  ASSUME NEW c, NEW o, NEW s \in Repo,
         c = "reset" => s.head = Return(s) /\ s.work = s.start
  PROVE  \E u \in Repo :
           /\ Plan(c, o, s, ClearState, u)
           /\ u.branch = s.branch /\ u.head = s.head /\ u.work = s.work
           /\ u.start = None /\ ~u.noCheckout /\ u.bisectHead = None
<1> DEFINE W(f, v) == [on |-> f, to |-> v]
           t1 == ClearRefs
           t2 == t1 \o Put("start", None)
           t3 == t2 \o Put("startRef", None)
           t4 == t3 \o Put("names", FALSE)
           t5 == t4 \o Put("noCheckout", FALSE)
           t6 == t5 \o Put("firstParent", FALSE)
           t7 == t6 \o Put("bisectHead", None)
<1>0. /\ W("clear", None) \in WriteType /\ W("start", None) \in WriteType
      /\ W("startRef", None) \in WriteType /\ W("names", FALSE) \in WriteType
      /\ W("noCheckout", FALSE) \in WriteType /\ W("firstParent", FALSE) \in WriteType
      /\ W("bisectHead", None) \in WriteType
  BY DEF WriteType, On
<1>1. PICK s1 \in Repo : Plan(c, o, s, t1, s1) /\ Wrote(s, "clear", None, s1)
  <2>1. StepOK(c, o, s, W("clear", None))
    BY <1>0, FreeStep
  <2> QED
    BY <2>1, PlanFirst DEF ClearRefs
<1> HIDE DEF t1
<1>2. PICK s2 \in Repo : Plan(c, o, s, t2, s2) /\ Wrote(s1, "start", None, s2)
  <2>1. /\ s1.head = s.head /\ s1.work = s.work /\ s1.start = s.start
        /\ s1.startRef = s.startRef
    BY <1>1 DEF Wrote
  <2>2. StepOK(c, o, s1, W("start", None))
    BY <1>0, <2>1 DEF StepOK, Return
  <2> QED
    BY <1>1, <2>2, PlanThen
<1> HIDE DEF t2
<1>3. PICK s3 \in Repo : Plan(c, o, s, t3, s3) /\ Wrote(s2, "startRef", None, s3)
  <2>1. s2.start = None
    BY <1>2 DEF Wrote
  <2>2. StepOK(c, o, s2, W("startRef", None))
    BY <1>0, <2>1 DEF StepOK
  <2> QED
    BY <1>2, <2>2, PlanThen
<1> HIDE DEF t3
<1>4. PICK s4 \in Repo : Plan(c, o, s, t4, s4) /\ Wrote(s3, "names", FALSE, s4)
  <2>1. StepOK(c, o, s3, W("names", FALSE))
    BY <1>0, FreeStep
  <2> QED
    BY <1>3, <2>1, PlanThen
<1> HIDE DEF t4
<1>5. PICK s5 \in Repo : Plan(c, o, s, t5, s5) /\ Wrote(s4, "noCheckout", FALSE, s5)
  <2>1. StepOK(c, o, s4, W("noCheckout", FALSE))
    BY <1>0, FreeStep
  <2> QED
    BY <1>4, <2>1, PlanThen
<1> HIDE DEF t5
<1>6. PICK s6 \in Repo : Plan(c, o, s, t6, s6) /\ Wrote(s5, "firstParent", FALSE, s6)
  <2>1. StepOK(c, o, s5, W("firstParent", FALSE))
    BY <1>0, FreeStep
  <2> QED
    BY <1>5, <2>1, PlanThen
<1> HIDE DEF t6
<1>7. PICK s7 \in Repo : Plan(c, o, s, t7, s7) /\ Wrote(s6, "bisectHead", None, s7)
  <2>1. StepOK(c, o, s6, W("bisectHead", None))
    BY <1>0, FreeStep
  <2> QED
    BY <1>6, <2>1, PlanThen
<1>8. /\ s7.branch = s.branch /\ s7.head = s.head /\ s7.work = s.work
      /\ s7.start = None /\ ~s7.noCheckout /\ s7.bisectHead = None
  BY <1>1, <1>2, <1>3, <1>4, <1>5, <1>6, <1>7 DEF Wrote
<1>9. ClearState = t7
  BY DEF ClearState, t1, t2, t3, t4, t5, t6
<1> HIDE DEF t7
<1> QED
  BY <1>7, <1>8, <1>9

\* bisect_mark and its kin: the marks, and then bisect_next.
LEMMA MarkPlan ==
  ASSUME NEW c, NEW o, repo \in Repo, culprit \in Commit,
         NEW kind \in {"bad", "good", "skip"}, NEW ids \in SUBSET Commit,
         kind = "bad" => \E x : ids = {x},
         Steady(o) => /\ kind = "bad" => \A x \in ids : Bad(x)
                      /\ kind = "good" => \A x \in ids : ~Bad(x)
  PROVE  \E u \in Repo :
           /\ Plan(c, o, repo, MarkWrites(kind, ids), u)
           /\ Settled(repo) => Settled(u)
           /\ HeadId(repo) # None => HeadId(u) # None
<1> DEFINE s == [repo EXCEPT !.loose =
                   IF kind = "bad" THEN [repo.loose EXCEPT !.bad = CHOOSE x \in ids : TRUE]
                   ELSE [repo.loose EXCEPT ![kind] = repo.loose[kind] \cup ids]]
<1>1. MarkWrites(kind, ids) = PutMarks(kind, ids) \o Outcome(s)
  BY DEF MarkWrites
<1>2. s \in Repo /\ Plan(c, o, repo, PutMarks(kind, ids), s)
  <2>1. CASE kind = "bad"
    <3>1. PICK x \in Commit : ids = {x}
      BY <2>1
    <3> DEFINE w == [on |-> "bad", to |-> x]
    <3>2. w \in WriteType /\ w.on = "bad" /\ w.to = x
      BY DEF WriteType, On
    <3>3. PutMarks(kind, ids) = Put("bad", x)
      <4>1. Cardinality({x}) = 1 /\ IsFiniteSet({x})
        BY FS_Singleton
      <4>2. SetToSeq({x}) \in [1 .. 1 -> {x}]
        BY <4>1, SeqOfSet
      <4>3. SetToSeq({x})[1] = x
        BY <4>2
      <4>4. PutMarks("bad", {x}) = [i \in 1 .. 1 |-> [on |-> "bad", to |-> SetToSeq({x})[i]]]
        BY <4>1 DEF PutMarks
      <4>5. PutMarks("bad", {x}) = [i \in 1 .. 1 |-> w]
        BY <4>3, <4>4
      <4>6. Put("bad", x) = [i \in 1 .. 1 |-> w]
        BY DEF Put
      <4> QED
        BY <2>1, <3>1, <4>5, <4>6
    <3>4. s = [repo EXCEPT !.loose = [repo.loose EXCEPT !.bad = x]]
      BY <2>1, <3>1
    <3>5. After(repo, w) = s /\ After(repo, w) \in Repo
      <4> HIDE DEF w, s
      <4> QED
        BY <3>2, <3>4, AfterLoose, AfterFields
    <3>6. StepOK(c, o, repo, w)
      <4> HIDE DEF w
      <4> QED
        BY <2>1, <3>1, <3>2 DEF StepOK
    <3>7. Plan(c, o, repo, Put("bad", x), After(repo, w))
      BY <3>6, PlanPut
    <3> HIDE DEF s, w
    <3> QED
      BY <3>3, <3>5, <3>7
  <2>2. CASE kind \in {"good", "skip"}
    <3>1. s = [repo EXCEPT !.loose =
                 [repo.loose EXCEPT ![kind] = repo.loose[kind] \cup ids]]
      BY <2>2
    <3> HIDE DEF s
    <3>2. \E u \in Repo : /\ Plan(c, o, repo, PutMarks(kind, ids), u)
                          /\ u = [repo EXCEPT !.loose =
                                [repo.loose EXCEPT ![kind] = repo.loose[kind] \cup ids]]
      <4>1. Steady(o) /\ kind = "good" => \A x \in ids : ~Bad(x)
        OBVIOUS
      <4> QED
        BY <2>2, <4>1, PlanMarks
    <3> QED
      BY <3>1, <3>2
  <2> QED
    BY <2>1, <2>2
<1>3. s.branch = repo.branch /\ s.head = repo.head /\ s.work = repo.work
      /\ s.noCheckout = repo.noCheckout /\ s.bisectHead = repo.bisectHead
  BY DEF Repo
<1> HIDE DEF s
<1>4. PICK u \in Repo :
           /\ Plan(c, o, s, Outcome(s), u)
           /\ u.branch = s.branch /\ u.start = s.start /\ u.startRef = s.startRef
           /\ Settled(s) => Settled(u)
           /\ HeadId(s) # None => HeadId(u) # None
  BY <1>2, OutcomePlan
<1>5. Plan(c, o, repo, MarkWrites(kind, ids), u)
  BY <1>1, <1>2, <1>4, PlanJoin
<1>6. HeadId(s) = HeadId(repo) /\ (Settled(repo) => Settled(s))
  BY <1>3 DEF HeadId, Settled
<1> QED
  BY <1>4, <1>5, <1>6

-----------------------------------------------------------------------------
(* The commands *)

\* The verdict about what is tested is one about what is marked.
LEMMA TestedIsCurrent ==
  ASSUME NEW s \in Repo, Settled(s)
  PROVE  Tested(s) = CurrentTarget(s)
  BY DEF Settled, Tested, CurrentTarget, Repo

LEMMA VerdictCases ==
  ASSUME NEW x
  PROVE  /\ Verdict(x) \in {"bad", "good"}
         /\ Verdict(x) = "bad" => Bad(x)
         /\ Verdict(x) = "good" => ~Bad(x)
  BY DEF Verdict

LEMMA MarkCommand ==
  ASSUME BisectInv, todo = <<>>, NEW c, c # "start",
         NEW kind \in {"bad", "good", "skip"}, NEW ids \in SUBSET Commit,
         kind = "bad" => \E x : ids = {x},
         Steady(odd) => /\ kind = "bad" => \A x \in ids : Bad(x)
                        /\ kind = "good" => \A x \in ids : ~Bad(x),
         cmd' = c, todo' = MarkWrites(kind, ids), UNCHANGED <<repo, culprit, origin, odd>>
  PROVE  CoreInv'
<1>1. /\ repo \in Repo /\ culprit \in Commit
      /\ Steady(odd) => Settled(repo)
      /\ Kept(odd) => HeadId(repo) # None
  BY Found
<1>2. PICK u \in Repo :
           /\ Plan(c, odd, repo, MarkWrites(kind, ids), u)
           /\ Settled(repo) => Settled(u)
           /\ HeadId(repo) # None => HeadId(u) # None
  BY <1>1, MarkPlan
<1>3. Final(c, odd, origin, u)
  BY <1>1, <1>2 DEF Final
<1> QED
  BY <1>2, <1>3, CommandStep

LEMMA MarkCurrent ==
  ASSUME BisectInv, todo = <<>>, CurrentTarget(repo) # None,
         cmd' \in {"mark", "run"}, UNCHANGED <<repo, culprit, origin, odd>>,
         todo' = MarkWrites(Verdict(Tested(repo)), {CurrentTarget(repo)})
  PROVE  CoreInv'
<1> DEFINE kind == Verdict(Tested(repo))
           x == CurrentTarget(repo)
<1>1. repo \in Repo /\ (Steady(odd) => Settled(repo))
  BY Found
<1>2. x \in Commit
  BY <1>1, MarkTypes
<1>3. Steady(odd) => Tested(repo) = x
  BY <1>1, TestedIsCurrent
<1>4. /\ kind \in {"bad", "good"} 
      /\ Steady(odd) => (kind = "bad" => Bad(x)) /\ (kind = "good" => ~Bad(x))
  BY <1>3, VerdictCases
<1> HIDE DEF kind, x
<1>5. /\ {x} \in SUBSET Commit
      /\ Steady(odd) => /\ kind = "bad" => \A y \in {x} : Bad(y)
                        /\ kind = "good" => \A y \in {x} : ~Bad(y)
  BY <1>2, <1>4
<1>6. todo' = MarkWrites(kind, {x})
  BY DEF kind, x
<1> QED
  BY <1>4, <1>5, <1>6, MarkCommand

LEMMA BisectMarkStep ==
  ASSUME BisectInv, NEW rev \in Named \cup {None}, BisectMark(rev)
  PROVE  CoreInv'
<1>1. /\ todo = <<>> /\ cmd' = "mark" /\ UNCHANGED <<repo, culprit, origin, odd>>
      /\ rev = None => CurrentTarget(repo) # None
      /\ todo' = IF rev = None THEN MarkWrites(Verdict(Tested(repo)), {CurrentTarget(repo)})
                 ELSE MarkWrites(Verdict(rev), {rev})
  BY DEF BisectMark, Run, Idle
<1>2. CASE rev = None
  BY <1>1, <1>2, MarkCurrent
<1>3. CASE rev # None
  <2> DEFINE kind == Verdict(rev)
  <2>1. {rev} \in SUBSET Commit
    BY <1>3, BisectAssumption DEF BisectAssumption
  <2>2. /\ kind \in {"bad", "good"}
        /\ kind = "bad" => \A y \in {rev} : Bad(y)
        /\ kind = "good" => \A y \in {rev} : ~Bad(y)
    BY VerdictCases
  <2> HIDE DEF kind
  <2>3. todo' = MarkWrites(kind, {rev})
    BY <1>1, <1>3 DEF kind
  <2> QED
    BY <1>1, <2>1, <2>2, <2>3, MarkCommand
<1> QED
  BY <1>2, <1>3

LEMMA BisectSkipStep ==
  ASSUME BisectInv, NEW ids \in SUBSET (Commit \cup {None}), BisectSkip(ids)
  PROVE  CoreInv'
<1>1. /\ todo = <<>> /\ cmd' = "mark" /\ UNCHANGED <<repo, culprit, origin, odd>>
      /\ todo' = MarkWrites("skip", ids) /\ ids \in SUBSET Commit
  BY DEF BisectSkip, Run, Idle
<1> QED
  BY <1>1, MarkCommand

LEMMA BisectNextStep ==
  ASSUME BisectInv, BisectNext
  PROVE  CoreInv'
<1>1. /\ todo = <<>> /\ cmd' = "next" /\ todo' = Outcome(repo)
      /\ UNCHANGED <<repo, culprit, origin, odd>>
  BY DEF BisectNext, Run, Idle
<1>2. /\ repo \in Repo /\ culprit \in Commit
      /\ Steady(odd) => Settled(repo)
      /\ Kept(odd) => HeadId(repo) # None
  BY <1>1, Found
<1>3. PICK u \in Repo :
           /\ Plan("next", odd, repo, Outcome(repo), u)
           /\ u.branch = repo.branch /\ u.start = repo.start /\ u.startRef = repo.startRef
           /\ Settled(repo) => Settled(u)
           /\ HeadId(repo) # None => HeadId(u) # None
  BY <1>2, OutcomePlan
<1>4. Final("next", odd, origin, u)
  BY <1>2, <1>3 DEF Final
<1> QED
  BY <1>1, <1>3, <1>4, CommandStep

LEMMA BisectRunStep ==
  ASSUME BisectInv, BisectRun
  PROVE  CoreInv'
<1>1. /\ todo = <<>> /\ cmd' = "run" /\ todo' = <<>>
      /\ UNCHANGED <<repo, culprit, origin, odd>>
  BY DEF BisectRun, Run, Idle
<1>2. repo \in Repo /\ Final("run", odd, origin, repo)
  BY <1>1, Found DEF Final
<1>3. Plan("run", odd, repo, <<>>, repo)
  BY <1>2, PlanEmpty
<1> QED
  BY <1>1, <1>2, <1>3, CommandStep

LEMMA RunTrialStep ==
  ASSUME BisectInv, RunTrial
  PROVE  CoreInv'
<1>1. /\ todo = <<>> /\ cmd' = "run" /\ UNCHANGED <<repo, culprit, origin, odd>>
      /\ CurrentTarget(repo) # None
      /\ todo' = IF Tested(repo) \in Untestable
                 THEN MarkWrites("skip", {CurrentTarget(repo)})
                 ELSE MarkWrites(Verdict(Tested(repo)), {CurrentTarget(repo)})
  BY DEF RunTrial
<1>2. CASE Tested(repo) \in Untestable
  <2>1. {CurrentTarget(repo)} \in SUBSET Commit
    BY <1>1, Found, MarkTypes
  <2> QED
    BY <1>1, <1>2, <2>1, MarkCommand
<1>3. CASE Tested(repo) \notin Untestable
  BY <1>1, <1>3, MarkCurrent
<1> QED
  BY <1>2, <1>3

\* Steps of `bisect run` that touch nothing, and stuttering.
LEMMA RestStep ==
  ASSUME BisectInv, UNCHANGED <<repo, cmd, todo, culprit, origin, odd>>
  PROVE  CoreInv'
<1>1. PICK u \in Repo : Plan(cmd, odd, repo, todo, u) /\ Final(cmd, odd, origin, u)
  BY DEF BisectInv, CoreInv, PlanInv
<1>2. PlanInv'
  <2> SUFFICES ASSUME NEW c, NEW o, NEW s, NEW t, c = cmd', o = odd', s = repo', t = todo'
               PROVE  PlanInv'
    OBVIOUS
  <2>1. Plan(c, o, s, t, u)'
    BY <1>1, PlanFrame
  <2>2. Plan(cmd, odd, repo, todo, u)'
    BY <2>1
  <2> QED
    BY <1>1, <2>2 DEF PlanInv
<1>3. MarksInv'
  BY DEF BisectInv, CoreInv, MarksInv, TrueMarks, Bad
<1>4. StartRefInv' /\ HeadInv' /\ SessionInv'
  BY DEF BisectInv, CoreInv, StartRefInv, HeadInv, SessionInv, HeadId, Session, Return
<1> QED
  BY <1>2, <1>3, <1>4 DEF CoreInv

LEMMA KillStep ==
  ASSUME BisectInv, Kill
  PROVE  CoreInv'
<1>1. /\ todo' = <<>> /\ odd' = odd \cup {"killed", cmd}
      /\ UNCHANGED <<repo, cmd, culprit, origin>>
  BY DEF Kill
<1>2. /\ ~Steady(odd')
      /\ Unmoved(odd') => Unmoved(odd)
      /\ Kept(odd') => Kept(odd) /\ cmd # "branch"
      /\ Whole(odd') => Whole(odd) /\ cmd # "start"
      /\ Original(odd') => Original(odd) /\ cmd # "start"
  BY <1>1 DEF Steady, Unmoved, Kept, Whole, Original
<1>3. Kept(odd') => HeadId(repo) # None
  BY <1>2 DEF BisectInv, CoreInv, HeadInv
<1>4. Session(odd', origin, repo)
  <2>1. cmd # "start" => Session(odd, origin, repo)
    BY DEF BisectInv, CoreInv, SessionInv
  <2> QED
    BY <1>2, <2>1 DEF Session
<1>5. repo \in Repo /\ Final(cmd, odd', origin, repo)
  BY <1>2, <1>3, <1>4 DEF Final, BisectInv, TypeOK
<1>6. PlanInv'
  <2> SUFFICES ASSUME NEW c, NEW o, NEW s, NEW t, c = cmd', o = odd', s = repo', t = todo'
               PROVE  PlanInv'
    OBVIOUS
  <2>1. Plan(c, o, s, t, s)
    BY <1>1, <1>5, PlanEmpty
  <2>2. Plan(c, o, s, t, s)'
    BY <1>1, <2>1, PlanFrame
  <2>3. s \in Repo /\ Final(cmd, odd, origin, s)'
    BY <1>1, <1>5
  <2> QED
    BY <2>2, <2>3 DEF PlanInv
<1>7. MarksInv' /\ StartRefInv'
  BY <1>1, <1>2 DEF BisectInv, CoreInv, MarksInv, StartRefInv
<1>8. HeadInv' /\ SessionInv'
  BY <1>1, <1>3, <1>4 DEF HeadInv, SessionInv, HeadId, Session, Return
<1> QED
  BY <1>6, <1>7, <1>8 DEF CoreInv

\* Where reset goes there is a commit, and it is the one that the session began at.
LEMMA ReturnFacts ==
  ASSUME BisectInv, todo = <<>>, repo.start # None
  PROVE  /\ repo.start \in Commit /\ Return(repo) \in Branch \cup Commit
         /\ Kept(odd) /\ Return(repo) \in Branch => repo.branch[Return(repo)] # None
         /\ Steady(odd) /\ Return(repo) \in Branch => repo.branch[Return(repo)] = repo.start
         /\ Return(repo) \notin Branch => Return(repo) = repo.start
<1>1. /\ repo \in Repo /\ Session(odd, origin, repo)
      /\ Unmoved(odd) /\ repo.startRef # None => repo.branch[repo.startRef] # None
  BY Found
<1>2. repo.start \in Commit /\ repo.startRef \in Branch \cup {None}
  BY <1>1 DEF Repo
<1>3. Commit \cap Branch = {}
  BY BisectAssumption DEF BisectAssumption
<1>4. (Kept(odd) => Unmoved(odd)) /\ (Steady(odd) => Whole(odd))
  BY DEF Kept, Unmoved, Steady, Whole
<1> QED
  BY <1>1, <1>2, <1>3, <1>4 DEF Return, Session

LEMMA BisectResetStep ==
  ASSUME BisectInv, NEW target \in Named \cup {None}, BisectReset(target)
  PROVE  CoreInv'
<1> DEFINE c == IF target = None THEN "reset" ELSE "leave"
           x == IF target = None THEN repo.start ELSE target
           v == IF target = None THEN Return(repo) ELSE target
<1>0. None \notin Commit /\ Commit \cap Branch = {} /\ Named \subseteq Commit
  BY BisectAssumption DEF BisectAssumption
<1>1. /\ todo = <<>> /\ cmd' = c /\ todo' = ResetWrites(target)
      /\ target = None => repo.start # None
      /\ UNCHANGED <<repo, culprit, origin, odd>>
  BY DEF BisectReset, Run, Idle
<1>2. ResetWrites(target) = (Put("work", x) \o Put("head", v)) \o ClearState
  BY DEF ResetWrites, Return
<1>3. repo \in Repo
  BY <1>1, Found
<1>4. /\ x \in Commit /\ v \in Branch \cup Commit
      /\ Kept(odd) /\ v \in Branch => repo.branch[v] # None
      /\ Steady(odd) /\ v \in Branch => repo.branch[v] = x
      /\ v \notin Branch => v = x
  BY <1>0, <1>1, ReturnFacts
<1>5. c = "reset" => v = Return(repo) /\ x = repo.start
  OBVIOUS
<1>6. c # "start"
  OBVIOUS
<1> HIDE DEF c, x, v
<1>7. PICK s \in Repo : /\ Plan(c, odd, repo, Put("work", x) \o Put("head", v), s)
                        /\ Moved(repo, x, v, s)
  BY <1>3, <1>4, GoTo
<1>8. c = "reset" => s.head = Return(s) /\ s.work = s.start
  BY <1>5, <1>7 DEF Moved, Return
<1>9. PICK u \in Repo :
           /\ Plan(c, odd, s, ClearState, u)
           /\ u.branch = s.branch /\ u.head = s.head /\ u.work = s.work
           /\ u.start = None /\ ~u.noCheckout /\ u.bisectHead = None
  BY <1>8, ClearPlan
<1>10. Plan(c, odd, repo, ResetWrites(target), u)
  BY <1>2, <1>7, <1>9, PlanJoin
<1>11. u.branch = repo.branch /\ u.head = v /\ u.work = x
  BY <1>7, <1>9 DEF Moved
<1>12. Final(c, odd, origin, u)
  BY <1>0, <1>4, <1>6, <1>9, <1>11 DEF Final, Settled, HeadId
<1> QED
  BY <1>1, <1>6, <1>10, <1>12, CommandStep

-----------------------------------------------------------------------------
(* Branches and HEAD *)

LEMMA PutBranchStep ==
  ASSUME NEW o, NEW s, NEW b \in Branch, NEW x \in Commit \cup {None},
         Unmoved(o) => b # s.startRef
  PROVE  StepOK("branch", o, s, [on |-> "branch", to |-> <<b, x>>])
<1>1. [on |-> "branch", to |-> <<b, x>>] \in WriteType
  BY DEF WriteType, On
<1> QED
  BY <1>1 DEF StepOK

\* A branch that does not exist, or is not in use, is neither HEAD's nor the one
\* that the session began on.
LEMMA FreeBranch ==
  ASSUME BisectInv, todo = <<>>, NEW n \in Branch, Exists(n) => ~InUse(n)
  PROVE  /\ Unmoved(odd) => n # repo.startRef
         /\ Steady(odd) \/ Kept(odd) => n # repo.head
<1>1. /\ repo \in Repo
      /\ Steady(odd) => Settled(repo)
      /\ Kept(odd) => HeadId(repo) # None
      /\ Unmoved(odd) /\ repo.startRef # None => repo.branch[repo.startRef] # None
  BY Found
<1>2. None \notin Branch /\ None \notin Commit /\ repo.work \in Commit
  BY <1>1, BisectAssumption DEF BisectAssumption, Repo
<1>3. Steady(odd) => HeadId(repo) # None
  BY <1>1, <1>2 DEF Settled
<1>4. CASE Exists(n)
  BY <1>4 DEF InUse
<1>5. CASE ~Exists(n)
  BY <1>1, <1>2, <1>3, <1>5 DEF Exists, HeadId
<1> QED
  BY <1>4, <1>5

\* A branch command: what it does to HEAD.
LEMMA BranchPlanStep ==
  ASSUME BisectInv, todo = <<>>, NEW w, NEW b, NEW u \in Repo, BranchCommand(w, b),
         Plan("branch", odd', repo, w, u),
         Steady(odd) \/ Kept(odd) => HeadId(u) = HeadId(repo),
         u.work = repo.work, u.noCheckout = repo.noCheckout, u.bisectHead = repo.bisectHead
  PROVE  CoreInv'
<1>1. /\ cmd' = "branch" /\ todo' = w /\ UNCHANGED <<repo, culprit, origin>>
      /\ odd \subseteq odd'
  BY DEF BranchCommand, Run
<1>2. /\ Steady(odd) => Settled(repo)
      /\ Kept(odd) => HeadId(repo) # None
  BY Found
<1>3. (Steady(odd') => Steady(odd)) /\ (Kept(odd') => Kept(odd))
  BY <1>1 DEF Steady, Kept
<1> SUFFICES ASSUME NEW o, o = odd' PROVE CoreInv'
  OBVIOUS
<1>4. Final("branch", o, origin, u)
  BY <1>2, <1>3 DEF Final, Settled
<1> QED
  BY <1>1, <1>4, CommandStep

LEMMA OddBranch ==
  ASSUME NEW w, NEW b \in Branch, BranchCommand(w, b)
  PROVE  /\ Unmoved(odd') => b # repo.startRef /\ Unmoved(odd)
         /\ Kept(odd') => Kept(odd)
<1>1. b # None
  BY BisectAssumption DEF BisectAssumption
<1> QED
  BY <1>1 DEF BranchCommand, Unmoved, Kept

\* One branch b is written.
LEMMA OneBranchStep ==
  ASSUME BisectInv, todo = <<>>, NEW b \in Branch, NEW x \in Commit \cup {None}, NEW y,
         BranchCommand(PutBranch(b, x), y),
         Unmoved(odd') => b # repo.startRef,
         Steady(odd) \/ Kept(odd) => b # repo.head
  PROVE  CoreInv'
<1>1. repo \in Repo
  BY Found
<1>2. PutBranch(b, x) = Put("branch", <<b, x>>)
  BY DEF PutBranch
<1> SUFFICES ASSUME NEW o, o = odd' PROVE CoreInv'
  OBVIOUS
<1>3. StepOK("branch", o, repo, [on |-> "branch", to |-> <<b, x>>])
  BY PutBranchStep
<1>4. PICK u \in Repo : /\ Plan("branch", o, repo, Put("branch", <<b, x>>), u)
                        /\ Wrote(repo, "branch", <<b, x>>, u)
  BY <1>1, <1>3, PlanFirst
<1>5. /\ u.branch = [repo.branch EXCEPT ![b] = x] /\ u.head = repo.head
      /\ u.work = repo.work /\ u.noCheckout = repo.noCheckout
      /\ u.bisectHead = repo.bisectHead
  BY <1>4 DEF Wrote
<1>6. repo.branch \in [Branch -> Commit \cup {None}]
  BY <1>1 DEF Repo
<1>7. Steady(odd) \/ Kept(odd) => HeadId(u) = HeadId(repo)
  BY <1>5, <1>6 DEF HeadId
<1>8. Plan("branch", odd', repo, PutBranch(b, x), u)
  BY <1>2, <1>4
<1> QED
  BY <1>5, <1>7, <1>8, BranchPlanStep

LEMMA BranchCreateStep ==
  ASSUME BisectInv, NEW b \in Branch, NEW x \in Named, BranchCreate(b, x)
  PROVE  CoreInv'
<1>1. /\ todo = <<>> /\ BranchCommand(PutBranch(b, x), b)
      /\ Exists(b) => repo.head # b
  BY DEF BranchCreate, BranchCommand, Run, Idle
<1>2. x \in Commit \cup {None}
  BY BisectAssumption DEF BisectAssumption
<1>3. Unmoved(odd') => b # repo.startRef
  BY <1>1, OddBranch
<1>4. Steady(odd) \/ Kept(odd) => b # repo.head
  <2>1. CASE Exists(b)
    BY <1>1, <2>1
  <2>2. CASE ~Exists(b)
    BY <1>1, <2>2, FreeBranch
  <2> QED
    BY <2>1, <2>2
<1> QED
  BY <1>1, <1>2, <1>3, <1>4, OneBranchStep

LEMMA BranchCopyStep ==
  ASSUME BisectInv, NEW b \in Branch, NEW n \in Branch, NEW force \in BOOLEAN,
         BranchCopy(b, n, force)
  PROVE  CoreInv'
<1>1. /\ todo = <<>> /\ BranchCommand(PutBranch(n, repo.branch[b]), None)
      /\ Exists(n) => ~InUse(n)
  BY DEF BranchCopy, BranchCommand, Run, Idle
<1>2. repo.branch[b] \in Commit \cup {None}
  BY <1>1, Found DEF Repo
<1>3. odd' = odd
  BY <1>1 DEF BranchCommand
<1> QED
  BY <1>1, <1>2, <1>3, FreeBranch, OneBranchStep

LEMMA BranchDeleteStep ==
  ASSUME BisectInv, NEW b \in Branch, NEW force \in BOOLEAN, BranchDelete(b, force)
  PROVE  CoreInv'
<1>1. /\ todo = <<>> /\ BranchCommand(PutBranch(b, None), None) /\ ~InUse(b)
  BY DEF BranchDelete, BranchCommand, Run, Idle
<1>2. odd' = odd
  BY <1>1 DEF BranchCommand
<1> QED
  BY <1>1, <1>2, FreeBranch, OneBranchStep

LEMMA BranchRenameStep ==
  ASSUME BisectInv, NEW b \in Branch, NEW n \in Branch, NEW force \in BOOLEAN,
         BranchRename(b, n, force)
  PROVE  CoreInv'
<1> DEFINE rest == IF repo.head = b THEN Put("head", n) ELSE <<>>
           x == repo.branch[b]
<1>1. /\ b # n /\ (Exists(n) => ~InUse(n)) /\ todo = <<>>
      /\ \/ Exists(b) /\ BranchCommand(PutBranch(n, x) \o PutBranch(b, None) \o rest, b)
         \/ ~Exists(b) /\ repo.head = b /\ BranchCommand(Put("head", n), b)
  BY DEF BranchRename, BranchCommand, Run, Idle
<1>2. repo \in Repo /\ (Kept(odd) => HeadId(repo) # None)
      /\ (Steady(odd) => Settled(repo))
  BY <1>1, Found
<1>3. /\ repo.branch \in [Branch -> Commit \cup {None}] /\ x \in Commit \cup {None}
      /\ repo.work \in Commit /\ None \notin Commit
  BY <1>2, BisectAssumption DEF Repo, BisectAssumption
<1>4. /\ Unmoved(odd) => n # repo.startRef
      /\ Steady(odd) \/ Kept(odd) => n # repo.head
  BY <1>1, FreeBranch
<1> SUFFICES ASSUME NEW o, o = odd' PROVE CoreInv'
  OBVIOUS
<1>5. CASE Exists(b) /\ BranchCommand(PutBranch(n, x) \o PutBranch(b, None) \o rest, b)
  <2> DEFINE two == Put("branch", <<n, x>>) \o Put("branch", <<b, None>>)
  <2>1. PutBranch(n, x) \o PutBranch(b, None) \o rest = two \o rest
    BY DEF PutBranch
  <2>2. (Unmoved(o) => b # repo.startRef /\ Unmoved(odd)) /\ (Kept(o) => Kept(odd))
    BY <1>5, OddBranch
  <2>3. StepOK("branch", o, repo, [on |-> "branch", to |-> <<n, x>>])
    BY <1>3, <1>4, <2>2, PutBranchStep
  <2>4. PICK s \in Repo : /\ Plan("branch", o, repo, Put("branch", <<n, x>>), s)
                          /\ Wrote(repo, "branch", <<n, x>>, s)
    BY <1>2, <2>3, PlanFirst
  <2>5. StepOK("branch", o, s, [on |-> "branch", to |-> <<b, None>>])
    <3>1. s.startRef = repo.startRef
      BY <2>4 DEF Wrote
    <3> QED
      BY <2>2, <3>1, PutBranchStep
  <2>6. PICK t \in Repo : /\ Plan("branch", o, repo, two, t)
                          /\ Wrote(s, "branch", <<b, None>>, t)
    BY <2>4, <2>5, PlanThen
  <2>7. /\ t.branch = [[repo.branch EXCEPT ![n] = x] EXCEPT ![b] = None]
        /\ t.head = repo.head /\ t.work = repo.work /\ t.noCheckout = repo.noCheckout
        /\ t.bisectHead = repo.bisectHead
    BY <2>4, <2>6 DEF Wrote
  <2>8. t.branch[n] = x /\ \A y \in Branch \ {b, n} : t.branch[y] = repo.branch[y]
    BY <1>1, <1>3, <2>7
  <2> HIDE DEF two
  <2>9. CASE repo.head = b
    <3>1. StepOK("branch", o, t, [on |-> "head", to |-> n])
      BY <1>5, <2>8, HeadStep DEF Exists
    <3>2. PICK u \in Repo : /\ Plan("branch", o, repo, two \o Put("head", n), u)
                            /\ Wrote(t, "head", n, u)
      BY <2>6, <3>1, PlanThen
    <3>3. /\ u.branch = t.branch /\ u.head = n /\ u.work = repo.work
          /\ u.noCheckout = repo.noCheckout /\ u.bisectHead = repo.bisectHead
      BY <2>7, <3>2 DEF Wrote
    <3>4. HeadId(u) = HeadId(repo)
      BY <2>8, <2>9, <3>3 DEF HeadId
    <3>5. Plan("branch", odd', repo, PutBranch(n, x) \o PutBranch(b, None) \o rest, u)
      BY <2>1, <2>9, <3>2
    <3> HIDE DEF rest
    <3> QED
      BY <1>1, <1>5, <3>3, <3>4, <3>5, BranchPlanStep
  <2>10. CASE repo.head # b
    <3>1. two \o rest = two
      BY <2>6, <2>10, PlanType
    <3>2. Steady(odd) \/ Kept(odd) => HeadId(t) = HeadId(repo)
      BY <1>4, <2>7, <2>8, <2>10 DEF HeadId
    <3>3. Plan("branch", odd', repo, PutBranch(n, x) \o PutBranch(b, None) \o rest, t)
      BY <2>1, <2>6, <3>1
    <3> HIDE DEF rest
    <3> QED
      BY <1>1, <1>5, <2>7, <3>2, <3>3, BranchPlanStep
  <2> QED
    BY <2>9, <2>10
<1>6. CASE ~Exists(b) /\ repo.head = b /\ BranchCommand(Put("head", n), b)
  <2>1. HeadId(repo) = None
    BY <1>6 DEF HeadId, Exists
  <2>2. ~Steady(odd) /\ ~Kept(odd)
    BY <1>2, <1>3, <2>1 DEF Settled
  <2>3. Kept(o) => Kept(odd)
    BY <1>6, OddBranch
  <2>4. StepOK("branch", o, repo, [on |-> "head", to |-> n])
    BY <2>2, <2>3, HeadStep
  <2>5. PICK u \in Repo : /\ Plan("branch", o, repo, Put("head", n), u)
                          /\ Wrote(repo, "head", n, u)
    BY <1>2, <2>4, PlanFirst
  <2>6. /\ u.work = repo.work /\ u.noCheckout = repo.noCheckout
        /\ u.bisectHead = repo.bisectHead
    BY <2>5 DEF Wrote
  <2> QED
    BY <1>1, <1>6, <2>2, <2>5, <2>6, BranchPlanStep
<1> QED
  BY <1>1, <1>5, <1>6

LEMMA SwitchStep ==
  ASSUME BisectInv, NEW b \in Branch, Switch(b)
  PROVE  CoreInv'
<1> DEFINE x == repo.branch[b]
<1>1. /\ todo = <<>> /\ cmd' = "switch" /\ UNCHANGED <<repo, culprit, origin, odd>>
      /\ x # None
      /\ todo' = (IF HeadId(repo) = x THEN <<>> ELSE Put("work", x)) \o Put("head", b)
  BY DEF Switch, Run, Idle, Exists
<1>2. repo \in Repo /\ (Steady(odd) => Settled(repo))
  BY <1>1, Found
<1>3. x \in Commit
  BY <1>1, <1>2 DEF Repo
<1>4. CASE HeadId(repo) = x
  <2>1. StepOK("switch", odd, repo, [on |-> "head", to |-> b])
    BY <1>1, HeadStep
  <2>2. PICK u \in Repo : /\ Plan("switch", odd, repo, Put("head", b), u)
                          /\ Wrote(repo, "head", b, u)
    BY <1>2, <2>1, PlanFirst
  <2>3. /\ u.branch = repo.branch /\ u.head = b /\ u.work = repo.work
        /\ u.noCheckout = repo.noCheckout /\ u.bisectHead = repo.bisectHead
    BY <2>2 DEF Wrote
  <2>4. Final("switch", odd, origin, u)
    BY <1>1, <1>2, <1>4, <2>3 DEF Final, Settled, HeadId
  <2>5. todo' = Put("head", b)
    BY <1>1, <1>4 DEF Put
  <2> QED
    BY <1>1, <2>2, <2>4, <2>5, CommandStep
<1>5. CASE HeadId(repo) # x
  <2>1. PICK u \in Repo : /\ Plan("switch", odd, repo, Put("work", x) \o Put("head", b), u)
                          /\ Moved(repo, x, b, u)
    <3>1. Kept(odd) /\ b \in Branch => repo.branch[b] # None
      BY <1>1
    <3> HIDE DEF x
    <3> QED
      BY <1>2, <1>3, <3>1, GoTo
  <2>2. Final("switch", odd, origin, u)
    BY <1>1, <1>2, <2>1 DEF Final, Settled, HeadId, Moved
  <2>3. todo' = Put("work", x) \o Put("head", b)
    BY <1>1, <1>5
  <2> QED
    BY <1>1, <2>1, <2>2, <2>3, CommandStep
<1> QED
  BY <1>4, <1>5

LEMMA PackRefsStep ==
  ASSUME BisectInv, PackRefs
  PROVE  CoreInv'
<1> DEFINE k == [bad |-> BadMark(repo), good |-> GoodMarks(repo), skip |-> SkipMarks(repo)]
<1>1. /\ todo = <<>> /\ cmd' = "pack" /\ UNCHANGED <<repo, culprit, origin, odd>>
      /\ todo' = Put("packed", k) \o Put("clear", None)
  BY DEF PackRefs, Run, Idle, ClearRefs
<1>3. k \in Marks
  BY <1>1, Found, MarkTypes DEF Marks
<1>4. Steady(odd) => TrueMarks(k)
  BY <1>1, Found DEF TrueMarks, BadMark, GoodMarks
<1> HIDE DEF k
<1>5. StepOK("pack", odd, repo, [on |-> "packed", to |-> k])
  <2>1. [on |-> "packed", to |-> k] \in WriteType
    BY <1>3 DEF WriteType, On
  <2> QED
    BY <1>4, <2>1 DEF StepOK
<1>6. PICK s \in Repo : /\ Plan("pack", odd, repo, Put("packed", k), s)
                        /\ Wrote(repo, "packed", k, s)
  BY <1>1, <1>5, Found, PlanFirst
<1>7. StepOK("pack", odd, s, [on |-> "clear", to |-> None])
  <2>1. [on |-> "clear", to |-> None] \in WriteType
    BY DEF WriteType, On
  <2> QED
    BY <2>1, FreeStep
<1>8. PICK u \in Repo : /\ Plan("pack", odd, repo, Put("packed", k) \o Put("clear", None), u)
                        /\ Wrote(s, "clear", None, u)
  BY <1>6, <1>7, PlanThen
<1>9. /\ u.branch = repo.branch /\ u.head = repo.head /\ u.work = repo.work
      /\ u.noCheckout = repo.noCheckout /\ u.bisectHead = repo.bisectHead
  BY <1>6, <1>8 DEF Wrote
<1>10. Final("pack", odd, origin, u)
  BY <1>1, <1>9, Found DEF Final, Settled, HeadId
<1> QED
  BY <1>1, <1>8, <1>10, CommandStep

-----------------------------------------------------------------------------
(* bisect start *)

\* u is s with the files of a new session that has no marks.
Begun(s, x, ref, r, u) ==
    /\ u.start = x /\ u.startRef = ref
    /\ u.names = r.names /\ u.noCheckout = r.noCheckout /\ u.firstParent = r.firstParent
    /\ u.loose = NoMarks /\ u.packed = s.packed /\ u.bisectHead = s.bisectHead
    /\ u.branch = s.branch /\ u.head = s.head /\ u.work = s.work

LEMMA BeginPlan ==
  ASSUME NEW o, NEW s \in Repo, NEW x \in Commit, NEW ref \in Branch \cup {None},
         ref # None => s.branch[ref] # None, NEW r \in Starts
  PROVE  \E u \in Repo :
           /\ Plan("start", o, s,
                   Put("start", x) \o Put("names", r.names) \o Put("startRef", ref)
                   \o Put("noCheckout", r.noCheckout) \o Put("firstParent", r.firstParent)
                   \o ClearRefs, u)
           /\ Begun(s, x, ref, r, u)
<1> DEFINE W(f, v) == [on |-> f, to |-> v]
           t1 == Put("start", x)
           t2 == t1 \o Put("names", r.names)
           t3 == t2 \o Put("startRef", ref)
           t4 == t3 \o Put("noCheckout", r.noCheckout)
           t5 == t4 \o Put("firstParent", r.firstParent)
           t6 == t5 \o Put("clear", None)
<1>0. /\ W("start", x) \in WriteType /\ W("names", r.names) \in WriteType
      /\ W("startRef", ref) \in WriteType /\ W("noCheckout", r.noCheckout) \in WriteType
      /\ W("firstParent", r.firstParent) \in WriteType /\ W("clear", None) \in WriteType
  <2>1. /\ r.names \in BOOLEAN /\ r.noCheckout \in BOOLEAN /\ r.firstParent \in BOOLEAN
    BY BisectAssumption DEF BisectAssumption
  <2> QED
    BY <2>1 DEF WriteType, On
<1>1. PICK s1 \in Repo : Plan("start", o, s, t1, s1) /\ Wrote(s, "start", x, s1)
  <2>1. StepOK("start", o, s, W("start", x))
    BY <1>0 DEF StepOK
  <2> QED
    BY <2>1, PlanFirst
<1> HIDE DEF t1
<1>2. PICK s2 \in Repo : Plan("start", o, s, t2, s2) /\ Wrote(s1, "names", r.names, s2)
  <2>1. StepOK("start", o, s1, W("names", r.names))
    BY <1>0, FreeStep
  <2> QED
    BY <1>1, <2>1, PlanThen
<1> HIDE DEF t2
<1>3. PICK s3 \in Repo : Plan("start", o, s, t3, s3) /\ Wrote(s2, "startRef", ref, s3)
  <2>1. s2.branch = s.branch
    BY <1>1, <1>2 DEF Wrote
  <2>2. StepOK("start", o, s2, W("startRef", ref))
    BY <1>0, <2>1 DEF StepOK
  <2> QED
    BY <1>2, <2>2, PlanThen
<1> HIDE DEF t3
<1>4. PICK s4 \in Repo : /\ Plan("start", o, s, t4, s4)
                         /\ Wrote(s3, "noCheckout", r.noCheckout, s4)
  <2>1. StepOK("start", o, s3, W("noCheckout", r.noCheckout))
    BY <1>0, FreeStep
  <2> QED
    BY <1>3, <2>1, PlanThen
<1> HIDE DEF t4
<1>5. PICK s5 \in Repo : /\ Plan("start", o, s, t5, s5)
                         /\ Wrote(s4, "firstParent", r.firstParent, s5)
  <2>1. StepOK("start", o, s4, W("firstParent", r.firstParent))
    BY <1>0, FreeStep
  <2> QED
    BY <1>4, <2>1, PlanThen
<1> HIDE DEF t5
<1>6. PICK u \in Repo : Plan("start", o, s, t6, u) /\ Wrote(s5, "clear", None, u)
  <2>1. StepOK("start", o, s5, W("clear", None))
    BY <1>0, FreeStep
  <2> QED
    BY <1>5, <2>1, PlanThen
<1>7. Begun(s, x, ref, r, u)
  BY <1>1, <1>2, <1>3, <1>4, <1>5, <1>6 DEF Wrote, Begun
<1> QED
  BY <1>6, <1>7 DEF t1, t2, t3, t4, t5, ClearRefs

LEMMA BisectStartStep ==
  ASSUME BisectInv, NEW r \in Starts, BisectStart(r)
  PROVE  CoreInv'
<1> DEFINE x == HeadId(repo)
           ref == IF repo.head \in Branch THEN repo.head ELSE None
           marks == [bad |-> r.bad, good |-> r.good, skip |-> {}]
           s == [repo EXCEPT !.start = x, !.startRef = ref, !.names = r.names,
                             !.noCheckout = r.noCheckout, !.firstParent = r.firstParent,
                             !.loose = marks]
           pre == Put("start", x) \o Put("names", r.names) \o Put("startRef", ref)
                  \o Put("noCheckout", r.noCheckout) \o Put("firstParent", r.firstParent)
                  \o ClearRefs
           next == Outcome(s)
           last == IF Last(next).on = "report" /\ Last(next).to.kind = "untestable"
                   THEN ClearState ELSE <<>>
           more == Put("bad", r.bad) \o PutMarks("good", r.good) \o next \o last
<1>0. s.start = x /\ s.startRef = ref
  BY DEF BisectInv, TypeOK, Repo
<1>1. /\ todo = <<>> /\ cmd' = "start" /\ x # None /\ UNCHANGED <<repo, culprit>>
      /\ todo' = pre \o IF r.bad = None THEN <<>> ELSE more
  <2>1. /\ todo = <<>> /\ cmd' = "start" /\ x # None /\ UNCHANGED <<repo, culprit>>
        /\ todo' = Put("start", s.start) \o Put("names", r.names) \o Put("startRef", s.startRef)
                   \o Put("noCheckout", r.noCheckout) \o Put("firstParent", r.firstParent)
                   \o ClearRefs
                   \o IF r.bad = None THEN <<>> ELSE more
    BY DEF BisectStart, Run, Idle
  <2> HIDE DEF s, x, ref, more
  <2> QED
    BY <1>0, <2>1, SMTT(30)
<1>2. /\ r.bad # None => Bad(r.bad)
      /\ \A g \in r.good : ~Bad(g)
      /\ origin' = IF origin = None THEN repo.head ELSE origin
      /\ odd' = odd \cup (IF origin # None THEN {"restarted"} ELSE {})
                    \cup (IF repo.bisectHead # None /\ ~r.noCheckout THEN {"stale"} ELSE {})
  BY SMTT(30) DEF BisectStart
<1>3. /\ repo \in Repo /\ culprit \in Commit
      /\ Steady(odd) => Settled(repo)
  BY <1>1, Found
<1>4. /\ r.names \in BOOLEAN /\ r.noCheckout \in BOOLEAN /\ r.firstParent \in BOOLEAN
      /\ r.bad \in Commit \cup {None} /\ r.good \in SUBSET Commit
      /\ None \notin Branch /\ None \notin Commit /\ Commit \cap Branch = {}
  BY BisectAssumption, SMTT(30) DEF BisectAssumption
<1>5. /\ x \in Commit /\ ref \in Branch \cup {None}
      /\ ref # None => repo.branch[ref] = x
      /\ (IF ref # None THEN ref ELSE x) = repo.head
  BY <1>1, <1>3, <1>4 DEF Repo, HeadId
<1>6. marks \in Marks
  BY <1>4 DEF Marks
<1> SUFFICES ASSUME NEW o, NEW q, o = odd', q = origin' PROVE CoreInv'
  OBVIOUS
<1>7. /\ odd \subseteq o
      /\ Steady(o) => Steady(odd) /\ (~r.noCheckout => repo.bisectHead = None)
      /\ Original(o) => q = repo.head
  BY <1>2 DEF Steady, Original
<1>8. s \in Repo /\ Begun(repo, x, ref, r, [s EXCEPT !.loose = NoMarks]) /\ s.loose = marks
  BY <1>3, <1>4, <1>5, <1>6 DEF Repo, Begun
<1> HIDE DEF x, ref, marks, s
<1>9. PICK u0 \in Repo : Plan("start", o, repo, pre, u0) /\ Begun(repo, x, ref, r, u0)
  <2>1. ref # None => repo.branch[ref] # None
    BY <1>4, <1>5
  <2> QED
    BY <1>3, <1>5, <2>1, BeginPlan
<1>10. ASSUME NEW v \in Repo, v.branch = repo.branch, v.start = x, v.startRef = ref
       PROVE  Session(o, q, v)
  BY <1>5, <1>7, <1>10 DEF Session, Return
<1>11. (Steady(o) => Settled(u0)) /\ HeadId(u0) # None
  <2>1. HeadId(u0) = HeadId(repo)
    BY <1>9 DEF Begun, HeadId
  <2> QED
    BY <1>1, <1>3, <1>7, <1>9, <2>1 DEF Begun, Settled, x
<1> HIDE DEF pre, next, last
<1>12. CASE r.bad = None
  <2>1. todo' = pre
    BY <1>1, <1>9, <1>12, PlanType
  <2>2. Session(o, q, u0)
    BY <1>9, <1>10 DEF Begun
  <2>3. Final("start", o, q, u0)
    BY <1>11, <2>2 DEF Final
  <2> QED
    BY <1>1, <1>7, <1>9, <2>1, <2>3, CommandStep
<1>13. CASE r.bad # None
  <2>1. StepOK("start", o, u0, [on |-> "bad", to |-> r.bad])
    <3>1. [on |-> "bad", to |-> r.bad] \in WriteType
      BY <1>4, <1>13 DEF WriteType, On
    <3> QED
      BY <1>2, <1>13, <3>1 DEF StepOK
  <2>2. PICK u1 \in Repo : /\ Plan("start", o, u0, Put("bad", r.bad), u1)
                           /\ Wrote(u0, "bad", r.bad, u1)
    BY <2>1, PlanFirst
  <2>3. PICK u2 \in Repo :
          /\ Plan("start", o, u1, PutMarks("good", r.good), u2)
          /\ u2 = [u1 EXCEPT !.loose =
                     [u1.loose EXCEPT !["good"] = u1.loose["good"] \cup r.good]]
    BY <1>2, <1>4, PlanMarks
  <2>4. u2 = s
    <3> DEFINE k == [u1.loose EXCEPT !["good"] = u1.loose["good"] \cup r.good]
    <3>1. u1.loose = [NoMarks EXCEPT !.bad = r.bad]
      BY <1>9, <2>2 DEF Wrote, Begun
    <3>2. k = marks
      <4>1. u1.loose.bad = r.bad /\ u1.loose.good = {} /\ u1.loose.skip = {}
        BY <3>1 DEF NoMarks
      <4>2. u1.loose \in Marks
        BY DEF Repo
      <4>3. k \in Marks /\ k.bad = r.bad /\ k.good = r.good /\ k.skip = {}
        BY <1>4, <4>1, <4>2 DEF Marks
      <4>4. marks \in Marks /\ marks.bad = r.bad /\ marks.good = r.good /\ marks.skip = {}
        BY <1>6 DEF marks
      <4> HIDE DEF k
      <4> QED
        BY <4>3, <4>4 DEF Marks
    <3>3. u2 = [u1 EXCEPT !.loose = k]
      BY <2>3
    <3> HIDE DEF k
    <3>4. Begun(repo, x, ref, r, [u2 EXCEPT !.loose = NoMarks]) /\ u2.loose = marks
      BY <1>9, <2>2, <3>2, <3>3 DEF Wrote, Begun, Repo
    <3>5. /\ u2.start = s.start /\ u2.startRef = s.startRef /\ u2.names = s.names
          /\ u2.noCheckout = s.noCheckout /\ u2.firstParent = s.firstParent
          /\ u2.packed = s.packed /\ u2.bisectHead = s.bisectHead
          /\ u2.branch = s.branch /\ u2.head = s.head /\ u2.work = s.work
      BY <1>8, <3>4 DEF Begun, Repo
    <3> QED
      BY <1>8, <3>4, <3>5, RepoEqual
  <2>5. /\ s.branch = repo.branch /\ s.start = x /\ s.startRef = ref
        /\ s.work = u0.work /\ s.head = u0.head /\ s.branch = u0.branch
        /\ s.noCheckout = u0.noCheckout /\ s.bisectHead = u0.bisectHead
    BY <1>8, <1>9 DEF Begun, Repo
  <2>6. (Settled(u0) => Settled(s)) /\ HeadId(s) = HeadId(u0)
    BY <2>5 DEF Settled, HeadId
  <2>7. PICK u3 \in Repo :
           /\ Plan("start", o, s, Outcome(s), u3)
           /\ u3.branch = s.branch /\ u3.start = s.start /\ u3.startRef = s.startRef
           /\ Settled(s) => Settled(u3)
           /\ HeadId(s) # None => HeadId(u3) # None
    BY <1>3, <1>8, OutcomePlan
  <2>8. Plan("start", o, u0, Put("bad", r.bad) \o PutMarks("good", r.good) \o next, u3)
    <3>1. Plan("start", o, u0, Put("bad", r.bad) \o PutMarks("good", r.good), s)
      BY <2>2, <2>3, <2>4, PlanJoin
    <3> QED
      BY <2>7, <3>1, PlanJoin DEF next
  <2>9. (Steady(o) => Settled(u3)) /\ HeadId(u3) # None
    BY <1>11, <2>6, <2>7
  <2>10. \E u \in Repo : Plan("start", o, u3, last, u) /\ Final("start", o, q, u)
    <3>1. CASE last = <<>>
      <4>1. Session(o, q, u3)
        BY <1>10, <2>5, <2>7
      <4>2. Final("start", o, q, u3)
        BY <2>9, <4>1 DEF Final
      <4> QED
        BY <3>1, <4>2, PlanEmpty
    <3>2. CASE last = ClearState
      <4>1. PICK u \in Repo :
              /\ Plan("start", o, u3, ClearState, u)
              /\ u.branch = u3.branch /\ u.head = u3.head /\ u.work = u3.work
              /\ u.start = None /\ ~u.noCheckout /\ u.bisectHead = None
        BY ClearPlan
      <4>2. HeadId(u) = HeadId(u3)
        BY <4>1 DEF HeadId
      <4>3. Final("start", o, q, u)
        BY <2>9, <4>1, <4>2 DEF Final, Settled, Session
      <4> QED
        BY <3>2, <4>1, <4>3
    <3> QED
      BY <3>1, <3>2 DEF last
  <2>11. PICK u \in Repo : Plan("start", o, u3, last, u) /\ Final("start", o, q, u)
    BY <2>10
  <2>12. Plan("start", o, u0, more, u)
    BY <2>8, <2>11, PlanJoin
  <2>13. Plan("start", o, repo, pre \o more, u)
    BY <1>9, <2>12, PlanJoin
  <2>14. todo' = pre \o more
    BY <1>1, <1>13
  <2> HIDE DEF more
  <2> QED
    BY <1>1, <1>7, <2>11, <2>13, <2>14, CommandStep
<1> QED
  BY <1>12, <1>13

-----------------------------------------------------------------------------
(* The invariant *)

LEMMA InitInv == Init => BisectInv
<1> SUFFICES ASSUME Init PROVE BisectInv
  OBVIOUS
<1>1. PICK refs \in InitBranch, h \in Branch : refs[h] # None /\ repo = NoSession(refs, h)
  BY DEF Init
<1>2. /\ cmd = "none" /\ todo = <<>> /\ running = "no" /\ culprit \in Commit
      /\ origin = None /\ odd = {} /\ count = [commands |-> 0, kills |-> 0]
  BY DEF Init
<1>3. refs \in [Branch -> Commit \cup {None}] /\ MaxCommands \in Nat /\ MaxKills \in Nat
      /\ None \notin Branch
  BY BisectAssumption DEF BisectAssumption
<1>4. NoMarks \in Marks
  BY DEF NoMarks, Marks
<1>5. repo \in Repo
  BY <1>1, <1>3, <1>4 DEF NoSession, Repo
<1>6. /\ repo.branch = refs /\ repo.head = h /\ repo.work = refs[h] /\ repo.loose = NoMarks
      /\ repo.packed = NoMarks /\ repo.start = None /\ repo.startRef = None
      /\ repo.bisectHead = None
  BY <1>1 DEF NoSession
<1>7. TypeOK
  BY <1>2, <1>3, <1>5 DEF TypeOK
<1>8. HeadId(repo) = refs[h]
  BY <1>6 DEF HeadId
<1>9. PlanInv
  <2>1. Plan(cmd, odd, repo, todo, repo)
    BY <1>2, <1>5, PlanEmpty
  <2>2. Final(cmd, odd, origin, repo)
    BY <1>1, <1>2, <1>6, <1>8 DEF Final, Settled
  <2> QED
    BY <1>5, <2>1, <2>2 DEF PlanInv
<1>10. MarksInv
  BY <1>6 DEF MarksInv, TrueMarks, NoMarks
<1>11. StartRefInv /\ HeadInv /\ SessionInv
  BY <1>1, <1>6, <1>8 DEF StartRefInv, HeadInv, SessionInv, Session
<1> QED
  BY <1>7, <1>9, <1>10, <1>11 DEF BisectInv, CoreInv

LEMMA TodoStep ==
  ASSUME BisectInv, Write \/ ClearMarks \/ PrintReport
  PROVE  CoreInv' /\ repo' \in Repo
<1> DEFINE w == Head(todo)
<1>1. repo \in Repo
  BY DEF BisectInv, TypeOK
<1>2. CASE Write
  <2>1. repo' = After(repo, w)
    BY <1>2 DEF Write, After
  <2> QED
    BY <1>2, <2>1, WriteStep DEF Write
<1>3. CASE PrintReport
  <2>1. repo' = After(repo, w) /\ w.on # "start"
    BY <1>3 DEF PrintReport, After
  <2> QED
    BY <1>3, <2>1, WriteStep DEF PrintReport
<1>4. CASE ClearMarks
  <2>1. /\ todo # <<>> /\ w.on = "clear" /\ UNCHANGED <<cmd, culprit, origin, odd>>
        /\ \/ \E kind \in DOMAIN NoMarks :
                repo' = [repo EXCEPT !.loose[kind] = NoMarks[kind]] /\ UNCHANGED todo
           \/ repo.loose = NoMarks /\ todo' = Tail(todo) /\ UNCHANGED repo
    BY <1>4 DEF ClearMarks
  <2>2. CASE \E kind \in DOMAIN NoMarks :
                repo' = [repo EXCEPT !.loose[kind] = NoMarks[kind]] /\ UNCHANGED todo
    <3>1. DOMAIN NoMarks = {"bad", "good", "skip"}
      BY DEF NoMarks
    <3> QED
      BY <2>1, <2>2, <3>1, ClearStep
  <2>3. CASE repo.loose = NoMarks /\ todo' = Tail(todo) /\ UNCHANGED repo
    <3>1. repo' = After(repo, w)
      BY <1>1, <2>1, <2>3 DEF After, Repo
    <3> QED
      BY <2>1, <2>3, <3>1, WriteStep
  <2> QED
    BY <2>1, <2>2, <2>3
<1> QED
  BY <1>2, <1>3, <1>4

\* What a command that is begun leaves to its writes.
LEMMA RunType ==
  ASSUME TypeOK, NEW op, NEW w, Run(op, w)
  PROVE  count' \in [commands : 0 .. MaxCommands, kills : 0 .. MaxKills]
<1>1. /\ count.commands < MaxCommands /\ count' = [count EXCEPT !.commands = @ + 1]
      /\ count \in [commands : 0 .. MaxCommands, kills : 0 .. MaxKills]
  BY DEF Run, Idle, TypeOK
<1>2. MaxCommands \in Nat
  BY BisectAssumption DEF BisectAssumption
<1> QED
  BY <1>1, <1>2

\* Every step keeps the types and the invariant.
LEMMA NextInv == BisectInv /\ [Next]_vars => BisectInv'
<1> SUFFICES ASSUME BisectInv, [Next]_vars PROVE TypeOK' /\ CoreInv'
  BY DEF BisectInv
<1>0. TypeOK /\ repo \in Repo /\ repo.head \in Branch \cup Commit
  BY DEF BisectInv, TypeOK, Repo
<1>1. ASSUME NEW op, NEW w, Run(op, w), running' \in {"no", "first", "loop"},
             UNCHANGED <<repo, culprit>>, origin' \in {origin, repo.head}
      PROVE  TypeOK'
  <2>1. count' \in [commands : 0 .. MaxCommands, kills : 0 .. MaxKills]
    BY <1>0, <1>1, RunType
  <2> QED
    BY <1>0, <1>1, <2>1 DEF TypeOK
<1>2. CASE \E r \in Starts : BisectStart(r)
  <2>1. PICK r \in Starts : BisectStart(r)
    BY <1>2
  <2>2. TypeOK'
    BY <1>0, <1>1, <2>1 DEF BisectStart, TypeOK
  <2> QED
    BY <2>1, <2>2, BisectStartStep
<1>3. CASE \E rev \in Named \cup {None} : BisectMark(rev)
  <2>1. PICK rev \in Named \cup {None} : BisectMark(rev)
    BY <1>3
  <2>2. TypeOK'
    BY <1>0, <1>1, <2>1 DEF BisectMark, TypeOK
  <2> QED
    BY <2>1, <2>2, BisectMarkStep
<1>4. ASSUME NEW ids \in SUBSET (Commit \cup {None}), BisectSkip(ids)
      PROVE  TypeOK' /\ CoreInv'
  <2>1. TypeOK'
    BY <1>0, <1>1, <1>4 DEF BisectSkip, TypeOK
  <2> QED
    BY <1>4, <2>1, BisectSkipStep
<1>5. CASE BisectSkip({CurrentTarget(repo)})
  <2>1. {CurrentTarget(repo)} \in SUBSET (Commit \cup {None})
    BY <1>0, MarkTypes
  <2> QED
    BY <1>4, <1>5, <2>1
<1>6. CASE \E r \in Ranges : BisectSkip(Ancestors[r[2]] \ Ancestors[r[1]])
  <2>1. PICK r \in Ranges : BisectSkip(Ancestors[r[2]] \ Ancestors[r[1]])
    BY <1>6
  <2>2. r[2] \in Commit
    BY BisectAssumption DEF BisectAssumption
  <2>3. Ancestors[r[2]] \ Ancestors[r[1]] \in SUBSET (Commit \cup {None})
    BY <2>2, AncestorFacts
  <2> QED
    BY <1>4, <2>1, <2>3
<1>7. CASE BisectNext
  <2>1. TypeOK'
    BY <1>0, <1>1, <1>7 DEF BisectNext, TypeOK
  <2> QED
    BY <1>7, <2>1, BisectNextStep
<1>8. CASE BisectRun
  <2>1. TypeOK'
    BY <1>0, <1>1, <1>8 DEF BisectRun, TypeOK
  <2> QED
    BY <1>8, <2>1, BisectRunStep
<1>9. CASE \E target \in Named \cup {None} : BisectReset(target)
  <2>1. PICK target \in Named \cup {None} : BisectReset(target)
    BY <1>9
  <2>2. TypeOK'
    BY <1>0, <1>1, <2>1 DEF BisectReset, TypeOK
  <2> QED
    BY <2>1, <2>2, BisectResetStep
<1>10. ASSUME NEW w, NEW b, BranchCommand(w, b) PROVE TypeOK'
  BY <1>0, <1>1, <1>10 DEF BranchCommand, TypeOK
<1>11. CASE \E b \in Branch, x \in Named : BranchCreate(b, x)
  <2>1. PICK b \in Branch, x \in Named : BranchCreate(b, x)
    BY <1>11
  <2>2. TypeOK'
    BY <1>10, <2>1 DEF BranchCreate
  <2> QED
    BY <2>1, <2>2, BranchCreateStep
<1>12. CASE \E b, n \in Branch, force \in BOOLEAN :
              BranchRename(b, n, force) \/ BranchCopy(b, n, force)
  <2>1. PICK b \in Branch, n \in Branch, force \in BOOLEAN :
           BranchRename(b, n, force) \/ BranchCopy(b, n, force)
    BY <1>12
  <2>2. TypeOK'
    BY <1>10, <2>1 DEF BranchRename, BranchCopy
  <2> QED
    BY <2>1, <2>2, BranchRenameStep, BranchCopyStep
<1>13. CASE \E b \in Branch, force \in BOOLEAN : BranchDelete(b, force)
  <2>1. PICK b \in Branch, force \in BOOLEAN : BranchDelete(b, force)
    BY <1>13
  <2>2. TypeOK'
    BY <1>10, <2>1 DEF BranchDelete
  <2> QED
    BY <2>1, <2>2, BranchDeleteStep
<1>14. CASE \E b \in Branch : Switch(b)
  <2>1. PICK b \in Branch : Switch(b)
    BY <1>14
  <2>2. TypeOK'
    BY <1>0, <1>1, <2>1 DEF Switch, TypeOK
  <2> QED
    BY <2>1, <2>2, SwitchStep
<1>15. CASE PackRefs
  <2>1. TypeOK'
    BY <1>0, <1>1, <1>15 DEF PackRefs, TypeOK
  <2> QED
    BY <1>15, <2>1, PackRefsStep
<1>16. CASE Write \/ ClearMarks \/ PrintReport
  <2>1. CoreInv' /\ repo' \in Repo
    BY <1>16, TodoStep
  <2>2. UNCHANGED <<running, culprit, count>> /\ origin' \in {origin, None}
    BY <1>16 DEF Write, ClearMarks, PrintReport
  <2> QED
    BY <1>0, <2>1, <2>2 DEF TypeOK
<1>17. CASE RunTrial
  <2>1. TypeOK'
    BY <1>0, <1>17 DEF RunTrial, TypeOK
  <2> QED
    BY <1>17, <2>1, RunTrialStep
<1>18. CASE RunEnd \/ RunAbort
  <2>1. UNCHANGED <<repo, cmd, todo, culprit, origin, odd, count>> /\ running' = "no"
    BY <1>18 DEF RunEnd, RunAbort
  <2> QED
    BY <1>0, <2>1, RestStep DEF TypeOK
<1>19. CASE Kill
  <2>1. count' \in [commands : 0 .. MaxCommands, kills : 0 .. MaxKills]
    <3>1. MaxKills \in Nat
      BY BisectAssumption DEF BisectAssumption
    <3> QED
      BY <1>0, <1>19, <3>1 DEF Kill, TypeOK
  <2>2. TypeOK'
    BY <1>0, <1>19, <2>1 DEF Kill, TypeOK
  <2> QED
    BY <1>19, <2>2, KillStep
<1>20. CASE UNCHANGED vars
  BY <1>0, <1>20, RestStep DEF vars, TypeOK
<1> QED
  BY <1>2, <1>3, <1>5, <1>6, <1>7, <1>8, <1>9, <1>11, <1>12, <1>13, <1>14, <1>15, <1>16,
     <1>17, <1>18, <1>19, <1>20 DEF Next, Step

-----------------------------------------------------------------------------
(* What follows *)

\* In every reachable state the writes that a command still has to do are each
\* in order where they come and end in a state fit for the next command, and
\* marks, HEAD and the notes of the session are as the properties need them.
THEOREM BisectInvariant == Spec => []BisectInv
<1>1. Init => BisectInv
  BY InitInv
<1>2. BisectInv /\ [Next]_vars => BisectInv'
  BY NextInv
<1> QED
  BY <1>1, <1>2, PTL DEF Spec

\* Whatever the commands and wherever they are killed, the files of a session
\* hold commits, HEAD holds a branch or a commit and the worktree is a commit's.
THEOREM BisectTypeOK == Spec => []TypeOK
<1>1. BisectInv => TypeOK
  BY DEF BisectInv
<1> QED
  BY <1>1, BisectInvariant, PTL

\* Marks are true: bisect_mark records the verdict for the commit that was
\* tested, through restarts, packed marks, switches and branch commands, as
\* long as nothing was killed, left from an older session or moved.
THEOREM BisectMarksAreTrue == Spec => []MarksAreTrue
<1>1. BisectInv => MarksAreTrue
  BY DEF BisectInv, CoreInv, MarksInv, MarksAreTrue, Steady, Truthful, TrueMarks, BadMark,
         GoodMarks
<1> QED
  BY <1>1, BisectInvariant, PTL

\* The branch that reset returns to exists as long as branch -m and -f left that
\* very branch alone, and HEAD names a commit between commands unless such a
\* reset or a killed branch command took its branch.
THEOREM BisectHeadResolves == Spec => []HeadResolves
<1>1. BisectInv => HeadResolves
  <2>1. StartRefInv /\ HeadInv => HeadResolves
    BY DEF StartRefInv, HeadInv, HeadResolves, Kept, Unmoved, Exists
  <2> QED
    BY <2>1 DEF BisectInv, CoreInv
<1> QED
  BY <1>1, BisectInvariant, PTL

\* What bisect_next prints is right: with true marks the single commit reported
\* is the first bad one, whatever the history, options and skipped commits.
THEOREM BisectReportIsRight == Spec => ReportIsRight
<1> DEFINE A == report'.kind \in {"done", "skipped"} /\ Truthful(repo)
                  /\ (repo.names => FirstBad(repo) \in Touches)
                => /\ FirstBad(repo) \in report'.ids
                   /\ report'.kind = "done" => report'.ids = {FirstBad(repo)}
<1>1. BisectInv /\ [Next]_vars => [A]_report
  <2> SUFFICES ASSUME BisectInv, [Next]_vars, report' # report PROVE A
    BY SMTT(30)
  <2>1. report' = NoReport \/ PrintReport
    BY DEF Next, vars, Step, BisectStart, BisectMark, BisectSkip, BisectNext, BisectRun,
           BisectReset, BranchCreate, BranchRename, BranchCopy, BranchDelete, BranchCommand,
           Switch, PackRefs, Run, Write, ClearMarks, RunTrial, RunEnd, RunAbort, Kill
  <2>2. CASE report' = NoReport
    BY <2>2 DEF NoReport
  <2>3. CASE PrintReport
    <3>1. todo # <<>> /\ Head(todo).on = "report" /\ report' = Head(todo).to
      BY <2>3 DEF PrintReport
    <3>2. PICK u \in Repo : Plan(cmd, odd, repo, todo, u) /\ Final(cmd, odd, origin, u)
      BY DEF BisectInv, CoreInv, PlanInv
    <3>3. StepOK(cmd, odd, repo, Head(todo))
      BY <3>1, <3>2, PlanHead
    <3>4. Right(repo, report')
      BY <3>1, <3>3 DEF StepOK
    <3> QED
      BY <3>4 DEF Right
  <2> QED
    BY <2>1, <2>2, <2>3
<1> HIDE DEF A
<1>2. Spec => [][A]_report
  BY <1>1, BisectInvariant, PTL DEF Spec
<1> QED
  BY <1>2 DEF A, ReportIsRight

\* `bisect reset` ends a session on the branch or commit that it began on, and
\* with that commit's files, however the session went.
THEOREM BisectResetReturns == Spec => ResetReturns
<1> DEFINE A == cmd = "reset" /\ repo.start # None /\ repo'.start = None
                  /\ odd \cap {"restarted", "moved", "start"} = {}
                => repo.head = origin /\ repo.work = HeadId(repo)
<1>1. BisectInv /\ [Next]_vars => [A]_repo
  <2> SUFFICES ASSUME BisectInv, [Next]_vars, cmd = "reset", repo.start # None,
                      repo'.start = None, Original(odd)
               PROVE  repo.head = origin /\ repo.work = HeadId(repo)
    BY DEF Original
  <2> DEFINE w == Head(todo)
  <2>1. repo \in Repo
    BY DEF BisectInv, TypeOK
  <2>2. repo' # repo
    OBVIOUS
  <2>3. Write \/ ClearMarks
    BY <2>2
       DEF Next, vars, Step, BisectStart, BisectMark, BisectSkip, BisectNext, BisectRun,
           BisectReset, BranchCreate, BranchRename, BranchCopy, BranchDelete, BranchCommand,
           Switch, PackRefs, PrintReport, RunTrial, RunEnd, RunAbort, Kill
  <2>4. PICK u \in Repo : Plan(cmd, odd, repo, todo, u) /\ Final(cmd, odd, origin, u)
    BY DEF BisectInv, CoreInv, PlanInv
  <2>5. todo # <<>> /\ StepOK(cmd, odd, repo, w)
    BY <2>3, <2>4, PlanHead DEF Write, ClearMarks
  <2>6. Write
    <3>1. ASSUME ClearMarks PROVE repo'.start = repo.start
      BY <2>1, <3>1 DEF ClearMarks, Repo
    <3> QED
      BY <2>3, <3>1
  <2>7. w.on = "start"
    <3>1. repo' = After(repo, w)
      BY <2>6 DEF Write, After
    <3>2. repo'.start = IF w.on = "start" THEN w.to ELSE repo.start
      BY <2>1, <2>5, <3>1, AfterFields DEF StepOK
    <3> QED
      BY <3>2
  <2>8. repo.head = Return(repo) /\ repo.work = repo.start
    BY <2>5, <2>7 DEF StepOK
  <2>9. /\ Whole(odd) /\ repo.startRef # None => repo.branch[repo.startRef] = repo.start
        /\ origin = Return(repo)
    BY DEF BisectInv, CoreInv, SessionInv, Session
  <2>10. Whole(odd)
    BY DEF Whole, Original
  <2>11. /\ repo.startRef \in Branch \cup {None} /\ repo.start \in Commit
         /\ Commit \cap Branch = {}
    BY <2>1, BisectAssumption DEF Repo, BisectAssumption
  <2> QED
    BY <2>8, <2>9, <2>10, <2>11 DEF Return, HeadId
<1> HIDE DEF A
<1>2. Spec => [][A]_repo
  BY <1>1, BisectInvariant, PTL DEF Spec
<1> QED
  BY <1>2 DEF A, ResetReturns
=============================================================================
