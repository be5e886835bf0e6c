-------------------------- MODULE UpdateRefProofs --------------------------
(***************************************************************************)
(* What an update-ref --stdin session guarantees, for every input: that    *)
(* validated operations still hold when their turn comes, and that the     *)
(* reflog of a branch is a chain that ends at its value.                   *)
(***************************************************************************)
EXTENDS UpdateRefStdin, TLAPS, NaturalsInduction, WellFoundedInduction

-----------------------------------------------------------------------------
(* The inductive invariant *)

\* What is trusted was validated, and still holds, all of it; the job that the
\* session is at changes nothing that the rest of the queue looks at.
TrustInv ==
    /\ phase = "reading" /\ trusted => ~batch /\ ValidOps(ops)
    /\ phase = "applying" /\ trusted =>
          /\ NamesDistinct(queue) /\ Plain(queue)
          /\ \A i \in DOMAIN queue : OpHolds(queue[i])
          /\ job["session"] # NoJob => \A i \in DOMAIN queue :
                job["session"].on \notin {queue[i].name, ref[queue[i].name]}

\* The branches that no operation makes symbolic.
Direct == {c \in Branch : \A o \in Op : o.name = c => o.new \notin Branch}

\* The reflog l is a chain that ends at v.
Chain(l) == \A i \in 1 .. Len(l) - 1 : l[i].new = l[i + 1].old
Follows(l, v) == Chain(l) /\ (l # <<>> => l[Len(l)].new = v)

\* p has written b and not yet recorded it.
AtLog(p, b) == job[p].step = "log" /\ job[p].on = b

\* One process at a time is at work on b; what it read as the old value is
\* where the reflog ends, until it records the new one.
Linked(b) ==
    /\ \A p, q \in Process : AtWork(p, b) /\ AtWork(q, b) => p = q
    /\ \A p \in Process :
          job[p].step = "write" /\ job[p].on = b /\ job[p].new # NoVal
          => job[p].old = ref[b]
    /\ \A p \in Process : AtLog(p, b) =>
          /\ ref[b] = job[p].new /\ Chain(log[b])
          /\ job[p].new # NoVal => Follows(log[b], job[p].old)
    /\ (\A p \in Process : ~AtLog(p, b)) => Follows(log[b], ref[b])

LogInv ==
    /\ \A b \in Direct : ref[b] \notin Branch
    /\ \A b \in Direct \ crossed : Linked(b)

\* The session changes references only while it applies operations.
IdleInv == phase # "applying" => job["session"] = NoJob

StdinInv == TypeOK /\ TrustInv /\ LogInv /\ IdleInv

-----------------------------------------------------------------------------
(* Names, values and what an operation looks at *)

LEMMA OpFacts ==
  ASSUME NEW o \in Op
  PROVE  /\ o.kind \in Kind /\ o.name \in Name /\ o.noDeref \in BOOLEAN
         /\ o.kind \in {"update", "create"} => o.new \in Id
         /\ o.kind \in {"symref-update", "symref-create"} => o.new \in Branch
  BY UpdateRefAssumption DEF UpdateRefAssumption, OpType

LEMMA ResolveType ==
  ASSUME TypeOK, NEW n \in Name PROVE Resolve(n) \in Id \cup {NoVal}
  BY UpdateRefAssumption DEF UpdateRefAssumption, TypeOK, Resolve, Val, Name

LEMMA OldIdType ==
  ASSUME TypeOK, NEW n \in Name PROVE OldId(n) \in Id \cup {NoVal}
  BY ResolveType DEF OldId, Name

LEMMA EffectiveType ==
  ASSUME NEW o \in Op
  PROVE  /\ Effective(o) \in Name
         /\ o.name \in Branch => Effective(o) = o.name
  BY OpFacts, UpdateRefAssumption DEF UpdateRefAssumption, Effective, Name

\* An operation looks at its own reference and at the one that leads to.
LEMMA HoldsSame ==
  ASSUME NEW o, ref'[o.name] = ref[o.name],
         ref[o.name] \in Branch => ref'[ref[o.name]] = ref[ref[o.name]]
  PROVE  OpHolds(o)' <=> OpHolds(o)
<1>1. Resolve(o.name)' = Resolve(o.name)
  BY DEF Resolve
<1>2. \A e : VerifyCurrent(o.name, e)' <=> VerifyCurrent(o.name, e)
  BY <1>1 DEF VerifyCurrent
<1>3. \A e : VerifySymrefTarget(o.name, e)' <=> VerifySymrefTarget(o.name, e)
  BY DEF VerifySymrefTarget
<1>4. VerifySymrefOld(o)' <=> VerifySymrefOld(o)
  BY <1>2, <1>3 DEF VerifySymrefOld
<1> QED
  BY <1>1, <1>2, <1>3, <1>4 DEF OpHolds

-----------------------------------------------------------------------------
(* The operations that --batch-updates accepts *)

\* Every set of numbers that is not empty has a least one.
LEMMA LeastNumber ==
  ASSUME NEW T \in SUBSET Nat, T # {}
  PROVE  \E n \in T : \A m \in T : n <= m
<1> DEFINE R == OpToRel(<, Nat)
<1>1. IsWellFoundedOn(R, Nat)
  BY NatLessThanWellFounded
<1>2. ASSUME NEW x \in Nat, NEW y \in Nat, ~(<<x, y>> \in R) PROVE ~(x < y)
  BY <1>2 DEF OpToRel
<1> HIDE DEF R
<1>3. PICK n \in T : \A y \in T : ~ (<<y, n>> \in R)
  BY <1>1, WFMin
<1>4. \A m \in T : ~(m < n)
  BY <1>2, <1>3
<1> QED
  BY <1>4

\* f is the loop of update_ref_validate_stdin_batch_ops over the first n
\* operations of s.
Extend(a, o) == IF Accepts(o) THEN Append(a, o) ELSE a

IsLoop(f, s, n) ==
    f = [i \in 0 .. n |-> IF i = 0 THEN <<>> ELSE Extend(f[i - 1], s[i])]

\* The loop can always go on: consider the least number of operations that it
\* cannot be run on.
LEMMA LoopExists ==
  ASSUME NEW s, NEW n \in Nat PROVE \E f : IsLoop(f, s, n)
<1> DEFINE Bad == {m \in Nat : ~ \E f : IsLoop(f, s, m)}
<1> SUFFICES ASSUME Bad # {} PROVE FALSE
  OBVIOUS
<1>1. PICK m \in Bad : \A j \in Bad : m <= j
  BY LeastNumber
<1>2. m # 0
  <2>1. IsLoop([i \in 0 .. 0 |-> <<>>], s, 0)
    BY DEF IsLoop
  <2> QED
    BY <2>1
<1>3. m - 1 \in Nat /\ m - 1 \notin Bad
  BY <1>1, <1>2
<1>4. PICK g : IsLoop(g, s, m - 1)
  BY <1>3
<1> DEFINE f == [i \in 0 .. m |->
                   IF i < m THEN g[i] ELSE Extend(g[m - 1], s[m])]
<1>5. ASSUME NEW i \in 0 .. m
      PROVE  f[i] = IF i = 0 THEN <<>> ELSE Extend(f[i - 1], s[i])
  <2>0. i # 0 => f[i - 1] = g[i - 1]
    BY <1>2
  <2>1. CASE i < m
    <3>1. g[i] = IF i = 0 THEN <<>> ELSE Extend(g[i - 1], s[i])
      BY <1>3, <1>4, <2>1 DEF IsLoop
    <3> QED
      BY <2>0, <2>1, <3>1
  <2>2. CASE i = m
    BY <1>2, <2>0, <2>2
  <2> QED
    BY <2>1, <2>2
<1>6. IsLoop(f, s, m)
  BY <1>5 DEF IsLoop
<1> QED
  BY <1>6

\* What is accepted comes from the input, is acceptable and names no reference
\* twice if the input does not.
LEMMA AcceptedFacts ==
  ASSUME NEW s \in Seq(Op)
  PROVE  /\ Accepted(s) \in Seq(Op)
         /\ \A k \in DOMAIN Accepted(s) :
               /\ Accepts(Accepted(s)[k])
               /\ \E i \in DOMAIN s : Accepted(s)[k] = s[i]
         /\ NamesDistinct(s) => NamesDistinct(Accepted(s))
<1> DEFINE f == CHOOSE g : IsLoop(g, s, Len(s))
<1>0. Len(s) \in Nat /\ DOMAIN s = 1 .. Len(s)
  OBVIOUS
<1>1. IsLoop(f, s, Len(s))
  BY <1>0, LoopExists
<1>2. Accepted(s) = f[Len(s)]
  BY DEF Accepted, IsLoop, Extend
<1> HIDE DEF f
<1>3. /\ f[0] = <<>>
      /\ \A i \in 1 .. Len(s) : f[i] = Extend(f[i - 1], s[i])
  BY <1>0, <1>1 DEF IsLoop
<1> DEFINE Good(i) ==
      /\ f[i] \in Seq(Op)
      /\ \A k \in 1 .. Len(f[i]) :
            Accepts(f[i][k]) /\ \E j \in 1 .. i : f[i][k] = s[j]
      /\ NamesDistinct(s) =>
            \A k, l \in 1 .. Len(f[i]) : k # l => f[i][k].name # f[i][l].name
    Bad == {i \in 0 .. Len(s) : ~Good(i)}
<1> HIDE DEF Good
<1>4. Bad = {}
  <2> SUFFICES ASSUME Bad # {} PROVE FALSE
    OBVIOUS
  <2>0. Bad \in SUBSET Nat
    BY <1>0
  <2>1. PICK i \in Bad : \A j \in Bad : i <= j
    BY <2>0, LeastNumber
  <2>2. i # 0
    <3>1. f[0] \in Seq(Op) /\ Len(f[0]) = 0
      BY <1>3
    <3>2. Good(0)
      BY <3>1 DEF Good
    <3> QED
      BY <2>1, <3>2
  <2>3. i \in 1 .. Len(s) /\ i - 1 \in 0 .. Len(s) /\ i - 1 \notin Bad
    BY <1>0, <2>1, <2>2
  <2>4. Good(i - 1)
    BY <2>3
  <2>5. CASE ~Accepts(s[i])
    <3>1. f[i] = f[i - 1]
      BY <1>3, <2>3, <2>5 DEF Extend
    <3>2. Good(i)
      BY <2>3, <2>4, <3>1 DEF Good
    <3> QED
      BY <2>1, <3>2
  <2>6. CASE Accepts(s[i])
    <3>1. f[i] = Append(f[i - 1], s[i])
      BY <1>3, <2>3, <2>6 DEF Extend
    <3>0. s[i] \in Op /\ f[i - 1] \in Seq(Op)
      BY <1>0, <2>3, <2>4 DEF Good
    <3> DEFINE n == Len(f[i - 1])
    <3>2. /\ f[i] \in Seq(Op) /\ Len(f[i]) = n + 1 /\ n \in Nat
          /\ f[i][n + 1] = s[i]
          /\ \A k \in 1 .. n : f[i][k] = f[i - 1][k]
      BY <3>0, <3>1
    <3> HIDE DEF n
    <3>3. ASSUME NEW k \in 1 .. Len(f[i])
          PROVE  Accepts(f[i][k]) /\ \E j \in 1 .. i : f[i][k] = s[j]
      <4>1. CASE k = n + 1
        BY <2>3, <2>6, <3>2, <4>1
      <4>2. CASE k \in 1 .. n
        BY <2>3, <2>4, <3>2, <4>2 DEF n, Good
      <4> QED
        BY <3>2, <4>1, <4>2
    <3>4. ASSUME NamesDistinct(s), NEW k \in 1 .. n PROVE f[i][k].name # s[i].name
      <4>1. PICK j \in 1 .. i - 1 : f[i - 1][k] = s[j]
        BY <2>4, <3>4 DEF n, Good
      <4>2. j \in DOMAIN s /\ i \in DOMAIN s /\ j # i
        BY <1>0, <2>3
      <4>3. s[j].name # s[i].name
        BY <3>4, <4>2 DEF NamesDistinct
      <4> QED
        BY <3>2, <3>4, <4>1, <4>3
    <3>5. ASSUME NamesDistinct(s), NEW k \in 1 .. Len(f[i]), NEW l \in 1 .. Len(f[i]),
                 k # l
          PROVE  f[i][k].name # f[i][l].name
      <4>1. CASE k \in 1 .. n /\ l \in 1 .. n
        BY <2>4, <3>2, <3>5, <4>1 DEF n, Good
      <4>2. CASE k = n + 1 /\ l \in 1 .. n
        BY <3>2, <3>4, <3>5, <4>2
      <4>3. CASE l = n + 1 /\ k \in 1 .. n
        BY <3>2, <3>4, <3>5, <4>3
      <4> QED
        BY <3>2, <3>5, <4>1, <4>2, <4>3
    <3>6. Good(i)
      BY <3>2, <3>3, <3>5 DEF Good
    <3> QED
      BY <2>1, <3>6
  <2> QED
    BY <2>5, <2>6
<1>5. Good(Len(s))
  BY <1>0, <1>4
<1>6. DOMAIN Accepted(s) = 1 .. Len(f[Len(s)])
  BY <1>2, <1>5 DEF Good
<1> QED
  BY <1>0, <1>2, <1>5, <1>6 DEF Good, NamesDistinct

-----------------------------------------------------------------------------
(* Applying an operation *)

LEMMA AppendFollows ==
  ASSUME NEW l \in Seq(Entry), NEW v, NEW e \in Entry, Follows(l, v), e.old = v
  PROVE  Follows(Append(l, e), e.new)
<1> DEFINE n == Len(l)
<1>1. /\ n \in Nat /\ Len(Append(l, e)) = n + 1
      /\ Append(l, e)[n + 1] = e
      /\ \A i \in 1 .. n : Append(l, e)[i] = l[i]
      /\ Append(l, e) # <<>>
      /\ n # 0 => l # <<>>
  OBVIOUS
<1> HIDE DEF n
<1>2. n # 0 => l[n].new = v
  BY <1>1 DEF Follows, Chain, n
<1>3. ASSUME NEW i \in 1 .. n PROVE Append(l, e)[i].new = Append(l, e)[i + 1].old
  <2>1. CASE i = n
    BY <1>1, <1>2, <2>1
  <2>2. CASE i # n
    <3>1. l[i].new = l[i + 1].old
      BY <1>1, <2>2 DEF Follows, Chain, n
    <3>2. i + 1 \in 1 .. n
      BY <1>1, <2>2
    <3> QED
      BY <1>1, <3>1, <3>2
  <2> QED
    BY <2>1, <2>2
<1> QED
  BY <1>1, <1>3 DEF Follows, Chain

\* What a job is, and that it is on a reference.
LEMMA JobFacts ==
  ASSUME TypeOK, NEW p \in Process
  PROVE  /\ job[p] = NoJob => job[p].step = "none"
         /\ job[p].step \in {"write", "log", "head", "again"} => job[p] # NoJob
         /\ job[p] # NoJob => /\ job[p] \in Job /\ job[p].on \in Name
                             /\ job[p].new \in Id \cup {NoVal} /\ job[p].old \in Id \cup {NoVal}
         /\ [job EXCEPT ![p] = NoJob] \in [Process -> Job \cup {NoJob}]
         /\ \A step \in {"write", "log", "head", "again"} : job[p] # NoJob =>
               [job EXCEPT ![p] = [job[p] EXCEPT !.step = step]] \in [Process -> Job \cup {NoJob}]
<1>1. job \in [Process -> Job \cup {NoJob}] /\ NoJob.step = "none"
  BY DEF TypeOK, NoJob
<1>2. \A j \in Job : /\ j.step \in {"write", "log", "head", "again"} /\ j.on \in Name
                     /\ j.new \in Id \cup {NoVal} /\ j.old \in Id \cup {NoVal}
                     /\ \A step \in {"write", "log", "head", "again"} :
                           [j EXCEPT !.step = step] \in Job
  BY DEF Job
<1>3. job[p] \in Job \cup {NoJob}
  BY <1>1
<1>4. job[p] = NoJob \/ job[p] \in Job
  BY <1>3
<1> HIDE DEF NoJob, Job
<1> QED
  BY <1>1, <1>2, <1>4

\* A branch whose value and reflog stay, and whose jobs go on as they are or
\* are over without having written.
LEMMA LinkedSame ==
  ASSUME TypeOK, NEW b, Linked(b), ref'[b] = ref[b], log'[b] = log[b],
         \A p \in Process : \/ job'[p] = job[p]
                            \/ ~AtLog(p, b) /\ job'[p].step \notin {"write", "log"}
  PROVE  Linked(b)'
<1>1. \A p \in Process : AtLog(p, b)' <=> AtLog(p, b)
  BY DEF AtLog
<1>2. \A p \in Process : AtWork(p, b)' => AtWork(p, b) /\ job'[p] = job[p]
  BY DEF AtWork
<1>3. \A p \in Process : AtLog(p, b)' => job'[p] = job[p]
  BY DEF AtLog
<1>4. \A p \in Process : job'[p].step = "write" => job'[p] = job[p]
  OBVIOUS
<1>5. /\ Chain(log[b])' <=> Chain(log[b])
      /\ \A v : Follows(log[b], v)' <=> Follows(log[b], v)
      /\ Follows(log[b], ref[b])' <=> Follows(log[b], ref[b])
  BY DEF Chain, Follows
<1>6. (\A p, q \in Process : AtWork(p, b) /\ AtWork(q, b) => p = q)'
  BY <1>2 DEF Linked
<1>7. (\A p \in Process : job[p].step = "write" /\ job[p].on = b /\ job[p].new # NoVal
                         => job[p].old = ref[b])'
  BY <1>4 DEF Linked
<1>8. (\A p \in Process : AtLog(p, b) =>
          /\ ref[b] = job[p].new /\ Chain(log[b])
          /\ job[p].new # NoVal => Follows(log[b], job[p].old))'
  <2> SUFFICES ASSUME NEW p \in Process, AtLog(p, b)'
               PROVE  /\ ref'[b] = job'[p].new /\ Chain(log[b])'
                      /\ job'[p].new # NoVal => Follows(log'[b], job'[p].old)
    BY DEF Chain, Follows
  <2>1. AtLog(p, b) /\ job'[p] = job[p]
    BY <1>1, <1>3
  <2>2. /\ ref[b] = job[p].new /\ Chain(log[b])
        /\ job[p].new # NoVal => Follows(log[b], job[p].old)
    BY <2>1 DEF Linked
  <2> QED
    BY <1>5, <2>1, <2>2
<1>9. ((\A p \in Process : ~AtLog(p, b)) => Follows(log[b], ref[b]))'
  BY <1>1, <1>5 DEF Linked
<1> QED
  BY <1>6, <1>7, <1>8, <1>9 DEF Linked

\* A job begins: on a name that nobody is at work on, or the name is crossed.
LEMMA BeginInv ==
  ASSUME TypeOK, LogInv, NEW p \in Process, NEW o \in Op, Writes(o), Begin(p, o),
         job[p] = NoJob, UNCHANGED store
  PROVE  /\ job' \in [Process -> Job \cup {NoJob}] /\ crossed' \subseteq Name
         /\ job'[p] # NoJob /\ job'[p].on = Effective(o)
         /\ LogInv'
<1> DEFINE n == Effective(o)
           new == IF Deletes(o) THEN NoVal ELSE o.new
           old == IF Deletes(o) THEN NoVal ELSE OldId(n)
           j == [on |-> n, viaHead |-> (o.name = HEAD), new |-> new, old |-> old,
                 step |-> "write"]
<1>1. /\ job' = [job EXCEPT ![p] = j]
      /\ crossed' = crossed \cup {m \in {n} : \E q \in Process : AtWork(q, m)}
  BY DEF Begin
<1>2. n \in Name /\ old \in Id \cup {NoVal} /\ new \in Id \cup {NoVal}
  BY EffectiveType, OldIdType, OpFacts DEF Writes
<1>3. j \in Job /\ j.on = n /\ j.step = "write" /\ j.old = old /\ j.new = new
  BY <1>2 DEF Job
<1> HIDE DEF j
<1>4. /\ job \in [Process -> Job \cup {NoJob}] /\ crossed \subseteq Name
      /\ job[p].step = "none"
  BY JobFacts DEF TypeOK
<1>5. /\ job' \in [Process -> Job \cup {NoJob}] /\ crossed' \subseteq Name
      /\ job'[p] = j /\ \A q \in Process : q # p => job'[q] = job[q]
  BY <1>1, <1>2, <1>3, <1>4
<1>6. j # NoJob
  BY <1>3 DEF NoJob
<1>7. \A b \in Direct : ref'[b] \notin Branch
  BY DEF LogInv, store
<1>8. ASSUME NEW b \in Direct \ crossed' PROVE Linked(b)'
  <2>0. /\ b \in Direct \ crossed /\ Linked(b) /\ ref[b] \notin Branch
        /\ ref'[b] = ref[b] /\ log'[b] = log[b] /\ b \in Branch /\ b \in Name /\ b # HEAD
    BY <1>1, UpdateRefAssumption DEF LogInv, store, Direct, Name, UpdateRefAssumption
  <2>1. CASE b # n
    <3>1. \A q \in Process : /\ AtWork(q, b)' <=> AtWork(q, b)
                             /\ AtLog(q, b)' <=> AtLog(q, b)
                             /\ AtWork(q, b)' => job'[q] = job[q]
      BY <1>3, <1>4, <1>5, <2>1 DEF AtWork, AtLog
    <3>2. \A q \in Process : AtLog(q, b) => AtWork(q, b)
      BY DEF AtWork, AtLog
    <3>3. \A q \in Process : job'[q].step = "write" /\ job'[q].on = b => job'[q] = job[q]
      BY <1>3, <1>5, <2>1
    <3> QED
      BY <2>0, <3>1, <3>2, <3>3 DEF Linked, Chain, Follows
  <2>2. CASE b = n
    <3>1. \A q \in Process : ~AtWork(q, b)
      BY <1>1, <2>2
    <3>2. \A q \in Process : AtWork(q, b)' => q = p
      BY <1>5, <3>1 DEF AtWork
    <3>3. \A q \in Process : ~AtLog(q, b) /\ ~AtLog(q, b)'
      BY <1>3, <1>5, <3>1 DEF AtWork, AtLog
    <3>4. \A q \in Process : job'[q].step = "write" /\ job'[q].on = b => q = p
      BY <3>2 DEF AtWork
    <3>5. new # NoVal => old = ref[b]
      BY <2>0, <2>2 DEF OldId, Resolve
    <3>6. Follows(log[b], ref[b])'
      BY <2>0, <3>3 DEF Linked, Follows, Chain
    <3> QED
      BY <1>3, <1>5, <2>0, <3>2, <3>3, <3>4, <3>5, <3>6 DEF Linked
  <2> QED
    BY <2>1, <2>2
<1> QED
  BY <1>3, <1>5, <1>6, <1>7, <1>8 DEF LogInv

\* The reference is written: only the job's own reference changes.
LEMMA WriteRefInv ==
  ASSUME TypeOK, LogInv, NEW p \in Process, WriteRef(p)
  PROVE  /\ job' \in [Process -> Job \cup {NoJob}] /\ ref' \in [Name -> Val \cup {NoVal}]
         /\ job[p] # NoJob /\ (job'[p] # NoJob => job'[p].on = job[p].on)
         /\ \A m \in Name : m # job[p].on => ref'[m] = ref[m]
         /\ LogInv'
<1> DEFINE j == job[p]
           n == job[p].on
<1>1. /\ j.step = "write" /\ ref' = [ref EXCEPT ![n] = j.new]
      /\ IF j.new = NoVal /\ ref[n] = NoVal THEN End(p) ELSE Goto(p, "log")
      /\ log' = log /\ crossed' = crossed
  BY DEF WriteRef
<1>2. /\ j # NoJob /\ j \in Job /\ n \in Name /\ j.new \in Id \cup {NoVal}
      /\ job \in [Process -> Job \cup {NoJob}] /\ ref \in [Name -> Val \cup {NoVal}]
  BY <1>1, JobFacts DEF TypeOK
<1>3. /\ job' \in [Process -> Job \cup {NoJob}]
      /\ \A q \in Process : q # p => job'[q] = job[q]
      /\ \/ job'[p] = NoJob /\ j.new = NoVal /\ ref[n] = NoVal
         \/ job'[p] = [j EXCEPT !.step = "log"]
  <2>1. CASE j.new = NoVal /\ ref[n] = NoVal
    BY <1>1, <1>2, <2>1, JobFacts DEF End
  <2>2. CASE ~(j.new = NoVal /\ ref[n] = NoVal)
    <3>1. job' = [job EXCEPT ![p] = [j EXCEPT !.step = "log"]]
      BY <1>1, <2>2 DEF Goto
    <3> QED
      BY <1>2, <3>1, JobFacts
  <2> QED
    BY <2>1, <2>2
<1>4. /\ ref' \in [Name -> Val \cup {NoVal}] /\ ref'[n] = j.new
      /\ \A m \in Name : m # n => ref'[m] = ref[m]
  BY <1>1, <1>2 DEF Val
<1> DEFINE k == [j EXCEPT !.step = "log"]
<1>5. k.step = "log" /\ k.on = n /\ k.new = j.new /\ k.old = j.old /\ NoJob.step = "none"
  BY <1>2 DEF Job, NoJob
<1>6. /\ job'[p].step \in {"none", "log"}
      /\ job'[p].step = "log" => job'[p].on = n /\ job'[p].new = j.new /\ job'[p].old = j.old
      /\ job'[p] # NoJob => job'[p].step = "log"
      /\ job'[p].step = "none" => j.new = NoVal /\ ref[n] = NoVal
  <2>1. \/ job'[p] = NoJob /\ j.new = NoVal /\ ref[n] = NoVal
        \/ job'[p] = k
    BY <1>3
  <2> HIDE DEF j, n, k
  <2> QED
    BY <1>5, <2>1
<1>7. ASSUME NEW b \in Direct PROVE ref'[b] \notin Branch
  <2>1. b \in Name /\ Id \cap Branch = {} /\ NoVal \notin Branch /\ ref[b] \notin Branch
    BY UpdateRefAssumption DEF Direct, Name, Val, LogInv, UpdateRefAssumption
  <2> QED
    BY <1>2, <1>4, <2>1
<1>8. ASSUME NEW b \in Direct \ crossed' PROVE Linked(b)'
  <2>0. b \in Name /\ Linked(b) /\ log'[b] = log[b]
    BY <1>1 DEF Direct, Name, LogInv
  <2>1. CASE b # n
    <3>1. ref'[b] = ref[b]
      BY <1>4, <2>0, <2>1
    <3>2. \A q \in Process : /\ AtWork(q, b)' <=> AtWork(q, b)
                             /\ AtLog(q, b)' <=> AtLog(q, b)
                             /\ AtWork(q, b)' \/ AtLog(q, b)' => job'[q] = job[q]
      BY <1>3, <1>6, <2>1 DEF AtWork, AtLog
    <3>3. \A q \in Process : job'[q].step = "write" /\ job'[q].on = b => job'[q] = job[q]
      BY <1>3, <1>6
    <3> QED
      BY <2>0, <3>1, <3>2, <3>3 DEF Linked, Chain, Follows
  <2>2. CASE b = n
    <3>1. \A q \in Process : q # p => ~AtWork(q, b)
      BY <1>1, <2>0, <2>2 DEF Linked, AtWork
    <3>2. \A q \in Process : ~AtLog(q, b)
      BY <1>1, <3>1 DEF AtWork, AtLog
    <3>3. Follows(log[b], ref[b]) /\ (j.new # NoVal => j.old = ref[b])
      BY <1>1, <2>0, <2>2, <3>2 DEF Linked
    <3>4. \A q \in Process : AtWork(q, b)' => q = p
      BY <1>3, <3>1 DEF AtWork
    <3>5. \A q \in Process : AtLog(q, b)' => q = p
      BY <3>4 DEF AtWork, AtLog
    <3>6. \A q \in Process : ~(job'[q].step = "write" /\ job'[q].on = b)
      BY <1>6, <3>4 DEF AtWork
    <3>7. ref'[b] = j.new
      BY <1>4, <2>2
    <3>8. Chain(log'[b]) /\ (j.new # NoVal => Follows(log'[b], j.old))
      BY <2>0, <3>3 DEF Follows
    <3>9. CASE job'[p].step = "log"
      <4>1. AtLog(p, b)' /\ job'[p].new = j.new /\ job'[p].old = j.old
        BY <1>6, <2>2, <3>9 DEF AtLog
      <4> QED
        BY <3>4, <3>5, <3>6, <3>7, <3>8, <4>1 DEF Linked, Chain, Follows
    <3>10. CASE job'[p].step = "none"
      <4>1. ref'[b] = ref[b] /\ \A q \in Process : ~AtLog(q, b)'
        BY <1>6, <2>2, <3>5, <3>7, <3>10 DEF AtLog
      <4>2. Follows(log'[b], ref'[b])
        BY <2>0, <3>3, <4>1
      <4> QED
        BY <3>4, <3>6, <4>1, <4>2 DEF Linked, Chain, Follows
    <3> QED
      BY <1>6, <3>9, <3>10
  <2> QED
    BY <2>1, <2>2
<1> QED
  BY <1>2, <1>3, <1>4, <1>6, <1>7, <1>8 DEF LogInv

\* One reflog with the job recorded.
LEMMA RecordedFacts ==
  ASSUME TypeOK, NEW p \in Process, job[p] # NoJob, NEW n \in Name
  PROVE  /\ Recorded(job[p], n) \in [Name -> Seq(Entry)]
         /\ \A m \in Name : Recorded(job[p], n)[m] =
               IF m # n THEN log[m] ELSE IF job[p].new = NoVal THEN <<>>
               ELSE Append(log[m], NewEntry(job[p]))
         /\ job[p].new # NoVal => /\ NewEntry(job[p]) \in Entry
                                 /\ NewEntry(job[p]).old = job[p].old
                                 /\ NewEntry(job[p]).new = job[p].new
<1>1. log \in [Name -> Seq(Entry)] /\ job[p].new \in Id \cup {NoVal}
      /\ job[p].old \in Id \cup {NoVal}
  BY JobFacts DEF TypeOK
<1>2. job[p].new # NoVal => /\ NewEntry(job[p]) \in Entry
                           /\ NewEntry(job[p]).old = job[p].old
                           /\ NewEntry(job[p]).new = job[p].new
  BY <1>1 DEF NewEntry, Entry
<1>3. \A m \in Name : job[p].new # NoVal => Append(log[m], NewEntry(job[p])) \in Seq(Entry)
  BY <1>1, <1>2
<1> QED
  BY <1>1, <1>2, <1>3 DEF Recorded

\* The reference's own reflog catches up with the reference.
LEMMA RecordReflogInv ==
  ASSUME TypeOK, LogInv, NEW p \in Process, RecordReflog(p)
  PROVE  /\ job' \in [Process -> Job \cup {NoJob}] /\ log' \in [Name -> Seq(Entry)]
         /\ job[p] # NoJob /\ (job'[p] # NoJob => job'[p].on = job[p].on)
         /\ LogInv'
<1> DEFINE j == job[p]
           n == job[p].on
<1>1. /\ j.step = "log" /\ log' = Recorded(j, n) /\ ref' = ref /\ crossed' = crossed
      /\ IF n = HEAD THEN End(p) ELSE Goto(p, "head")
  BY DEF RecordReflog
<1>2. /\ j # NoJob /\ j \in Job /\ n \in Name
      /\ job \in [Process -> Job \cup {NoJob}] /\ log \in [Name -> Seq(Entry)]
  BY <1>1, JobFacts DEF TypeOK
<1>3. /\ job' \in [Process -> Job \cup {NoJob}]
      /\ \A q \in Process : q # p => job'[q] = job[q]
      /\ job'[p] = NoJob \/ job'[p] = [j EXCEPT !.step = "head"]
  BY <1>1, <1>2, JobFacts, ZenonT(40) DEF End, Goto
<1>4. [j EXCEPT !.step = "head"].step = "head" /\ [j EXCEPT !.step = "head"].on = n
  BY <1>2 DEF Job
<1>n. NoJob.step = "none"
  BY DEF NoJob
<1>5. job'[p].step \in {"none", "head"} /\ (job'[p] # NoJob => job'[p].on = n)
  <2> HIDE DEF j, n
  <2> QED
    BY <1>3, <1>4, <1>n
<1>6. /\ log' \in [Name -> Seq(Entry)]
      /\ \A m \in Name : log'[m] = IF m # n THEN log[m] ELSE IF j.new = NoVal THEN <<>>
                                   ELSE Append(log[m], NewEntry(j))
      /\ j.new # NoVal => /\ NewEntry(j) \in Entry /\ NewEntry(j).old = j.old
                          /\ NewEntry(j).new = j.new
  BY <1>1, <1>2, RecordedFacts
<1>7. ASSUME NEW b \in Direct \ crossed' PROVE Linked(b)'
  <2>0. b \in Name /\ Linked(b) /\ ref'[b] = ref[b]
    BY <1>1 DEF Direct, Name, LogInv
  <2>1. CASE b # n
    <3>1. log'[b] = log[b]
      BY <1>6, <2>0, <2>1
    <3>2. ~AtLog(p, b)
      BY <2>1 DEF AtLog
    <3> QED
      BY <1>3, <1>5, <2>0, <3>1, <3>2, LinkedSame
  <2>2. CASE b = n
    <3>1. AtLog(p, b) /\ \A q \in Process : q # p => ~AtWork(q, b)
      BY <1>1, <2>0, <2>2 DEF Linked, AtWork, AtLog
    <3>2. /\ ref[b] = j.new /\ (j.new # NoVal => Follows(log[b], j.old))
      BY <2>0, <3>1 DEF Linked
    <3>3. \A q \in Process : ~AtWork(q, b)'
      BY <1>3, <1>5, <3>1 DEF AtWork
    <3>4. \A q \in Process : ~AtLog(q, b)' /\ ~(job'[q].step = "write" /\ job'[q].on = b)
      BY <3>3 DEF AtWork, AtLog
    <3>5. Follows(log'[b], ref'[b])
      <4>1. CASE j.new = NoVal
        <5>1. log'[b] = <<>>
          BY <1>6, <2>0, <2>2, <4>1
        <5> QED
          BY <5>1 DEF Follows, Chain
      <4>2. CASE j.new # NoVal
        <5>1. log'[b] = Append(log[b], NewEntry(j)) /\ log[b] \in Seq(Entry)
          BY <1>2, <1>6, <2>0, <2>2, <4>2
        <5>2. NewEntry(j) \in Entry /\ NewEntry(j).old = j.old /\ NewEntry(j).new = j.new
          BY <1>6, <4>2
        <5>3. Follows(Append(log[b], NewEntry(j)), NewEntry(j).new)
          BY <3>2, <4>2, <5>1, <5>2, AppendFollows
        <5> QED
          BY <2>0, <3>2, <5>1, <5>2, <5>3
      <4> QED
        BY <4>1, <4>2
    <3> QED
      BY <3>3, <3>4, <3>5 DEF Linked, Chain, Follows
  <2> QED
    BY <2>1, <2>2
<1> QED
  BY <1>1, <1>2, <1>3, <1>5, <1>6, <1>7 DEF LogInv

\* The steps that change HEAD's reflog only, or end the job.
LEMMA RestInv ==
  ASSUME TypeOK, LogInv, NEW p \in Process, RecordHead(p) \/ RecordAgain(p) \/ Interrupt(p)
  PROVE  /\ job' \in [Process -> Job \cup {NoJob}] /\ log' \in [Name -> Seq(Entry)]
         /\ ref' = ref /\ crossed' \subseteq Name
         /\ job[p] # NoJob /\ (job'[p] # NoJob => job'[p].on = job[p].on)
         /\ LogInv'
<1> DEFINE j == job[p]
<1>1. /\ ref' = ref /\ (End(p) \/ Goto(p, "again")) /\ j # NoJob
      /\ log' = log \/ log' = Recorded(j, HEAD)
      /\ \/ j.step \in {"head", "again"} /\ crossed' = crossed
         \/ crossed' = crossed \cup {n \in Name : j.step = "log" /\ j.on = n}
  <2>1. CASE Interrupt(p)
    BY <2>1 DEF Interrupt, store
  <2>2. CASE RecordHead(p) \/ RecordAgain(p)
    <3>1. j.step \in {"head", "again"}
      BY <2>2 DEF RecordHead, RecordAgain
    <3>2. j # NoJob
      BY <3>1, JobFacts
    <3> QED
      BY <2>2, <3>1, <3>2 DEF RecordHead, RecordAgain
  <2> QED
    BY <2>1, <2>2
<1>2. /\ j \in Job /\ HEAD \in Name /\ crossed \subseteq Name
      /\ job \in [Process -> Job \cup {NoJob}] /\ log \in [Name -> Seq(Entry)]
  BY <1>1, JobFacts DEF TypeOK, Name
<1>3. /\ job' \in [Process -> Job \cup {NoJob}]
      /\ \A q \in Process : q # p => job'[q] = job[q]
      /\ job'[p] = NoJob \/ job'[p] = [j EXCEPT !.step = "again"]
  BY <1>1, <1>2, JobFacts DEF End, Goto
<1>4. [j EXCEPT !.step = "again"].step = "again" /\ [j EXCEPT !.step = "again"].on = j.on
  BY <1>2 DEF Job
<1>n. NoJob.step = "none"
  BY DEF NoJob
<1>5. job'[p].step \in {"none", "again"} /\ (job'[p] # NoJob => job'[p].on = j.on)
  <2> HIDE DEF j
  <2> QED
    BY <1>3, <1>4, <1>n
<1>6. log' \in [Name -> Seq(Entry)] /\ \A m \in Name : m # HEAD => log'[m] = log[m]
  BY <1>1, <1>2, RecordedFacts
<1>7. ASSUME NEW b \in Direct \ crossed' PROVE Linked(b)'
  <2>1. /\ b \in Name /\ b # HEAD /\ b \in Direct \ crossed /\ Linked(b)
        /\ ref'[b] = ref[b] /\ log'[b] = log[b]
    BY <1>1, <1>6, UpdateRefAssumption DEF Direct, Name, LogInv, UpdateRefAssumption
  <2>2. ~AtLog(p, b)
    BY <1>1, <2>1 DEF AtLog
  <2> QED
    BY <1>3, <1>5, <2>1, <2>2, LinkedSame
<1>8. crossed' \subseteq Name
  BY <1>1, <1>2
<1> QED
  BY <1>1, <1>3, <1>5, <1>6, <1>7, <1>8 DEF LogInv

-----------------------------------------------------------------------------
(* The session *)

\* When the first d operations leave the queue and only the reference t changes,
\* which the others neither name nor lead to, these keep their references and
\* therefore what they were promised.
LEMMA QueueKept ==
  ASSUME TypeOK, NamesDistinct(queue), Plain(queue), \A i \in DOMAIN queue : OpHolds(queue[i]),
         NEW t, \A m \in Name : m # t => ref'[m] = ref[m],
         NEW d \in {0, 1}, queue' \in Seq(Op), Len(queue') = Len(queue) - d,
         \A i \in 1 .. Len(queue') :
            /\ queue'[i] = queue[i + d] /\ t # queue'[i].name
            /\ ref[queue'[i].name] \in Branch => t # ref[queue'[i].name]
  PROVE  /\ NamesDistinct(queue)' /\ Plain(queue)'
         /\ \A i \in DOMAIN queue' : OpHolds(queue[i])'
         /\ \A i \in DOMAIN queue' : ref'[queue'[i].name] = ref[queue'[i].name]
<1> DEFINE n == Len(queue')
<1>1. /\ queue \in Seq(Op) /\ n \in Nat /\ DOMAIN queue = 1 .. n + d /\ DOMAIN queue' = 1 .. n
      /\ \A i \in 1 .. n : i + d \in DOMAIN queue /\ queue'[i] \in Op
  BY DEF TypeOK
<1> HIDE DEF n
<1>2. \A i \in 1 .. n : /\ queue'[i] = queue[i + d] /\ t # queue'[i].name
                       /\ ref[queue'[i].name] \in Branch => t # ref[queue'[i].name]
  BY DEF n
<1>4. ASSUME NEW i \in 1 .. n, NEW p, p = queue[i + d]
      PROVE  /\ queue'[i] = p /\ ref'[p.name] = ref[p.name]
             /\ Effective(p)' = Effective(p)
             /\ OpHolds(p)'
  <2>1. p \in Op /\ i + d \in DOMAIN queue /\ queue'[i] = p
    BY <1>1, <1>2, <1>4
  <2>3. p.name \in Name /\ Branch \subseteq Name
    BY <2>1, OpFacts DEF Name
  <2>5. /\ ref'[p.name] = ref[p.name]
        /\ ref[p.name] \in Branch => ref'[ref[p.name]] = ref[ref[p.name]]
    BY <1>2, <2>1, <2>3
  <2>6. OpHolds(p)'
    BY <1>4, <2>1, <2>5, HoldsSame
  <2>7. Effective(p)' = Effective(p)
    BY <2>5 DEF Effective
  <2> QED
    BY <2>1, <2>5, <2>6, <2>7
<1>5. ASSUME NEW i \in 1 .. n PROVE OpHolds(queue[i])' /\ ref'[queue'[i].name] = ref[queue'[i].name]
  <2>1. PICK p : p = queue[i + d]
    OBVIOUS
  <2>2. queue'[i] = p /\ OpHolds(p)' /\ ref'[p.name] = ref[p.name]
    BY <1>4, <2>1
  <2> QED
    BY <2>2
       DEF OpHolds, VerifyCurrent, VerifySymrefOld, VerifySymrefTarget, Resolve
<1>6. NamesDistinct(queue)'
  <2>1. ASSUME NEW i \in 1 .. n, NEW j \in 1 .. n, i # j
        PROVE  queue'[i].name # queue'[j].name
    <3>1. i + d \in DOMAIN queue /\ j + d \in DOMAIN queue /\ i + d # j + d
      BY <1>1, <2>1
    <3>2. PICK p, q : p = queue[i + d] /\ q = queue[j + d]
      OBVIOUS
    <3>3. queue'[i] = p /\ queue'[j] = q
      BY <1>4, <3>2
    <3>4. p.name # q.name
      BY <3>1, <3>2 DEF NamesDistinct
    <3> QED
      BY <3>3, <3>4
  <2> QED
    BY <1>1, <2>1 DEF NamesDistinct
<1>7. Plain(queue)'
  <2>1. ASSUME NEW i \in 1 .. n, NEW j \in 1 .. n,
               queue'[i].name # queue'[j].name
        PROVE  (Effective(queue[i]) \notin {queue[j].name, ref[queue[j].name]})'
    <3>1. PICK p, q : p = queue[i + d] /\ q = queue[j + d]
      OBVIOUS
    <3>2. /\ queue'[i] = p /\ queue'[j] = q
          /\ i + d \in DOMAIN queue /\ j + d \in DOMAIN queue
          /\ ref'[q.name] = ref[q.name] /\ Effective(p)' = Effective(p)
      BY <1>1, <1>4, <3>1
    <3>3. Effective(p) \notin {q.name, ref[q.name]}
      BY <2>1, <3>1, <3>2 DEF Plain
    <3>4. Effective(queue[i])' = Effective(p)'
      BY <3>2 DEF Effective
    <3> QED
      BY <3>2, <3>3, <3>4
  <2> QED
    BY <1>1, <2>1 DEF Plain
<1> QED
  BY <1>1, <1>5, <1>6, <1>7

\* The first operation of a validated queue neither names nor changes what the
\* others look at.
LEMMA HeadApart ==
  ASSUME TypeOK, NamesDistinct(queue), Plain(queue), queue # <<>>
  PROVE  /\ Head(queue) \in Op /\ Tail(queue) \in Seq(Op)
         /\ Len(Tail(queue)) = Len(queue) - 1 /\ Len(queue) \in Nat
         /\ \A i \in 1 .. Len(Tail(queue)) :
               /\ Tail(queue)[i] = queue[i + 1]
               /\ Effective(Head(queue)) \notin {Tail(queue)[i].name, ref[Tail(queue)[i].name]}
               /\ Head(queue).name \in Branch =>
                     Head(queue).name \notin {Tail(queue)[i].name, ref[Tail(queue)[i].name]}
               /\ Head(queue).name # Tail(queue)[i].name
<1> DEFINE o == Head(queue)
           n == Len(queue)
<1>1. /\ queue \in Seq(Op) /\ n \in Nat \ {0} /\ o \in Op /\ o = queue[1]
      /\ DOMAIN queue = 1 .. n /\ Tail(queue) \in Seq(Op) /\ Len(Tail(queue)) = n - 1
      /\ \A i \in 1 .. n - 1 : Tail(queue)[i] = queue[i + 1]
  BY DEF TypeOK
<1>2. o.name \in Branch => Effective(o) = o.name
  BY <1>1, EffectiveType
<1> HIDE DEF o, n
<1>3. ASSUME NEW i \in 1 .. n - 1
      PROVE  /\ o.name # queue[i + 1].name
             /\ Effective(o) \notin {queue[i + 1].name, ref[queue[i + 1].name]}
  <2>1. 1 \in DOMAIN queue /\ i + 1 \in DOMAIN queue /\ i + 1 # 1
    BY <1>1
  <2>2. o.name # queue[i + 1].name
    BY <1>1, <2>1 DEF NamesDistinct
  <2> QED
    BY <1>1, <2>1, <2>2 DEF Plain
<1> QED
  BY <1>1, <1>2, <1>3 DEF o, n

\* The queue that a validated input becomes is trusted for good reason.
LEMMA TrustQueue ==
  ASSUME TypeOK, NEW eof, NEW checked, ApplyOps(eof, checked), job["session"] = NoJob,
         batch => WellFormed(ops), ~batch /\ checked => ValidOps(ops)
  PROVE  TrustInv' /\ queue' \in Seq(Op)
<1>0. /\ ops \in Seq(Op) /\ UNCHANGED <<ref, job>> /\ phase' = "applying"
      /\ queue' = IF batch THEN Accepted(ops) ELSE ops
      /\ trusted' => (batch \/ checked) /\ Plain(ops)
  BY DEF TypeOK, ApplyOps, store, work
<1>1. queue' \in Seq(Op)
  BY <1>0, AcceptedFacts
<1>2. ASSUME trusted'
      PROVE  /\ NamesDistinct(queue)' /\ Plain(queue)'
             /\ \A i \in DOMAIN queue' : OpHolds(queue[i])'
  <2>1. NamesDistinct(ops) /\ Plain(ops)
    BY <1>0, <1>2 DEF ValidOps, WellFormed
  <2>2. /\ NamesDistinct(queue')
        /\ \A k \in DOMAIN queue' : \E i \in DOMAIN ops : queue'[k] = ops[i]
        /\ \A k \in DOMAIN queue' : OpHolds(queue'[k])
    <3>1. CASE batch
      <4>1. queue' = Accepted(ops)
        BY <1>0, <3>1
      <4> QED
        BY <1>0, <2>1, <4>1, AcceptedFacts DEF Accepts
    <3>2. CASE ~batch
      BY <1>0, <1>2, <2>1, <3>2 DEF ValidOps
    <3> QED
      BY <3>1, <3>2
  <2>3. Plain(queue')
    <3> SUFFICES ASSUME NEW i \in DOMAIN queue', NEW j \in DOMAIN queue',
                        queue'[i].name # queue'[j].name
                 PROVE  Effective(queue'[i])
                          \notin {queue'[j].name, ref[queue'[j].name]}
      BY DEF Plain
    <3>1. PICK k \in DOMAIN ops, l \in DOMAIN ops :
            queue'[i] = ops[k] /\ queue'[j] = ops[l]
      BY <2>2
    <3> QED
      BY <2>1, <3>1 DEF Plain
  <2>4. Plain(queue)'
    BY <1>0, <2>3 DEF Plain, Effective
  <2>5. ASSUME NEW i \in DOMAIN queue' PROVE OpHolds(queue[i])'
    <3>1. OpHolds(queue'[i])
      BY <2>2
    <3> QED
      BY <1>0, <3>1
         DEF OpHolds, VerifyCurrent, VerifySymrefOld, VerifySymrefTarget, Resolve
  <2>6. NamesDistinct(queue)'
    BY <2>2 DEF NamesDistinct
  <2> QED
    BY <2>4, <2>5, <2>6
<1> QED
  BY <1>0, <1>1, <1>2 DEF TrustInv

\* Steps that leave the references, what is queued and its validation alone;
\* the session's job is the same or over.
LEMMA TrustSame ==
  ASSUME TrustInv, UNCHANGED <<ref, ops, queue, batch>>,
         trusted' => trusted /\ phase' = phase,
         job'["session"] # NoJob =>
            job["session"] # NoJob /\ job'["session"].on = job["session"].on
  PROVE  TrustInv'
<1>1. ASSUME ValidOps(ops) PROVE ValidOps(ops)'
  BY <1>1 DEF ValidOps, WellFormed, NamesDistinct, DerefOk, OpHolds, VerifyCurrent,
              VerifySymrefOld, VerifySymrefTarget, Resolve
<1>2. ASSUME NamesDistinct(queue), Plain(queue),
             \A i \in DOMAIN queue : OpHolds(queue[i])
      PROVE  /\ NamesDistinct(queue)' /\ Plain(queue)'
             /\ \A i \in DOMAIN queue' : OpHolds(queue[i])'
  BY <1>2 DEF NamesDistinct, Plain, Effective, OpHolds, VerifyCurrent,
              VerifySymrefOld, VerifySymrefTarget, Resolve
<1> QED
  BY <1>1, <1>2 DEF TrustInv

LEMMA LogSame == ASSUME LogInv, UNCHANGED <<ref, log, job, crossed>> PROVE LogInv'
  BY DEF LogInv, Linked, AtWork, AtLog, Follows, Chain

\* update_ref_apply_stdin_ops takes over.
LEMMA ApplyOpsInv ==
  ASSUME StdinInv, NEW eof \in BOOLEAN, NEW checked \in BOOLEAN, phase = "reading",
         ApplyOps(eof, checked),
         batch => WellFormed(ops), ~batch /\ checked => ValidOps(ops)
  PROVE  StdinInv'
<1>0. job["session"] = NoJob
  BY DEF StdinInv, IdleInv
<1>1. TrustInv' /\ queue' \in Seq(Op)
  BY <1>0, TrustQueue DEF StdinInv
<1>3. UNCHANGED <<ref, log, job, crossed, noDeref, batch, rivals>>
  BY DEF ApplyOps, store, work
<1>2. LogInv'
  BY <1>3, LogSame DEF StdinInv
<1>4. inTx' \in BOOLEAN /\ prepared' \in BOOLEAN /\ trusted' \in BOOLEAN
  BY DEF ApplyOps, Clear
<1>5. commits' \in 0 .. MaxCommits
  BY UpdateRefAssumption DEF StdinInv, TypeOK, ApplyOps, UpdateRefAssumption
<1>6. phase' = "applying" /\ ops' = <<>> /\ atEof' = eof
  BY DEF ApplyOps, Clear
<1>7. TypeOK'
  BY <1>1, <1>3, <1>4, <1>5, <1>6 DEF StdinInv, TypeOK
<1> QED
  BY <1>1, <1>2, <1>6, <1>7 DEF StdinInv, IdleInv

LEMMA InitInv == Init => StdinInv
<1> SUFFICES ASSUME Init PROVE StdinInv
  OBVIOUS
<1> USE UpdateRefAssumption DEF UpdateRefAssumption, Init
<1>0. log \in [Name -> Seq(Entry)]
  <2>1. ASSUME NEW n \in Name, ref[n] \in Id
        PROVE  <<[old |-> NoVal, new |-> ref[n]]>> \in Seq(Entry)
    BY <2>1 DEF Entry
  <2> QED
    BY <2>1
<1>a. /\ ref \in [Name -> Val \cup {NoVal}]
      /\ {inTx, prepared, noDeref, batch, atEof, trusted} \subseteq BOOLEAN
      /\ job \in [Process -> Job \cup {NoJob}] /\ crossed \subseteq Name
  OBVIOUS
<1>b. commits \in 0 .. MaxCommits /\ rivals \in 0 .. MaxRivals
  OBVIOUS
<1>c. ops \in Seq(Op) /\ queue \in Seq(Op)
  OBVIOUS
<1>1. TypeOK
  BY <1>0, <1>a, <1>b, <1>c DEF TypeOK
<1>2. TrustInv /\ IdleInv
  BY DEF TrustInv, IdleInv, Process
<1>3. ASSUME NEW b \in Direct PROVE ref[b] \notin Branch /\ Follows(log[b], ref[b])
  <2>0. b \in Branch /\ b \in Name
    BY DEF Direct, Name
  <2>1. CASE ref[b] \in Id
    <3>1. log[b] = <<[old |-> NoVal, new |-> ref[b]]>>
      BY <2>0, <2>1
    <3> QED
      BY <2>0, <3>1 DEF Follows, Chain
  <2>2. CASE ref[b] \notin Id
    <3>1. log[b] = <<>>
      BY <2>0, <2>2
    <3> QED
      BY <2>0, <3>1 DEF Follows, Chain
  <2> QED
    BY <2>1, <2>2
<1>4. \A p \in Process : job[p].step = "none"
  BY DEF NoJob
<1>5. LogInv
  BY <1>3, <1>4 DEF LogInv, Linked, AtWork, AtLog
<1> QED
  BY <1>1, <1>2, <1>5 DEF StdinInv

\* The next operation: its job begins, a symbolic reference is written, or it
\* only was to be verified.
LEMMA ApplyNextInv ==
  ASSUME StdinInv, ApplyNext PROVE StdinInv'
<1> DEFINE o == Head(queue)
<1>0. TypeOK /\ TrustInv /\ LogInv
  BY DEF StdinInv
<1>1. /\ phase = "applying" /\ queue # <<>> /\ o \in Op /\ Tail(queue) \in Seq(Op)
      /\ job["session"] = NoJob /\ "session" \in Process
      /\ UNCHANGED <<log, session, trusted, commits, rivals>>
  BY <1>0 DEF ApplyNext, TypeOK, Process
<1>2. CASE Fails(o)
  <2>1. phase' = "failed" /\ UNCHANGED <<ref, queue, work>>
    BY <1>2 DEF ApplyNext
  <2>2. TypeOK'
    BY <1>0, <1>1, <2>1 DEF TypeOK, session, work
  <2>3. TrustInv' /\ IdleInv'
    BY <1>1, <2>1 DEF TrustInv, IdleInv, work
  <2> QED
    BY <1>0, <1>1, <2>1, <2>2, <2>3, LogSame DEF StdinInv, work
<1>3. CASE ~Fails(o)
  <2>1. /\ IF Writes(o) THEN Begin("session", o) ELSE UNCHANGED work
        /\ ref' = IF o.kind \in {"symref-update", "symref-create"}
                  THEN [ref EXCEPT ![o.name] = o.new] ELSE ref
        /\ queue' = Tail(queue) /\ phase' = phase
    BY <1>3 DEF ApplyNext
  <2> HIDE DEF o
  <2>2. /\ job' \in [Process -> Job \cup {NoJob}] /\ crossed' \subseteq Name
        /\ ref' \in [Name -> Val \cup {NoVal}] /\ LogInv'
        /\ \A m \in Name : m # o.name => ref'[m] = ref[m]
        /\ \/ ref' = ref
           \/ o.kind \in {"symref-update", "symref-create"}
        /\ \/ job' = job
           \/ ref' = ref /\ job'["session"] # NoJob /\ job'["session"].on = Effective(o)
    <3>0. ref \in [Name -> Val \cup {NoVal}] /\ o.name \in Name
      BY <1>0, <1>1, OpFacts DEF TypeOK
    <3>1. CASE Writes(o)
      <4>1. ref' = ref /\ Begin("session", o) /\ UNCHANGED store
        BY <1>1, <2>1, <3>1 DEF Writes, Deletes, store
      <4>2. /\ job' \in [Process -> Job \cup {NoJob}] /\ crossed' \subseteq Name /\ LogInv'
            /\ job'["session"] # NoJob /\ job'["session"].on = Effective(o)
        BY <1>0, <1>1, <3>1, <4>1, BeginInv
      <4> QED
        BY <3>0, <4>1, <4>2
    <3>2. CASE ~Writes(o) /\ o.kind \in {"symref-update", "symref-create"}
      <4>1. ref' = [ref EXCEPT ![o.name] = o.new] /\ o.new \in Branch
            /\ job' = job /\ crossed' = crossed /\ log' = log
        BY <1>1, <2>1, <3>2, OpFacts DEF work
      <4>2. \A b \in Direct : b # o.name /\ b \in Name
        BY <1>1, <4>1 DEF Direct, Name
      <4>3. \A b \in Direct : ref'[b] = ref[b]
        BY <3>0, <4>1, <4>2
      <4>4. LogInv'
        <5>1. \A b \in Direct \ crossed' : Linked(b)'
          BY <1>0, <4>1, <4>3, LinkedSame DEF LogInv
        <5> QED
          BY <1>0, <4>3, <5>1 DEF LogInv
      <4>5. ref' \in [Name -> Val \cup {NoVal}] /\ \A m \in Name : m # o.name => ref'[m] = ref[m]
        BY <3>0, <4>1 DEF Val
      <4> QED
        BY <1>0, <3>2, <4>1, <4>4, <4>5 DEF TypeOK
    <3>3. CASE ~Writes(o) /\ o.kind \notin {"symref-update", "symref-create"}
      <4>1. ref' = ref /\ job' = job /\ crossed' = crossed /\ log' = log
        BY <1>1, <2>1, <3>3 DEF work
      <4> QED
        BY <1>0, <3>0, <4>1, LogSame DEF TypeOK
    <3> QED
      BY <3>1, <3>2, <3>3
  <2>3. TypeOK'
    BY <1>0, <1>1, <2>1, <2>2 DEF TypeOK, session
  <2>4. ASSUME trusted
        PROVE  /\ NamesDistinct(queue)' /\ Plain(queue)'
               /\ \A i \in DOMAIN queue' : OpHolds(queue[i])'
               /\ job'["session"] # NoJob => \A i \in DOMAIN queue' :
                     job'["session"].on \notin {queue'[i].name, ref'[queue'[i].name]}
    <3>1. NamesDistinct(queue) /\ Plain(queue) /\ \A i \in DOMAIN queue : OpHolds(queue[i])
      BY <1>0, <1>1, <2>4 DEF TrustInv
    <3>2. /\ queue' \in Seq(Op) /\ Len(queue') = Len(queue) - 1
          /\ \A i \in 1 .. Len(queue') :
               /\ queue'[i] = queue[i + 1]
               /\ Effective(o) \notin {queue'[i].name, ref[queue'[i].name]}
               /\ o.name \in Branch => o.name \notin {queue'[i].name, ref[queue'[i].name]}
               /\ o.name # queue'[i].name
      BY <1>0, <1>1, <2>1, <3>1, HeadApart DEF o
    <3>3. DOMAIN queue' = 1 .. Len(queue') /\ \A i \in 1 .. Len(queue') : queue'[i].name \in Name
      BY <3>2, OpFacts
    <3>4. \A i \in 1 .. Len(queue') :
            /\ queue'[i] = queue[i + 1] /\ o.name # queue'[i].name
            /\ ref[queue'[i].name] \in Branch => o.name # ref[queue'[i].name]
      BY <3>2, UpdateRefAssumption DEF UpdateRefAssumption
    <3>5. /\ NamesDistinct(queue)' /\ Plain(queue)'
          /\ \A i \in DOMAIN queue' : OpHolds(queue[i])'
      BY <1>0, <2>2, <3>1, <3>2, <3>4, QueueKept
    <3>6. ASSUME job'["session"] # NoJob, NEW i \in DOMAIN queue'
          PROVE  job'["session"].on \notin {queue'[i].name, ref'[queue'[i].name]}
      BY <1>1, <2>2, <3>2, <3>3, <3>6
    <3> QED
      BY <3>5, <3>6
  <2>5. TrustInv' /\ IdleInv'
    BY <1>1, <2>1, <2>4 DEF TrustInv, IdleInv
  <2> QED
    BY <2>2, <2>3, <2>5 DEF StdinInv
<1> QED
  BY <1>2, <1>3

\* Each step of the session, and of the rival, keeps the invariant.
LEMMA StdinStep == StdinInv /\ [Next]_vars => StdinInv'
<1> SUFFICES ASSUME StdinInv, [Next]_vars PROVE StdinInv'
  OBVIOUS
<1>0. TypeOK /\ TrustInv /\ LogInv /\ IdleInv
  BY DEF StdinInv
<1>r. ASSUME Reject, phase = "reading" PROVE StdinInv'
  <2>0. /\ phase' = "rejected"
        /\ UNCHANGED <<ref, log, session, queue, trusted, job, crossed, commits, rivals>>
    BY <1>r DEF Reject, store, work
  <2>1. TrustInv' /\ IdleInv'
    BY <1>0, <1>r, <2>0 DEF TrustInv, IdleInv
  <2>2. TypeOK'
    BY <1>0, <2>0 DEF TypeOK, session
  <2> QED
    BY <1>0, <2>0, <2>1, <2>2, LogSame DEF StdinInv
<1>1. CASE Start
  BY <1>0, <1>1, TrustSame, LogSame DEF Start, StdinInv, IdleInv, TypeOK, store, work
<1>2. CASE OptionNoDeref
  BY <1>0, <1>2, TrustSame, LogSame DEF OptionNoDeref, StdinInv, IdleInv, TypeOK, store, work
<1>3. CASE Push
  <2>1. ops' \in Seq(Op) /\ trusted' = FALSE /\ noDeref' = FALSE
    BY <1>0, <1>3 DEF Push, TypeOK
  <2>2. TypeOK'
    BY <1>0, <1>3, <2>1 DEF Push, TypeOK, store, work
  <2>3. TrustInv'
    BY <2>1 DEF TrustInv
  <2> QED
    BY <1>0, <1>3, <2>2, <2>3, LogSame DEF Push, StdinInv, IdleInv, store, work
<1>4. CASE BadLine
  BY <1>4, <1>r DEF BadLine, Reading
<1>5. CASE Prepare
  <2>1. CASE Reject
    BY <1>5, <2>1, <1>r DEF Prepare, Reading
  <2>2. CASE ~Reject
    <3>1. /\ phase = "reading" /\ prepared' = TRUE /\ trusted' = ~batch
          /\ IF batch THEN WellFormed(ops) ELSE ValidOps(ops)
          /\ UNCHANGED <<store, ops, inTx, noDeref, batch, phase, queue,
                         atEof, work, commits, rivals>>
      BY <1>5, <2>2 DEF Prepare, Reading
    <3>2. TypeOK'
      <4>1. trusted' \in BOOLEAN /\ prepared' \in BOOLEAN
        BY <3>1
      <4> QED
        BY <1>0, <3>1, <4>1 DEF TypeOK, store, work
    <3>3. ~batch => ValidOps(ops)'
      BY <3>1 DEF ValidOps, WellFormed, NamesDistinct, DerefOk, OpHolds,
                  VerifyCurrent, VerifySymrefOld, VerifySymrefTarget, Resolve, store
    <3>4. TrustInv'
      BY <3>1, <3>3 DEF TrustInv
    <3> QED
      BY <1>0, <3>1, <3>2, <3>4, LogSame DEF StdinInv, IdleInv, store, work
  <2> QED
    BY <2>1, <2>2
<1>6. CASE Commit
  <2>1. CASE Reject
    BY <1>6, <2>1, <1>r DEF Commit, Reading
  <2>2. CASE ~Reject
    <3> DEFINE checked == IF inTx /\ ~prepared THEN TRUE ELSE trusted
    <3>1. /\ phase = "reading" /\ ApplyOps(FALSE, checked)
          /\ ~(batch /\ ~WellFormed(ops))
          /\ ~(~batch /\ inTx /\ ~prepared /\ ~ValidOps(ops))
      BY <1>6, <2>2 DEF Commit, Reading
    <3>2. checked \in BOOLEAN
      BY <1>0 DEF TypeOK
    <3>3. ~batch /\ checked => ValidOps(ops)
      BY <1>0, <3>1 DEF TrustInv
    <3> HIDE DEF checked
    <3> QED
      BY <3>1, <3>2, <3>3, ApplyOpsInv
  <2> QED
    BY <2>1, <2>2
<1>7. CASE Abort
  <2>0. /\ ops' = <<>> /\ inTx' = FALSE /\ prepared' = FALSE /\ trusted' = FALSE
        /\ UNCHANGED <<ref, log, noDeref, batch, phase, queue, atEof, job, crossed, commits,
                       rivals>>
    BY <1>7 DEF Abort, Clear, store, work
  <2>b. {inTx', prepared', noDeref', batch', atEof', trusted'} \subseteq BOOLEAN
    BY <1>0, <2>0 DEF TypeOK
  <2>1. TypeOK'
    BY <1>0, <2>0, <2>b DEF TypeOK
  <2>2. TrustInv'
    BY <1>7 DEF Abort, TrustInv
  <2> QED
    BY <1>0, <2>0, <2>1, <2>2, LogSame DEF StdinInv, IdleInv
<1>8. CASE Eof
  <2>1. CASE Reject
    BY <1>8, <2>1, <1>r DEF Eof, Reading
  <2>2. CASE ~Reject /\ (inTx \/ ops = <<>>)
    <3>1. /\ phase = "reading" /\ phase' = "done"
          /\ UNCHANGED <<store, session, queue, trusted, work, commits, rivals>>
      BY <1>8, <2>2 DEF Eof, Reading
    <3>2. TypeOK'
      BY <1>0, <3>1 DEF TypeOK, store, session, work
    <3>3. TrustInv'
      BY <3>1 DEF TrustInv
    <3> QED
      BY <1>0, <3>1, <3>2, <3>3, LogSame DEF StdinInv, IdleInv, store, work
  <2>3. CASE ~Reject /\ ~(inTx \/ ops = <<>>)
    <3>1. /\ phase = "reading" /\ IF batch THEN WellFormed(ops) ELSE ValidOps(ops)
          /\ ApplyOps(TRUE, TRUE)
      BY <1>8, <2>3 DEF Eof, Reading
    <3> QED
      BY <3>1, ApplyOpsInv
  <2> QED
    BY <2>1, <2>2, <2>3
<1>9. CASE ApplyNext
  BY <1>9, ApplyNextInv
<1>10. CASE ApplyDone
  <2>0. /\ phase = "applying" /\ phase' \in {"done", "reading"} /\ trusted' = FALSE
        /\ job["session"] = NoJob
        /\ UNCHANGED <<store, session, queue, work, commits, rivals>>
    BY <1>10 DEF ApplyDone
  <2>1. TypeOK'
    BY <1>0, <2>0 DEF TypeOK, store, session, work
  <2>2. TrustInv' /\ IdleInv'
    BY <2>0 DEF TrustInv, IdleInv, work
  <2> QED
    BY <1>0, <2>0, <2>1, <2>2, LogSame DEF StdinInv, store, work
<1>11. CASE Rival
  <2>0. PICK o \in Op : Begin("rival", o) /\ Writes(o)
    BY <1>11 DEF Rival, Writes, Deletes
  <2>1. /\ rivals' \in 0 .. MaxRivals /\ job["rival"] = NoJob
        /\ UNCHANGED <<store, session, phase, queue, trusted, commits>>
    BY <1>0, <1>11, UpdateRefAssumption DEF Rival, TypeOK, UpdateRefAssumption
  <2>2. /\ job' \in [Process -> Job \cup {NoJob}] /\ crossed' \subseteq Name /\ LogInv'
    BY <1>0, <2>0, <2>1, BeginInv DEF Process
  <2>3. job'["session"] = job["session"]
    BY <1>0, <2>0 DEF Begin, TypeOK, Process
  <2>4. TypeOK'
    BY <1>0, <2>1, <2>2 DEF TypeOK, session, store
  <2>5. TrustInv' /\ IdleInv'
    BY <1>0, <2>1, <2>3, TrustSame DEF IdleInv, session, store
  <2> QED
    BY <2>2, <2>4, <2>5 DEF StdinInv
<1>12. ASSUME NEW p \in Process, JobStep(p) PROVE StdinInv'
  <2>0. "session" \in Process /\ UNCHANGED <<session, queue, commits, rivals>>
    BY <1>12 DEF JobStep, WriteRef, RecordReflog, RecordHead, RecordAgain, Interrupt, Process
  <2>1. CASE WriteRef(p)
    <3>1. /\ trusted' = (trusted /\ p = "session")
          /\ UNCHANGED <<log, phase, crossed>>
      BY <2>1 DEF WriteRef
    <3>2. /\ job' \in [Process -> Job \cup {NoJob}] /\ ref' \in [Name -> Val \cup {NoVal}]
          /\ job[p] # NoJob /\ (job'[p] # NoJob => job'[p].on = job[p].on)
          /\ \A m \in Name : m # job[p].on => ref'[m] = ref[m]
          /\ LogInv'
      BY <1>0, <2>1, WriteRefInv
    <3>3. \A q \in Process : q # p => job'[q] = job[q]
      BY <1>0, <2>1 DEF WriteRef, End, Goto, TypeOK
    <3>4. TypeOK'
      <4>1. trusted' \in BOOLEAN
        BY <3>1
      <4> QED
        BY <1>0, <2>0, <3>1, <3>2, <4>1 DEF TypeOK, session
    <3>5. IdleInv'
      BY <1>0, <2>0, <3>1, <3>2, <3>3 DEF IdleInv
    <3>6. TrustInv'
      <4> SUFFICES ASSUME trusted' PROVE TrustInv'
        BY DEF TrustInv
      <4>1. p = "session" /\ trusted /\ phase = "applying"
        BY <1>0, <3>1, <3>2 DEF IdleInv
      <4>2. /\ NamesDistinct(queue) /\ Plain(queue)
            /\ \A i \in DOMAIN queue : OpHolds(queue[i])
            /\ \A i \in DOMAIN queue : job[p].on \notin {queue[i].name, ref[queue[i].name]}
        BY <1>0, <3>2, <4>1 DEF TrustInv
      <4>3. /\ queue' = queue /\ queue \in Seq(Op) /\ DOMAIN queue = 1 .. Len(queue)
            /\ Len(queue) \in Nat
        BY <1>0, <2>0 DEF TypeOK
      <4>4. /\ NamesDistinct(queue)' /\ Plain(queue)'
            /\ \A i \in DOMAIN queue' : OpHolds(queue[i])'
            /\ \A i \in DOMAIN queue' : ref'[queue'[i].name] = ref[queue'[i].name]
        <5>0. PICK t : t = job[p].on
          OBVIOUS
        <5>1. \A m \in Name : m # t => ref'[m] = ref[m]
          BY <3>2, <5>0
        <5>2. PICK d \in {0, 1} : d = 0
          OBVIOUS
        <5>3. Len(queue') = Len(queue) - d /\ queue' \in Seq(Op)
          BY <4>3, <5>2
        <5>4. ASSUME NEW i \in 1 .. Len(queue')
              PROVE  /\ queue'[i] = queue[i + d] /\ t # queue'[i].name
                     /\ ref[queue'[i].name] \in Branch => t # ref[queue'[i].name]
          <6>1. i + d = i /\ i \in DOMAIN queue
            BY <4>3, <5>2
          <6> QED
            BY <4>2, <4>3, <5>0, <6>1
        <5>5. TypeOK
          BY <1>0
        <5> QED
          BY <4>2, <5>1, <5>3, <5>4, <5>5, QueueKept, ZenonT(60)
      <4>5. ASSUME job'["session"] # NoJob, NEW i \in DOMAIN queue'
            PROVE  job'["session"].on \notin {queue'[i].name, ref'[queue'[i].name]}
        BY <3>2, <4>1, <4>2, <4>3, <4>4, <4>5
      <4> QED
        BY <3>1, <4>1, <4>4, <4>5 DEF TrustInv
    <3> QED
      BY <3>2, <3>4, <3>5, <3>6 DEF StdinInv
  <2>2. CASE ~WriteRef(p)
    <3>1. /\ job' \in [Process -> Job \cup {NoJob}] /\ log' \in [Name -> Seq(Entry)]
          /\ ref' = ref /\ crossed' \subseteq Name
          /\ job[p] # NoJob /\ (job'[p] # NoJob => job'[p].on = job[p].on)
          /\ LogInv'
      <4>1. CASE RecordReflog(p)
        BY <1>0, <4>1, RecordReflogInv DEF RecordReflog, TypeOK
      <4>2. CASE RecordHead(p) \/ RecordAgain(p) \/ Interrupt(p)
        BY <1>0, <4>2, RestInv
      <4> QED
        BY <1>12, <2>2, <4>1, <4>2 DEF JobStep
    <3>2. \A q \in Process : q # p => job'[q] = job[q]
      BY <1>0, <1>12, <2>2
         DEF JobStep, RecordReflog, RecordHead, RecordAgain, Interrupt, End, Goto, TypeOK
    <3>3. /\ trusted' = trusted
          /\ phase' = phase \/ (phase' = "failed" /\ job'["session"] = NoJob)
      <4>1. CASE Interrupt(p)
        <5>1. trusted' = trusted
          BY <4>1, Zenon DEF Interrupt
        <5>2. phase' = IF p = "session" THEN "failed" ELSE phase
          BY <4>1, Zenon DEF Interrupt
        <5>3. job' = [job EXCEPT ![p] = NoJob]
          BY <4>1, Zenon DEF Interrupt, End
        <5>4. job'[p] = NoJob
          BY <1>0, <5>3 DEF TypeOK
        <5> QED
          BY <5>1, <5>2, <5>4
      <4>2. CASE RecordReflog(p) \/ RecordHead(p) \/ RecordAgain(p)
        <5>1. trusted' = trusted /\ phase' = phase
          BY <4>2, Zenon DEF RecordReflog, RecordHead, RecordAgain
        <5> QED
          BY <5>1
      <4> QED
        BY <1>12, <2>2, <4>1, <4>2 DEF JobStep
    <3>4. TypeOK'
      BY <1>0, <2>0, <3>1, <3>3 DEF TypeOK, session
    <3>5. IdleInv'
      BY <1>0, <2>0, <3>1, <3>2, <3>3 DEF IdleInv
    <3>6. job'["session"] # NoJob =>
            job["session"] # NoJob /\ job'["session"].on = job["session"].on
      BY <2>0, <3>1, <3>2
    <3>7. TrustInv'
      <4>1. CASE phase' = phase
        BY <1>0, <2>0, <3>1, <3>3, <3>6, <4>1, TrustSame DEF session
      <4>2. CASE phase' = "failed"
        BY <4>2 DEF TrustInv
      <4> QED
        BY <3>3, <4>1, <4>2
    <3> QED
      BY <3>1, <3>4, <3>5, <3>7 DEF StdinInv
  <2> QED
    BY <2>1, <2>2
<1>13. CASE UNCHANGED vars
  <2>1. TypeOK'
    BY <1>0, <1>13 DEF TypeOK, vars
  <2>2. TrustInv'
    BY <1>0, <1>13, TrustSame DEF vars
  <2>3. LogInv' /\ IdleInv'
    BY <1>0, <1>13, LogSame DEF vars, IdleInv
  <2> QED
    BY <2>1, <2>2, <2>3 DEF StdinInv
<1> QED
  BY <1>1, <1>2, <1>3, <1>4, <1>5, <1>6, <1>7, <1>8, <1>9, <1>10, <1>11, <1>12, <1>13
     DEF Next

LEMMA StdinAlways == Spec => []StdinInv
  BY InitInv, StdinStep, PTL DEF Spec

-----------------------------------------------------------------------------
(* Theorems *)

\* The type invariant of the session and of the references it changes.
THEOREM UpdateRefTypeOK == Spec => []TypeOK
<1>1. StdinInv => TypeOK
  BY DEF StdinInv
<1> QED
  BY <1>1, StdinAlways, PTL

\* However long the input: an operation that was validated, by prepare, by
\* commit, at the end of the input or for --batch-updates, finds what it
\* expects when its turn comes in update_ref_apply_stdin_ops, unless another
\* process or a symbolic name comes between.
THEOREM ValidatedOpsStillHold == Spec => []ValidatedOpsHold
<1>1. StdinInv => ValidatedOpsHold
  <2> SUFFICES ASSUME StdinInv, phase = "applying", trusted, queue # <<>>
               PROVE  OpHolds(Head(queue))
    BY DEF ValidatedOpsHold
  <2>1. 1 \in DOMAIN queue /\ Head(queue) = queue[1]
    BY DEF StdinInv, TypeOK
  <2> QED
    BY <2>1 DEF StdinInv, TrustInv
<1> QED
  BY <1>1, StdinAlways, PTL

\* For any branches, operations and number of rivals, step by step: the reflog
\* of a branch that is never made symbolic is a chain, which ends at the
\* branch's value unless an update is between its write and its log entry
\* (update_ref_write, update_ref_delete).  Excepted are branches at which two
\* processes were between read and log entry at once, or one ended there.
THEOREM LogsFollowBranches == Spec => []BranchLogFollowsBranch
<1>1. StdinInv => BranchLogFollowsBranch
  <2> SUFFICES ASSUME StdinInv, NEW b \in Direct \ crossed
               PROVE  /\ Chain(log[b])
                      /\ log[b] # <<>> /\ (\A p \in Process : ~AtLog(p, b))
                         => log[b][Len(log[b])].new = ref[b]
    BY DEF BranchLogFollowsBranch, Direct, Chain, AtLog
  <2>1. Linked(b)
    BY DEF StdinInv, LogInv
  <2>2. Chain(log[b])
    BY <2>1 DEF Linked, Follows
  <2> QED
    BY <2>1, <2>2 DEF Linked, Follows
<1> QED
  BY <1>1, StdinAlways, PTL
=============================================================================
