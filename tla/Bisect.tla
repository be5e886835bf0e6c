------------------------------- MODULE Bisect -------------------------------
(***************************************************************************)
(* bisect (sequencer_impl.rs) together with the commands that move the     *)
(* branches and the HEAD it depends on: branch (create, -m, -c, -d) and    *)
(* switch.  A session lives in files beside HEAD (BISECT_START,            *)
(* BISECT_START_REF, BISECT_HEAD, ...) and in references below             *)
(* refs/bisect; every command reads them, decides, and then writes them    *)
(* one by one, so that a command is the sequence `todo` of its writes, of  *)
(* which Kill drops the rest.                                              *)
(*                                                                         *)
(* Abstractions: commits are numbered by date, later ones being larger;    *)
(* the worktree is the commit that its tracked files were checked out      *)
(* from, and files that a killed checkout leaves behind untracked (it      *)
(* removes what HEAD's tree has and the target lacks, and HEAD is moved    *)
(* after it) are not seen; there is one worktree, and no branch has an     *)
(* upstream or a name below another's.                                     *)
(* BISECT_TERMS, BISECT_EXPECTED_REV and BISECT_LOG decide nothing and are *)
(* left out with `terms`, `log`, `visualize` and `replay`, and so is the   *)
(* second trial of a script that exits with 126 or 127.                    *)
(***************************************************************************)
EXTENDS Integers, SequencesExt

CONSTANTS
    Commit,         \* commits
    Parents,        \* Parents[c]: its parents, the first one first
    Touches,        \* the commits that change what the pathspecs name
    Untestable,     \* commits that a script cannot test (exit code 125)
    Branch,         \* branches
    InitBranch,     \* what they name in the beginning
    Starts,         \* what `bisect start` is given: options, and revisions
    Named,          \* revisions given to the other commands
    Ranges,         \* pairs of ends of the ranges given to `bisect skip`
    None,           \* no commit, no file
    MaxCommands,    \* bound: commands run
    MaxKills        \* bound: commands killed

ASSUME BisectAssumption ==
    /\ Commit \subseteq Nat \ {0} /\ IsFiniteSet(Commit) /\ Commit \cap Branch = {}
    /\ None \notin Commit \cup Branch
    /\ \A c \in Commit : \A i \in DOMAIN Parents[c] :
          Parents[c][i] \in Commit /\ Parents[c][i] < c
    /\ Touches \cup Untestable \subseteq Commit
    /\ InitBranch \subseteq [Branch -> Commit \cup {None}]
    /\ Starts \subseteq [names : BOOLEAN, noCheckout : BOOLEAN, firstParent : BOOLEAN,
                          bad : Commit \cup {None}, good : SUBSET Commit]
    /\ Named \subseteq Commit
    /\ Ranges \subseteq Commit \X Commit
    /\ {MaxCommands, MaxKills} \subseteq Nat

VARIABLES
    repo,       \* branches, HEAD, worktree, and the files and marks of bisect
    cmd, todo,  \* the command that runs, and the writes it still has to do
    running,    \* `bisect run`: "no", "first" or "loop" (a trial was made)
    report,     \* what bisect printed about the first bad commit
    culprit,    \* the commit that is searched for, and never changes
    origin,     \* HEAD when the session was started (history)
    odd,        \* what happened to the session (history)
    count       \* commands and kills so far

vars == <<repo, cmd, todo, running, report, culprit, origin, odd, count>>

NoMarks == [bad |-> None, good |-> {}, skip |-> {}]
NoSession(refs, h) ==
    [branch |-> refs, head |-> h, work |-> refs[h], loose |-> NoMarks, packed |-> NoMarks,
     start |-> None, startRef |-> None, names |-> FALSE, noCheckout |-> FALSE,
     firstParent |-> FALSE, bisectHead |-> None]
NoReport == [kind |-> "none", ids |-> {}]

Init ==
    /\ \E refs \in InitBranch, h \in Branch :
          /\ refs[h] # None
          /\ repo = NoSession(refs, h)
    /\ cmd = "none" /\ todo = <<>> /\ running = "no"
    /\ report = NoReport
    /\ culprit \in Commit
    /\ origin = None /\ odd = {}
    /\ count = [commands |-> 0, kills |-> 0]

-----------------------------------------------------------------------------
(* Reading the repository *)

\* What a walk from each commit meets that goes on from c to all of up[c]: what
\* is in every set that the walk does not leave.
Walk(up) ==
    LET closed == {S \in SUBSET Commit : \A c \in S : up[c] \subseteq S}
    IN  [c \in Commit |-> {d \in Commit : \A S \in closed : c \in S => d \in S}]

Ancestors == Walk([c \in Commit |-> {Parents[c][i] : i \in DOMAIN Parents[c]}])

FirstParents == Walk([c \in Commit |-> {Parents[c][i] : i \in DOMAIN Parents[c] \cap {1}}])

\* RefStore::resolve("HEAD")
HeadId(s) == IF s.head \in Branch THEN s.branch[s.head] ELSE s.head

\* The references below refs/bisect: a loose one hides the packed one.
BadMark(s) == IF s.loose.bad # None THEN s.loose.bad ELSE s.packed.bad
GoodMarks(s) == s.loose.good \cup s.packed.good
SkipMarks(s) == s.loose.skip \cup s.packed.skip

\* Mutant: BISECT_HEAD is not looked at.
MutCurrentTarget(s) == HeadId(s)

\* bisect_current_target
CurrentTarget(s) == IF s.bisectHead # None THEN s.bisectHead ELSE HeadId(s)

\* bisect_candidate_commits
History(s) == IF s.firstParent THEN FirstParents[BadMark(s)] ELSE Ancestors[BadMark(s)]

\* bisect_next up to the skipped ones: what no good commit has, and what
\* changes the given paths.
Candidates(s) ==
    {c \in History(s) : /\ \A g \in GoodMarks(s) : c \notin Ancestors[g]
                        /\ s.names => c \in Touches}

Open(s) == Candidates(s) \ SkipMarks(s)

\* bisect_remaining_candidates
Finished(s) == IF BadMark(s) = None THEN TRUE ELSE Cardinality(Open(s)) <= 1

\* The nth commit of a list that begins with the latest.
Nth(S, n) == CHOOSE c \in S : Cardinality({d \in S : d > c}) = n - 1

\* Mutant: rounds down.
MutPick(s) == Nth(Open(s), (Cardinality(Open(s)) + 1) \div 2)

\* The commit to test next: the one in the middle, or with skipped ones the
\* one that all others descend from, or else the oldest.
Pick(s) ==
    LET roots == {c \in Open(s) : \A d \in Open(s) : c \in Ancestors[d]}
    IN  IF SkipMarks(s) = {} THEN Nth(Open(s), (Cardinality(Open(s)) \div 2) + 1)
        ELSE IF roots # {} THEN CHOOSE c \in roots : TRUE
        ELSE Min(Open(s))

-----------------------------------------------------------------------------
(* Sequences of writes *)

Put(on, to) == <<[on |-> on, to |-> to]>>
ClearRefs == Put("clear", None)
PutMarks(kind, ids) ==
    [i \in 1 .. Cardinality(ids) |-> [on |-> kind, to |-> SetToSeq(ids)[i]]]
PutBranch(b, c) == Put("branch", <<b, c>>)

\* bisect_clear_state, in the order of the code
ClearState ==
    ClearRefs \o Put("start", None) \o Put("startRef", None) \o Put("names", FALSE)
    \o Put("noCheckout", FALSE) \o Put("firstParent", FALSE) \o Put("bisectHead", None)

Report(kind, ids) == Put("report", [kind |-> kind, ids |-> ids])

\* Mutant: stops one commit early.
MutOutcome(s) ==
    IF BadMark(s) = None \/ GoodMarks(s) = {} THEN Report("error", {})
    ELSE IF Cardinality(Open(s)) > 2
         THEN Put("work", Pick(s)) \o Put("head", Pick(s))
    ELSE Report("done", {Max(Open(s) \cup {BadMark(s)})})

\* bisect_next in the state s: it fails, reports, or goes to the next commit.
\* Nothing asks whether the worktree has changes.
Outcome(s) ==
    IF BadMark(s) = None \/ GoodMarks(s) = {} THEN Report("error", {})
    ELSE IF s.names /\ Candidates(s) = {} THEN Report("untestable", {})
    ELSE IF Cardinality(Open(s)) > 1
         THEN IF s.noCheckout THEN Put("bisectHead", Pick(s))
              ELSE Put("work", Pick(s)) \o Put("head", Pick(s))
    ELSE IF SkipMarks(s) # {} THEN Report("skipped", SkipMarks(s) \cup Open(s))
    ELSE Report("done", IF Open(s) = {} THEN {BadMark(s)} ELSE Open(s))

-----------------------------------------------------------------------------
(* Commands *)

Idle == todo = <<>> /\ running = "no" /\ count.commands < MaxCommands

\* A command that does w, and what the user calls it.
Run(op, w) ==
    /\ Idle
    /\ cmd' = op /\ todo' = w /\ report' = NoReport
    /\ count' = [count EXCEPT !.commands = @ + 1]

Bad(c) == culprit \in Ancestors[c]

\* bisect start [--no-checkout] [--first-parent] [bad good...] [-- pathspec].
\* It does not ask whether a session is under way, and keeps BISECT_HEAD.
\* The user knows the revisions given to be good and bad.  One that does not
\* resolve ends the command after the files were written and the references
\* cleared, or after some of the marks: what Kill does there.
BisectStart(r) ==
    LET s == [repo EXCEPT !.start = HeadId(repo),
                          !.startRef = IF repo.head \in Branch THEN repo.head ELSE None,
                          !.names = r.names, !.noCheckout = r.noCheckout,
                          !.firstParent = r.firstParent,
                          !.loose = [bad |-> r.bad, good |-> r.good, skip |-> {}]]
        next == Outcome(s)
    IN  /\ HeadId(repo) # None
        /\ Run("start",
               Put("start", s.start) \o Put("names", r.names) \o Put("startRef", s.startRef)
               \o Put("noCheckout", r.noCheckout) \o Put("firstParent", r.firstParent)
               \o ClearRefs
               \o IF r.bad = None THEN <<>>
                  ELSE Put("bad", r.bad) \o PutMarks("good", r.good) \o next
                       \o IF Last(next).on = "report" /\ Last(next).to.kind = "untestable"
                          THEN ClearState ELSE <<>>)
        /\ (r.bad # None => Bad(r.bad)) /\ \A g \in r.good : ~Bad(g)
        /\ origin' = IF origin = None THEN repo.head ELSE origin
        /\ odd' = odd \cup (IF origin # None THEN {"restarted"} ELSE {})
                      \cup (IF repo.bisectHead # None /\ ~r.noCheckout THEN {"stale"} ELSE {})
        /\ UNCHANGED <<repo, running, culprit>>

\* Writing one mark and going on, the part that bisect_mark, bisect_skip and
\* bisect_skip_current_for_run share.
MarkWrites(kind, ids) ==
    LET s == [repo EXCEPT !.loose =
                 IF kind = "bad" THEN [repo.loose EXCEPT !.bad = CHOOSE c \in ids : TRUE]
                 ELSE [repo.loose EXCEPT ![kind] = @ \cup ids]]
    IN  PutMarks(kind, ids) \o Outcome(s)

\* What the user has before him: the files, or with --no-checkout BISECT_HEAD.
Tested(s) == IF s.noCheckout /\ s.bisectHead # None THEN s.bisectHead ELSE s.work

Verdict(c) == IF Bad(c) THEN "bad" ELSE "good"

\* bisect good and bisect bad: about what was tested, or about a revision.
BisectMark(rev) ==
    /\ repo.start # None
    /\ rev = None => CurrentTarget(repo) # None
    /\ Run("mark", IF rev = None THEN MarkWrites(Verdict(Tested(repo)), {CurrentTarget(repo)})
                   ELSE MarkWrites(Verdict(rev), {rev}))
    /\ UNCHANGED <<repo, running, culprit, origin, odd>>

\* bisect skip, of the current commit or of a range
BisectSkip(ids) ==
    /\ repo.start # None /\ None \notin ids
    /\ Run("mark", MarkWrites("skip", ids))
    /\ UNCHANGED <<repo, running, culprit, origin, odd>>

\* bisect next
BisectNext ==
    /\ repo.start # None
    /\ Run("next", Outcome(repo))
    /\ UNCHANGED <<repo, running, culprit, origin, odd>>

\* Mutant: the session is cleared before HEAD is moved back.
MutResetWrites(target) ==
    IF target = None
    THEN Put("work", repo.start) \o ClearState
         \o Put("head", IF repo.startRef # None THEN repo.startRef ELSE repo.start)
    ELSE Put("work", target) \o Put("head", target) \o ClearState

ResetWrites(target) ==
    IF target = None
    THEN Put("work", repo.start)
         \o Put("head", IF repo.startRef # None THEN repo.startRef ELSE repo.start)
         \o ClearState
    ELSE Put("work", target) \o Put("head", target) \o ClearState

\* bisect reset, which without a revision needs BISECT_START
BisectReset(target) ==
    /\ target = None => repo.start # None
    /\ Run(IF target = None THEN "reset" ELSE "leave", ResetWrites(target))
    /\ UNCHANGED <<repo, running, culprit, origin, odd>>

\* bisect run
BisectRun ==
    /\ repo.start # None
    /\ Run("run", <<>>)
    /\ running' = "first"
    /\ UNCHANGED <<repo, culprit, origin, odd>>

\* One round of its loop: the script runs, its exit code becomes a mark, and
\* an error or a list of skipped commits ends the loop.
RunTrial ==
    /\ running # "no" /\ todo = <<>>
    /\ running = "loop" => ~Finished(repo) /\ report.kind = "none"
    /\ CurrentTarget(repo) # None
    /\ running' = "loop" /\ cmd' = "run"
    /\ todo' = IF Tested(repo) \in Untestable
               THEN MarkWrites("skip", {CurrentTarget(repo)})
               ELSE MarkWrites(Verdict(Tested(repo)), {CurrentTarget(repo)})
    /\ UNCHANGED <<repo, report, culprit, origin, odd, count>>

\* The loop ends.
RunEnd ==
    /\ running # "no" /\ todo = <<>>
    /\ \/ running = "loop" /\ (Finished(repo) \/ report.kind # "none")
       \/ CurrentTarget(repo) = None
    /\ running' = "no"
    /\ UNCHANGED <<repo, cmd, todo, report, culprit, origin, odd, count>>

\* The script stops it with an exit code from 128 on.
RunAbort ==
    /\ running # "no" /\ todo = <<>> /\ (running = "loop" => ~Finished(repo))
    /\ running' = "no"
    /\ UNCHANGED <<repo, cmd, todo, report, culprit, origin, odd, count>>

-----------------------------------------------------------------------------
(* Branches and HEAD *)

\* Mutant: a branch that is being bisected counts as free.
MutInUse(b) == repo.head = b

\* branch_checked_out_any_worktree
InUse(b) == b \in {repo.head, repo.startRef}

Exists(b) == repo.branch[b] # None

\* A command that does w, which is odd for a session begun on the branch b.
BranchCommand(w, b) ==
    /\ Run("branch", w)
    /\ odd' = odd \cup IF b # None /\ b = repo.startRef THEN {"moved"} ELSE {}
    /\ UNCHANGED <<repo, running, culprit, origin>>

\* branch [-f] b c: only the branch that HEAD names is protected from -f.
BranchCreate(b, c) ==
    /\ Exists(b) => repo.head # b
    /\ BranchCommand(PutBranch(b, c), b)

\* branch -m and -M
BranchRename(b, n, force) ==
    /\ b # n /\ (Exists(n) => force /\ ~InUse(n))
    /\ \/ /\ Exists(b)
          /\ BranchCommand(PutBranch(n, repo.branch[b]) \o PutBranch(b, None)
                           \o IF repo.head = b THEN Put("head", n) ELSE <<>>, b)
       \/ ~Exists(b) /\ repo.head = b /\ BranchCommand(Put("head", n), b)

\* branch -c and -C
BranchCopy(b, n, force) ==
    /\ b # n /\ Exists(b) /\ (Exists(n) => force /\ ~InUse(n))
    /\ BranchCommand(PutBranch(n, repo.branch[b]), None)

\* branch -d and -D
BranchDelete(b, force) ==
    /\ Exists(b) /\ ~InUse(b)
    /\ \/ force
       \/ HeadId(repo) # None /\ repo.branch[b] \in Ancestors[HeadId(repo)]
    /\ BranchCommand(PutBranch(b, None), None)

\* switch: nothing is checked out when HEAD already is at that commit.
Switch(b) ==
    /\ Exists(b)
    /\ Run("switch", (IF HeadId(repo) = repo.branch[b] THEN <<>>
                      ELSE Put("work", repo.branch[b])) \o Put("head", b))
    /\ UNCHANGED <<repo, running, culprit, origin, odd>>

\* pack-refs --all, also as a part of gc: the marks too are packed.
PackRefs ==
    /\ repo.loose # NoMarks
    /\ Run("pack", Put("packed", [bad |-> BadMark(repo), good |-> GoodMarks(repo),
                                  skip |-> SkipMarks(repo)])
                   \o ClearRefs)
    /\ UNCHANGED <<repo, running, culprit, origin, odd>>

-----------------------------------------------------------------------------
(* Writes *)

\* The repository s after the write w to a file or a reference.
Written(s, w) ==
    CASE w.on = "branch" -> [s EXCEPT !.branch[w.to[1]] = w.to[2]]
      [] w.on = "bad" -> [s EXCEPT !.loose.bad = w.to]
      [] w.on \in {"good", "skip"} -> [s EXCEPT !.loose[w.on] = @ \cup {w.to}]
      [] OTHER -> [s EXCEPT ![w.on] = w.to]

Write ==
    /\ todo # <<>> /\ Head(todo).on \notin {"clear", "report"}
    /\ repo' = Written(repo, Head(todo))
    /\ todo' = Tail(todo)
    /\ origin' = IF Head(todo).on = "start" /\ cmd \in {"reset", "leave"} THEN None ELSE origin
    /\ UNCHANGED <<cmd, running, report, culprit, odd, count>>

\* bisect_clear_refs: remove_dir_all takes the loose ones in any order.
ClearMarks ==
    /\ todo # <<>> /\ Head(todo).on = "clear"
    /\ \/ \E kind \in {k \in DOMAIN NoMarks : repo.loose[k] # NoMarks[k]} :
             repo' = [repo EXCEPT !.loose[kind] = NoMarks[kind]] /\ UNCHANGED todo
       \/ repo.loose = NoMarks /\ todo' = Tail(todo) /\ UNCHANGED repo
    /\ UNCHANGED <<cmd, running, report, culprit, origin, odd, count>>

\* bisect_next prints a result.
PrintReport ==
    /\ todo # <<>> /\ Head(todo).on = "report"
    /\ report' = Head(todo).to
    /\ todo' = Tail(todo)
    /\ UNCHANGED <<repo, cmd, running, culprit, origin, odd, count>>

Kill ==
    /\ todo # <<>> \/ running # "no"
    /\ count.kills < MaxKills
    /\ count' = [count EXCEPT !.kills = @ + 1]
    /\ todo' = <<>> /\ running' = "no"
    /\ odd' = odd \cup {"killed", cmd}
    /\ UNCHANGED <<repo, cmd, report, culprit, origin>>

Step == Write \/ ClearMarks \/ PrintReport \/ RunTrial \/ RunEnd

Next ==
    \/ \E r \in Starts : BisectStart(r)
    \/ \E rev \in Named \cup {None} : BisectMark(rev)
    \/ BisectSkip({CurrentTarget(repo)})
    \/ \E r \in Ranges : BisectSkip(Ancestors[r[2]] \ Ancestors[r[1]])
    \/ BisectNext \/ BisectRun
    \/ \E target \in Named \cup {None} : BisectReset(target)
    \/ \E b \in Branch, c \in Named : BranchCreate(b, c)
    \/ \E b, n \in Branch, force \in BOOLEAN :
          BranchRename(b, n, force) \/ BranchCopy(b, n, force)
    \/ \E b \in Branch, force \in BOOLEAN : BranchDelete(b, force)
    \/ \E b \in Branch : Switch(b)
    \/ PackRefs
    \/ Step \/ RunAbort \/ Kill

Spec == Init /\ [][Next]_vars

\* A command that was started keeps running.
FairSpec == Spec /\ WF_vars(Step)

-----------------------------------------------------------------------------
(* Properties *)

Marks == [bad : Commit \cup {None}, good : SUBSET Commit, skip : SUBSET Commit]

\* Files and references hold commits and branches, HEAD one or the other.
Repo ==
    [branch : [Branch -> Commit \cup {None}], head : Branch \cup Commit, work : Commit,
     loose : Marks, packed : Marks, start : Commit \cup {None},
     startRef : Branch \cup {None}, names : BOOLEAN, noCheckout : BOOLEAN,
     firstParent : BOOLEAN, bisectHead : Commit \cup {None}]

TypeOK ==
    /\ repo \in Repo
    /\ running \in {"no", "first", "loop"}
    /\ culprit \in Commit
    /\ origin \in Branch \cup Commit \cup {None}
    /\ count \in [commands : 0 .. MaxCommands, kills : 0 .. MaxKills]

\* Every mark says the truth about the culprit.
Truthful(s) ==
    /\ BadMark(s) # None => Bad(BadMark(s))
    /\ \A g \in GoodMarks(s) : ~Bad(g)

\* The oldest bad commit of the history that is searched.
FirstBad(s) == Min({c \in History(s) : Bad(c)})

\* When every mark is true, the one commit that bisect_next reports is the
\* first bad one, and it is among those reported when only skipped ones are
\* left: over merges, with --first-parent, and with pathspecs that it touches.
ReportIsRight ==
    [][report'.kind \in {"done", "skipped"} /\ Truthful(repo)
          /\ (repo.names => FirstBad(repo) \in Touches)
       => /\ FirstBad(repo) \in report'.ids
          /\ report'.kind = "done" => report'.ids = {FirstBad(repo)}]_report

\* Marks are true as long as no command was killed, no BISECT_HEAD was left by an
\* older session and the branch that a session began on was left alone (reset
\* puts HEAD on the branch, but checks out the commit that it was at before):
\* the verdict about what is checked out, or about BISECT_HEAD, goes to that
\* very commit, and a restart keeps no false mark.
MarksAreTrue == origin # None /\ odd \subseteq {"restarted"} => Truthful(repo)

\* `bisect reset` ends a session where it began, on the same branch and with
\* that branch's version of every tracked file, unless the session was
\* restarted, its start was killed or its branch was renamed or forced
\* elsewhere.
ResetReturns ==
    [][cmd = "reset" /\ repo.start # None /\ repo'.start = None
          /\ odd \cap {"restarted", "moved", "start"} = {}
       => repo.head = origin /\ repo.work = HeadId(repo)]_repo

\* The branch that `bisect reset` returns to is there at every step, and so is
\* the one that HEAD names after every command: branch -d and -D, and -m, -M,
\* -c and -C onto a name that is in use, take neither of them.  The code does
\* not protect the session's branch against branch -m of that very branch
\* (branch_rename asks branch_checked_out_any_worktree about the new name
\* only), so that both parts except a session whose branch was moved by -m or
\* -f; a branch -m that is killed between its three writes leaves HEAD on the
\* old name, which the second part excepts.
HeadResolves ==
    /\ "moved" \notin odd /\ repo.startRef # None => Exists(repo.startRef)
    /\ todo = <<>> /\ odd \cap {"moved", "branch"} = {} => HeadId(repo) # None

\* `bisect run` ends: each trial leaves fewer candidates, whatever was skipped,
\* killed or packed before, unless a BISECT_HEAD is left from an older session.
RunEnds == running # "no" /\ "stale" \notin odd ~> running = "no"
=============================================================================
