--------------------------- MODULE UpdateRefStdin ---------------------------
(***************************************************************************)
(* `zmin update-ref --stdin` (reference_impl.rs update_ref_stdin and the   *)
(* NUL-terminated twin update_ref_stdin_z): a session that queues ref      *)
(* operations, validates them against the store and applies them one after *)
(* another, writing reflogs as it goes.  Another process, which runs       *)
(* update-ref on a branch, comes between any two steps, and both may end   *)
(* at any step: killed, or by an error such as that of an unknown identity,*)
(* which update_ref_append_reflog asks for only after the reference was    *)
(* written.                                                                *)
(*                                                                         *)
(* Abstractions: one read, write or deletion of a reference and one change *)
(* of a reflog is one step (module RefStore opens the first up); a queued  *)
(* operation is a record, not the text it was parsed from; identity, time  *)
(* and message of a reflog line are left out.  The zero object id is the   *)
(* value NoVal as an expected old value.                                   *)
(***************************************************************************)
EXTENDS Integers, Sequences

CONSTANTS
    Branch,      \* names below refs/heads/
    HEAD,        \* the name HEAD
    Id,          \* object ids
    NoVal,       \* no such reference; as an expected value, the zero id
    Unchecked,   \* no expected value was given
    Op,          \* the operations that the input may contain
    InitHead,    \* initial contents of HEAD: ids, or branches
    MaxOps,      \* bound: operations queued at a time
    MaxCommits,  \* bound: applications per session
    MaxRivals    \* bound: updates by another process

Name == Branch \cup {HEAD}
Val == Id \cup Branch            \* an id, or "ref: <branch>"

Kind == {"update", "create", "delete", "verify",
         "symref-update", "symref-create", "symref-delete", "symref-verify"}

\* update and create carry an object id, symref-update and symref-create the
\* name of a reference.
OpType ==
    {o \in [kind : Kind, name : Name, new : Val \cup {NoVal},
            old : Val \cup {NoVal, Unchecked}, noDeref : BOOLEAN] :
        /\ o.kind \in {"update", "create"} => o.new \in Id
        /\ o.kind \in {"symref-update", "symref-create"} => o.new \in Branch}

ASSUME UpdateRefAssumption ==
    /\ HEAD \notin Branch
    /\ Id \cap Branch = {}
    /\ NoVal \notin Val \cup {Unchecked}
    /\ Unchecked \notin Val
    /\ Op \subseteq OpType
    /\ InitHead \subseteq Val
    /\ {MaxOps, MaxCommits, MaxRivals} \subseteq Nat

VARIABLES
    ref,      \* ref[n]: contents of the reference n
    log,      \* log[n]: its reflog, oldest entry first
    ops,      \* operations queued so far
    inTx,     \* in_transaction
    prepared, \* prepared
    noDeref,  \* no_deref for the next operation
    batch,    \* --batch-updates was given
    phase,    \* "reading", "applying", "done", "rejected" or "failed"
    queue,    \* operations still to be applied
    atEof,    \* the application under way is the one at end of input
    trusted,  \* the queue was validated against this store (history)
    job,      \* job[p]: the write or deletion that the process p is at
    crossed,  \* names at which jobs overlapped or ended half done (history)
    commits, rivals

Process == {"session", "rival"}

store == <<ref, log>>
work == <<job, crossed>>
session == <<ops, inTx, prepared, noDeref, batch, atEof>>
vars == <<ref, log, ops, inTx, prepared, noDeref, batch, phase, queue, atEof,
          trusted, job, crossed, commits, rivals>>

Entry == [old : Id \cup {NoVal}, new : Id]

\* Between two steps of update_ref_write or update_ref_delete: the reference
\* that is changed, whether HEAD was named, the new value (NoVal deletes), the
\* old one that was read, and what is done next.
Job == [on : Name, viaHead : BOOLEAN, new : Id \cup {NoVal}, old : Id \cup {NoVal},
        step : {"write", "log", "head", "again"}]
NoJob == [step |-> "none"]

TypeOK ==
    /\ ref \in [Name -> Val \cup {NoVal}]
    /\ log \in [Name -> Seq(Entry)]
    /\ ops \in Seq(Op) /\ queue \in Seq(Op)
    /\ {inTx, prepared, noDeref, batch, atEof, trusted} \subseteq BOOLEAN
    /\ phase \in {"reading", "applying", "done", "rejected", "failed"}
    /\ job \in [Process -> Job \cup {NoJob}]
    /\ crossed \subseteq Name
    /\ commits \in 0 .. MaxCommits
    /\ rivals \in 0 .. MaxRivals

Init ==
    /\ ref \in [Name -> Val \cup {NoVal}]
    /\ ref[HEAD] \in InitHead
    /\ \A b \in Branch : ref[b] \notin Branch
    /\ log = [n \in Name |->
                IF n \in Branch /\ ref[n] \in Id
                THEN <<[old |-> NoVal, new |-> ref[n]]>> ELSE <<>>]
    /\ ops = <<>> /\ queue = <<>>
    /\ inTx = FALSE /\ prepared = FALSE /\ noDeref = FALSE
    /\ batch \in BOOLEAN
    /\ phase = "reading" /\ atEof = FALSE
    /\ trusted = FALSE
    /\ job = [p \in Process |-> NoJob] /\ crossed = {}
    /\ commits = 0 /\ rivals = 0

-----------------------------------------------------------------------------
(* Validation *)

\* RefStore::resolve(n).ok(): follows one symbolic level.
Resolve(n) ==
    IF ref[n] \in Branch
    THEN IF ref[ref[n]] \in Id THEN ref[ref[n]] ELSE NoVal
    ELSE ref[n]

\* update_ref_verify_current: a zero expectation means "must not resolve".
VerifyCurrent(n, expected) == Resolve(n) = expected

\* update_ref_verify_symref_target
VerifySymrefTarget(n, expected) ==
    IF expected = Unchecked THEN ref[n] = NoVal ELSE ref[n] = expected

\* update_ref_verify_symref_old
VerifySymrefOld(o) ==
    CASE o.old \in Branch -> VerifySymrefTarget(o.name, o.old)
      [] o.old \notin Branch /\ o.noDeref -> ref[o.name] = o.old
      [] OTHER -> VerifyCurrent(o.name, o.old)

\* What one operation asks of the current store.
OpHolds(o) ==
    CASE o.kind \in {"update", "delete", "verify"} ->
            o.old = Unchecked \/ VerifyCurrent(o.name, o.old)
      [] o.kind = "create" -> Resolve(o.name) = NoVal
      [] o.kind = "symref-update" -> o.old = Unchecked \/ VerifySymrefOld(o)
      [] o.kind = "symref-create" -> ref[o.name] = NoVal
      [] OTHER -> VerifySymrefTarget(o.name, o.old)

\* symref-delete and symref-verify refuse to work through a symbolic name.
DerefOk(o) == o.kind \in {"symref-delete", "symref-verify"} => o.noDeref

\* Mutant: a repeated name is not noticed.
MutNamesDistinct(s) == TRUE

\* The `seen` set of both validators.
NamesDistinct(s) ==
    \A i, j \in DOMAIN s : i # j => s[i].name # s[j].name

\* Errors that reject the whole input, with --batch-updates too.
WellFormed(s) == NamesDistinct(s) /\ \A i \in DOMAIN s : DerefOk(s[i])

\* update_ref_validate_stdin_ops
ValidOps(s) == WellFormed(s) /\ \A i \in DOMAIN s : OpHolds(s[i])

\* update_ref_validate_stdin_batch_ops keeps what finds what it expects, in
\* the order of the input.
Accepts(o) == OpHolds(o) /\ o.kind \notin {"verify", "symref-verify"}

Accepted(s) ==
    LET accepted[i \in 0 .. Len(s)] ==
            IF i = 0 THEN <<>>
            ELSE IF Accepts(s[i]) THEN Append(accepted[i - 1], s[i])
            ELSE accepted[i - 1]
    IN  accepted[Len(s)]

-----------------------------------------------------------------------------
(* Applying one operation *)

\* update_ref_effective_name: HEAD stands for the branch it points to.
Effective(o) ==
    IF o.name = HEAD /\ ~o.noDeref /\ ref[HEAD] \in Branch
    THEN ref[HEAD] ELSE o.name

\* No two names of s lead to the same reference by way of a symbolic one.
Plain(s) ==
    \A i, j \in DOMAIN s :
        s[i].name # s[j].name
        => Effective(s[i]) \notin {s[j].name, ref[s[j].name]}

\* update_ref_reflog_old_id
OldId(n) ==
    IF n = HEAD /\ ref[HEAD] \in Branch THEN Resolve(ref[HEAD]) ELSE Resolve(n)

\* RefStore::resolve fails on a symbolic ref to a symbolic ref, and
\* write_ref and delete_ref refuse the name HEAD (it is not below refs/).
Fails(o) ==
    CASE o.kind \in {"update", "create"} ->
            LET n == Effective(o)
            IN  \/ n = HEAD /\ ~o.noDeref
                \/ /\ ~(n = HEAD)
                   /\ ref[n] \in Branch /\ ref[ref[n]] \in Branch
      [] o.kind \in {"delete", "symref-delete"} ->
            Effective(o) = HEAD /\ ~o.noDeref
      [] OTHER -> FALSE

Deletes(o) == o.kind \in {"delete", "symref-delete"}
Writes(o) == o.kind \in {"update", "create"} \/ Deletes(o)

\* p has read the old value of n and not yet recorded the change.
AtWork(p, n) == job[p].step \in {"write", "log"} /\ job[p].on = n

\* update_ref_write and update_ref_delete begin: the name is looked up, and for
\* an update its old value is read.
Begin(p, o) ==
    LET n == Effective(o)
    IN  /\ job' = [job EXCEPT ![p] =
                     [on |-> n, viaHead |-> (o.name = HEAD),
                      new |-> IF Deletes(o) THEN NoVal ELSE o.new,
                      old |-> IF Deletes(o) THEN NoVal ELSE OldId(n), step |-> "write"]]
        /\ crossed' = crossed \cup {m \in {n} : \E q \in Process : AtWork(q, m)}

Goto(p, step) == job' = [job EXCEPT ![p] = [@ EXCEPT !.step = step]]
End(p) == job' = [job EXCEPT ![p] = NoJob]

\* write_ref, write_head_direct or delete_ref; a reference that is already gone
\* is no error.
WriteRef(p) ==
    LET j == job[p]
    IN  /\ j.step = "write"
        /\ ref' = [ref EXCEPT ![j.on] = j.new]
        /\ IF j.new = NoVal /\ ref[j.on] = NoVal THEN End(p) ELSE Goto(p, "log")
        /\ trusted' = (trusted /\ p = "session")
        /\ UNCHANGED <<log, session, phase, queue, crossed, commits, rivals>>

\* Mutant: the old value is read after the write.
MutNewEntry(j) == [old |-> j.new, new |-> j.new]

NewEntry(j) == [old |-> j.old, new |-> j.new]

\* The reflog n after the job j: update_ref_append_reflog or remove_reflog.
Recorded(j, n) ==
    [log EXCEPT ![n] = IF j.new = NoVal THEN <<>> ELSE Append(@, NewEntry(j))]

\* The reflog of the reference itself.
RecordReflog(p) ==
    LET j == job[p]
    IN  /\ j.step = "log"
        /\ log' = Recorded(j, j.on)
        /\ IF j.on = HEAD THEN End(p) ELSE Goto(p, "head")
        /\ UNCHANGED <<ref, session, phase, queue, trusted, crossed, commits, rivals>>

\* HEAD's reflog when HEAD points at the branch by now; a deletion by way of
\* HEAD removes it in any case.
RecordHead(p) ==
    LET j == job[p]
    IN  /\ j.step = "head"
        /\ log' = IF ref[HEAD] = j.on \/ (j.new = NoVal /\ j.viaHead)
                  THEN Recorded(j, HEAD) ELSE log
        /\ IF j.new # NoVal /\ j.viaHead THEN Goto(p, "again") ELSE End(p)
        /\ UNCHANGED <<ref, session, phase, queue, trusted, crossed, commits, rivals>>

\* An update by way of HEAD is recorded there once more.
RecordAgain(p) ==
    LET j == job[p]
    IN  /\ j.step = "again"
        /\ log' = Recorded(j, HEAD)
        /\ End(p)
        /\ UNCHANGED <<ref, session, phase, queue, trusted, crossed, commits, rivals>>

\* The process is killed, or a step fails: signature_from_identity after the
\* reference was written, a lock that exists before.
Interrupt(p) ==
    /\ job[p] # NoJob
    /\ End(p)
    /\ crossed' = crossed \cup {n \in Name : job[p].step = "log" /\ job[p].on = n}
    /\ phase' = IF p = "session" THEN "failed" ELSE phase
    /\ UNCHANGED <<store, session, queue, trusted, commits, rivals>>

JobStep(p) ==
    WriteRef(p) \/ RecordReflog(p) \/ RecordHead(p) \/ RecordAgain(p) \/ Interrupt(p)

-----------------------------------------------------------------------------
(* The session *)

Reading == phase = "reading"

Clear ==
    ops' = <<>> /\ inTx' = FALSE /\ prepared' = FALSE

\* `start`: the queue is kept.
Start ==
    /\ Reading
    /\ inTx' = TRUE /\ prepared' = FALSE
    /\ UNCHANGED <<store, ops, noDeref, batch, phase, queue, atEof, trusted, work, commits,
                   rivals>>

\* `option no-deref`
OptionNoDeref ==
    /\ Reading
    /\ noDeref' = TRUE
    /\ UNCHANGED <<store, ops, inTx, prepared, batch, phase, queue, atEof, trusted, work,
                   commits, rivals>>

\* An operation is parsed and queued; it takes the pending no-deref option.
Push ==
    /\ Reading
    /\ Len(ops) < MaxOps /\ commits < MaxCommits
    /\ \E o \in Op : o.noDeref = noDeref /\ ops' = Append(ops, o)
    /\ noDeref' = FALSE
    /\ trusted' = FALSE
    /\ UNCHANGED <<store, inTx, prepared, batch, phase, queue, atEof, work, commits, rivals>>

\* An error message and exit code 128: the process ends.
Reject ==
    /\ phase' = "rejected"
    /\ UNCHANGED <<store, session, queue, trusted, work, commits, rivals>>

\* A line that does not parse, or an unknown option.
BadLine == Reading /\ Reject

\* `prepare`
Prepare ==
    /\ Reading
    /\ IF IF batch THEN WellFormed(ops) ELSE ValidOps(ops)
       THEN /\ prepared' = TRUE
            /\ trusted' = ~batch
            /\ UNCHANGED <<store, ops, inTx, noDeref, batch, phase, queue,
                           atEof, work, commits, rivals>>
       ELSE Reject

\* update_ref_apply_stdin_ops / update_ref_apply_stdin_batch_ops take over.
\* The batch variant validates (again) and keeps what is accepted.
ApplyOps(eof, checked) ==
    /\ commits < MaxCommits
    /\ commits' = commits + 1
    /\ phase' = "applying"
    /\ queue' = IF batch THEN Accepted(ops) ELSE ops
    /\ trusted' = ((batch \/ checked) /\ Plain(ops))
    /\ atEof' = eof
    /\ Clear
    /\ UNCHANGED <<store, noDeref, batch, work, rivals>>

\* `commit`: validates only inside a transaction that was not prepared.
Commit ==
    /\ Reading
    /\ IF \/ batch /\ ~WellFormed(ops)
          \/ ~batch /\ inTx /\ ~prepared /\ ~ValidOps(ops)
       THEN Reject
       ELSE ApplyOps(FALSE, IF inTx /\ ~prepared THEN TRUE ELSE trusted)

\* `abort`
Abort ==
    /\ Reading
    /\ Clear
    /\ trusted' = FALSE
    /\ UNCHANGED <<store, noDeref, batch, phase, queue, atEof, work, commits,
                   rivals>>

\* End of input: an open transaction is dropped, loose operations are applied.
Eof ==
    /\ Reading
    /\ IF inTx \/ ops = <<>>
       THEN /\ phase' = "done"
            /\ UNCHANGED <<store, session, queue, trusted, work, commits,
                           rivals>>
       ELSE IF IF batch THEN WellFormed(ops) ELSE ValidOps(ops)
            THEN ApplyOps(TRUE, TRUE)
            ELSE Reject

\* The next operation of the apply loop, one arm of update_ref_apply_stdin_ops;
\* `?` ends the process on an error.
ApplyNext ==
    LET o == Head(queue)
    IN  /\ phase = "applying" /\ job["session"] = NoJob
        /\ queue # <<>>
        /\ IF Fails(o)
           THEN phase' = "failed" /\ UNCHANGED <<ref, queue, work>>
           ELSE /\ IF Writes(o) THEN Begin("session", o) ELSE UNCHANGED work
                /\ ref' = IF o.kind \in {"symref-update", "symref-create"}
                          THEN [ref EXCEPT ![o.name] = o.new] ELSE ref
                /\ queue' = Tail(queue)
                /\ UNCHANGED phase
        /\ UNCHANGED <<log, session, trusted, commits, rivals>>

\* The loop is through: "commit: ok", or the end of the session.
ApplyDone ==
    /\ phase = "applying" /\ job["session"] = NoJob
    /\ queue = <<>>
    /\ phase' = IF atEof THEN "done" ELSE "reading"
    /\ trusted' = FALSE
    /\ UNCHANGED <<store, session, queue, work, commits, rivals>>

\* Another process runs update-ref on a branch.
Rival ==
    /\ rivals < MaxRivals
    /\ phase \in {"reading", "applying"} /\ job["rival"] = NoJob
    /\ rivals' = rivals + 1
    /\ \E o \in Op :
        /\ o.kind \in {"update", "delete"} /\ o.name \in Branch
        /\ ~Fails(o)
        /\ Begin("rival", o)
    /\ UNCHANGED <<store, session, phase, queue, trusted, commits>>

Next ==
    \/ Start \/ OptionNoDeref \/ Push \/ BadLine \/ Prepare \/ Commit \/ Abort \/ Eof
    \/ ApplyNext \/ ApplyDone
    \/ Rival
    \/ \E p \in Process : JobStep(p)

Spec == Init /\ [][Next]_vars

-----------------------------------------------------------------------------
(* Properties *)

\* In a validated input whose names do not lead to the same reference (HEAD and
\* the branch it points to do), each operation still finds what it expects
\* when its turn comes, although the operations before it have been applied
\* (and, with --batch-updates, some were left out), as long as no other
\* process interfered since the validation.
ValidatedOpsHold ==
    phase = "applying" /\ trusted /\ queue # <<>> => OpHolds(Head(queue))

\* The reflog of a branch that no operation makes symbolic is a chain, and it
\* ends at the branch's value whenever no update of the branch is between its
\* write and its log entry: through updates, deletions, updates by way of HEAD
\* (wherever HEAD is made to point) and updates by other processes before,
\* between and after those of the session.  Nothing locks a reference and its
\* reflog together, so that two processes that are between reading the old
\* value and recording the new one at the same time may leave a broken chain,
\* and one that is killed, or does not know its identity, after the write
\* leaves a change that is not recorded: both are excepted (crossed).
BranchLogFollowsBranch ==
    \A b \in {c \in Branch \ crossed : \A o \in Op : o.name = c => o.new \notin Branch} :
        /\ \A i \in 1 .. Len(log[b]) - 1 : log[b][i].new = log[b][i + 1].old
        /\ log[b] # <<>> /\ (\A p \in Process : ~(job[p].step = "log" /\ job[p].on = b))
           => log[b][Len(log[b])].new = ref[b]
=============================================================================
