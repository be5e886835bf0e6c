# Zmin in TLA+

Zmin is an implementation of Git in Rust: a library for repositories
(`crates/zmin-git-core`), a command line that mimics stock Git
(`crates/zmin-cli`, its schema and its runtime), a remote helper for HTTP and a
few primitives. Few of its parts use threads (checkout, the transports): what makes it hard
is that many short-lived processes share one directory.
Every command may run next to any other, may be killed between two system
calls, and must leave files that the next command, or stock Git, understands.

This project models those protocols in TLA+, checks them with TLC on small
instances and proves the safety properties with TLAPS for every instance.

Contents: [inventory](#inventory), [modules](#modules), [runs](#runs),
[proofs](#proofs), [findings](#findings), [what is not
modelled](#what-is-not-modelled), [plan](#plan).

## Inventory

The full list of parts, the modelled and the unmodelled ones, is in
`PROJECT.json` under `components`, and what is hard to test in each, line by
line, under `hazards`. The parts that carry the core logic:

| Part | State it keeps | Operations | What makes it correct |
|---|---|---|---|
| Lock files (`index.rs`, `refs.rs`) | `<file>`, `<file>.lock`, open files and maps | `write_index_to_path`, `atomic_write`, `read_index` | readers meet whole files; a stale lock does not block for ever; an update replaces the file |
| Reference store (`refs.rs`) | loose files, `packed-refs`, two lock files of the latter | `write_ref`, `write_symbolic_ref`, `delete_ref`, `pack_refs`, `read_ref` | a name holds what was last written; packing is invisible; a deleted name stays deleted |
| update-ref and reflogs (`reference_impl.rs`, `runtime/refs.rs`) | queued operations, flags of the session, refs, reflogs | `start`, `prepare`, `commit`, `abort`, eight kinds of operation, end of input | expected values hold when applied; reflogs are chains that end at the ref |
| Object database (`loose.rs`, `pack.rs`, `maintenance_impl.rs`) | loose files, packs, indexes | write, read, `repack`, `gc`, `prune`, `prune-packed` | nothing reachable is lost or becomes unreadable |
| Sequencer (`sequencer_impl.rs`) | HEAD, index, worktree, `rebase-merge/` | rebase, `--continue`, `--abort`, cherry-pick, revert | the plan is replayed; success leaves a clean worktree; abort restores |
| Bisect and branches (`sequencer_impl.rs`, `reference_impl.rs`) | `BISECT_*` files, `refs/bisect/`, HEAD, branches | bisect start, good, bad, skip, next, run, reset; branch | the first bad commit is the one reported; a session ends where it began; a run ends |
| Index and worktree (`index.rs`, `worktree_index.rs`, `checkout.rs`) | index entries with file times, files | status, checkout, switch, reset, add | a changed file is never taken for an unchanged one |
| Commit, stash, merge (`commit_impl.rs`, `merge_impl.rs`, `merge_worktree.rs`) | HEAD, index, worktree, `MERGE_HEAD` | commit, amend, merge, `--abort` | three-way results; no local change is overwritten |
| Transport (`transport_impl.rs`, `zmin-git-remote-http`) | remote refs, tracking refs, packs in flight, shallow file | fetch, push, clone, receive-pack | objects arrive before the refs that need them; leases; a failed push changes nothing |
| History (`graph.rs`, `reachable.rs`) | none (commit graph as cache) | rev-list, merge-base | agrees with reachability |
| Pack codec (`pack.rs`) | caches of indexes and bases | delta application, lookup, fan-out | inverse of the encoder; a cache is never stale |
| Maintenance scheduler (`maintenance_impl.rs`) | schedule files, lock, config | run, start, stop, register | one at a time; start and stop are inverse |
| Configuration (`runtime/config.rs`) | config files, `.lock` | get, set, rename section | no lost update |

How they interact. A command reads refs and objects through `RefStore` and
`LooseObjectStore`, writes objects first, then the index, then a ref, and
appends to reflogs last. There is no shared memory and no lock that spans two
of these writes. Lock files protect the replacement of one file; content
addressing (an object or a pack is named after what it holds) makes two writers
of the same object harmless; everything else rests on the order of system
calls: a pack before its index, both before a loose file goes, `packed-refs`
before a loose ref goes, the loose path before the indexes when reading.

What is hard: two processes between any two of these calls; a process killed
between them; a validation that is out of date when it is used (update-ref,
repack, prune); one operation of several failing (transactions, rebase); long
sequences of commands that meet a state left by another (rebase, merge, stash,
bisect, fetch with a depth); two repositories that exchange references and
objects over connections that break.

## Modules

| Module | Models | Extends or instantiates |
|---|---|---|
| `LockFile` | replacing one file through a lock file | |
| `RefMap` | abstract: references as a map | |
| `RefStore` | loose files and `packed-refs` | instantiates `RefMap` |
| `UpdateRefStdin` | a session of `update-ref --stdin` | |
| `ObjectStore` | loose objects, packs, maintenance | |
| `Rebase` | rebase, cherry-pick, revert | |
| `Push` | push, send-pack, http-push, receive-pack | |
| `Fetch` | clone, fetch, upload-pack | extends `Push`: both act on one remote |
| `Worktree` | add, rm, mv, restore, clean, commit, reset, switch, checkout -B, merge, stash | |
| `Bisect` | bisect, branch, and switch and pack-refs next to them | |
| `MC...` | the constants of the runs | the module of that name |
| `LockFileProofs`, `RefStoreProofs`, `ObjectStoreProofs`, `RebaseProofs`, `WorktreeProofs`, `BisectProofs` | theorems | the module of that name |
| `UpdateRefProofs` | theorems | extends `UpdateRefStdin` |
| `TransportProofs` | theorems about `Push`, and about `Push` next to `Fetch` | extends `Fetch` |

The modules form layers. `LockFile` opens up what `RefStore` takes as one step
(a lock file is filled); `RefStore` opens up what `UpdateRefStdin` takes as
one step (writing a reference); a commit that `Rebase` writes is an
object of `ObjectStore` and its move of HEAD a write of `RefStore`; `Push` and
`Fetch` take a pack from `ObjectStore` as one step and a reference from
`RefStore` as another. Each layer
states what the next relies on, and where that needs a condition (one writer
at a time) the runs and theorems name it.

Operators whose name starts with `Mut` are altered forms of the definition
that follows them, each with a plausible slip (a missing flush, a swapped
order, a dropped check); `PROJECT.json` says which property notices it. They
are not part of any specification.

### LockFile

`write_index_to_path` creates `index.lock` exclusively (`CreateLock`; or is
refused, `LockExists`), writes its buffer (`WriteChunk`, `FinishWrite`,
`WriteFails`), renames (`Rename`, `RenameFails`) and on any error removes the
lock path (`Unlink`), also when the lock was another process's. Paths name
inodes and an open file keeps its inode, so that the model has what follows
from that: a rename may install a file that another process is still writing.
Readers map a file (`MapFile`, `UnmapFile`). `Die` kills a writer at any call.
Contents are the number of pieces written. `atomic_write` of `refs.rs` has the
same shape. The ghost `overlap` records that a writer once started while another
was at work: what holds only without that says so.

### RefStore and RefMap

One action per file system call: `WriteLock`, `WriteFill`, `WriteRename`,
`UnlinkRefLock` (`write_ref`, `write_symbolic_ref`); `DeleteLoose`, `DeleteScan`,
`DeleteOpen`, `DeleteLock`, `DeleteFill`, `DeleteRename`, `UnlinkNewLock`
(`delete_ref`, which uses `packed-refs.new`); `PackRead` to `PackDone`
(`pack_refs`, which uses `packed-refs.lock`); `ReadLoose`, `ReadPacked`
(`read_ref`). A lock file is created empty and filled by a later call, through
the open file: `out` says where that file is by then, since another process may
have renamed it into place or unlinked it. `Die` kills a process at any call and
`WriteFails` lets a write fail. The history variables `past`, `saw`, `deleted`
and `clashed` record what a name was set to, what it resolved to during a read,
that some deletion has begun, and the names at which two writers were at work at
once: there a refused writer unlinks the other's lock, and a rename may put an
empty file in place, which `OnlyWrittenValues` and `ResolvedNeverVanishes` say.

`RefMap` is the promise: names with values, set and deleted one at a time. A
deletion is not atomic in the code (the loose file goes first and an older
packed value may show), and `RefMap` says exactly that much and no more.
Packing does not occur in it: it has to be a stuttering step.

### UpdateRefStdin

The session reads operations (`Push`, `OptionNoDeref`, `BadLine`) and commands
(`Start`, `Prepare`, `Commit`, `Abort`, `Eof`), validates what it queued
(`ValidOps`, or operation by operation with `--batch-updates`) and applies the
queue one at a time (`ApplyNext`, `ApplyDone`). The paths that skip validation
are there: `commit` without `start`, operations queued after `prepare`. Applying
an update or deletion is a `job` of several steps: read the old id (`Begin`),
write (`WriteRef`), record it in the reflogs (`RecordReflog`, `RecordHead`,
`RecordAgain`), which each kind does in its own way. `Rival` is another process
that starts such a job on a branch; the steps of both interleave. `Interrupt`
ends a job at any step: a kill, or an identity that is unknown when the reflog
line is put together, after the reference was written. The ghost `trusted`
records that the queue was validated against the store as it is, and `crossed`
the branches at which two jobs overlapped or one ended before it recorded what
it had written.

### ObjectStore

Files are sets: loose objects, packs, indexes. Writers write an object whose
links are stored, then publish it as a root (`WriteObject`, `Install`,
`Publish`; `DropRoot` removes one). A reader looks at the loose path, then for
an index, then opens that index's pack (`StartRead`, `ReadLoose`, `ReadIdx`,
`ReadPack`). A maintenance process runs the steps of `repack` (`RepackCollect`,
`Loosen`, `RepackSelect`, `RepackWrite`, `RepackInstall`, `RepackIdx`,
`RemovePack`, `RemoveIdx`), of `prune-packed` (`ListPacked`, `UnlinkDuplicate`)
and of `prune` (`Expire`, `Prune`); `gc` is their sequence. `CrashMaint` and
`CrashWriter` kill a process between any two steps. Indexes are searched in the
order of names that are hashes, so any index that lists an object may come
first.

### Rebase

A commit is the sequence of the trees of its history, a tree a function from
paths to contents. `Rebase`, `RebaseContinue`, `RebaseAbort` and
`SequencerPick` start a command with the guards of the code; `EditTodo` is the
sequence editor and the parser; `CheckoutWorktree`, `MoveHead`, `PickApply`,
`PickCommit`, `DropItem`, `StopTodo`, `StopOrig`, `RemoveDir` and `Finish` are
the steps, each with its error exits. A plain rebase updates the worktree only
in `Finish`. `Kill` ends the process between two steps; `EditFile`, `Amend` and
`Switch` are the user between two commands. The ghosts `from`, `plan` and
`saved` record what a rebase has to achieve.

### Push and Fetch

`Push`: a client chooses commands and a mode and starts (`Begin`). Over the wire
it reads the advertisement, refuses what does not fast-forward (`WireAccepts`),
sends commands and pack, and a receive-pack of its own compares each old value,
writes objects and references one by one and reports; `path`, `send` and `dav`
write the other repository themselves, each with the checks that its code has
and no others, and a push to a path records its upstream and tracking reference
after each command (`SetUpstream`, `TrackRef`). The references of the remote are
loose files and packed entries (`PackRefs` moves them), because http-push reads,
puts and deletes loose files and nothing else: a packed reference is absent to
its check (`DavAccepts`, `Current`) and stays when it is deleted (`WriteRef`). A
`+` in a refspec counts for all but http-push (`Forced`). Over the wire means
ssh and http: the daemon of zmin serves upload-pack only and ends a connection
that asks for git-receive-pack (4071). A process or a connection may fail at any step: then the server
goes on with what it has, or stops.

`Fetch` adds a clone of that repository. `Launch` starts a clone or a fetch over
ssh, git://, http or from a path, with or without `--depth` and `--prune`. Over the wire
references come from the advertisement and objects in one pack; from a path
objects are copied one at a time and the references are read again
(`CopyDone`, `PruneTracking`); with a depth the tracking references are written
first, the boundary last. A clone that is cut short leaves its directory behind,
as the code does. A connection that ends inside the request may leave an
upload-pack that loops for ever (`spinning`); the daemon of git:// serves one
connection at a time, so that the next client waits for its advertisement
(`AwaitDaemon`) until it is killed. The ghost `tainted` marks the four cases in which the code
gives up completeness: a branch that moved while a fetch or clone from a path
read it twice, a copy from a path that was cut short, a clone from a path that
copied what an unfinished push had left there, and `--depth`. With one
of them taken out of `CloneComplete` TLC finds an incomplete history, for the
third only with three operations (a push, a clone, a fetch over http, which does
not ask for a commit that is there); it came to light in the proof.

### Worktree

A command reads everything, decides, and becomes a sequence of writes, `todo`:
files one at a time, the index, the branch, HEAD, `MERGE_HEAD`, `MERGE_MSG`,
`refs/stash` and its log, in the order of the code. `Kill` drops what is left.
Each kind of write is an action (`WriteFile`, `RenameFile`, ...). Merges compute
the base and the three-way result as `merge_indexes` does, with its exact
renames; a file-level merge is the parameter `MergeFile`. One command runs at a
time, the user edits files only between commands, and writing one file is one
step (`LockFile` has the steps for the index). The ghosts `merged`, `stale` and
`doomed` record what a merge in progress has to join, whether another command
intervened, and which files only it has added. The comment of `EditsAreKept`
names the losses that the code does not prevent.

### Bisect

The files and marks of a session are a record, `repo`; a command is again the
sequence of its writes. `BisectStart`, `BisectMark`, `BisectSkip`, `BisectNext`,
`BisectRun` (with `RunTrial`, `RunEnd`, `RunAbort`) and `BisectReset` share
`Outcome`, which is `bisect_next`: fail, report, or go to the next commit, `Pick`.
`BranchCreate`, `BranchRename`, `BranchCopy`, `BranchDelete`, `Switch` and
`PackRefs` change what a session depends on. The `culprit` is chosen at random;
a verdict is about the files that are checked out, and goes to the commit that
the code takes for the current one: that the two are the same is
`MarksAreTrue`. The worktree is the commit that its tracked files come from;
files that a killed checkout leaves behind untracked are not seen. The ghost `odd` records what happened to a session (restarted
over a `BISECT_HEAD`, killed, its branch moved); each property names the cases
that it does not cover, and TLC refutes it for each of them.

## Runs

Run `tlc -config X.cfg M` in this directory. State counts are distinct states.

| Run | Configuration | States | Shows |
|---|---|---|---|
| `lock` | `LockFile` | 1.4 million | two writers that may collide, two faults and a reader: only a death leaves a lock behind; a torn file in place is being completed, or its writer met a fault; as long as no two writers overlapped, what is in place or mapped is whole, updates replace the file, and a stale lock does not block retries for ever |
| `lock_replace` | `LockFileReplace` | violation | two writers and no fault: a file in place is written to |
| `refs_serial` | `RefStoreSerial` | 2.7 million | one process that writes, deletes and packs and may die, one reader: the store implements `RefMap`, reads are atomic, a deletion that returns Ok is complete |
| `refs_concurrent` | `RefStoreConcurrent` | 4.9 million | two writers, a deleter and a packer, one death or failed write: until a deletion begins no name loses its file or entry, and none becomes unreadable where writers did not clash; however they collide a name holds only what was written to it, or, where writers clashed, an empty file that is about to be filled |
| `update_ref_stdin` | `UpdateRefStdin` | 3.1 million | two operations of any kind, HEAD on a branch or detached, transactions, batch mode, an interruption anywhere, and a rival whose steps come between any two of the session's: what was validated holds when applied; reflogs of branches are chains that end at the branch, where nothing was interrupted and no two updates overlapped |
| `objects_incremental` | `ObjectsIncremental` | 1.5 million | two processes that repack -d and prune-packed next to a writer and a reader, one killed: nothing is lost, no read misses |
| `objects_exclusive` | `ObjectsExclusive` | 2.9 million | every kind of repack, gc and prune run alone, one killed: the reachable keeps a copy throughout; without a kill it is readable afterwards and only pruning drops objects |
| `objects_orphan_index` | `ObjectsOrphanIndex` | violation | after a killed gc, prune-packed removes the last copy of an object |
| `rebase` | `Rebase` | 4.6 million | two commands and one kill or act of the user: success means that the plan was replayed and the worktree is clean; giving up on an item leaves it clean too |
| `transport` | `Fetch` | 0.32 million | two pushes, fetches, clones or pack-refs in every way, one fault: references on both sides name complete histories (outside `tainted`), reports are true (but for deletions by http-push), nothing unseen is overwritten after a check (http-push checks loose files only), a depth fetch leaves no gap, an undisturbed fetch mirrors the remote, every transfer ends, but one that waits for a daemon whose upload-pack loops |
| `worktree` | `Worktree` | 2.5 million | three commands, two edits, one kill: no unforced command destroys an edit, an abort that ends has undone the merge, `--continue` joins what was merged, a popped stash is applied |
| `bisect` | `Bisect` | 1.2 million | three commands, one kill, `bisect run` to its end: the report is right, marks are true, reset returns, HEAD keeps its branch, a run ends |

The type invariants of `UpdateRefStdin`, `Rebase`, `Push`, `Fetch`, `Worktree` and
`Bisect` hold under the same configurations; they are proved (below) and left
out of the runs.

### Bounds, and why they are enough

- `LockFile`: two writers that are run again and again are enough for one to
  lose its lock to the other and to find a new one in its place; there is an
  inode per writer, one in place and one more, so that a new file never has to
  reuse a visible one.
  Two chunks tell empty, torn and whole apart. Two faults allow a retry to fail.
- `RefStore`: two names, one of which is packed by default, so that packing
  takes one and leaves the other; two ids or an id and a symbolic target, so
  that an old value and a foreign one can be told from the right one. All
  processes are endless, so that each run has arbitrarily long sequences of
  operations; only deaths are bounded.
- `UpdateRefStdin`: two operations are what it takes for one to disturb the
  next, one application per session what it takes for a queue to be applied
  after validation. The rival makes one update or deletion of `main`; beside
  it the session's operations are those that write this branch or move HEAD
  (`RivalOps`, the constraint `RivalBound`), since only these have steps that can
  come between the rival's, and batch mode is off, which only chooses among the
  operations. Sessions without a rival are not restricted. `AllOps` has each kind of operation with
  and without an expected value, on HEAD, on the branch it points to and on
  another branch.
- `ObjectStore`: a blob and one or two commits above it, so that something can
  become unreachable while something below stays reachable. Two encodings give
  packs of equal contents different names. Two commands: one leaves a state
  behind and the next meets it.
- `Push`, `Fetch`: four commits with a fork and a merge, two branches, two
  clients, one branch loose and one packed; two operations (a pack-refs is one),
  so that each can meet the other or what the other left behind; one fault.
  git:// stands for ssh too, which differs only in that nobody waits for a
  daemon. `Depths = {2}` cuts the history of the merge and not
  that of its parents.
- `Worktree`: two paths and diverged branches whose merge is clean, in conflict
  or a rename; three commands (start a merge or a stash, disturb it, end it),
  two edits, one kill.
- `Bisect`: six commits with a merge, so that there are candidates on both
  sides, a first-parent chain that leaves some out, and enough of them for two
  halvings; three branch names, one free; three commands (start, disturb, end
  or run), one kill. A run takes as many trials as it needs.
- `Rebase`: a branch of two commits with a range of trees, an upstream of one;
  two items per edited list, so that an item can follow a stop; two commands,
  the second of which continues or aborts; one event. Two paths, so that one is
  in conflict and the other not.

Symmetry is used for processes, inodes and ids in runs without liveness, where
no formula names one of them.

`CHECK_DEADLOCK FALSE` is set where the system stops: a session that has ended,
commands used up. The lock and reference runs check for deadlock.

### Fairness

`FairSpec` of `LockFile`: every writer goes on taking its own steps. That is a
script which runs the command again when it fails; it says nothing about the
scheduler beyond that a running process runs, and requires no fault and no
reader. `RetrySucceeds` speaks of behaviours in which no two writers overlap:
otherwise one may be refused for ever, and the code promises nothing else.

`FetchFairSpec`: a process that was started, on either side, keeps running as
long as its connection stands. No push, fetch or fault has to happen.
`TransfersEnd` follows from it.

`FairSpec` of `Bisect`: a command that was started keeps running, the script of
`bisect run` comes to an end, and no command has to be given. `RunEnds` follows
from it.

## Proofs

Run `tlapm M.tla` for each of the eight modules. All of it is for arbitrary sets
of processes, names, objects, paths and values, any number of commands, kills
and faults, under the `ASSUME`s of the modules. These say that sentinel values
differ from real ones, that bounds are numbers, that what a constant lists
(operations, commands, initial states) has the shape it should, and of the
world: a history has no cycle (`Bisect`, `Worktree`: parents are older), a
worktree and a history searched by bisect are finite, a client that pushes has
the history of what it has, and merging three contents gives a content.

Every safety property of a passing run is a theorem, under the conditions that
are named below where there are any. The argument is the same
throughout: the property speaks of the end of a command or of one step of it,
and the invariant has to say what the command has achieved, and has yet to do,
at every step before.

`LockFileProofs`
- `LockFileTypeOK`.
- `ContentionInvariant`, from which `LocksNeverLeak` and
  `TornFilesAreAttributed`, for any number of writers. What the runs check is
  not inductive: that a torn file in place has a writer needs to be known of the
  file at the lock path already, since a rename moves one to the other
  (`PathsAttributed`), and that a writer works on a file of its own needs that
  no two hold the same inode (`HandlesDistinct`).
- `SerialInvariant`, from which `SerialWhole`, `SerialViewsWhole` and
  `SerialReplaces`, for any number of writers and readers as long as no two
  writers overlapped. The invariant `SerialInv` adds that at most one writer is
  at work, that the lock path is its own file, that nobody has it mapped, and
  that it is whole before the rename.

`RefStoreProofs`
- `RefStoreTypeOK`, with `NameInv`: whoever is at work knows on which name.
- `PackingNeverLosesRefs`: with at most one packer (`OnePacker`), any writers
  and readers and any deaths, until the first deletion begins (the history
  variable `deleted`). The property speaks of one step; the step that could
  break it, removing a loose file, is safe because of what the packer did
  several steps before. `PackInv` carries that: the new contents have all the
  old entries and all the names to be pruned, the lock file, once filled, is what
  the packer wrote, and once it is renamed `packed-refs` has them. That the name
  can be read where writers did not clash is `FileInv`: where the file is that a
  writer has created and not yet filled, that nobody renames it meanwhile, and
  who will fill an empty file that is in place. With two packers this
  fails (one prunes what the other's contents lack), which is why it is assumed.
- `RefsHoldWrittenValues`, without any such condition: `WrittenInv` says of
  `packed-refs`, of both its lock files and of the contents that each process
  edits that they hold what was written to that name, and `FileInv` accounts for
  the empty files.
- `StoreImplementsMap`, `ReadsSeeOneMoment`, `DeletionsAreComplete`: with one
  process that writes, deletes and packs (`OneMutator`, the setting of
  `refs_serial`), any readers and any deaths. `StoreImplementsMap` is the
  refinement: initial states map to initial states of `RefMap` and each step to
  a step or a stutter. `SoleInv` says what the files are at each step of the one
  process and that every reader has seen the value it is about to return.

`UpdateRefProofs`
- `UpdateRefTypeOK`, `ValidatedOpsStillHold`, `LogsFollowBranches`, for any
  input, any updates by the rival and any interruptions. The invariant `StdinInv`
  has `TrustInv` (the whole queue, not only its first operation, holds and names
  no reference twice, so that applying one leaves the others' expectations alone)
  and `LogInv`: the reflog of a branch that is neither made symbolic nor `crossed`
  is a chain to its value, or, while one process is between its write and its
  entry, to the old value that this process has read (`Linked`).

`ObjectStoreProofs`
- `ObjectStoreTypeOK`.
- `IncrementalNeverLoses`, `IncrementalKeepsReachable`, `IncrementalReads`: for
  `Command \subseteq IncrementalCommand` (prune-packed, repack, repack -d), any
  number of processes of each sort, any kills. `IncInv` says that every index
  has its pack, that repack unlinks only what an index lists, that a reader past
  the loose path will find an index and then the pack, and that what a writer is
  about to publish is stored with all it leads to. The lemma `IncGrows` is the
  heart: nothing that a lookup could find goes away in a step.
- `AloneKeepsReachable`, `AloneLeavesReadable`, `AloneDropsUnreachable`: for
  commands that run one at a time (`Exclusive`, the setting of
  `objects_exclusive`) and every kind of repack, gc and prune. `AloneInv` says
  for each step of maintenance what it has collected, that the new pack covers
  what the old ones lose, and that what is pruned is unreachable. The first
  holds across kills, for which prune-packed has to be left out (finding 2); the
  other two until the first kill.

`RebaseProofs`
- `RebaseTypeOK`, `RebaseReplaysPlan`, `RebaseLeavesClean`, for any list of
  items and any sequence of kills and acts of the user. `RebaseInv` has
  `TodoInv` (the list on disk is what the last stop left) and `Progress`: what
  is applied so far followed by what is left to do is the plan, and index and
  files are those of HEAD or of the item at hand.

`TransportProofs`
- `PushTypeOK`, `PushRefsComplete`, `PushReportIsTrue`, `PushNoUnseenOverwrite`,
  for any number of clients. `PushInv` has, next to types and phases,
  `ObjectInv` (what a command needs is on the remote or still to be copied, and
  on it before the reference is checked and written; what was once advertised
  stays complete, so that a pack may leave it out; what a loose file or a packed
  entry names is complete, also while it is shadowed, since http-push may bring it
  back), `SeenInv` (what a client or its receive-pack validated) and `DoneInv`
  (exactly the commands before the counter took effect, deletions by http-push
  aside).
- `TransportTypeOK`, `CloneStaysComplete`, `DepthLeavesNoGap`,
  `FetchMirrorsRemote` and `PushesBesideFetches`, for any number of pushes next
  to a clone. `FetchInv` adds to `PushInv` where the fetch stands
  (`FetchPhase`), that the clone, with what is still to be copied, has whole
  histories (`WholeInv`), which references are written already (`MirrorInv`) and
  what a depth leaves out (`DepthInv`). The last theorem carries the three
  results of `Push` into the composition.

`WorktreeProofs`
- `WorktreeTypeOK`, `WorktreeKeepsEdits`, `WorktreeAbortRestores`,
  `WorktreeContinueJoins`, `WorktreePoppedIsApplied`, for any paths, contents
  and histories. The four properties are about single steps of a command that is
  a sequence of writes; the invariant has to say what the writes that remain
  will do. It takes the sequence as a set of writes and an order between their
  kinds (`Ordered`): `EditsInv` (each write that remains spares the edits),
  `PushInv` (`Saves`: a file is rewritten only after its entry is in the stash),
  `MergeInv` and `ContinueInv` (what `MERGE_HEAD` and the index have to do with
  each other), `AbortInv` (`Aborts`: what is not restored yet is about to be)
  and `PopInv` (`Applies`: an entry goes after its changes). Each command is
  shown to start with a plan that has these properties and each write to keep
  them.

`BisectProofs`
- `BisectTypeOK`, `BisectMarksAreTrue`, `BisectHeadResolves`,
  `BisectReportIsRight`, `BisectResetReturns`, for any history without a cycle.
  `BisectInv` has `PlanInv` (the writes still to be done lead, each in its
  place, to a state that is fit for the next command), `MarksInv`,
  `StartRefInv`, `HeadInv` and `SessionInv`. That the commit reported is the
  first bad one rests on lemmas about reachability in a finite history: the
  candidates always contain it, as long as marks are true.

Definitions by recursion over numbers and existence arguments over finite sets
(`Accepted` of a batch, closures of parents, a nearest merge base, the least
of a set of commits) are handled by the least counterexample, with the
well-foundedness of `<` as a theorem of the library, and `Ascending`, which
lists a finite set of paths, by cardinalities.

Only model-checked: `RetrySucceeds`, `TransfersEnd` and `RunEnds`, since
liveness under fairness is out of the prover's reach. The properties of the two
violation runs are refuted, not proved.

What the proofs changed. Three statements were corrected: a clone from a path
copies every object of the source, commits of an unfinished push included, whose
history need not be there yet, and a later fetch takes it for present:
`CloneComplete` now excepts such a clone; the ghost `saved` of `Rebase` is
forgotten when a new list is started; after `branch -f` of the session's
branch, a reset checks out the commit where the session began while HEAD names the
branch, which is elsewhere (`sequencer_impl.rs:1053`), so `MarksAreTrue` does not
speak of a session whose branch was moved.

## Findings

1. `lock_replace`. A writer that is refused because the lock exists removes the
   lock of its owner. With a retry in between, the owner's rename installs the
   other's half-written file as the index, which is then written in place
   (`index.rs:455`; the comment at `index.rs:701` says that updates replace the
   file). It is also why a stale lock heals after one refusal, which
   `RetrySucceeds` shows: the two go together.
2. `objects_orphan_index`. `prune-packed` goes by index files alone. A gc that
   was killed between the removal of a `.pack` and of its `.idx` leaves an
   index that makes it delete a loose object without another copy
   (`loose.rs:742`).

Weaknesses met on the way. The models have the path unless it is said
otherwise, and the properties except it where they have to:

- References. Two `pack_refs` at once can lose a reference (`refs.rs:149`, the
  second drops what the first has packed and pruned); `delete_ref` and
  `pack_refs` lock `packed-refs` under different names and can undo each other
  (`refs.rs:568`); `pack_refs` prunes a loose file that was written after it was
  read, without comparing (`refs.rs:184`); a writer that is refused the lock of a
  reference unlinks it, and after a retry an empty reference can be put in place
  (`refs.rs:700`), for good if its writer then dies.
- update-ref. Nothing is rolled back when an operation fails while a transaction
  is being applied, and the validation does not foresee that a detached HEAD
  cannot be written (`reference_impl.rs:1149`); a rival update between validation
  and application is overwritten, and `commit` without `start` validates nothing
  (198); HEAD and its branch may both be named (755); HEAD's reflog gets an
  update through HEAD twice; nothing locks a reference together with its reflog,
  and the identity is looked up after the write, so that a rival, a kill or an
  unknown identity leaves a chain with a gap (1276).
- Objects. `repack -a -d` can remove a pack between a reader's choice of an index
  and its opening (`pack.rs:3533`); `repack -A` walks the references twice
  (`maintenance_impl.rs:1558`); prune deletes what a concurrent writer is about
  to publish (1947).
- Rebase (`sequencer_impl.rs`). `--abort` moves whichever branch HEAD names by
  then (1884); `--continue` removes its state before it replays anything (1839)
  and does not stop at an `edit` (1842); a failed sequence editor leaves a state
  that `--continue` takes for its own (1725); a rebase that names a branch
  leaves files of the previous one behind as untracked (1552); an abbreviated id
  of digits only in the list is read as a position (1797).
- Bisect (`sequencer_impl.rs`). `start` keeps a `BISECT_HEAD` (363): every verdict
  of the new session goes to that commit, and `bisect run` never ends; a start
  during a session forgets where the first one began; a kill between checking
  out and moving HEAD gives a verdict to the wrong commit (705); marks that
  `pack-refs` packed survive a reset (1325), which the model has but does not
  judge, its culprit being the same for all sessions; `branch -f` and `branch -m`
  do not spare the branch that reset will return to (`reference_impl.rs:4100`,
  4882), and after `branch -f` reset leaves the files of another commit than HEAD's
  (`sequencer_impl.rs:1053`).
- Push (`transport_impl.rs`). Two receive-packs may both find the expected old
  value (15813), and the other ways to push compare nothing when they write
  (9669); `send-pack --atomic` is ignored (6266); send-pack refuses a
  fast-forward whose commits the destination does not have yet (6229). http-push
  knows loose files only: a packed branch is overwritten without a check (670),
  its deletion is reported as done although it stays, or an older packed value
  comes back (2347, 2364), and a `+` is ignored (519). A client of git:// keeps
  its side open while receive-pack reads to the end of the stream (15324), which
  would stall both; zmin's daemon does not serve receive-pack.
- Fetch and clone. A clone of a path copies commits of an unfinished push, whose
  history may not be there yet, and a fetch over http then takes such a commit for
  complete (see `ClonePath`). References of the clone count as complete histories even when
  objects are missing (`transport_impl.rs:12626`); upload-pack is not told that
  the clone is shallow (14431); the shallow file is replaced, not merged
  (`transport_local.rs:1123`); `--prune` is dropped over the wire and with
  `--depth` (10287); a clone that failed leaves a directory that refuses the next
  (`transport_local.rs:490`). upload-pack loops for ever on a request that
  ends early (4519), and the daemon then serves nobody else (4048).
- Worktree. commit leaves `MERGE_HEAD` (`commit_impl.rs:321`); an abort that was
  killed leaves it too, with the index already reset (`merge_impl.rs:107`); stash
  pop writes its untracked files over anything (`worktree_impl.rs:8618`);
  `stash push --staged` drops later edits (6499); a switch drops what is staged
  only or unmerged (`worktree_index.rs:3228`); a kill between `refs/stash` and its
  log hides the entry (8892); `checkout -B` moves the branch before it can be
  refused (9268); rm does not ask about a file that was added and never
  committed, and `mv -f` removes the destination first
  (`merge_worktree.rs:447`, 546); the merge base is a nearest, not a best common
  ancestor (`graph.rs:2281`). Not modelled: the stash log is rewritten in place
  (8977), and two commands at once lose index entries (2950), since the lock
  spans the writing only.

## What is not modelled

- Loss of power: no `fsync`, a completed system call is durable.
- The other party is always zmin. Stock Git on the same repository is not.
- Windows, where a rename over an open or existing file differs.
- `RefStore`: peeled lines, empty parent directories created and removed,
  listing and renaming of references, HEAD's own file.
- `ObjectStore`: alternates, `.keep` files other than by `--keep-pack`, reverse
  indexes, bitmaps, multi-pack indexes, cruft packs, the age given to prune
  (objects are old enough as soon as they are written).
- `UpdateRefStdin`: the text of the input and of the messages, reflog expiry,
  linked worktrees.
- `Rebase`: merges (`--rebase-merges`), rename detection (the code has none),
  untracked files in the way other than that they are overwritten, hooks.
- `Push`, `Fetch`: two fetches at once, dumb http and its loose objects, tags that follow commits,
  `FETCH_HEAD`, explicit refspecs, filters and deepen-since, single-branch, bare,
  mirror and shared clones, submodules, the bytes of the protocol, and push
  options and certificates.
- `Worktree`: the racy comparison of file times, threads of a parallel checkout,
  sparse checkouts, modes and links, merge strategies other than the default,
  octopus merges, hooks, reflogs of branches.
- `Bisect`: terms, log, replay, visualize, the second trial after exit codes 126
  and 127, upstreams, linked worktrees; commits are dated in the order of their
  descent.
- Formatting, parsing, diffing, searching, mail, archives, imports, the command
  line itself: sequential and without shared state, and well served by the
  repository's comparisons with stock Git.

## Plan

Done: the lock protocol, the reference store with its abstract map, update-ref,
the object database and its maintenance, the sequencer, push, fetch and clone,
worktree, merge and stash, bisect and branches; a proof of every safety property
that a passing run checks.

Theorems to come: `RefMap` as the store that `UpdateRefStdin` and `Push` act on,
so that what is proved of them rests on `StoreImplementsMap`; how far
`ReadsAreAtomic` and `RefinesMap` hold with several mutators that use different
names; `ReachableStored` with prune-packed among the exclusive commands as long
as no gc was killed between the two removals of a pack.

Models to come:

1. The racy check of file times in `worktree_index.rs` (a file changed in the
   tick in which the index was written must be seen) and the pool of threads of
   `checkout.rs`.
2. Pack: the delta codec against its reference, fan-out lookup, and the cache of
   index paths (a pack that appears or goes while it is cached).
3. Maintenance scheduler, configuration lock, linked worktrees (heads that
   `branch -m` rewrites), notes.

Compositions: `Rebase` over the worktree of `Worktree` in place of its own trees;
`Push` over `ObjectStore`, so that a gc runs next to an incoming pack.
