------------------------------ MODULE LockFile ------------------------------
(***************************************************************************)
(* How zmin replaces one file of the Git directory (the index, a loose     *)
(* ref, HEAD): create `<file>.lock` exclusively, write the new contents    *)
(* into it, rename it over the file, and on ANY error unlink the lock path *)
(* (zmin-git-core/src/index.rs write_index_to_path; refs.rs atomic_write   *)
(* has the same shape).                                                    *)
(*                                                                         *)
(* Every file system call is a step of its own, so that several zmin       *)
(* processes interleave as they do in one repository.  Paths name inodes:  *)
(* a writer keeps writing to the inode it created even when another        *)
(* process has unlinked or renamed the path.  The contents of a file are   *)
(* abstracted to how many of the Chunks pieces of the writer's buffer have *)
(* reached it; a file with all of them is whole (its trailing checksum     *)
(* verifies), a shorter one is torn.                                       *)
(***************************************************************************)
EXTENDS Integers, FiniteSets

CONSTANTS
    Writer,     \* processes that update the file
    Reader,     \* processes that read it through a memory map
    Inode,      \* file identities
    NoInode,    \* "no file at this path" / "no file open"
    Chunks,     \* write(2) calls that the buffered writer issues for one update
    MaxFaults   \* bound: process deaths and failed writes per behaviour

ASSUME LockFileAssumption ==
    /\ NoInode \notin Inode
    /\ Chunks \in Nat \ {0}
    /\ MaxFaults \in Nat

VARIABLES
    lock,       \* the inode at `<file>.lock`
    target,     \* the inode at `<file>`
    len,        \* len[i]: pieces written to inode i
    pc,         \* pc[w]: the next system call of writer w
    fd,         \* fd[w]: the inode that w's current update created
    view,       \* view[r]: the inode that reader r has mapped
    fate,       \* fate[i]: what became of the update that created i (history)
    overlap,    \* a writer once started while another was at work (history)
    faults      \* faults so far (bounded by MaxFaults)

vars == <<lock, target, len, pc, fd, view, fate, overlap, faults>>

InodeOrNone == Inode \cup {NoInode}

PC == {"idle", "write", "rename", "unlink"}

Fate == {"live", "failed", "dead"}

TypeOK ==
    /\ lock \in InodeOrNone
    /\ target \in InodeOrNone
    /\ len \in [Inode -> 0 .. Chunks]
    /\ pc \in [Writer -> PC]
    /\ fd \in [Writer -> InodeOrNone]
    /\ view \in [Reader -> InodeOrNone]
    /\ fate \in [Inode -> Fate]
    /\ overlap \in BOOLEAN
    /\ faults \in 0 .. MaxFaults

\* An inode that no path, open file or map refers to: the kernel may reuse it.
Free(i) ==
    /\ i # lock
    /\ i # target
    /\ \A w \in Writer : fd[w] # i
    /\ \A r \in Reader : view[r] # i

\* A repository without the file yet, or with a whole one, and nobody at work.
Init ==
    /\ lock = NoInode
    /\ target \in InodeOrNone
    /\ len = [i \in Inode |-> IF i = target THEN Chunks ELSE 0]
    /\ pc = [w \in Writer |-> "idle"]
    /\ fd = [w \in Writer |-> NoInode]
    /\ view = [r \in Reader |-> NoInode]
    /\ fate = [i \in Inode |-> "live"]
    /\ overlap = FALSE
    /\ faults = 0

\* Writer w starts: does it meet another one at work?
Meet(w) == overlap' = (overlap \/ \E v \in Writer \ {w} : pc[v] # "idle")

-----------------------------------------------------------------------------
\* Mutant: the file itself is opened and truncated instead of a lock file.
MutWriteInPlace(w) ==
    /\ pc[w] = "idle"
    /\ lock = NoInode
    /\ \E i \in IF target = NoInode THEN {j \in Inode : Free(j)} ELSE {target} :
        /\ target' = i
        /\ len' = [len EXCEPT ![i] = 0]
        /\ fd' = [fd EXCEPT ![w] = i]
    /\ pc' = [pc EXCEPT ![w] = "write"]
    /\ Meet(w)
    /\ UNCHANGED <<lock, view, fate, faults>>

\* write_index_lock: OpenOptions::create_new creates the lock file ...
CreateLock(w) ==
    /\ pc[w] = "idle"
    /\ lock = NoInode
    /\ \E i \in Inode :
        /\ Free(i)
        /\ lock' = i
        /\ len' = [len EXCEPT ![i] = 0]
        /\ fd' = [fd EXCEPT ![w] = i]
        /\ fate' = [fate EXCEPT ![i] = "live"]
    /\ pc' = [pc EXCEPT ![w] = "write"]
    /\ Meet(w)
    /\ UNCHANGED <<target, view, faults>>

\* Mutant: an existing lock file is taken to be this command's own.
MutAdoptLock(w) ==
    /\ pc[w] = "idle"
    /\ lock # NoInode
    /\ pc' = [pc EXCEPT ![w] = "rename"]
    /\ Meet(w)
    /\ UNCHANGED <<lock, target, len, fd, view, fate, faults>>

\* ... or fails with AlreadyExists, which takes the error branch as well.
LockExists(w) ==
    /\ pc[w] = "idle"
    /\ lock # NoInode
    /\ pc' = [pc EXCEPT ![w] = "unlink"]
    /\ Meet(w)
    /\ UNCHANGED <<lock, target, len, fd, view, fate, faults>>

\* Mutant: the buffer is flushed once more after the checksum.
MutWriteTwice(w) ==
    /\ pc[w] = "write"
    /\ len' = [len EXCEPT ![fd[w]] = @ + 1]
    /\ UNCHANGED <<lock, target, pc, fd, view, fate, faults, overlap>>

\* write_index_stream: one flush of the buffer into the inode that w opened.
WriteChunk(w) ==
    /\ pc[w] = "write"
    /\ len[fd[w]] < Chunks
    /\ len' = [len EXCEPT ![fd[w]] = @ + 1]
    /\ UNCHANGED <<lock, target, pc, fd, view, fate, faults, overlap>>

\* Mutant: the last buffer is not flushed before the rename.
MutMissingFlush(w) ==
    /\ pc[w] = "write"
    /\ len[fd[w]] = Chunks - 1
    /\ pc' = [pc EXCEPT ![w] = "rename"]
    /\ UNCHANGED <<lock, target, len, fd, view, fate, faults, overlap>>

\* IndexStreamingWriter::finish flushed the checksum; the handle is dropped.
FinishWrite(w) ==
    /\ pc[w] = "write"
    /\ len[fd[w]] = Chunks
    /\ pc' = [pc EXCEPT ![w] = "rename"]
    /\ UNCHANGED <<lock, target, len, fd, view, fate, faults, overlap>>

\* A write error (no space left): write_index_lock returns Err.
WriteFails(w) ==
    /\ pc[w] = "write"
    /\ faults < MaxFaults
    /\ faults' = faults + 1
    /\ pc' = [pc EXCEPT ![w] = "unlink"]
    /\ fate' = [fate EXCEPT ![fd[w]] = "failed"]
    /\ UNCHANGED <<lock, target, len, fd, view, overlap>>

\* replace_with_lock: rename(2) moves whatever file is at the lock path.
Rename(w) ==
    /\ pc[w] = "rename"
    /\ lock # NoInode
    /\ target' = lock
    /\ lock' = NoInode
    /\ pc' = [pc EXCEPT ![w] = "idle"]
    /\ fd' = [fd EXCEPT ![w] = NoInode]
    /\ UNCHANGED <<len, view, fate, faults, overlap>>

\* rename(2) fails with NotFound: somebody else unlinked or renamed the lock.
RenameFails(w) ==
    /\ pc[w] = "rename"
    /\ lock = NoInode
    /\ pc' = [pc EXCEPT ![w] = "unlink"]
    /\ UNCHANGED <<lock, target, len, fd, view, fate, faults, overlap>>

\* Mutant: the error path returns without removing the lock file.
MutKeepLock(w) ==
    /\ pc[w] = "unlink"
    /\ pc' = [pc EXCEPT ![w] = "idle"]
    /\ fd' = [fd EXCEPT ![w] = NoInode]
    /\ UNCHANGED <<lock, target, len, view, fate, faults, overlap>>

\* `let _ = fs::remove_file(&lock_path); return Err(error)`.
Unlink(w) ==
    /\ pc[w] = "unlink"
    /\ lock' = NoInode
    /\ pc' = [pc EXCEPT ![w] = "idle"]
    /\ fd' = [fd EXCEPT ![w] = NoInode]
    /\ UNCHANGED <<target, len, view, fate, faults, overlap>>

\* The process dies (signal); its paths stay.  A later command is again "idle".
Die(w) ==
    /\ pc[w] # "idle"
    /\ faults < MaxFaults
    /\ faults' = faults + 1
    /\ pc' = [pc EXCEPT ![w] = "idle"]
    /\ fd' = [fd EXCEPT ![w] = NoInode]
    /\ fate' = [i \in Inode |-> IF i = fd[w] THEN "dead" ELSE fate[i]]
    /\ UNCHANGED <<lock, target, len, view, overlap>>

\* read_index: File::open and Mmap::map pin the inode that the path names.
MapFile(r) ==
    /\ view[r] = NoInode
    /\ target # NoInode
    /\ view' = [view EXCEPT ![r] = target]
    /\ UNCHANGED <<lock, target, len, pc, fd, fate, faults, overlap>>

\* decode_index returned; the map is dropped.
UnmapFile(r) ==
    /\ view[r] # NoInode
    /\ view' = [view EXCEPT ![r] = NoInode]
    /\ UNCHANGED <<lock, target, len, pc, fd, fate, faults, overlap>>

WriterStep(w) ==
    \/ CreateLock(w) \/ LockExists(w)
    \/ WriteChunk(w) \/ FinishWrite(w)
    \/ Rename(w) \/ RenameFails(w) \/ Unlink(w)

Next ==
    \/ \E w \in Writer : WriterStep(w) \/ WriteFails(w) \/ Die(w)
    \/ \E r \in Reader : MapFile(r) \/ UnmapFile(r)

Spec == Init /\ [][Next]_vars

\* A script that runs the command again until it succeeds: every writer keeps
\* taking its own steps.  Faults and readers are never required to happen.
FairSpec == Spec /\ \A w \in Writer : WF_vars(WriterStep(w))

-----------------------------------------------------------------------------
(* Properties under any contention. *)

\* The lock path never holds a file that nobody is responsible for: its
\* creator is still inside write_index_to_path, or it died there.  Only a
\* death leaves a stale lock, however many processes fight over the path.
LockHasCreator ==
    lock # NoInode =>
        \/ \E w \in Writer : pc[w] # "idle" /\ fd[w] = lock
        \/ fate[lock] = "dead"

\* A torn index in place is always being completed by the process that
\* created the file, or that process died or ran out of space: without a
\* fault every torn file that a rename installs becomes whole again.
TornFileHasWriter ==
    target # NoInode /\ len[target] < Chunks =>
        \/ \E w \in Writer : pc[w] = "write" /\ fd[w] = target
        \/ fate[target] # "live"

(* Properties that need one writer at a time: they speak of behaviours in    *)
(* which no writer has started yet while another was at work.                *)

\* A reader that opens the file finds a whole one, at any moment.
TargetWhole == ~overlap /\ target # NoInode => len[target] = Chunks

\* What a reader has mapped stays whole while it is mapped.
ViewWhole ==
    ~overlap => \A r \in Reader : view[r] # NoInode => len[view[r]] = Chunks

\* An update only replaces the file, never writes to the one in place, and a
\* write_index that returns Ok has installed the file that it wrote.
SerialUpdates ==
    [][~overlap' =>
        /\ target # NoInode => len'[target] = len[target]
        /\ \A w \in Writer : Rename(w) => target' = fd[w]]_vars

\* A lock that a dead process left behind does not block the repository for
\* ever: the first refused command unlinks it and a retry then succeeds.
RetrySucceeds ==
    <>overlap \/ \A w \in Writer : []<><<Rename(w)>>_vars

(* What a comment says of any writers. *)

\* index.rs:701 "Git index updates replace the file through index.lock": no
\* step changes the contents of the file that is in place.
UpdatesReplaceTheFile ==
    [][target # NoInode => len'[target] = len[target]]_vars
=============================================================================
