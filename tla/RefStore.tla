------------------------------ MODULE RefStore ------------------------------
(***************************************************************************)
(* The reference store of zmin-git-core/src/refs.rs: one loose file per    *)
(* reference, shadowing the entry of the packed-refs file.  Every file     *)
(* system call of write_ref, write_symbolic_ref, delete_ref, pack_refs and *)
(* read_ref is a step; processes interleave between any two of them and    *)
(* may die between any two of them.  A lock file is created empty and      *)
(* written through the open file, wherever that has been renamed to, or    *)
(* although it has been unlinked, by then.                                 *)
(*                                                                         *)
(* Abstractions: a file is written in one step (prefixes are the subject   *)
(* of LockFile); an absent packed-refs file is the empty one; object ids   *)
(* and symbolic targets are opaque; peeled lines and empty parent          *)
(* directories are left out.                                               *)
(***************************************************************************)
EXTENDS FiniteSets, Integers

CONSTANTS
    Writers, Deleters, Packers, Readers,  \* what each process may run
    Ref,        \* reference names below refs/
    Tags,       \* the names below refs/tags/, which are packed by default
    Id,         \* object ids
    Symref,     \* symbolic targets ("ref: ...")
    NoTarget,   \* no such file or entry
    Empty,      \* a file that holds nothing: reading it is an error
    NoFile,     \* no such lock file
    NoRef,      \* no reference is being worked on
    MaxDeaths   \* bound: process deaths and failed writes per behaviour

Proc == Writers \cup Deleters \cup Packers \cup Readers
Target == Id \cup Symref

ASSUME RefStoreAssumption ==
    /\ Tags \subseteq Ref
    /\ Id \cap Symref = {}
    /\ {NoTarget, Empty} \cap (Id \cup Symref) = {}
    /\ NoTarget # Empty
    /\ NoRef \notin Ref
    /\ NoFile \notin [Ref -> Id \cup {NoTarget}]
    /\ MaxDeaths \in Nat

VARIABLES
    loose,     \* loose[r]: the contents of the file refs/...
    packed,    \* packed[r]: the entry of packed-refs
    refLock,   \* refLock[r]: the contents of refs/....lock
    packLock,  \* packed-refs.lock, which atomic_write uses
    newLock,   \* packed-refs.new, which delete_packed_ref uses
    out,       \* out[p]: where the file is that p has created and not yet written
    pc,        \* pc[p]: the next system call of process p
    name,      \* name[p]: the reference that p works on
    snap,      \* snap[p]: the packed-refs contents that p has read and edits
    todo,      \* todo[p]: loose names still to read (pack_refs) or to prune
    prune,     \* prune[p]: names that pack_refs removes after the rename
    past,      \* past[r]: every value written to r (history)
    saw,       \* saw[p]: what name[p] resolved to since p's read began (history)
    deleted,   \* some delete_ref has begun (history)
    clashed,   \* names at which two writers were at work at once (history)
    deaths

files == <<loose, packed, refLock, packLock, newLock, out>>
locals == <<pc, name, snap, todo, prune>>
ghosts == <<past, saw, deleted, clashed>>
vars == <<files, locals, ghosts, deaths>>

Packed == [Ref -> Id \cup {NoTarget}]
EmptyPacked == [r \in Ref |-> NoTarget]

Content == Target \cup {NoTarget, Empty}

PC == {"idle", "wFill", "wRename", "unlinkRef",
       "dScan", "dOpen", "dLock", "dFill", "dRename", "unlinkNew",
       "pList", "pRef", "pPacked", "pFill", "pRename", "unlinkPack", "pPrune",
       "rPacked"}

LooseFile(r) == <<"loose", r>>
LockFile(r) == <<"lock", r>>
PackedFile == <<"packed", NoRef>>
PackLockFile == <<"packLock", NoRef>>
NewLockFile == <<"newLock", NoRef>>
Nowhere == <<"nowhere", NoRef>>
Path == {LooseFile(r) : r \in Ref} \cup {LockFile(r) : r \in Ref}
        \cup {PackedFile, PackLockFile, NewLockFile, Nowhere}

TypeOK ==
    /\ loose \in [Ref -> Content]
    /\ packed \in Packed
    /\ refLock \in [Ref -> Content]
    /\ packLock \in Packed \cup {NoFile}
    /\ newLock \in Packed \cup {NoFile}
    /\ out \in [Proc -> Path]
    /\ pc \in [Proc -> PC]
    /\ name \in [Proc -> Ref \cup {NoRef}]
    /\ snap \in [Proc -> Packed]
    /\ todo \in [Proc -> SUBSET Ref]
    /\ prune \in [Proc -> SUBSET Ref]
    /\ past \in [Ref -> SUBSET Target]
    /\ saw \in [Proc -> SUBSET Content]
    /\ deleted \in BOOLEAN
    /\ clashed \subseteq Ref
    /\ deaths \in 0 .. MaxDeaths

\* read_ref on a store at rest: the loose file, else the packed entry.
Resolved(r) == IF loose[r] # NoTarget THEN loose[r] ELSE packed[r]

\* A repository at rest; every packed entry once was a loose value.
Init ==
    /\ loose \in [Ref -> Target \cup {NoTarget}]
    /\ packed = EmptyPacked
    /\ refLock = [r \in Ref |-> NoTarget]
    /\ packLock = NoFile
    /\ newLock = NoFile
    /\ out = [p \in Proc |-> Nowhere]
    /\ pc = [p \in Proc |-> "idle"]
    /\ name = [p \in Proc |-> NoRef]
    /\ snap = [p \in Proc |-> EmptyPacked]
    /\ todo = [p \in Proc |-> {}]
    /\ prune = [p \in Proc |-> {}]
    /\ past = [r \in Ref |-> {loose[r]} \ {NoTarget}]
    /\ saw = [p \in Proc |-> {}]
    /\ deleted = FALSE
    /\ clashed = {}
    /\ deaths = 0

-----------------------------------------------------------------------------
(* Bookkeeping shared by the actions. *)

\* p goes on to step s of its current operation.
GoTo(p, s) == pc' = [pc EXCEPT ![p] = s]

\* The operation of p is over (Ok or Err): its local variables are gone.
Return(p) ==
    /\ GoTo(p, "idle")
    /\ name' = [name EXCEPT ![p] = NoRef]
    /\ snap' = [snap EXCEPT ![p] = EmptyPacked]
    /\ todo' = [todo EXCEPT ![p] = {}]
    /\ prune' = [prune EXCEPT ![p] = {}]

\* create_new: p holds the new, empty file.
Opened(p, path) == out' = [out EXCEPT ![p] = path]

\* The file is written, or p gives it up.
Closed(p) == out' = [out EXCEPT ![p] = Nowhere]

\* A file that somebody holds open moves with a rename; what it replaces, like
\* what is unlinked, can no longer be reached by a path.
Renamed(from, to) ==
    out' = [q \in Proc |-> CASE out[q] = from -> to
                             [] out[q] = to -> Nowhere
                             [] OTHER -> out[q]]

Unlinked(path) ==
    out' = [q \in Proc |-> IF out[q] = path THEN Nowhere ELSE out[q]]

\* What a read_ref that is between its two files has seen r resolve to so far.
Observe ==
    saw' = [q \in Proc |->
              IF pc[q] = "rPacked" THEN saw[q] \cup {Resolved(name[q])'}
                                   ELSE saw[q]]

-----------------------------------------------------------------------------
(* write_ref and write_symbolic_ref: atomic_write on the loose file. *)

AtWork(p, r) == pc[p] \in {"wFill", "wRename", "unlinkRef"} /\ name[p] = r

\* write_lock_file: create_new, ...
WriteLock(p, r) ==
    /\ pc[p] = "idle"
    /\ name' = [name EXCEPT ![p] = r]
    /\ clashed' = clashed \cup {s \in {r} : \E q \in Proc : AtWork(q, s)}
    /\ IF refLock[r] = NoTarget
       THEN /\ refLock' = [refLock EXCEPT ![r] = Empty]
            /\ Opened(p, LockFile(r))
            /\ GoTo(p, "wFill")
       ELSE UNCHANGED <<refLock, out>> /\ GoTo(p, "unlinkRef")
    /\ UNCHANGED <<loose, packed, packLock, newLock, snap, todo, prune, past, saw,
                   deleted, deaths>>

\* ... and write_all to the file that was created.
WriteFill(p, t) ==
    LET r == name[p]
    IN  /\ pc[p] = "wFill"
        /\ refLock' = IF out[p] = LockFile(r) THEN [refLock EXCEPT ![r] = t] ELSE refLock
        /\ IF out[p] = LooseFile(r)
           THEN /\ loose' = [loose EXCEPT ![r] = t]
                /\ past' = [past EXCEPT ![r] = @ \cup {t}]
           ELSE UNCHANGED <<loose, past>>
        /\ Closed(p)
        /\ GoTo(p, "wRename")
        /\ UNCHANGED <<packed, packLock, newLock, name, snap, todo, prune, deleted,
                       clashed, deaths>>
        /\ Observe

\* Mutant: the lock path replaces the extension of the name instead of adding
\* one, so that names which differ only there share it.
MutWriteRename(p) ==
    /\ pc[p] = "wRename"
    /\ \E r \in Ref :
        /\ refLock[r] # NoTarget
        /\ loose' = [loose EXCEPT ![name[p]] = refLock[r]]
        /\ past' = [past EXCEPT ![r] = @ \cup ({refLock[r]} \ {Empty})]
        /\ refLock' = [refLock EXCEPT ![r] = NoTarget]
        /\ Renamed(LockFile(r), LooseFile(r))
    /\ Return(p)
    /\ UNCHANGED <<packed, packLock, newLock, deleted, clashed, deaths>>
    /\ Observe

\* rename: whatever file is at the lock path by now takes the place.
WriteRename(p) ==
    LET r == name[p]
    IN  /\ pc[p] = "wRename"
        /\ IF refLock[r] # NoTarget
           THEN /\ loose' = [loose EXCEPT ![r] = refLock[r]]
                /\ past' = [past EXCEPT ![r] = @ \cup ({refLock[r]} \ {Empty})]
                /\ refLock' = [refLock EXCEPT ![r] = NoTarget]
                /\ Renamed(LockFile(r), LooseFile(r))
                /\ Return(p)
           ELSE /\ GoTo(p, "unlinkRef")
                /\ UNCHANGED <<loose, past, refLock, out, name, snap, todo, prune>>
        /\ UNCHANGED <<packed, packLock, newLock, deleted, clashed, deaths>>
        /\ Observe

\* The error branch of atomic_write.
UnlinkRefLock(p) ==
    /\ pc[p] = "unlinkRef"
    /\ refLock' = [refLock EXCEPT ![name[p]] = NoTarget]
    /\ Unlinked(LockFile(name[p]))
    /\ Return(p)
    /\ UNCHANGED <<loose, packed, packLock, newLock, ghosts, deaths>>

-----------------------------------------------------------------------------
(* delete_ref: the loose file first, then the packed entry. *)

DeleteLoose(p, r) ==
    /\ pc[p] = "idle"
    /\ loose' = [loose EXCEPT ![r] = NoTarget]
    /\ Unlinked(LooseFile(r))
    /\ name' = [name EXCEPT ![p] = r]
    /\ deleted' = TRUE
    /\ GoTo(p, "dScan")
    /\ UNCHANGED <<packed, refLock, packLock, newLock, snap, todo, prune, past,
                   clashed, deaths>>
    /\ Observe

\* Mutant: a removed loose file is taken to be the whole reference.
MutDeleteScan(p) ==
    /\ pc[p] = "dScan"
    /\ Return(p)
    /\ UNCHANGED <<files, ghosts, deaths>>

\* delete_packed_ref, first pass: is the name there at all?
DeleteScan(p) ==
    /\ pc[p] = "dScan"
    /\ IF packed[name[p]] = NoTarget
       THEN Return(p)
       ELSE GoTo(p, "dOpen") /\ UNCHANGED <<name, snap, todo, prune>>
    /\ UNCHANGED <<files, ghosts, deaths>>

\* The second File::open pins one version of packed-refs.
DeleteOpen(p) ==
    /\ pc[p] = "dOpen"
    /\ snap' = [snap EXCEPT ![p] = packed]
    /\ GoTo(p, "dLock")
    /\ UNCHANGED <<files, name, todo, prune, ghosts, deaths>>

\* write_packed_refs_without_ref: create_new on packed-refs.new ...
DeleteLock(p) ==
    /\ pc[p] = "dLock"
    /\ IF newLock = NoFile
       THEN newLock' = EmptyPacked /\ Opened(p, NewLockFile) /\ GoTo(p, "dFill")
       ELSE UNCHANGED <<newLock, out>> /\ GoTo(p, "unlinkNew")
    /\ UNCHANGED <<loose, packed, refLock, packLock, name, snap, todo, prune,
                   ghosts, deaths>>

\* Mutant: skip_peeled is never reset, so the other entries are lost too.
MutKept(p) == EmptyPacked

Kept(p) == [snap[p] EXCEPT ![name[p]] = NoTarget]

\* ... and the other entries are copied.
DeleteFill(p) ==
    /\ pc[p] = "dFill"
    /\ newLock' = IF out[p] = NewLockFile THEN Kept(p) ELSE newLock
    /\ packed' = IF out[p] = PackedFile THEN Kept(p) ELSE packed
    /\ Closed(p)
    /\ GoTo(p, "dRename")
    /\ UNCHANGED <<loose, refLock, packLock, name, snap, todo, prune, past, deleted,
                   clashed, deaths>>
    /\ Observe

DeleteRename(p) ==
    /\ pc[p] = "dRename"
    /\ IF newLock # NoFile
       THEN /\ packed' = newLock /\ newLock' = NoFile
            /\ Renamed(NewLockFile, PackedFile)
            /\ Return(p)
       ELSE /\ GoTo(p, "unlinkNew")
            /\ UNCHANGED <<packed, newLock, out, name, snap, todo, prune>>
    /\ UNCHANGED <<loose, refLock, packLock, past, deleted, clashed, deaths>>
    /\ Observe

UnlinkNewLock(p) ==
    /\ pc[p] = "unlinkNew"
    /\ newLock' = NoFile
    /\ Unlinked(NewLockFile)
    /\ Return(p)
    /\ UNCHANGED <<loose, packed, refLock, packLock, ghosts, deaths>>

-----------------------------------------------------------------------------
(* pack_refs, with options.all and options.prune chosen by the caller. *)

\* read_packed_refs
PackRead(p) ==
    /\ pc[p] = "idle"
    /\ snap' = [snap EXCEPT ![p] = packed]
    /\ GoTo(p, "pList")
    /\ UNCHANGED <<files, name, todo, prune, ghosts, deaths>>

\* loose_ref_names, and which of them `should_pack`
PackList(p) ==
    /\ pc[p] = "pList"
    /\ \E all \in BOOLEAN :
        todo' = [todo EXCEPT ![p] =
                   {r \in Ref : /\ loose[r] # NoTarget
                                /\ all \/ r \in Tags \/ snap[p][r] # NoTarget}]
    /\ GoTo(p, "pRef")
    /\ UNCHANGED <<files, name, snap, prune, ghosts, deaths>>

\* Mutant: a symbolic reference is packed like an object id.
MutPackEntry(p, r, t) ==
    /\ snap' = [snap EXCEPT ![p] = [@ EXCEPT ![r] = t]]
    /\ prune' = [prune EXCEPT ![p] = @ \cup {r}]
    /\ todo' = [todo EXCEPT ![p] = @ \ {r}]

\* The entry for r goes into the new contents if it is an object id.
PackEntry(p, r, t) ==
    /\ IF t \in Id
       THEN /\ snap' = [snap EXCEPT ![p] = [@ EXCEPT ![r] = t]]
            /\ prune' = [prune EXCEPT ![p] = @ \cup {r}]
       ELSE UNCHANGED <<snap, prune>>
    /\ todo' = [todo EXCEPT ![p] = @ \ {r}]

\* read_ref(&name)?: the loose file, in which nothing is an error, ...
PackReadLoose(p) ==
    /\ pc[p] = "pRef"
    /\ \E r \in todo[p] :
        CASE loose[r] \in Target -> PackEntry(p, r, loose[r]) /\ UNCHANGED <<pc, name>>
          [] loose[r] = Empty -> Return(p)
          [] loose[r] = NoTarget -> /\ name' = [name EXCEPT ![p] = r]
                                    /\ GoTo(p, "pPacked")
                                    /\ UNCHANGED <<snap, todo, prune>>
    /\ UNCHANGED <<files, ghosts, deaths>>

\* ... or, if it is gone by now, the packed entry; neither aborts pack_refs.
PackReadPacked(p) ==
    /\ pc[p] = "pPacked"
    /\ IF packed[name[p]] # NoTarget
       THEN /\ PackEntry(p, name[p], packed[name[p]])
            /\ name' = [name EXCEPT ![p] = NoRef]
            /\ GoTo(p, "pRef")
       ELSE Return(p)
    /\ UNCHANGED <<files, ghosts, deaths>>

\* atomic_write(packed-refs): create_new on packed-refs.lock ...
PackLock(p) ==
    /\ pc[p] = "pRef"
    /\ todo[p] = {}
    /\ IF packLock = NoFile
       THEN packLock' = EmptyPacked /\ Opened(p, PackLockFile) /\ GoTo(p, "pFill")
       ELSE UNCHANGED <<packLock, out>> /\ GoTo(p, "unlinkPack")
    /\ UNCHANGED <<loose, packed, refLock, newLock, name, snap, todo, prune,
                   ghosts, deaths>>

\* ... and write_all.
PackFill(p) ==
    /\ pc[p] = "pFill"
    /\ packLock' = IF out[p] = PackLockFile THEN snap[p] ELSE packLock
    /\ packed' = IF out[p] = PackedFile THEN snap[p] ELSE packed
    /\ Closed(p)
    /\ GoTo(p, "pRename")
    /\ UNCHANGED <<loose, refLock, newLock, name, snap, todo, prune, past, deleted,
                   clashed, deaths>>
    /\ Observe

\* Mutant: the result of the write is ignored and pruning goes ahead.
MutPackRename(p) ==
    /\ pc[p] = "pRename"
    /\ packLock # NoFile
    /\ packLock' = NoFile
    /\ GoTo(p, "pPrune")
    /\ Unlinked(PackLockFile)
    /\ UNCHANGED <<packed, loose, refLock, newLock, name, snap, todo, prune,
                   past, deleted, clashed, deaths>>
    /\ Observe

PackRename(p) ==
    /\ pc[p] = "pRename"
    /\ IF packLock # NoFile
       THEN /\ packed' = packLock
            /\ packLock' = NoFile
            /\ Renamed(PackLockFile, PackedFile)
            /\ \E optPrune \in BOOLEAN :
                prune' = IF optPrune THEN prune ELSE [prune EXCEPT ![p] = {}]
            /\ GoTo(p, "pPrune")
       ELSE UNCHANGED <<packed, packLock, out, prune>> /\ GoTo(p, "unlinkPack")
    /\ UNCHANGED <<loose, refLock, newLock, name, snap, todo, past, deleted,
                   clashed, deaths>>
    /\ Observe

UnlinkPackLock(p) ==
    /\ pc[p] = "unlinkPack"
    /\ packLock' = NoFile
    /\ Unlinked(PackLockFile)
    /\ Return(p)
    /\ UNCHANGED <<loose, packed, refLock, newLock, ghosts, deaths>>

\* if options.prune: remove the loose files, whatever they hold by now
PackPrune(p) ==
    /\ pc[p] = "pPrune"
    /\ \E r \in prune[p] :
        /\ loose' = [loose EXCEPT ![r] = NoTarget]
        /\ prune' = [prune EXCEPT ![p] = @ \ {r}]
        /\ Unlinked(LooseFile(r))
    /\ UNCHANGED <<packed, refLock, packLock, newLock, pc, name, snap, todo,
                   past, deleted, clashed, deaths>>
    /\ Observe

\* Nothing left to prune (or options.prune is off): Ok.
PackDone(p) ==
    /\ pc[p] = "pPrune"
    /\ prune[p] = {}
    /\ Return(p)
    /\ UNCHANGED <<files, ghosts, deaths>>

-----------------------------------------------------------------------------
(* read_ref: the loose file, then packed-refs. *)

\* Mutant: packed-refs is read without regard to the loose file.
MutReadLoose(p, r) ==
    /\ pc[p] = "idle"
    /\ name' = [name EXCEPT ![p] = r]
    /\ GoTo(p, "rPacked")
    /\ saw' = [saw EXCEPT ![p] = {Resolved(r)}]
    /\ UNCHANGED <<files, snap, todo, prune, past, deleted, clashed, deaths>>

\* The loose file is not there (if it is, with or without contents, this one
\* call is the whole read).
ReadLoose(p, r) ==
    /\ pc[p] = "idle"
    /\ loose[r] = NoTarget
    /\ name' = [name EXCEPT ![p] = r]
    /\ GoTo(p, "rPacked")
    /\ saw' = [saw EXCEPT ![p] = {Resolved(r)}]
    /\ UNCHANGED <<files, snap, todo, prune, past, deleted, clashed, deaths>>

ReadPacked(p) ==
    /\ pc[p] = "rPacked"
    /\ saw' = [saw EXCEPT ![p] = {}]
    /\ Return(p)
    /\ UNCHANGED <<files, past, deleted, clashed, deaths>>

\* The process dies; files and lock files stay as they are.
Die(p) ==
    /\ pc[p] # "idle"
    /\ deaths < MaxDeaths
    /\ deaths' = deaths + 1
    /\ saw' = [saw EXCEPT ![p] = {}]
    /\ Closed(p)
    /\ Return(p)
    /\ UNCHANGED <<loose, packed, refLock, packLock, newLock, past, deleted, clashed>>

\* write_all fails: the lock path is unlinked next.
WriteFails(p) ==
    /\ deaths < MaxDeaths
    /\ deaths' = deaths + 1
    /\ \/ pc[p] = "wFill" /\ GoTo(p, "unlinkRef")
       \/ pc[p] = "dFill" /\ GoTo(p, "unlinkNew")
       \/ pc[p] = "pFill" /\ GoTo(p, "unlinkPack")
    /\ Closed(p)
    /\ UNCHANGED <<loose, packed, refLock, packLock, newLock, name, snap, todo, prune,
                   ghosts>>

Next ==
    \/ \E p \in Writers :
        \/ \E r \in Ref : WriteLock(p, r)
        \/ \E t \in Target : WriteFill(p, t)
        \/ WriteRename(p) \/ UnlinkRefLock(p)
    \/ \E p \in Deleters :
        \/ \E r \in Ref : DeleteLoose(p, r)
        \/ DeleteScan(p) \/ DeleteOpen(p) \/ DeleteLock(p) \/ DeleteFill(p)
        \/ DeleteRename(p) \/ UnlinkNewLock(p)
    \/ \E p \in Packers :
        \/ PackRead(p) \/ PackList(p) \/ PackReadLoose(p) \/ PackReadPacked(p)
        \/ PackLock(p) \/ PackFill(p) \/ PackRename(p) \/ UnlinkPackLock(p)
        \/ PackPrune(p) \/ PackDone(p)
    \/ \E p \in Readers :
        \/ \E r \in Ref : ReadLoose(p, r)
        \/ ReadPacked(p)
    \/ \E p \in Proc : Die(p) \/ WriteFails(p)

Spec == Init /\ [][Next]_vars

-----------------------------------------------------------------------------
(* Properties *)

\* read_ref is atomic although it reads two files: what a read that missed the
\* loose file is about to find in packed-refs is something that the name
\* resolved to since the read began.
ReadsAreAtomic ==
    \A p \in Readers : pc[p] = "rPacked" => packed[name[p]] \in saw[p]

\* Until a delete_ref begins, a reference that has a file or a packed entry
\* keeps one, whatever the writers and a packer do at the same time and wherever
\* one of them fails or dies: packed-refs is replaced before the loose files go.
\* And it can be read, as long as no two writers were at work on it at once: if
\* they were, the one that is refused unlinks the other's lock file, so that a
\* rename may put an empty file in place.
ResolvedNeverVanishes ==
    [][~deleted' =>
        \A r \in Ref : Resolved(r) # NoTarget =>
            /\ Resolved(r)' # NoTarget
            /\ r \notin clashed' => Resolved(r)' \in Target]_vars

\* However writers, deleters and packers collide, a reference only ever holds
\* what was written to it: no file and no packed entry takes over the value of
\* another name or one that no write_ref brought in.  The exception is a loose
\* file with nothing in it: only where writers clashed, and then the writer
\* that created it is about to fill it, unless one has failed or died.
OnlyWrittenValues ==
    \A r \in Ref :
        /\ {loose[r], packed[r]} \subseteq past[r] \cup {NoTarget, Empty}
        /\ loose[r] = Empty =>
            /\ r \in clashed
            /\ deaths > 0 \/ \E p \in Writers : pc[p] = "wFill" /\ out[p] = LooseFile(r)

\* A delete_ref that returns Ok (no death, no lock error) leaves the name
\* unresolved: both the loose file and the packed entry are gone.
DeletedRefIsGone ==
    [][\A p \in Deleters, r \in Ref :
        /\ pc[p] \in {"dScan", "dRename"} /\ name[p] = r
        /\ pc'[p] = "idle"
        /\ deaths' = deaths
        => Resolved(r)' = NoTarget]_vars

\* Seen as a map from names to values (module RefMap), pack_refs changes
\* nothing at any of its steps, a deletion touches only its own name, and a
\* process that dies anywhere leaves the map as it is.
Map == INSTANCE RefMap WITH
    value <- [r \in Ref |-> Resolved(r)],
    past <- past,
    deleting <- {name[p] : p \in {q \in Proc :
                    pc[q] \in {"dScan", "dOpen", "dLock", "dFill", "dRename",
                               "unlinkNew"}}}

RefinesMap == Map!MapSpec
=============================================================================
