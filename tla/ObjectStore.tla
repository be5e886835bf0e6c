---------------------------- MODULE ObjectStore ----------------------------
(***************************************************************************)
(* The object database: loose files and packs, the processes that write    *)
(* and read them (zmin-git-core loose.rs, pack.rs) and the maintenance     *)
(* commands that move and remove them (maintenance_impl.rs repack, gc,     *)
(* prune, prune-packed).                                                   *)
(*                                                                         *)
(* Abstractions: files come into place whole, by a hard link from a        *)
(* temporary file of the writer's own; a pack is named after its contents  *)
(* (the objects and how they are encoded); refs, HEAD, reflogs and index   *)
(* entries are one set of roots; alternates, .rev, bitmap and midx files   *)
(* are left out.  Indexes are searched in the order of their file names,   *)
(* which are hashes: any of those that list an object may come first.      *)
(***************************************************************************)
EXTENDS Integers, FiniteSets

CONSTANTS
    Obj,         \* object ids
    Links,       \* Links[o]: the objects that o names
    Enc,         \* ways to encode a pack of given objects
    Writer, Reader, Maint,    \* processes
    Command,     \* the maintenance commands that are run
    KeepPack,    \* TRUE if repack may be given --keep-pack
    Exclusive,   \* TRUE if maintenance only runs alone
    MaxCommands, \* bound: maintenance commands started
    MaxCrashes,  \* bound: processes killed
    None         \* no object, no pack

Commands == {"prune-packed", "repack", "repack -d", "repack -a -d",
             "repack -A -d", "gc", "prune"}

ASSUME ObjectStoreAssumption ==
    /\ Links \in [Obj -> SUBSET Obj]
    /\ Command \subseteq Commands
    /\ {KeepPack, Exclusive} \subseteq BOOLEAN
    /\ {MaxCommands, MaxCrashes} \subseteq Nat

\* A pack: its objects, of which there are some, and their encoding.
PackName == [objs : (SUBSET Obj) \ {{}}, enc : Enc]
ASSUME NoneAssumption == None \notin PackName \cup Obj

VARIABLES
    loose,    \* loose object files
    packs,    \* pack-*.pack files
    idxs,     \* pack-*.idx files
    roots,    \* what refs, HEAD, reflogs and index name
    wpc, goal,          \* writers: step and object
    rpc, want, hit,     \* readers: step, object and index found
    mpc, cmd,           \* maintenance: step and command
    oldp, kept,         \* old_pack_names, keep_pack_names
    reach,              \* reachable
    scan,               \* ids of the loop or of the new pack
    newp, victim,       \* pack_name, pack being removed
    started, crashes    \* counters

files == <<loose, packs, idxs>>
writers == <<wpc, goal>>
readers == <<rpc, want, hit>>
locals == <<cmd, oldp, kept, reach, scan, newp, victim>>
counters == <<started, crashes>>
vars == <<loose, packs, idxs, roots, wpc, goal, rpc, want, hit, mpc, cmd, oldp,
          kept, reach, scan, newp, victim, started, crashes>>

FilesOK ==
    /\ loose \subseteq Obj
    /\ packs \subseteq PackName /\ idxs \subseteq PackName
    /\ roots \subseteq Obj

WritersOK ==
    /\ wpc \in [Writer -> {"idle", "temp", "publish"}]
    /\ goal \in [Writer -> Obj \cup {None}]
    /\ \A w \in Writer : wpc[w] # "idle" => goal[w] \in Obj

ReadersOK ==
    /\ rpc \in [Reader -> {"idle", "loose", "idx", "pack", "missing"}]
    /\ want \in [Reader -> Obj \cup {None}]
    /\ hit \in [Reader -> PackName \cup {None}]

MaintOK ==
    /\ mpc \in [Maint -> {"idle", "collect", "loosen", "select", "write",
                          "install", "idx", "remove", "removeidx",
                          "duplicates", "unlink", "expire", "prune"}]
    /\ cmd \in [Maint -> Commands]
    /\ oldp \in [Maint -> SUBSET PackName]
    /\ kept \in [Maint -> SUBSET PackName]
    /\ reach \in [Maint -> SUBSET Obj]
    /\ scan \in [Maint -> SUBSET Obj]
    /\ newp \in [Maint -> PackName \cup {None}]
    /\ victim \in [Maint -> PackName \cup {None}]
    /\ \A m \in Maint : mpc[m] \in {"install", "idx"} => newp[m] \in PackName

TypeOK ==
    /\ FilesOK /\ WritersOK /\ ReadersOK /\ MaintOK
    /\ started \in 0 .. MaxCommands
    /\ crashes \in 0 .. MaxCrashes

-----------------------------------------------------------------------------
(* What is on disk *)

ObjsOf(ps) == UNION {p.objs : p \in ps}

\* A whole copy is on disk where a lookup could find it.
Stored(o) == o \in loose \cup ObjsOf(packs \cap idxs)

\* collect_reachable_objects: the least set of objects that contains S and is
\* closed under Links.
Reachable(S) ==
    {o \in Obj : \A T \in SUBSET Obj :
        S \subseteq T /\ (\A x \in T : Links[x] \subseteq T) => o \in T}

\* The outcomes of read_object: the loose file, else the pack of the first
\* index that lists the object, whether or not that pack is still there.
MayFind(o) == o \in loose \/ \E p \in idxs \cap packs : o \in p.objs
MayMiss(o) == /\ o \notin loose
              /\ (o \notin ObjsOf(idxs)) \/ (\E p \in idxs \ packs : o \in p.objs)

Init ==
    /\ loose \in SUBSET Obj
    /\ \E p \in PackName : packs \in {{}, {p}}
    /\ idxs = packs
    /\ roots \in SUBSET Obj
    /\ \A o \in Reachable(roots) : Stored(o)
    /\ wpc = [w \in Writer |-> "idle"] /\ goal = [w \in Writer |-> None]
    /\ rpc = [r \in Reader |-> "idle"] /\ want = [r \in Reader |-> None]
    /\ hit = [r \in Reader |-> None]
    /\ mpc = [m \in Maint |-> "idle"] /\ cmd = [m \in Maint |-> "prune"]
    /\ oldp = [m \in Maint |-> {}] /\ kept = [m \in Maint |-> {}]
    /\ reach = [m \in Maint |-> {}] /\ scan = [m \in Maint |-> {}]
    /\ newp = [m \in Maint |-> None] /\ victim = [m \in Maint |-> None]
    /\ started = 0 /\ crashes = 0

WritersIdle == \A w \in Writer : wpc[w] = "idle"
MaintIdle == \A m \in Maint : mpc[m] = "idle"

-----------------------------------------------------------------------------
(* Writers: add, commit, ... write an object, then a root that names it *)

\* write_object: the content is known, the loose path is looked up.
WriteObject(w, o) ==
    /\ wpc[w] = "idle"
    /\ Exclusive => MaintIdle
    /\ Links[o] \subseteq Reachable(roots)
    /\ goal' = [goal EXCEPT ![w] = o]
    /\ wpc' = [wpc EXCEPT ![w] = IF o \in loose THEN "publish" ELSE "temp"]
    /\ UNCHANGED <<files, roots, readers, mpc, locals, counters>>

\* install_temp_object_file: an existing file is as good as the new one.
Install(w) ==
    /\ wpc[w] = "temp"
    /\ loose' = loose \cup {goal[w]}
    /\ wpc' = [wpc EXCEPT ![w] = "publish"]
    /\ UNCHANGED <<packs, idxs, roots, goal, readers, mpc, locals, counters>>

\* The reference or the index entry that names the object.
Publish(w) ==
    /\ wpc[w] = "publish"
    /\ roots' = roots \cup {goal[w]}
    /\ wpc' = [wpc EXCEPT ![w] = "idle"]
    /\ goal' = [goal EXCEPT ![w] = None]
    /\ UNCHANGED <<files, readers, mpc, locals, counters>>

\* A branch is deleted, an index entry removed, a reflog expired.
DropRoot(o) ==
    /\ o \in roots
    /\ Exclusive => MaintIdle /\ WritersIdle
    /\ roots' = roots \ {o}
    /\ UNCHANGED <<files, writers, readers, mpc, locals, counters>>

-----------------------------------------------------------------------------
(* Readers: read_object *)

StartRead(r, o) ==
    /\ rpc[r] = "idle"
    /\ Stored(o)
    /\ want' = [want EXCEPT ![r] = o]
    /\ rpc' = [rpc EXCEPT ![r] = "loose"]
    /\ UNCHANGED <<files, roots, writers, hit, mpc, locals, counters>>

\* The object is returned to the caller.
Found(r) ==
    /\ rpc' = [rpc EXCEPT ![r] = "idle"]
    /\ want' = [want EXCEPT ![r] = None]
    /\ hit' = [hit EXCEPT ![r] = None]

\* The step after this one, or the NotFound error.
ReadOn(r, pc, p) ==
    /\ rpc' = [rpc EXCEPT ![r] = pc]
    /\ hit' = [hit EXCEPT ![r] = p]
    /\ UNCHANGED want

\* fs::File::open of the loose path
ReadLoose(r) ==
    /\ rpc[r] = "loose"
    /\ IF want[r] \in loose THEN Found(r) ELSE ReadOn(r, "idx", None)
    /\ UNCHANGED <<files, roots, writers, mpc, locals, counters>>

\* Mutant: the cached list of indexes is not compared with the directory; it
\* may lack any index.
MutReadIdx(r) ==
    /\ rpc[r] = "idx"
    /\ \/ \E p \in idxs : want[r] \in p.objs /\ ReadOn(r, "pack", p)
       \/ ReadOn(r, "missing", None)
    /\ UNCHANGED <<files, roots, writers, mpc, locals, counters>>

\* lookup_pack_index_for
ReadIdx(r) ==
    /\ rpc[r] = "idx"
    /\ \/ \E p \in idxs : want[r] \in p.objs /\ ReadOn(r, "pack", p)
       \/ want[r] \notin ObjsOf(idxs) /\ ReadOn(r, "missing", None)
    /\ UNCHANGED <<files, roots, writers, mpc, locals, counters>>

\* read_pack_object
ReadPack(r) ==
    /\ rpc[r] = "pack"
    /\ IF hit[r] \in packs THEN Found(r) ELSE ReadOn(r, "missing", None)
    /\ UNCHANGED <<files, roots, writers, mpc, locals, counters>>

-----------------------------------------------------------------------------
(* Maintenance *)

CmdAll(m) == cmd[m] \in {"repack -a -d", "repack -A -d", "gc"}
CmdDelete(m) == cmd[m] # "repack"

\* The command is over, with or without an error: its locals are gone.
Quit(m) ==
    /\ mpc' = [mpc EXCEPT ![m] = "idle"]
    /\ cmd' = [cmd EXCEPT ![m] = "prune"]
    /\ oldp' = [oldp EXCEPT ![m] = {}] /\ kept' = [kept EXCEPT ![m] = {}]
    /\ reach' = [reach EXCEPT ![m] = {}] /\ scan' = [scan EXCEPT ![m] = {}]
    /\ newp' = [newp EXCEPT ![m] = None]
    /\ victim' = [victim EXCEPT ![m] = None]

Goto(m, pc) == mpc' = [mpc EXCEPT ![m] = pc]

\* What repack returns to: gc goes on with prune.
Return(m) ==
    IF cmd[m] = "gc"
    THEN Goto(m, "expire") /\ UNCHANGED locals
    ELSE Quit(m)

others == <<roots, writers, readers, counters>>

Start(m, c) ==
    /\ mpc[m] = "idle"
    /\ started < MaxCommands
    /\ Exclusive => MaintIdle /\ WritersIdle
    /\ started' = started + 1
    /\ cmd' = [cmd EXCEPT ![m] = c]
    /\ CASE c = "prune-packed" -> Goto(m, "duplicates") /\ UNCHANGED <<oldp, kept>>
         [] c = "prune" -> Goto(m, "expire") /\ UNCHANGED <<oldp, kept>>
         [] OTHER ->
            \* pack_names and normalize_keep_pack_names
            \E K \in SUBSET (packs \cap idxs) :
                /\ K # {} => KeepPack /\ c # "gc"
                /\ Goto(m, "collect")
                /\ oldp' = [oldp EXCEPT ![m] = packs \cap idxs]
                /\ kept' = [kept EXCEPT ![m] = K]
    /\ UNCHANGED <<files, roots, writers, readers, reach, scan, newp, victim,
                   crashes>>

\* repack: the reachable objects (-a, -A), or the loose ones.
RepackCollect(m) ==
    /\ mpc[m] = "collect"
    /\ \/ /\ CmdAll(m)
          /\ \A o \in Reachable(roots) : MayFind(o)
          /\ reach' = [reach EXCEPT ![m] = Reachable(roots)]
          /\ scan' = [scan EXCEPT ![m] = ObjsOf(idxs)]
          /\ Goto(m, IF cmd[m] = "repack -A -d" THEN "loosen" ELSE "select")
          /\ UNCHANGED <<cmd, oldp, kept, newp, victim>>
       \/ /\ CmdAll(m)
          /\ \E o \in Reachable(roots) : MayMiss(o)
          /\ Quit(m)
       \/ /\ ~CmdAll(m)
          /\ scan' = [scan EXCEPT ![m] = loose \ ObjsOf(kept[m])]
          /\ Goto(m, "write")
          /\ UNCHANGED <<cmd, oldp, kept, reach, newp, victim>>
    /\ UNCHANGED <<files, others>>

\* Mutant: -A leaves unreachable objects to the packs that it will remove.
MutLoosen(m) ==
    /\ mpc[m] = "loosen"
    /\ scan[m] # {}
    /\ scan' = [scan EXCEPT ![m] = {}]
    /\ UNCHANGED <<loose, mpc, cmd, oldp, kept, reach, newp, victim>>
    /\ UNCHANGED <<packs, idxs, others>>

\* loosen_unreachable_packed_objects: one packed object at a time.
Loosen(m) ==
    /\ mpc[m] = "loosen"
    /\ \E o \in scan[m] :
        \/ /\ o \in reach[m] \/ o \in loose \/ MayFind(o)
           /\ loose' = IF o \in reach[m] THEN loose ELSE loose \cup {o}
           /\ scan' = [scan EXCEPT ![m] = @ \ {o}]
           /\ UNCHANGED <<mpc, cmd, oldp, kept, reach, newp, victim>>
        \/ /\ o \notin reach[m] /\ MayMiss(o)
           /\ Quit(m)
           /\ UNCHANGED loose
    /\ UNCHANGED <<packs, idxs, others>>

LoosenDone(m) ==
    /\ mpc[m] = "loosen"
    /\ scan[m] = {}
    /\ Goto(m, "select")
    /\ UNCHANGED <<files, locals, others>>

\* collect_repack_candidate_ids: a second walk, within the first one's result.
RepackSelect(m) ==
    /\ mpc[m] = "select"
    /\ scan' = [scan EXCEPT ![m] =
                    (reach[m] \cap Reachable(roots)) \ ObjsOf(kept[m])]
    /\ Goto(m, "write")
    /\ UNCHANGED <<cmd, oldp, kept, reach, newp, victim>>
    /\ UNCHANGED <<files, others>>

\* Mutant: there is no early return when nothing is to be packed.
MutRepackWrite(m) ==
    /\ mpc[m] = "write"
    /\ \E e \in Enc :
          newp' = [newp EXCEPT ![m] = [objs |-> scan[m], enc |-> e]]
    /\ Goto(m, "install")
    /\ UNCHANGED <<cmd, oldp, kept, reach, scan, victim>>
    /\ UNCHANGED <<files, others>>

\* Nothing to pack ends the command early; otherwise the temporary pack is
\* written, or an object that cannot be read ends the command.
RepackWrite(m) ==
    /\ mpc[m] = "write"
    /\ \/ scan[m] = {} /\ Return(m)
       \/ /\ scan[m] # {}
          /\ \A o \in scan[m] : MayFind(o)
          /\ \E e \in Enc :
                newp' = [newp EXCEPT ![m] = [objs |-> scan[m], enc |-> e]]
          /\ Goto(m, "install")
          /\ UNCHANGED <<cmd, oldp, kept, reach, scan, victim>>
       \/ (\E o \in scan[m] : MayMiss(o)) /\ Quit(m)
    /\ UNCHANGED <<files, others>>

\* install_temp_repack_file; the same pack may be there already.
RepackInstall(m) ==
    /\ mpc[m] = "install"
    /\ packs' = packs \cup {newp[m]}
    /\ Goto(m, "idx")
    /\ UNCHANGED <<loose, idxs, locals, others>>

\* Mutant: loose duplicates are removed although no index was written.
MutRepackIdx(m) ==
    /\ mpc[m] = "idx"
    /\ scan' = [scan EXCEPT ![m] = newp[m].objs]
    /\ Goto(m, "unlink")
    /\ UNCHANGED <<loose, packs, idxs, cmd, oldp, kept, reach, newp, victim>>
    /\ UNCHANGED others

\* write_content_addressed_file of the .idx (and the .rev) file.
RepackIdx(m) ==
    /\ mpc[m] = "idx"
    /\ idxs' = idxs \cup {newp[m]}
    /\ IF ~CmdDelete(m)
       THEN Quit(m)
       ELSE /\ Goto(m, IF CmdAll(m) THEN "remove" ELSE "duplicates")
            /\ UNCHANGED locals
    /\ UNCHANGED <<loose, packs, others>>

\* Mutant: the list of packs is taken after the new pack was installed.
MutReplaced(m) == oldp[m] \ kept[m]

\* The packs that the new one replaces.
Replaced(m) == oldp[m] \ ({newp[m]} \cup kept[m])

\* remove_replaced_pack_files: the .pack file goes first ...
RemovePack(m) ==
    /\ mpc[m] = "remove"
    /\ \E p \in Replaced(m) :
        /\ packs' = packs \ {p}
        /\ victim' = [victim EXCEPT ![m] = p]
    /\ Goto(m, "removeidx")
    /\ UNCHANGED <<loose, idxs, cmd, oldp, kept, reach, scan, newp, others>>

\* ... then the .idx file.
RemoveIdx(m) ==
    /\ mpc[m] = "removeidx"
    /\ idxs' = idxs \ {victim[m]}
    /\ oldp' = [oldp EXCEPT ![m] = @ \ {victim[m]}]
    /\ victim' = [victim EXCEPT ![m] = None]
    /\ Goto(m, "remove")
    /\ UNCHANGED <<loose, packs, cmd, kept, reach, scan, newp, others>>

RemoveDone(m) ==
    /\ mpc[m] = "remove"
    /\ Replaced(m) = {}
    /\ Goto(m, "duplicates")
    /\ UNCHANGED <<files, locals, others>>

\* prune_packed: the ids are those of the indexes present now.
ListPacked(m) ==
    /\ mpc[m] = "duplicates"
    /\ scan' = [scan EXCEPT ![m] = ObjsOf(idxs)]
    /\ Goto(m, "unlink")
    /\ UNCHANGED <<cmd, oldp, kept, reach, newp, victim>>
    /\ UNCHANGED <<files, others>>

UnlinkDuplicate(m) ==
    /\ mpc[m] = "unlink"
    /\ \E o \in scan[m] :
        /\ loose' = loose \ {o}
        /\ scan' = [scan EXCEPT ![m] = @ \ {o}]
    /\ UNCHANGED <<packs, idxs, mpc, cmd, oldp, kept, reach, newp, victim,
                   others>>

UnlinkDone(m) ==
    /\ mpc[m] = "unlink"
    /\ scan[m] = {}
    /\ Return(m)
    /\ UNCHANGED <<files, others>>

\* Mutant: only what a root names itself is kept.
MutExpire(m) ==
    /\ mpc[m] = "expire"
    /\ reach' = [reach EXCEPT ![m] = roots]
    /\ scan' = [scan EXCEPT ![m] = loose]
    /\ Goto(m, "prune")
    /\ UNCHANGED <<cmd, oldp, kept, newp, victim>>
    /\ UNCHANGED <<files, others>>

\* prune: cutoff and reachability.  What is written later is newer than the
\* cutoff.
Expire(m) ==
    /\ mpc[m] = "expire"
    /\ \/ /\ \A o \in Reachable(roots) : MayFind(o)
          /\ reach' = [reach EXCEPT ![m] = Reachable(roots)]
          /\ scan' = [scan EXCEPT ![m] = loose]
          /\ Goto(m, "prune")
          /\ UNCHANGED <<cmd, oldp, kept, newp, victim>>
       \/ (\E o \in Reachable(roots) : MayMiss(o)) /\ Quit(m)
    /\ UNCHANGED <<files, others>>

\* One unreachable loose object.
Prune(m) ==
    /\ mpc[m] = "prune"
    /\ \E o \in scan[m] \ reach[m] :
        /\ loose' = loose \ {o}
        /\ scan' = [scan EXCEPT ![m] = @ \ {o}]
    /\ UNCHANGED <<packs, idxs, mpc, cmd, oldp, kept, reach, newp, victim,
                   others>>

PruneDone(m) ==
    /\ mpc[m] = "prune"
    /\ scan[m] \subseteq reach[m]
    /\ Quit(m)
    /\ UNCHANGED <<files, others>>

-----------------------------------------------------------------------------
(* A process is killed *)

CrashMaint(m) ==
    /\ mpc[m] # "idle"
    /\ crashes < MaxCrashes
    /\ crashes' = crashes + 1
    /\ Quit(m)
    /\ UNCHANGED <<files, roots, writers, readers, started>>

CrashWriter(w) ==
    /\ wpc[w] # "idle"
    /\ crashes < MaxCrashes
    /\ crashes' = crashes + 1
    /\ wpc' = [wpc EXCEPT ![w] = "idle"]
    /\ goal' = [goal EXCEPT ![w] = None]
    /\ UNCHANGED <<files, roots, readers, mpc, locals, started>>

WriterNext(w) ==
    \/ \E o \in Obj : WriteObject(w, o)
    \/ Install(w) \/ Publish(w) \/ CrashWriter(w)

ReaderNext(r) ==
    \/ \E o \in Obj : StartRead(r, o)
    \/ ReadLoose(r) \/ ReadIdx(r) \/ ReadPack(r)

MaintStep(m) ==
    \/ RepackCollect(m) \/ Loosen(m) \/ LoosenDone(m) \/ RepackSelect(m)
    \/ RepackWrite(m) \/ RepackInstall(m) \/ RepackIdx(m)
    \/ RemovePack(m) \/ RemoveIdx(m) \/ RemoveDone(m)
    \/ ListPacked(m) \/ UnlinkDuplicate(m) \/ UnlinkDone(m)
    \/ Expire(m) \/ Prune(m) \/ PruneDone(m)

MaintNext(m) ==
    \/ \E c \in Command : Start(m, c)
    \/ MaintStep(m)
    \/ CrashMaint(m)

Next ==
    \/ \E w \in Writer : WriterNext(w)
    \/ \E r \in Reader : ReaderNext(r)
    \/ \E o \in Obj : DropRoot(o)
    \/ \E m \in Maint : MaintNext(m)

Spec == Init /\ [][Next]_vars

-----------------------------------------------------------------------------
(* Properties *)

\* No object that a root leads to is ever without a whole copy on disk,
\* whatever repack, gc, prune and prune-packed are doing at the moment.
ReachableStored == \A o \in Reachable(roots) : Stored(o)

\* gc keeps HEAD readable (the test
\* gc_packs_reachable_objects_and_keeps_head_readable): between maintenance
\* commands that ran to their end, read_object finds every object that a root
\* leads to, whichever index it meets first.
ReachableReadable ==
    MaintIdle /\ crashes = 0 => \A o \in Reachable(roots) : ~MayMiss(o)

\* Only commands that prune drop objects, and only unreachable ones: repack -A
\* turns the unreachable objects of the packs that it replaces into loose
\* files before it removes those packs.  (Not so once a kill has left an index
\* without its pack: the loose file then passes for a duplicate.)
OnlyPruningDrops ==
    [][\A o \in Obj : crashes = 0 /\ Stored(o) /\ ~Stored(o)' =>
        /\ o \notin Reachable(roots)
        /\ \E m \in Maint : cmd[m] \in {"repack -a -d", "gc", "prune"}]_vars

\* No stored object is lost, reachable or not: repack without -a and
\* prune-packed only remove a loose file once an index and its pack hold the
\* object.
StoredNeverVanishes == [][\A o \in Obj : Stored(o) => Stored(o)']_vars

\* A read that starts when its object is stored finds it, although
\* maintenance moves the object from a loose file to a pack meanwhile:
\* read_object looks at the loose path first and at the indexes afterwards.
ReadsFindStored == \A r \in Reader : rpc[r] # "missing"
=============================================================================
