-------------------------------- MODULE Fetch --------------------------------
(***************************************************************************)
(* clone, fetch and upload-pack (transport_impl.rs), composed with Push: a *)
(* clone is made of the repository that the clients of Push update, or is  *)
(* there from the beginning, and fetches from that repository.  Over the   *)
(* wire ("ssh", "git", "http") the clone takes the references from the     *)
(* advertisement and one pack from upload-pack; from a path it walks and   *)
(* copies the objects itself and reads the references again.  A fetch with *)
(* a depth writes the references first, the objects later, and the         *)
(* boundary last; clone writes objects, boundary, references,              *)
(* configuration and its own branch in this order.  An upload-pack whose   *)
(* connection ends inside the request never returns, and the daemon behind *)
(* git:// then serves nobody else.                                         *)
(*                                                                         *)
(* Abstractions, besides those of Push: refspecs map every branch to its   *)
(* tracking reference (clone --depth is taken with --no-single-branch);    *)
(* tags that point at fetched commits, FETCH_HEAD and the remote HEAD are  *)
(* left out; one clone or fetch runs at a time; a pack appears at once     *)
(* (its steps are in ObjectStore), objects that are copied from a path one *)
(* by one, in any order; a clone of a path copies what the source had when *)
(* it started.                                                             *)
(***************************************************************************)
EXTENDS Push

CONSTANTS
    FetchKind,    \* ways to fetch, of {"ssh", "git", "http", "path"}
    Depths,       \* values of --depth
    InitClone     \* clones to start from: what the local branches name, the
                  \* remote-tracking references, and whether there is one

ASSUME FetchAssumption ==
    /\ FetchKind \subseteq {"ssh", "git", "http", "path"} /\ FetchKind # {}
    /\ Depths \subseteq Nat \ {0}
    /\ InitClone \subseteq [own : SUBSET Commit, tracking : [Ref -> Value],
                           dir : {"absent", "ready"}]

VARIABLES
    cliObj, cliRef,  \* the clone: objects, remote-tracking references
    own,             \* what its local branches name
    dir,             \* its directory: "partial" before it has a remote
    shallow,         \* .git/shallow: the boundary, empty when there is no file
    fpc, kind,       \* where the fetch stands, and how it fetches
    depth, prune,    \* --depth (0: none), --prune
    rows,            \* the references of the remote as it read them first
    have,            \* commits that it tells upload-pack it has
    left,            \* references that are still to be written
    pack,            \* objects that are asked for or still to be copied
    got,             \* what the fetch reports
    spinning,        \* kinds with an upload-pack that loops for ever
    steady,          \* the remote is as it was when the fetch started
    tainted          \* something happened that may leave history out

clone == <<cliObj, cliRef, own, shallow, dir>>
request == <<kind, depth, prune, rows, have>>
fetchVars == <<clone, fpc, request, left, pack, got, spinning, steady, tainted>>
allVars == <<vars, fetchVars>>

FetchTypeOK ==
    /\ TypeOK
    /\ cliObj \subseteq Commit /\ cliRef \in [Ref -> Value]
    /\ own \subseteq Commit /\ shallow \subseteq Commit
    /\ dir \in {"absent", "partial", "ready"}
    /\ fpc \in {"idle", "connect", "pack", "refs", "copy", "read", "prune", "apply", "shallow",
                "config", "branch"}
    /\ kind \in FetchKind /\ depth \in Depths \cup {0} /\ prune \in BOOLEAN
    /\ rows \in [Ref -> Value] /\ have \subseteq Commit
    /\ left \subseteq Ref /\ pack \subseteq Commit
    /\ got \in {"none", "pending", "ok", "error"}
    /\ spinning \subseteq FetchKind /\ steady \in BOOLEAN /\ tainted \in BOOLEAN

Named(refs) == {r \in Ref : refs[r] # None}

FetchInit ==
    /\ Init
    /\ \E c \in InitClone : own = c.own /\ cliRef = c.tracking /\ dir = c.dir
    /\ cliObj = Closure(own \cup AdvertisedRoots(cliRef))
    /\ shallow = {} /\ fpc = "idle"
    /\ kind \in {CHOOSE x \in FetchKind : TRUE} /\ depth = 0 /\ prune = FALSE
    /\ rows = srvRef /\ have = {} /\ left = {} /\ pack = {}
    /\ got = "none" /\ spinning = {} /\ steady = TRUE /\ tainted = FALSE

-----------------------------------------------------------------------------
(* What upload-pack and the walks compute *)

\* Commits at most n - 1 steps from W.
Within(W, n) ==
    LET near[i \in 1 .. n] ==
            IF i = 1 THEN W ELSE near[i - 1] \cup UNION {Parents[x] : x \in near[i - 1]}
    IN  near[n]

\* Mutant: one level short.
MutDepthLimited(W, d) == Within(W, IF d = 1 THEN 1 ELSE d - 1)

\* upload_pack_depth_limited_commits and shallow_boundaries, breadth first.
DepthLimited(W, d) == Within(W, d)
Boundaries(W, d) == IF d = 1 THEN W ELSE Within(W, d) \ Within(W, d - 1)

\* The history of x as walks over a shallow clone see it.
CutHistory(x, cut) ==
    {y \in Commit : \A T \in SUBSET Commit :
        x \in T /\ (\A z \in T \ cut : Parents[z] \subseteq T) => y \in T}

\* collect_upload_pack_haves: every reference whose commit is present.
Tips == own \cup AdvertisedRoots(cliRef)
Haves == Tips \cap cliObj

\* missing_fetch_roots, for http only.
Wants(kd, refs) ==
    IF kd = "http" THEN AdvertisedRoots(refs) \ cliObj ELSE AdvertisedRoots(refs)

\* upload_pack_collect_pack_ids; without --depth, what the haves reach is
\* left out, whether or not the clone is shallow.
UploadPackIds(wants, haves, d) ==
    IF d # 0 THEN DepthLimited(wants, d)
    ELSE wants \cup (Closure(wants) \ Closure(haves))

\* copy_local_fetch_objects: roots that the clone lacks or does not track,
\* without what its references reach that the source has.
LocalMissing ==
    LET roots == {srvRef[r] : r \in {q \in Named(srvRef) :
                    cliRef[q] # srvRef[q] \/ srvRef[q] \notin cliObj}}
    IN  (roots \cup (Closure(roots) \ Closure(Tips \cap srvObj))) \ cliObj

-----------------------------------------------------------------------------
(* Starting a fetch, or a clone *)

\* From init_repository until the remote is configured.
Cloning == dir = "partial"

\* The daemon takes the next connection when it has served the last one, so a
\* client that connects while its upload-pack loops waits for an advertisement.
Served(kd) == kd # "git" \/ "git" \notin spinning

Launch(kd, d, p, at, haves, objects) ==
    /\ fpc = "idle" /\ ops < MaxOps
    /\ ops' = ops + 1
    /\ kind' = kd /\ depth' = d /\ prune' = p /\ rows' = srvRef
    /\ have' = haves /\ left' = Named(srvRef) /\ pack' = objects
    /\ fpc' = at /\ got' = "pending" /\ steady' = TRUE
    /\ UNCHANGED <<remote, pc, plan, k, todo, seen, done, outcome, faults,
                   cliObj, cliRef, own, shallow, spinning>>

\* A clone that failed has no remote to fetch from, and its directory is not
\* empty, so that clone refuses it.
FetchBegin(kd, d, p, at, haves, objects) ==
    /\ dir = "ready" /\ Served(kd)
    /\ Launch(kd, d, p, at, haves, objects) /\ UNCHANGED dir
CloneBegin(kd, d, at, objects) ==
    /\ dir = "absent" /\ Served(kd)
    /\ Launch(kd, d, FALSE, at, {}, objects) /\ dir' = "partial"

\* daemon_ls_remote_rows and daemon_open_advertised_upload_pack read the
\* advertisement before anything else, without a time limit.
AwaitDaemon(d, p) ==
    /\ "git" \in spinning
    /\ dir = "ready" \/ (dir = "absent" /\ ~p)
    /\ Launch("git", d, p, "connect", {}, {})
    /\ UNCHANGED <<dir, tainted>>

\* clone_ssh, clone_git_daemon and clone_dumb_http
CloneWire(kd, d) ==
    LET wants == AdvertisedRoots(srvRef)
    IN  /\ kd \in FetchKind \ {"path"}
        /\ CloneBegin(kd, d, IF wants # {} THEN "pack" ELSE IF d = 0 THEN "refs" ELSE "shallow",
                      wants)
        /\ tainted' = (d # 0)

\* clone of a path, where --depth is ignored: the branch to check out is
\* resolved first, and then every object of the source is copied or linked,
\* what an unfinished push has left there too.
ClonePath ==
    /\ "path" \in FetchKind
    /\ CloneBegin("path", 0, "copy", srvObj)
    /\ tainted' = (tainted \/ ~(Closure(srvObj) \subseteq srvObj))

\* Mutant: references first, as with --depth.
MutFetchWire(kd, p) ==
    /\ kd \in FetchKind \ {"path"}
    /\ FetchBegin(kd, 0, p, "refs", Haves, Wants(kd, srvRef))
    /\ UNCHANGED tainted

\* fetch_with_ssh_remote, fetch_with_daemon_remote, fetch_with_http_remote:
\* without a root to ask for there is no request.  --prune is not looked at.
FetchWire(kd, p) ==
    LET wants == Wants(kd, srvRef)
    IN  /\ kd \in FetchKind \ {"path"}
        /\ FetchBegin(kd, 0, p, IF wants = {} THEN "refs" ELSE "pack", Haves, wants)
        /\ UNCHANGED tainted

\* fetch_with_ssh_remote_depth and its siblings.  Only http sends haves.
FetchWireDepth(kd, d, p) ==
    /\ kd \in FetchKind \ {"path"}
    /\ FetchBegin(kd, d, p, "refs", IF kd = "http" THEN Haves ELSE {}, AdvertisedRoots(srvRef))
    /\ tainted' = TRUE

\* fetch_with_repo_and_remote on a path.
FetchPath(p) ==
    /\ "path" \in FetchKind
    /\ FetchBegin("path", 0, p, "copy", {}, LocalMissing)
    /\ UNCHANGED tainted

\* fetch_with_repo_and_remote_depth on a path.
FetchPathDepth(d, p) ==
    /\ "path" \in FetchKind
    /\ FetchBegin("path", d, p, "refs", {}, {})
    /\ tainted' = TRUE

FetchStart ==
    \E p \in BOOLEAN :
        \/ \E kd \in FetchKind : FetchWire(kd, p)
        \/ \E kd \in FetchKind, d \in Depths : FetchWireDepth(kd, d, p)
        \/ FetchPath(p)
        \/ \E d \in Depths : FetchPathDepth(d, p)

CloneStart ==
    \/ \E kd \in FetchKind, d \in Depths \cup {0} : CloneWire(kd, d)
    \/ ClonePath

-----------------------------------------------------------------------------
(* Objects *)

FetchEndAs(res) == fpc' = "idle" /\ got' = res

\* upload-pack walks the haves in its own store and fails on one that it does
\* not have; otherwise the pack arrives and is installed.
ReceiveFetchPack ==
    /\ fpc = "pack"
    /\ \/ /\ have \subseteq srvObj
          /\ cliObj' = cliObj \cup UploadPackIds(pack, have, depth)
          /\ fpc' = IF depth = 0 THEN "refs" ELSE "shallow"
          /\ UNCHANGED got
       \/ /\ ~(have \subseteq srvObj)
          /\ FetchEndAs("error") /\ UNCHANGED cliObj
    /\ UNCHANGED <<vars, cliRef, own, shallow, dir, request, left, pack,
                   spinning, steady, tainted>>

\* copy_or_pack_missing_objects_with_threshold
CopyObject(x) ==
    /\ fpc = "copy" /\ x \in pack
    /\ cliObj' = cliObj \cup {x} /\ pack' = pack \ {x}
    /\ UNCHANGED <<vars, cliRef, own, shallow, dir, fpc, request, left, got,
                   spinning, steady, tainted>>

\* Mutant: does not return to the next reference of a fetch with a depth.
MutCopyDone ==
    /\ fpc = "copy" /\ pack = {} /\ depth = 0
    /\ \/ Cloning /\ fpc' = "read" /\ UNCHANGED left
       \/ prune /\ fpc' = "prune" /\ UNCHANGED left
       \/ ~prune /\ ~Cloning /\ fpc' = "apply" /\ left' = Named(srvRef)
    /\ UNCHANGED <<vars, clone, request, pack, got, spinning, steady, tainted>>

CopyDone ==
    /\ fpc = "copy" /\ pack = {}
    /\ \/ Cloning /\ fpc' = "read" /\ UNCHANGED left
       \/ depth # 0 /\ fpc' = "refs" /\ UNCHANGED left
       \/ depth = 0 /\ prune /\ fpc' = "prune" /\ UNCHANGED left
       \/ depth = 0 /\ ~prune /\ ~Cloning /\ fpc' = "apply" /\ left' = Named(srvRef)
    /\ UNCHANGED <<vars, clone, request, pack, got, spinning, steady, tainted>>

-----------------------------------------------------------------------------
(* References *)

\* One tracking reference, from the advertisement.  A fetch from a path with
\* a depth copies the objects of a branch right after its reference.
WriteTracking(r) ==
    /\ fpc = "refs" /\ r \in left
    /\ cliRef' = [cliRef EXCEPT ![r] = rows[r]]
    /\ left' = left \ {r}
    /\ \/ /\ kind = "path"
          /\ pack' = DepthLimited({rows[r]}, depth) \ cliObj /\ fpc' = "copy"
       \/ kind # "path" /\ UNCHANGED <<pack, fpc>>
    /\ UNCHANGED <<vars, cliObj, own, shallow, dir, request, got,
                   spinning, steady, tainted>>

\* After the last reference: done, or the pack, or the boundary.
TrackingDone ==
    /\ fpc = "refs" /\ left = {}
    /\ \/ Cloning /\ fpc' = "config" /\ UNCHANGED got
       \/ ~Cloning /\ depth = 0 /\ FetchEndAs("ok")
       \/ /\ ~Cloning /\ depth # 0 /\ UNCHANGED got
          /\ fpc' = IF kind = "path" \/ pack = {} THEN "shallow" ELSE "pack"
    /\ UNCHANGED <<vars, clone, request, left, pack, spinning, steady, tainted>>

\* Mutant: keeps a stale reference whose commit the clone has.
MutPruneTracking ==
    /\ fpc = "prune"
    /\ cliRef' = [r \in Ref |->
            IF srvRef[r] = None /\ cliRef[r] \notin cliObj THEN None ELSE cliRef[r]]
    /\ fpc' = "apply" /\ left' = Named(srvRef)
    /\ UNCHANGED <<vars, cliObj, own, shallow, dir, request, pack, got,
                   spinning, steady, tainted>>

\* prune_fetch_refspecs: what the source does not have now is deleted.
PruneTracking ==
    /\ fpc = "prune"
    /\ cliRef' = [r \in Ref |-> IF srvRef[r] = None THEN None ELSE cliRef[r]]
    /\ fpc' = "apply" /\ left' = Named(srvRef)
    /\ UNCHANGED <<vars, cliObj, own, shallow, dir, request, pack, got,
                   spinning, steady, tainted>>

\* apply_configured_fetch_refspecs reads each reference of the source again,
\* and fails when one has gone since they were listed.
ApplyRefspec(r) ==
    /\ fpc = "apply" /\ r \in left
    /\ left' = left \ {r}
    /\ \/ /\ srvRef[r] # None
          /\ cliRef' = [cliRef EXCEPT ![r] = srvRef[r]]
          /\ tainted' = (tainted \/ srvRef[r] # rows[r])
          /\ UNCHANGED <<fpc, got>>
       \/ srvRef[r] = None /\ FetchEndAs("error") /\ UNCHANGED <<cliRef, tainted>>
    /\ UNCHANGED <<vars, cliObj, own, shallow, dir, request, pack, spinning, steady>>

ApplyDone ==
    /\ fpc = "apply" /\ left = {}
    /\ FetchEndAs("ok")
    /\ UNCHANGED <<vars, clone, request, left, pack, spinning, steady, tainted>>

\* write_fresh_clone_remote_refs lists the references of the source after its
\* objects were copied, and writes them as one packed-refs.
CloneRefs ==
    /\ fpc = "read"
    /\ cliRef' = srvRef
    /\ fpc' = "config"
    /\ tainted' = (tainted \/ \E r \in Named(srvRef) : srvRef[r] # rows[r])
    /\ UNCHANGED <<vars, cliObj, own, shallow, dir, request, left, pack, got,
                   spinning, steady>>

\* set_config_values; an empty clone is done.
CloneConfig ==
    /\ fpc = "config"
    /\ dir' = "ready"
    /\ \/ rows[HeadRef] # None /\ fpc' = "branch" /\ UNCHANGED got
       \/ rows[HeadRef] = None /\ FetchEndAs("ok")
    /\ UNCHANGED <<vars, cliObj, cliRef, own, shallow, request, left, pack,
                   spinning, steady, tainted>>

\* The branch that is checked out
CloneBranch ==
    /\ fpc = "branch"
    /\ own' = own \cup {rows[HeadRef]}
    /\ FetchEndAs("ok")
    /\ UNCHANGED <<vars, cliObj, cliRef, shallow, dir, request, left, pack,
                   spinning, steady, tainted>>

\* write_shallow_file replaces the boundary by that of this fetch.
WriteShallow ==
    /\ fpc = "shallow"
    /\ shallow' = Boundaries(AdvertisedRoots(rows), depth)
    /\ \/ Cloning /\ fpc' = "refs" /\ UNCHANGED got
       \/ ~Cloning /\ FetchEndAs("ok")
    /\ UNCHANGED <<vars, cliObj, cliRef, own, dir, request, left, pack,
                   spinning, steady, tainted>>

-----------------------------------------------------------------------------
\* The fetch is killed or its connection lost.  What was copied stays.  An
\* upload-pack that has read a want and not yet "done" takes the end of its
\* input for a flush packet and reads on, for ever
\* (read_upload_pack_request_from_stdin).
FetchFault ==
    /\ fpc # "idle"
    /\ faults < MaxFaults /\ faults' = faults + 1
    /\ FetchEndAs("error")
    /\ \/ UNCHANGED spinning
       \/ fpc = "pack" /\ spinning' = spinning \cup {kind}
    /\ tainted' = (tainted \/ (fpc = "copy" /\ ~Cloning))
    /\ UNCHANGED <<remote, pc, plan, k, todo, seen, done, outcome, ops,
                   clone, request, left, pack, steady>>

FetchStep ==
    \/ ReceiveFetchPack \/ (\E x \in Commit : CopyObject(x)) \/ CopyDone
    \/ (\E r \in Ref : WriteTracking(r) \/ ApplyRefspec(r))
    \/ TrackingDone \/ PruneTracking \/ ApplyDone \/ WriteShallow
    \/ CloneRefs \/ CloneConfig \/ CloneBranch

PushStep ==
    /\ Next
    /\ steady' = (steady /\ srvRef' = srvRef)
    /\ UNCHANGED <<clone, fpc, request, left, pack, got, spinning, tainted>>

FetchNext ==
    \/ FetchStart \/ CloneStart
    \/ \E d \in Depths \cup {0}, p \in BOOLEAN : AwaitDaemon(d, p)
    \/ FetchStep \/ FetchFault \/ PushStep

FetchSpec == FetchInit /\ [][FetchNext]_allVars

\* Every process that was started keeps running.
FetchFairSpec ==
    /\ FetchSpec
    /\ WF_allVars(FetchStep)
    /\ \A c \in Client : WF_allVars(Step(c) /\ PushStep)

-----------------------------------------------------------------------------
(* Properties *)

\* Whatever a clone or fetch without --depth is interrupted at, and whatever is
\* pushed meanwhile, the tracking references and the local branches name commits
\* whose history is in the clone.  That is lost only when a branch moved while
\* a clone or fetch from a path read it twice, when a fetch from a path was cut
\* short while copying, when a clone from a path copied commits without their
\* history that an unfinished push had left, or when --depth was used.
CloneComplete == ~tainted => Closure(Tips) \subseteq cliObj

\* A fetch or clone with --depth that reports success leaves no gap above its boundary,
\* whatever earlier fetches left behind.
DepthFetchRepairs ==
    fpc = "idle" /\ got = "ok" /\ depth # 0 =>
        \A r \in Named(rows) : CutHistory(cliRef[r], shallow) \subseteq cliObj

\* A fetch or clone that reports success while nothing is pushed mirrors the remote.
\* Of --prune only a fetch from a path without --depth takes notice.
FetchMirrors ==
    fpc = "idle" /\ got = "ok" /\ steady =>
        \A r \in Ref :
            \/ cliRef[r] = srvRef[r]
            \/ srvRef[r] = None /\ ~(prune /\ kind = "path" /\ depth = 0)

\* Every push, every fetch and every clone comes to an end, whatever is lost
\* or killed, but for a fetch or clone over git:// that connects while the
\* upload-pack of an earlier one loops in the daemon: it waits for ever.  (The
\* looping upload-pack itself never ends.)
TransfersEnd ==
    /\ PushEnds
    /\ fpc # "idle" ~> (fpc = "idle" \/ (fpc = "connect" /\ "git" \in spinning))
=============================================================================
