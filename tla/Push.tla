-------------------------------- MODULE Push --------------------------------
(***************************************************************************)
(* push, send-pack, http-push and receive-pack (transport_impl.rs): some   *)
(* clients update the references of one repository.  A client that speaks  *)
(* the protocol ("wire": ssh, http) reads the advertisement, sends its     *)
(* commands and a pack, and a receive-pack process of its own applies them *)
(* (the daemon of this program refuses a push over git:// at once); push   *)
(* to a path ("path"), send-pack ("send") and http-push ("dav") write      *)
(* objects and references of the other repository themselves.  http-push   *)
(* reads, writes and deletes files and so knows loose references only; all *)
(* others see what a reference resolves to.  Every reference read,         *)
(* reference write and object write is a step.                             *)
(*                                                                         *)
(* Abstractions: a commit stands for itself and its tree objects, a tag    *)
(* for the commit it names; a pack is the set of its objects, written in   *)
(* any order; refspecs are parsed; the advertisement is one snapshot;      *)
(* writing or deleting one reference and packing the references are atomic *)
(* (their steps are in RefStore).                                          *)
(***************************************************************************)
EXTENDS Naturals, Sequences, FiniteSets

CONSTANTS
    Commit,       \* commits
    Parents,      \* Parents[x]: the parents of x
    Client,       \* pushing clients
    Has,          \* Has[c]: the commits in the repository of client c
    Ref,          \* the references of the remote repository
    HeadRef,      \* the branch that its HEAD names
    AllowDeleteCurrent,  \* receive.denyDeleteCurrent is warn or ignore
    Mode,         \* ways to push, of {"wire", "path", "send", "dav"}
    PushCmds,     \* sequences of parsed refspecs that a client may push
    InitRefs,     \* the reference files to start from
    None,         \* no such reference; the id of a deletion
    MaxOps,       \* bound: pushes and pack-refs (in Fetch, fetches too)
    MaxFaults     \* bound: killed processes and lost connections

\* A commit and its ancestors: the least set that holds them.
History == [x \in Commit |->
    {y \in Commit : \A T \in SUBSET Commit :
        x \in T /\ (\A z \in T : Parents[z] \subseteq T) => y \in T}]

\* collect_reachable_objects_from_roots: S and everything that it reaches.
Closure(S) == UNION {History[x] : x \in S \cap Commit}

Value == Commit \cup {None}

\* A parsed refspec.  force: with a '+', or under the option --force, which
\* holds for all commands of a push.
Cmd == [dst : Ref, id : Value, force : {"no", "plus", "option"}, upstream : BOOLEAN]

\* http_push passes on options.force only.
Forced(m, cmd) == cmd.force = "option" \/ (cmd.force = "plus" /\ m # "dav")

ASSUME PushAssumption ==
    /\ Parents \in [Commit -> SUBSET Commit]
    /\ Has \in [Client -> SUBSET Commit]
    /\ \A c \in Client : Closure(Has[c]) = Has[c]
    /\ HeadRef \in Ref
    /\ AllowDeleteCurrent \in BOOLEAN
    /\ Mode \subseteq {"wire", "path", "send", "dav"} /\ Mode # {}
    /\ PushCmds \subseteq Seq(Cmd) \ {<<>>}
    /\ InitRefs \subseteq [loose : [Ref -> Value], packed : [Ref -> Value]]
    /\ None \notin Commit
    /\ MaxOps \in Nat /\ MaxFaults \in Nat

VARIABLES
    srvLoose,        \* the remote repository: loose references,
    srvPacked,       \*    the entries of packed-refs,
    srvObj,          \*    and objects
    pc, mode,        \* where the push of a client stands, and how it pushes
    cmds, k,         \* its commands and the one it is at
    adv,             \* the references as they were advertised to it
    todo,            \* objects that are still to be written
    seen,            \* seen[c][i]: what validating command i read
    done,            \* commands that took effect
    result,          \* what the client reports
    track, merge,    \* remote-tracking references; branch.<name>.merge
    past,            \* past[r]: every value that r had (history)
    ops, faults

\* read_ref: the loose file, or else the packed entry.
srvRef == [r \in Ref |-> IF srvLoose[r] # None THEN srvLoose[r] ELSE srvPacked[r]]

remote == <<srvLoose, srvPacked, srvObj, past>>
plan == <<mode, cmds, adv>>
outcome == <<result, track, merge>>
vars == <<remote, pc, plan, k, todo, seen, done, outcome, ops, faults>>

PC == {"idle", "vet", "sent", "collect", "objects", "check", "write", "upstream",
       "track", "report"}

TypeOK ==
    /\ srvLoose \in [Ref -> Value] /\ srvPacked \in [Ref -> Value]
    /\ srvObj \subseteq Commit
    /\ pc \in [Client -> PC] /\ mode \in [Client -> Mode]
    /\ cmds \in [Client -> PushCmds \cup {<<>>}]
    /\ k \in [Client -> Nat]
    /\ adv \in [Client -> [Ref -> Value]]
    /\ todo \in [Client -> SUBSET Commit]
    /\ seen \in [Client -> Seq(Value)] /\ done \in [Client -> SUBSET Nat]
    /\ result \in [Client -> {"none", "pending", "ok", "error"}]
    /\ track \in [Client -> [Ref -> Value]] /\ merge \in [Client -> Ref \cup {None}]
    /\ past \in [Ref -> SUBSET Value]
    /\ ops \in 0 .. MaxOps /\ faults \in 0 .. MaxFaults

Init ==
    /\ \E refs \in InitRefs : srvLoose = refs.loose /\ srvPacked = refs.packed
    /\ srvObj = Closure({srvLoose[r] : r \in Ref} \cup {srvPacked[r] : r \in Ref})
    /\ pc = [c \in Client |-> "idle"]
    /\ mode \in [Client -> {CHOOSE m \in Mode : TRUE}]
    /\ cmds = [c \in Client |-> <<>>] /\ k = [c \in Client |-> 1]
    /\ adv = [c \in Client |-> srvRef]
    /\ todo = [c \in Client |-> {}] /\ seen = [c \in Client |-> <<>>]
    /\ done = [c \in Client |-> {}]
    /\ result = [c \in Client |-> "none"]
    /\ track = [c \in Client |-> [r \in Ref |-> None]]
    /\ merge = [c \in Client |-> None]
    /\ past = [r \in Ref |-> {srvRef[r]}]
    /\ ops = 0 /\ faults = 0

Ids(q) == {q[i].id : i \in DOMAIN q} \ {None}
This(c) == cmds[c][k[c]]
Last(c) == k[c] = Len(cmds[c])

-----------------------------------------------------------------------------
(* What the client works out *)

\* is_ancestor_commit_cached on a complete store.
IsAncestor(old, new) == old \in Closure({new})

\* The same walk over a store that may lack commits: it reads new first and
\* fails at a missing commit that it meets before it finds old.
MayReach(store, old, new) == old = new \/ (new \in store /\ IsAncestor(old, new))
MayMissOut(store, old, new) ==
    old # new /\ (~IsAncestor(old, new) \/ ~(Closure({new}) \subseteq store))

\* collect_push_pack_ids: everything that the ids reach, without what the
\* advertised roots reach that the client has itself.
PushPack(c, ids, roots) ==
    Closure(ids) \ Closure({x \in roots : x \in Has[c]})

\* receive_pack_advertised_roots, local_push_advertised_roots
AdvertisedRoots(refs) == {refs[r] : r \in Ref} \ {None}

\* push_with_ssh_remote and its siblings: before anything is sent, a command
\* must fast-forward what was advertised, and a deletion must name something.
WireAccepts(cmd, refs) ==
    IF cmd.id = None THEN refs[cmd.dst] # None
    ELSE \/ Forced("wire", cmd) \/ refs[cmd.dst] = None
         \/ IsAncestor(refs[cmd.dst], cmd.id)

-----------------------------------------------------------------------------
(* Starting a push *)

Begin(c, m, q, at, objects) ==
    /\ pc[c] = "idle" /\ ops < MaxOps
    /\ Ids(q) \subseteq Has[c]
    /\ ops' = ops + 1
    /\ mode' = [mode EXCEPT ![c] = m] /\ cmds' = [cmds EXCEPT ![c] = q]
    /\ k' = [k EXCEPT ![c] = 1]
    /\ adv' = [adv EXCEPT ![c] = srvRef]
    /\ todo' = [todo EXCEPT ![c] = objects]
    /\ seen' = [seen EXCEPT ![c] = <<>>] /\ done' = [done EXCEPT ![c] = {}]
    /\ pc' = [pc EXCEPT ![c] = at]
    /\ result' = [result EXCEPT ![c] = IF at = "idle" THEN "error" ELSE "pending"]
    /\ UNCHANGED <<remote, track, merge, faults>>

\* The old value of every command is the advertised one (adv), also when the
\* request goes over a second connection whose advertisement is newer.
StartWire(c, q) ==
    LET ok == \A i \in DOMAIN q : WireAccepts(q[i], srvRef)
    IN  Begin(c, "wire", q, IF ok THEN "sent" ELSE "idle",
              IF ok THEN PushPack(c, Ids(q), AdvertisedRoots(srvRef)) ELSE {})

StartPath(c, q) == Begin(c, "path", q, "collect", {})

StartSend(c, q) == Begin(c, "send", q, "vet", {})

\* http_push puts every object that the ids reach.
StartDav(c, q) == Begin(c, "dav", q, "objects", Closure(Ids(q)))

-----------------------------------------------------------------------------
(* Ending a command, or the push *)

\* An error ends the push; what earlier commands did stays done.
Fail(c) ==
    /\ pc' = [pc EXCEPT ![c] = "idle"]
    /\ result' = [result EXCEPT ![c] = "error"]
    /\ todo' = [todo EXCEPT ![c] = {}]

NextPhase == [wire |-> "check", path |-> "collect", send |-> "collect", dav |-> "check"]

\* The phase after a command, or after the last one.
Advance(c) ==
    /\ k' = [k EXCEPT ![c] = k[c] + 1]
    /\ pc' = [pc EXCEPT ![c] =
                IF ~Last(c) THEN NextPhase[mode[c]]
                ELSE IF mode[c] = "wire" THEN "report" ELSE "idle"]
    /\ result' = [result EXCEPT ![c] =
                IF Last(c) /\ mode[c] # "wire" THEN "ok" ELSE @]

-----------------------------------------------------------------------------
(* Objects *)

\* receive_pack_apply_request reads the commands and the whole pack into a
\* temporary file; a pack of deletions only is not read.
ReceivePack(c) ==
    /\ pc[c] = "sent"
    /\ pc' = [pc EXCEPT ![c] = IF Ids(cmds[c]) = {} THEN "check" ELSE "objects"]
    /\ UNCHANGED <<remote, plan, k, todo, seen, done, outcome, ops, faults>>

\* The objects for one command of a push to a path or of send-pack.
CollectObjects(c) ==
    LET cmd == This(c)
        present == srvRef[cmd.dst] = cmd.id /\ cmd.id \in srvObj
        new == IF mode[c] = "send" THEN Closure({cmd.id}) \ srvObj
               ELSE IF present THEN {}
               ELSE PushPack(c, {cmd.id}, AdvertisedRoots(adv[c]))
        after == IF mode[c] = "send" THEN "write" ELSE "check"
    IN  /\ pc[c] = "collect"
        /\ todo' = [todo EXCEPT ![c] = IF cmd.id = None THEN {} ELSE new]
        /\ pc' = [pc EXCEPT ![c] = IF cmd.id = None THEN after ELSE "objects"]
        /\ UNCHANGED <<remote, plan, k, seen, done, outcome, ops, faults>>

\* unpack_pack_file_to_loose, copy_or_pack_missing_objects, http_put_body.
WriteObject(c, x) ==
    /\ pc[c] = "objects" /\ x \in todo[c]
    /\ srvObj' = srvObj \cup {x}
    /\ todo' = [todo EXCEPT ![c] = @ \ {x}]
    /\ UNCHANGED <<srvLoose, srvPacked, past, pc, plan, k, seen, done, outcome, ops,
                   faults>>

\* Mutant: goes on while objects are still to be written.
MutObjectsDone(c) ==
    /\ pc[c] = "objects"
    /\ pc' = [pc EXCEPT ![c] = IF mode[c] = "send" THEN "write" ELSE "check"]
    /\ UNCHANGED <<remote, plan, k, todo, seen, done, outcome, ops, faults>>

ObjectsDone(c) ==
    /\ pc[c] = "objects" /\ todo[c] = {}
    /\ pc' = [pc EXCEPT ![c] = IF mode[c] = "send" THEN "write" ELSE "check"]
    /\ UNCHANGED <<remote, plan, k, todo, seen, done, outcome, ops, faults>>

-----------------------------------------------------------------------------
(* Validation: read the reference, compare, go on or give up *)

\* validate_push_delete
DeleteAllowed(r) == srvRef[r] # None /\ (r = HeadRef => AllowDeleteCurrent)

\* Mutant: the old value that the client sent is not compared.
MutReceiveAccepts(c) == This(c).id = None => DeleteAllowed(This(c).dst)

\* apply_receive_pack_update: the old value sent must be the current one.
ReceiveAccepts(c) ==
    LET cmd == This(c)
    IN  /\ srvRef[cmd.dst] = adv[c][cmd.dst]
        /\ cmd.id = None => DeleteAllowed(cmd.dst)

\* validate_push_update and validate_push_delete on the destination.
PathMayAccept(cmd) ==
    IF cmd.id = None THEN DeleteAllowed(cmd.dst)
    ELSE \/ Forced("path", cmd) \/ srvRef[cmd.dst] = None
         \/ MayReach(srvObj, srvRef[cmd.dst], cmd.id)
PathMayReject(cmd) ==
    IF cmd.id = None THEN ~DeleteAllowed(cmd.dst)
    ELSE /\ ~Forced("path", cmd) /\ srvRef[cmd.dst] # None
         /\ MayMissOut(srvObj, srvRef[cmd.dst], cmd.id)

\* validate_http_push_update asks for the loose file: no file, no objection,
\* whatever packed-refs says; and a deletion is never refused.
DavAccepts(cmd) ==
    \/ cmd.id = None \/ Forced("dav", cmd) \/ srvLoose[cmd.dst] = None
    \/ IsAncestor(srvLoose[cmd.dst], cmd.id)

Accepts(c) ==
    CASE mode[c] = "wire" -> ReceiveAccepts(c)
      [] mode[c] = "dav" -> DavAccepts(This(c))
      [] OTHER -> PathMayAccept(This(c))
Rejects(c) ==
    CASE mode[c] = "wire" -> ~ReceiveAccepts(c)
      [] mode[c] = "dav" -> ~DavAccepts(This(c))
      [] OTHER -> PathMayReject(This(c))

\* What validation reads.
Current(c) == IF mode[c] = "dav" THEN srvLoose[This(c).dst] ELSE srvRef[This(c).dst]

\* Mutant: a command that is rejected is skipped.
MutValidate(c) ==
    /\ pc[c] = "check"
    /\ seen' = [seen EXCEPT ![c] = Append(@, Current(c))]
    /\ \/ Accepts(c) /\ pc' = [pc EXCEPT ![c] = "write"] /\ UNCHANGED <<result, k>>
       \/ Rejects(c) /\ Advance(c)
    /\ UNCHANGED <<remote, plan, todo, done, track, merge, ops, faults>>

Validate(c) ==
    /\ pc[c] = "check"
    /\ \/ /\ Accepts(c)
          /\ seen' = [seen EXCEPT ![c] = Append(@, Current(c))]
          /\ pc' = [pc EXCEPT ![c] = "write"]
          /\ UNCHANGED <<result, todo>>
       \/ /\ Rejects(c) /\ Fail(c) /\ UNCHANGED seen
    /\ UNCHANGED <<remote, plan, k, done, track, merge, ops, faults>>

\* send-pack validates every command before it copies the first object.
Vet(c) ==
    /\ pc[c] = "vet"
    /\ \/ /\ Accepts(c)
          /\ seen' = [seen EXCEPT ![c] = Append(@, Current(c))]
          /\ k' = [k EXCEPT ![c] = IF Last(c) THEN 1 ELSE k[c] + 1]
          /\ pc' = [pc EXCEPT ![c] = IF Last(c) THEN "collect" ELSE "vet"]
          /\ UNCHANGED <<result, todo>>
       \/ /\ Rejects(c) /\ Fail(c) /\ UNCHANGED <<seen, k>>
    /\ UNCHANGED <<remote, plan, done, track, merge, ops, faults>>

-----------------------------------------------------------------------------
(* References *)

\* write_ref or delete_ref, whatever the reference holds by now; for http-push
\* PUT or DELETE of the loose file, where no file to delete is a success too.  A
\* deletion took effect if the reference does not resolve any more.
WriteRef(c) ==
    LET cmd == This(c)
        dav == mode[c] = "dav"
        tracks == mode[c] = "path" /\ cmd.upstream /\ cmd.id # None
    IN  /\ pc[c] = "write"
        /\ srvLoose' = [srvLoose EXCEPT ![cmd.dst] = cmd.id]
        /\ srvPacked' = [srvPacked EXCEPT ![cmd.dst] =
                            IF cmd.id = None /\ ~dav THEN None ELSE @]
        /\ past' = [past EXCEPT ![cmd.dst] = @ \cup {srvRef'[cmd.dst]}]
        /\ done' = [done EXCEPT ![c] =
                        IF srvRef'[cmd.dst] = cmd.id THEN @ \cup {k[c]} ELSE @]
        /\ \/ ~tracks /\ Advance(c)
           \/ tracks /\ pc' = [pc EXCEPT ![c] = "upstream"] /\ UNCHANGED <<k, result>>
        /\ UNCHANGED <<srvObj, plan, todo, seen, track, merge, ops, faults>>

\* With --set-upstream a push to a path records the upstream branch
\* (set_push_upstream) after each command ...
SetUpstream(c) ==
    /\ pc[c] = "upstream"
    /\ merge' = [merge EXCEPT ![c] = This(c).dst]
    /\ pc' = [pc EXCEPT ![c] = "track"]
    /\ UNCHANGED <<remote, plan, k, todo, seen, done, result, track, ops, faults>>

\* ... and then moves its remote-tracking reference.
TrackRef(c) ==
    /\ pc[c] = "track"
    /\ track' = [track EXCEPT ![c][This(c).dst] = This(c).id]
    /\ Advance(c)
    /\ UNCHANGED <<remote, plan, todo, seen, done, merge, ops, faults>>

\* parse_receive_pack_report_status; then set_push_upstream, per command.  A
\* client that is gone (result is "error" already) reads nothing.
Report(c) ==
    /\ pc[c] = "report"
    /\ pc' = [pc EXCEPT ![c] = "idle"]
    /\ \/ /\ result[c] = "pending"
          /\ result' = [result EXCEPT ![c] = "ok"]
          /\ LET up == {i \in DOMAIN cmds[c] :
                            cmds[c][i].upstream /\ cmds[c][i].id # None}
             IN  merge' = [merge EXCEPT ![c] =
                    IF up = {} THEN @
                    ELSE cmds[c][CHOOSE i \in up : \A j \in up : j <= i].dst]
       \/ result[c] = "error" /\ UNCHANGED <<result, merge>>
    /\ UNCHANGED <<remote, plan, k, todo, seen, done, track, ops, faults>>

\* pack-refs --all in the remote repository: loose references go to packed-refs.
PackRefs ==
    /\ ops < MaxOps /\ ops' = ops + 1
    /\ srvPacked' = srvRef
    /\ srvLoose' = [r \in Ref |-> None]
    /\ UNCHANGED <<srvObj, past, pc, plan, k, todo, seen, done, outcome, faults>>

-----------------------------------------------------------------------------
(* Faults *)

\* The connection goes away.  receive-pack sees a truncated pack and stops,
\* or, once it has the pack, applies it with nobody listening.
LoseConnection(c) ==
    /\ mode[c] = "wire" /\ pc[c] # "idle" /\ result[c] = "pending"
    /\ faults < MaxFaults /\ faults' = faults + 1
    /\ pc' = [pc EXCEPT ![c] =
                IF pc[c] = "sent" /\ Ids(cmds[c]) # {} THEN "idle" ELSE @]
    /\ result' = [result EXCEPT ![c] = "error"]
    /\ UNCHANGED <<remote, plan, k, todo, seen, done, track, merge, ops>>

\* The process that writes (receive-pack, or the client itself) is killed.
Kill(c) ==
    /\ pc[c] # "idle"
    /\ faults < MaxFaults /\ faults' = faults + 1
    /\ Fail(c)
    /\ UNCHANGED <<remote, plan, k, seen, done, track, merge, ops>>

-----------------------------------------------------------------------------
Start(c) ==
    \E q \in PushCmds :
        \/ "wire" \in Mode /\ StartWire(c, q)
        \/ "path" \in Mode /\ StartPath(c, q)
        \/ "send" \in Mode /\ StartSend(c, q)
        \/ "dav" \in Mode /\ StartDav(c, q)

Step(c) ==
    \/ ReceivePack(c) \/ CollectObjects(c)
    \/ (\E x \in Commit : WriteObject(c, x)) \/ ObjectsDone(c)
    \/ Vet(c) \/ Validate(c) \/ WriteRef(c) \/ SetUpstream(c) \/ TrackRef(c)
    \/ Report(c)

Next ==
    \/ \E c \in Client : Start(c) \/ Step(c) \/ LoseConnection(c) \/ Kill(c)
    \/ PackRefs

Spec == Init /\ [][Next]_vars

\* A process that was started keeps running, and what was sent arrives unless
\* the connection is lost.
FairSpec == Spec /\ \A c \in Client : WF_vars(Step(c))

-----------------------------------------------------------------------------
(* Properties *)

\* Objects before references: whatever is killed or lost, and however often
\* it is retried, a reference of the remote repository only names a commit
\* whose whole history is there.  Objects that an earlier push left behind
\* never make a later one leave out their history.
RefsComplete ==
    \A r \in Ref : srvRef[r] # None => Closure({srvRef[r]}) \subseteq srvObj

\* A push that is not forced overwrites only what its commit builds on, and
\* one over the wire, forced or not, only what it was shown: when the reference
\* still holds what its validation read, nobody's commit is lost.  That is so
\* neither when somebody else wrote it in between, nor for http-push when the
\* reference is packed: it reads the loose file only, finds none, and writes.
NoUnseenOverwrite ==
    [][\A c \in Client :
        (pc[c] = "write" /\ WriteRef(c)) =>
            LET cmd == This(c)
                old == srvRef[cmd.dst]
            IN  old = seen[c][k[c]] /\ old # None =>
                /\ cmd.id # None /\ ~Forced(mode[c], cmd) => IsAncestor(old, cmd.id)
                /\ mode[c] = "wire" => old = adv[c][cmd.dst]]_vars

\* Commands of which the report says nothing: http-push deletes the loose file
\* only and takes "not found" for success, so a packed reference stays, or an
\* older packed value comes back.
Unsure(c) == {i \in DOMAIN cmds[c] : mode[c] = "dav" /\ cmds[c][i].id = None}

\* What a client reports is what happened, but for deletions by http-push: after
\* "ok" every command took effect, and after any failure exactly the first few
\* did, in their order; the remote-tracking references that it moved name what
\* the remote held.
ReportIsTrue ==
    \A c \in Client :
        /\ pc[c] = "idle" /\ result[c] = "ok" =>
                DOMAIN cmds[c] \ Unsure(c) \subseteq done[c]
        /\ \E n \in 0 .. Len(cmds[c]) :
                (1 .. n) \ Unsure(c) \subseteq done[c] /\ done[c] \subseteq 1 .. n
        /\ \A r \in Ref : track[c][r] # None => track[c][r] \in past[r]

\* Every push comes to an end, on both sides.
PushEnds == \A c \in Client : pc[c] # "idle" ~> pc[c] = "idle"
=============================================================================
