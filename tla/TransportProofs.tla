-------------------------- MODULE TransportProofs --------------------------
(***************************************************************************)
(* Proofs about Push and about Fetch, which composes pushes with a clone,  *)
(* for any commits, clients, clones, references and commands.  Push:       *)
(* references only name complete histories, no unseen value is             *)
(* overwritten, and reports are true.  Fetch: a clone has the history of   *)
(* what its references name, a fetch with a depth leaves no gap, and one   *)
(* that succeeds mirrors the remote.                                       *)
(***************************************************************************)
EXTENDS Fetch, WellFoundedInduction, TLAPS

\* Where a push stands, with a command at hand until all are done.
PhaseOK(c) ==
    pc[c] # "idle" =>
        /\ cmds[c] \in PushCmds
        /\ IF pc[c] = "report" THEN k[c] = Len(cmds[c]) + 1
                               ELSE k[c] \in 1 .. Len(cmds[c])
        /\ pc[c] \in {"sent", "report"} => mode[c] = "wire"
        /\ pc[c] = "vet" => mode[c] = "send"
        /\ pc[c] = "collect" => mode[c] \in {"path", "send"}
        /\ pc[c] = "check" => mode[c] # "send"
        /\ pc[c] \in {"upstream", "track"} => mode[c] = "path" /\ This(c).id # None

PhaseInv == \A c \in Client : PhaseOK(c)

TypeInv == TypeOK /\ PhaseInv /\ srvRef \in [Ref -> Value]

-----------------------------------------------------------------------------
(* Commits and their histories *)

\* A commit belongs to its own history.
LEMMA HistoryRefl == \A x \in Commit : x \in History[x]
BY DEF History

\* Nothing but commits is in a history.
LEMMA ClosureType == \A S : Closure(S) \subseteq Commit
BY DEF Closure, History

\* A set reaches what a larger one does not leave out.
LEMMA ClosureMono == \A S, T : S \subseteq T => Closure(S) \subseteq Closure(T)
BY DEF Closure

\* The history of a set is that of its members.
LEMMA ClosureMembers ==
    \A S, X : (\A x \in S : Closure({x}) \subseteq X) => Closure(S) \subseteq X
BY DEF Closure

\* A deletion needs no object.
LEMMA ClosureNone == Closure({None}) = {} /\ Closure({}) = {}
BY PushAssumption DEF Closure
-----------------------------------------------------------------------------
(* Numbers *)

\* Every non-empty set of naturals has a least member.  Induction is done by
\* looking at the least counterexample.
LEMMA LeastNat ==
    ASSUME NEW T \in SUBSET Nat, T # {}
    PROVE  \E n \in T : \A m \in T : n <= m
<1> DEFINE R == OpToRel(<, Nat)
<1>1. IsWellFoundedOn(R, Nat)
  BY NatLessThanWellFounded
<1>2. ASSUME NEW x \in Nat, NEW y \in Nat, ~(<<x, y>> \in R) PROVE ~(x < y)
  BY <1>2 DEF OpToRel
<1> HIDE DEF R
<1>3. PICK n \in T : \A y \in T : ~ (<<y, n>> \in R)
  BY <1>1, WFMin
<1>4. \A m \in T : ~(m < n)
  BY <1>2, <1>3
<1> QED
  BY <1>4

\* Every non-empty set of positions has a last one.
LEMMA LastOfSome ==
    ASSUME NEW n \in Nat, NEW S \in SUBSET (1 .. n), S # {}
    PROVE  \E i \in S : \A j \in S : j <= i
<1> DEFINE T == {n - i : i \in S}
<1>1. T \in SUBSET Nat /\ T # {}
  <2>1. \A i \in S : n - i \in Nat
    OBVIOUS
  <2>2. \A t \in T : t \in Nat
    BY <2>1
  <2>3. PICK i \in S : TRUE
    OBVIOUS
  <2>4. n - i \in T
    BY <2>3
  <2> QED
    BY <2>2, <2>4
<1>2. PICK t \in T : \A u \in T : t <= u
  BY <1>1, LeastNat
<1>3. PICK i \in S : t = n - i
  OBVIOUS
<1>4. \A j \in S : n - i <= n - j
  BY <1>2, <1>3
<1> QED
  BY <1>3, <1>4

-----------------------------------------------------------------------------
(* Types and phases *)

\* A reference resolves to a commit or to nothing.
LEMMA RefType ==
    ASSUME srvLoose \in [Ref -> Value], srvPacked \in [Ref -> Value]
    PROVE  srvRef \in [Ref -> Value]
BY DEF srvRef

LEMMA RefTypeNext ==
    ASSUME srvLoose' \in [Ref -> Value], srvPacked' \in [Ref -> Value]
    PROVE  srvRef' \in [Ref -> Value]
BY DEF srvRef

\* References resolve as before while their files stay.
LEMMA RefsStay ==
    ASSUME UNCHANGED <<srvLoose, srvPacked>>
    PROVE  srvRef' = srvRef
BY DEF srvRef

\* Commands are at hand until all are done.
LEMMA ThisType ==
    ASSUME TypeInv, NEW c \in Client, pc[c] \notin {"idle", "report"}
    PROVE  /\ This(c) \in Cmd
           /\ This(c).dst \in Ref /\ This(c).id \in Value
           /\ k[c] \in 1 .. Len(cmds[c]) /\ Len(cmds[c]) \in Nat
           /\ cmds[c] \in Seq(Cmd)
<1>1. cmds[c] \in Seq(Cmd) /\ k[c] \in 1 .. Len(cmds[c])
  BY PushAssumption DEF TypeInv, PhaseInv, PhaseOK
<1>2. This(c) \in Cmd /\ Len(cmds[c]) \in Nat
  BY <1>1 DEF This
<1> QED
  BY <1>1, <1>2 DEF Cmd

\* Every list of commands has a first one.
LEMMA CmdsType ==
    ASSUME NEW q \in PushCmds
    PROVE  q \in Seq(Cmd) /\ Len(q) \in Nat /\ Len(q) >= 1
<1>1. q \in Seq(Cmd) /\ q # <<>>
  BY PushAssumption
<1> QED
  BY <1>1

\* What writing or deleting a reference makes of it, and of its files.
LEMMA WriteRefs ==
    ASSUME TypeInv, NEW c \in Client, WriteRef(c)
    PROVE  /\ This(c).dst \in Ref
           /\ \A r \in Ref :
                /\ srvLoose'[r] = IF r = This(c).dst THEN This(c).id ELSE srvLoose[r]
                /\ srvPacked'[r] \in {srvPacked[r], None}
                /\ r # This(c).dst => srvRef'[r] = srvRef[r]
                /\ r = This(c).dst /\ (This(c).id # None \/ mode[c] # "dav")
                     => srvRef'[r] = This(c).id
<1> DEFINE cmd == This(c)
<1>1. cmd.dst \in Ref
  BY ThisType DEF WriteRef
<1>2. \A r \in Ref :
        /\ srvLoose'[r] = IF r = cmd.dst THEN cmd.id ELSE srvLoose[r]
        /\ srvPacked'[r] = IF r = cmd.dst /\ cmd.id = None /\ mode[c] # "dav"
                           THEN None ELSE srvPacked[r]
  BY <1>1 DEF WriteRef, TypeInv, TypeOK
<1> QED
  BY <1>1, <1>2 DEF srvRef

\* Starting a push, in any way.
LEMMA BeginType ==
    ASSUME TypeInv, NEW c \in Client, NEW m \in Mode, NEW q \in PushCmds,
           NEW at \in PC, NEW objects \in SUBSET Commit,
           Begin(c, m, q, at, objects),
           at \in {"idle", "sent", "collect", "vet", "objects"},
           at = "sent" => m = "wire", at = "vet" => m = "send",
           at = "collect" => m = "path"
    PROVE  TypeInv'
<1>1. Len(q) \in Nat /\ Len(q) >= 1
  BY CmdsType
<1>2. ops' \in 0 .. MaxOps
  BY PushAssumption DEF Begin, TypeInv, TypeOK
<1>3. <<>> \in Seq(Value)
  OBVIOUS
<1>4. TypeOK'
  BY <1>2, <1>3 DEF Begin, TypeInv, TypeOK, remote
<1>5. PhaseInv'
  <2> SUFFICES ASSUME NEW d \in Client PROVE PhaseOK(d)'
    BY DEF PhaseInv
  <2>1. CASE d = c
    BY <1>1, <2>1 DEF Begin, TypeInv, TypeOK, PhaseOK
  <2>2. CASE d # c
    BY <2>2 DEF Begin, TypeInv, TypeOK, PhaseInv, PhaseOK, This
  <2> QED
    BY <2>1, <2>2
<1> QED
  BY <1>4, <1>5, RefTypeNext DEF TypeInv, TypeOK

\* An action of c that is not a start leaves the phases of the others alone.
LEMMA PhaseStep ==
    ASSUME TypeInv, NEW c \in Client, PhaseOK(c)', UNCHANGED <<mode, cmds>>,
           \A d \in Client \ {c} : pc'[d] = pc[d] /\ k'[d] = k[d]
    PROVE  PhaseInv'
BY DEF TypeInv, PhaseInv, PhaseOK, This

\* An error ends the push.
LEMMA FailType ==
    ASSUME TypeInv, NEW c \in Client, Fail(c), UNCHANGED <<mode, cmds, k>>
    PROVE  /\ pc' \in [Client -> PC] /\ todo' \in [Client -> SUBSET Commit]
           /\ result' \in [Client -> {"none", "pending", "ok", "error"}]
           /\ PhaseInv'
<1>1. /\ pc' = [pc EXCEPT ![c] = "idle"]
      /\ pc' \in [Client -> PC] /\ todo' \in [Client -> SUBSET Commit]
      /\ result' \in [Client -> {"none", "pending", "ok", "error"}]
  BY DEF Fail, TypeInv, TypeOK, PC
<1>2. PhaseOK(c)' /\ \A d \in Client \ {c} : pc'[d] = pc[d]
  BY <1>1 DEF TypeInv, TypeOK, PhaseOK
<1> QED
  BY <1>1, <1>2, PhaseStep

\* Going on to the next command.
LEMMA AdvanceType ==
    ASSUME TypeInv, NEW c \in Client, pc[c] \in {"write", "track"}, Advance(c),
           UNCHANGED <<mode, cmds>>
    PROVE  /\ pc' \in [Client -> PC] /\ k' \in [Client -> Nat]
           /\ result' \in [Client -> {"none", "pending", "ok", "error"}]
           /\ PhaseInv'
<1>1. /\ k[c] \in 1 .. Len(cmds[c]) /\ Len(cmds[c]) \in Nat
      /\ cmds[c] \in PushCmds
  BY ThisType DEF TypeInv, PhaseInv, PhaseOK
<1>2. mode[c] \in {"wire", "path", "send", "dav"}
  BY PushAssumption DEF TypeInv, TypeOK
<1>3. NextPhase[mode[c]] \in {"check", "collect"}
      /\ (NextPhase[mode[c]] = "check" => mode[c] \in {"wire", "dav"})
      /\ (NextPhase[mode[c]] = "collect" => mode[c] \in {"path", "send"})
  BY <1>2 DEF NextPhase
<1>4. /\ pc' \in [Client -> PC] /\ k' \in [Client -> Nat]
      /\ \A d \in Client \ {c} : pc'[d] = pc[d] /\ k'[d] = k[d]
  BY <1>1, <1>3 DEF Advance, TypeInv, TypeOK, PC
<1>5. result' \in [Client -> {"none", "pending", "ok", "error"}]
  BY DEF Advance, TypeInv, TypeOK
<1>6. k'[c] = k[c] + 1
      /\ pc'[c] = IF ~Last(c) THEN NextPhase[mode[c]]
                  ELSE IF mode[c] = "wire" THEN "report" ELSE "idle"
  BY DEF Advance, TypeInv, TypeOK
<1>7. PhaseOK(c)'
  <2>1. CASE Last(c)
    BY <1>1, <1>6, <2>1 DEF PhaseOK, Last
  <2>2. CASE ~Last(c)
    BY <1>1, <1>3, <1>6, <2>2 DEF PhaseOK, Last
  <2> QED
    BY <2>1, <2>2
<1> QED
  BY <1>4, <1>5, <1>7, PhaseStep

\* Every step keeps types and phases.
LEMMA TypeStep == TypeInv /\ [Next]_vars => TypeInv'
<1> SUFFICES ASSUME TypeInv, [Next]_vars PROVE TypeInv'
  OBVIOUS
<1> USE PushAssumption, RefTypeNext DEF remote, plan, outcome
<1>1. ASSUME NEW c \in Client, Start(c) PROVE TypeInv'
  <2> PICK q \in PushCmds :
        \/ "wire" \in Mode /\ StartWire(c, q)
        \/ "path" \in Mode /\ StartPath(c, q)
        \/ "send" \in Mode /\ StartSend(c, q)
        \/ "dav" \in Mode /\ StartDav(c, q)
    BY <1>1 DEF Start
  <2>1. CASE "wire" \in Mode /\ StartWire(c, q)
    <3> DEFINE ok == \A i \in DOMAIN q : WireAccepts(q[i], srvRef)
               at == IF ok THEN "sent" ELSE "idle"
               objects == IF ok THEN PushPack(c, Ids(q), AdvertisedRoots(srvRef))
                                ELSE {}
    <3>1. at \in PC /\ at \in {"idle", "sent"} /\ objects \in SUBSET Commit
      BY ClosureType DEF PushPack, PC
    <3>2. Begin(c, "wire", q, at, objects)
      BY <2>1 DEF StartWire
    <3> HIDE DEF at, objects
    <3> QED
      BY <2>1, <3>1, <3>2, BeginType
  <2>2. CASE "path" \in Mode /\ StartPath(c, q)
    BY <2>2, BeginType DEF StartPath, PC
  <2>3. CASE "send" \in Mode /\ StartSend(c, q)
    BY <2>3, BeginType DEF StartSend, PC
  <2>4. CASE "dav" \in Mode /\ StartDav(c, q)
    BY <2>4, BeginType, ClosureType DEF StartDav, PC
  <2> QED
    BY <2>1, <2>2, <2>3, <2>4
<1>2. ASSUME NEW c \in Client, ReceivePack(c) PROVE TypeInv'
  <2>1. pc' \in [Client -> PC] /\ pc'[c] \in {"check", "objects"}
        /\ \A d \in Client \ {c} : pc'[d] = pc[d]
    BY <1>2 DEF ReceivePack, TypeInv, TypeOK, PC
  <2>2. PhaseOK(c)'
    BY <1>2, <2>1 DEF ReceivePack, TypeInv, PhaseInv, PhaseOK
  <2>3. PhaseInv'
    BY <1>2, <2>1, <2>2, PhaseStep DEF ReceivePack
  <2> QED
    BY <1>2, <2>1, <2>3 DEF ReceivePack, TypeInv, TypeOK
<1>3. ASSUME NEW c \in Client, CollectObjects(c) PROVE TypeInv'
  <2> DEFINE cmd == This(c)
             after == IF mode[c] = "send" THEN "write" ELSE "check"
  <2>1. pc[c] = "collect" /\ mode[c] \in {"path", "send"}
    BY <1>3 DEF CollectObjects, TypeInv, PhaseInv, PhaseOK
  <2>2. pc' = [pc EXCEPT ![c] = IF cmd.id = None THEN after ELSE "objects"]
        /\ UNCHANGED <<mode, cmds, k>>
    BY <1>3 DEF CollectObjects
  <2>3. pc' \in [Client -> PC]
        /\ \A d \in Client \ {c} : pc'[d] = pc[d]
    BY <2>2 DEF TypeInv, TypeOK, PC
  <2>4. PhaseOK(c)'
    BY <2>1, <2>2 DEF TypeInv, TypeOK, PhaseInv, PhaseOK
  <2>5. PhaseInv'
    BY <2>2, <2>3, <2>4, PhaseStep
  <2>6. todo' \in [Client -> SUBSET Commit]
    BY <1>3, ClosureType DEF CollectObjects, PushPack, TypeInv, TypeOK
  <2> QED
    BY <1>3, <2>3, <2>5, <2>6 DEF CollectObjects, TypeInv, TypeOK
<1>4. ASSUME NEW c \in Client, NEW x \in Commit, WriteObject(c, x)
      PROVE  TypeInv'
  <2>1. PhaseInv'
    BY <1>4 DEF WriteObject, TypeInv, PhaseInv, PhaseOK, This
  <2>2. srvObj' \subseteq Commit /\ todo' \in [Client -> SUBSET Commit]
    BY <1>4 DEF WriteObject, TypeInv, TypeOK
  <2> QED
    BY <1>4, <2>1, <2>2 DEF WriteObject, TypeInv, TypeOK
<1>5. ASSUME NEW c \in Client, ObjectsDone(c) PROVE TypeInv'
  <2>1. /\ pc' \in [Client -> PC]
        /\ pc'[c] = IF mode[c] = "send" THEN "write" ELSE "check"
        /\ \A d \in Client \ {c} : pc'[d] = pc[d]
    BY <1>5 DEF ObjectsDone, TypeInv, TypeOK, PC
  <2>2. PhaseOK(c)'
    BY <1>5, <2>1 DEF ObjectsDone, TypeInv, PhaseInv, PhaseOK
  <2>3. PhaseInv'
    BY <1>5, <2>1, <2>2, PhaseStep DEF ObjectsDone
  <2> QED
    BY <1>5, <2>1, <2>3 DEF ObjectsDone, TypeInv, TypeOK
<1>6. ASSUME NEW c \in Client, seen' = [seen EXCEPT ![c] = Append(@, Current(c))],
             pc[c] \notin {"idle", "report"}
      PROVE  seen' \in [Client -> Seq(Value)]
  <2>1. Current(c) \in Value
    BY <1>6, ThisType DEF Current, TypeInv, TypeOK
  <2>2. Append(seen[c], Current(c)) \in Seq(Value)
    BY <2>1 DEF TypeInv, TypeOK
  <2> QED
    BY <1>6, <2>2 DEF TypeInv, TypeOK
<1>7. ASSUME NEW c \in Client, Vet(c) PROVE TypeInv'
  <2>1. CASE Accepts(c) /\ seen' = [seen EXCEPT ![c] = Append(@, Current(c))]
             /\ k' = [k EXCEPT ![c] = IF Last(c) THEN 1 ELSE k[c] + 1]
             /\ pc' = [pc EXCEPT ![c] = IF Last(c) THEN "collect" ELSE "vet"]
             /\ UNCHANGED <<result, todo>>
    <3>1. seen' \in [Client -> Seq(Value)]
      BY <1>6, <1>7, <2>1 DEF Vet
    <3>2. k[c] \in 1 .. Len(cmds[c]) /\ Len(cmds[c]) \in Nat
          /\ mode[c] = "send" /\ cmds[c] \in PushCmds
      BY <1>7, ThisType DEF Vet, TypeInv, PhaseInv, PhaseOK
    <3>3. /\ pc' \in [Client -> PC] /\ k' \in [Client -> Nat]
          /\ \A d \in Client \ {c} : pc'[d] = pc[d] /\ k'[d] = k[d]
      BY <2>1, <3>2 DEF TypeInv, TypeOK, PC
    <3>4. PhaseOK(c)'
      BY <1>7, <2>1, <3>2 DEF Vet, TypeInv, TypeOK, PhaseOK, Last
    <3>5. PhaseInv'
      BY <1>7, <3>3, <3>4, PhaseStep DEF Vet
    <3> QED
      BY <1>7, <2>1, <3>1, <3>3, <3>5 DEF Vet, TypeInv, TypeOK
  <2>2. CASE Rejects(c) /\ Fail(c) /\ UNCHANGED <<seen, k>>
    BY <1>7, <2>2, FailType DEF Vet, TypeInv, TypeOK
  <2> QED
    BY <1>7, <2>1, <2>2 DEF Vet
<1>8. ASSUME NEW c \in Client, Validate(c) PROVE TypeInv'
  <2>1. CASE Accepts(c) /\ seen' = [seen EXCEPT ![c] = Append(@, Current(c))]
             /\ pc' = [pc EXCEPT ![c] = "write"]
             /\ UNCHANGED <<result, todo>>
    <3>1. seen' \in [Client -> Seq(Value)]
      BY <1>6, <1>8, <2>1 DEF Validate
    <3>2. /\ pc' \in [Client -> PC] /\ pc'[c] = "write"
          /\ \A d \in Client \ {c} : pc'[d] = pc[d]
      BY <2>1 DEF TypeInv, TypeOK, PC
    <3>3. PhaseOK(c)'
      BY <1>8, <3>2 DEF Validate, TypeInv, PhaseInv, PhaseOK
    <3>4. PhaseInv'
      BY <1>8, <3>2, <3>3, PhaseStep DEF Validate
    <3> QED
      BY <1>8, <2>1, <3>1, <3>2, <3>4 DEF Validate, TypeInv, TypeOK
  <2>2. CASE Rejects(c) /\ Fail(c) /\ UNCHANGED seen
    BY <1>8, <2>2, FailType DEF Validate, TypeInv, TypeOK
  <2> QED
    BY <1>8, <2>1, <2>2 DEF Validate
<1>9. ASSUME NEW c \in Client, WriteRef(c) PROVE TypeInv'
  <2> DEFINE tracks == mode[c] = "path" /\ This(c).upstream /\ This(c).id # None
  <2>1. pc[c] = "write" /\ This(c).dst \in Ref /\ This(c).id \in Value /\ k[c] \in Nat
    BY <1>9, ThisType DEF WriteRef
  <2>2. srvLoose' \in [Ref -> Value] /\ srvPacked' \in [Ref -> Value]
    BY <1>9, <2>1 DEF WriteRef, TypeInv, TypeOK, Value
  <2>3. srvRef' \in [Ref -> Value]
    BY <2>2
  <2>4. past' \in [Ref -> SUBSET Value]
    BY <1>9, <2>1, <2>3 DEF WriteRef, TypeInv, TypeOK
  <2>5. done' \in [Client -> SUBSET Nat]
    BY <1>9, <2>1 DEF WriteRef, TypeInv, TypeOK
  <2>6. /\ pc' \in [Client -> PC] /\ k' \in [Client -> Nat]
        /\ result' \in [Client -> {"none", "pending", "ok", "error"}]
        /\ PhaseInv'
    <3>1. CASE Advance(c)
      BY <1>9, <2>1, <3>1, AdvanceType DEF WriteRef
    <3>2. CASE tracks /\ pc' = [pc EXCEPT ![c] = "upstream"] /\ UNCHANGED <<k, result>>
      <4>1. /\ pc' \in [Client -> PC] /\ pc'[c] = "upstream"
            /\ \A d \in Client \ {c} : pc'[d] = pc[d]
        BY <3>2 DEF TypeInv, TypeOK, PC
      <4>2. UNCHANGED <<mode, cmds, k, result>> /\ This(c)' = This(c)
        BY <1>9, <3>2 DEF WriteRef, This
      <4>3. PhaseOK(c)'
        BY <2>1, <3>2, <4>1, <4>2 DEF TypeInv, PhaseInv, PhaseOK
      <4> QED
        BY <4>1, <4>2, <4>3, PhaseStep DEF TypeInv, TypeOK
    <3> QED
      BY <1>9, <3>1, <3>2 DEF WriteRef
  <2> QED
    BY <1>9, <2>2, <2>3, <2>4, <2>5, <2>6 DEF WriteRef, TypeInv, TypeOK
<1>14. ASSUME NEW c \in Client, SetUpstream(c) PROVE TypeInv'
  <2>1. This(c).dst \in Ref
    BY <1>14, ThisType DEF SetUpstream
  <2>2. /\ pc' \in [Client -> PC] /\ pc'[c] = "track"
        /\ \A d \in Client \ {c} : pc'[d] = pc[d]
        /\ merge' \in [Client -> Ref \cup {None}]
    BY <1>14, <2>1 DEF SetUpstream, TypeInv, TypeOK, PC
  <2>3. PhaseOK(c)'
    BY <1>14, <2>2 DEF SetUpstream, TypeInv, PhaseInv, PhaseOK, This
  <2>4. PhaseInv'
    BY <1>14, <2>2, <2>3, PhaseStep DEF SetUpstream
  <2> QED
    BY <1>14, <2>2, <2>4 DEF SetUpstream, TypeInv, TypeOK
<1>15. ASSUME NEW c \in Client, TrackRef(c) PROVE TypeInv'
  <2>1. This(c).dst \in Ref /\ This(c).id \in Value
    BY <1>15, ThisType DEF TrackRef
  <2>2. [track[c] EXCEPT ![This(c).dst] = This(c).id] \in [Ref -> Value]
    BY <2>1 DEF TypeInv, TypeOK
  <2>3. track' \in [Client -> [Ref -> Value]]
    BY <1>15, <2>2 DEF TrackRef, TypeInv, TypeOK
  <2>4. /\ pc' \in [Client -> PC] /\ k' \in [Client -> Nat]
        /\ result' \in [Client -> {"none", "pending", "ok", "error"}]
        /\ PhaseInv'
    BY <1>15, AdvanceType DEF TrackRef
  <2> QED
    BY <1>15, <2>3, <2>4 DEF TrackRef, TypeInv, TypeOK
<1>16. CASE PackRefs
  <2>1. srvLoose' \in [Ref -> Value] /\ srvPacked' \in [Ref -> Value]
    BY <1>16 DEF PackRefs, TypeInv, TypeOK, Value
  <2>2. PhaseInv' /\ ops' \in 0 .. MaxOps
    BY <1>16 DEF PackRefs, TypeInv, TypeOK, PhaseInv, PhaseOK, This
  <2> QED
    BY <1>16, <2>1, <2>2 DEF PackRefs, TypeInv, TypeOK
<1>10. ASSUME NEW c \in Client, Report(c) PROVE TypeInv'
  <2> DEFINE up == {i \in DOMAIN cmds[c] :
                       cmds[c][i].upstream /\ cmds[c][i].id # None}
             last == CHOOSE i \in up : \A j \in up : j <= i
  <2>1. PhaseInv' /\ pc' \in [Client -> PC]
    BY <1>10 DEF Report, TypeInv, TypeOK, PhaseInv, PhaseOK, PC, This
  <2>2. result' \in [Client -> {"none", "pending", "ok", "error"}]
    BY <1>10 DEF Report, TypeInv, TypeOK
  <2>3. up # {} => cmds[c][last].dst \in Ref
    <3> SUFFICES ASSUME up # {} PROVE cmds[c][last].dst \in Ref
      OBVIOUS
    <3>0. cmds[c] \in PushCmds
      BY <1>10 DEF Report, TypeInv, PhaseInv, PhaseOK
    <3>1. cmds[c] \in Seq(Cmd) /\ up \subseteq 1 .. Len(cmds[c])
          /\ Len(cmds[c]) \in Nat
      BY <3>0, CmdsType
    <3>2. \E i \in up : \A j \in up : j <= i
      BY <3>1, LastOfSome
    <3>3. last \in 1 .. Len(cmds[c])
      BY <3>1, <3>2
    <3> HIDE DEF last
    <3>4. cmds[c][last] \in Cmd
      BY <3>1, <3>3
    <3> QED
      BY <3>4 DEF Cmd
  <2>4. merge' \in [Client -> Ref \cup {None}]
    BY <1>10, <2>3 DEF Report, TypeInv, TypeOK
  <2> QED
    BY <1>10, <2>1, <2>2, <2>4 DEF Report, TypeInv, TypeOK
<1>11. ASSUME NEW c \in Client, LoseConnection(c) PROVE TypeInv'
  <2>1. PhaseInv' /\ pc' \in [Client -> PC]
    BY <1>11 DEF LoseConnection, TypeInv, TypeOK, PhaseInv, PhaseOK, PC, This
  <2>2. faults' \in 0 .. MaxFaults
        /\ result' \in [Client -> {"none", "pending", "ok", "error"}]
    BY <1>11 DEF LoseConnection, TypeInv, TypeOK
  <2> QED
    BY <1>11, <2>1, <2>2 DEF LoseConnection, TypeInv, TypeOK
<1>12. ASSUME NEW c \in Client, Kill(c) PROVE TypeInv'
  <2>1. faults' \in 0 .. MaxFaults
    BY <1>12 DEF Kill, TypeInv, TypeOK
  <2> QED
    BY <1>12, <2>1, FailType DEF Kill, TypeInv, TypeOK
<1>13. CASE UNCHANGED vars
  BY <1>13 DEF vars, TypeInv, TypeOK, PhaseInv, PhaseOK, This
<1> QED
  BY <1>1, <1>2, <1>3, <1>4, <1>5, <1>7, <1>8, <1>9, <1>10, <1>11, <1>12, <1>13,
     <1>14, <1>15, <1>16
  DEF Next, Step

-----------------------------------------------------------------------------
(* Objects before references *)

\* The objects that command k of c needs: a pack comes for all commands, a
\* push to a path and send-pack copy for one command at a time.
Needs(c) ==
    IF mode[c] \in {"wire", "dav"} THEN Closure(Ids(cmds[c]))
                                   ELSE Closure({This(c).id})

NeedOK(c) ==
    /\ pc[c] \in {"sent", "objects"} => Needs(c) \subseteq srvObj \cup todo[c]
    /\ pc[c] \in {"check", "write"} => Needs(c) \subseteq srvObj

\* What was advertised stays complete, so that a pack may leave it out.
AdvComplete == \A c \in Client, r \in Ref : Closure({adv[c][r]}) \subseteq srvObj

\* So do the files of a reference, of which a deletion may uncover the older.
FilesComplete ==
    \A r \in Ref : /\ Closure({srvLoose[r]}) \subseteq srvObj
                   /\ Closure({srvPacked[r]}) \subseteq srvObj

ObjectInv ==
    /\ RefsComplete /\ FilesComplete /\ AdvComplete
    /\ \A c \in Client : NeedOK(c)

\* A pack lacks only what the receiver has.
LEMMA PackSuffices ==
    ASSUME NEW c \in Client, NEW refs \in [Ref -> Value], NEW ids,
           \A r \in Ref : Closure({refs[r]}) \subseteq srvObj
    PROVE  Closure(ids) \subseteq srvObj \cup PushPack(c, ids, AdvertisedRoots(refs))
<1> DEFINE roots == {x \in AdvertisedRoots(refs) : x \in Has[c]}
<1>1. \A x \in roots : Closure({x}) \subseteq srvObj
  BY DEF AdvertisedRoots
<1>2. Closure(roots) \subseteq srvObj
  BY <1>1, ClosureMembers
<1> QED
  BY <1>2 DEF PushPack

\* The object database only grows, and what is complete stays complete.
LEMMA ObjectsGrow ==
    ASSUME ObjectInv, srvObj \subseteq srvObj',
           UNCHANGED <<srvLoose, srvPacked, adv>>
    PROVE  RefsComplete' /\ FilesComplete' /\ AdvComplete'
<1>1. RefsComplete'
  BY RefsStay DEF ObjectInv, RefsComplete
<1>2. FilesComplete' /\ AdvComplete'
  BY DEF ObjectInv, FilesComplete, AdvComplete
<1> QED
  BY <1>1, <1>2

\* A client that does not move keeps what it needs.
LEMMA NeedStays ==
    ASSUME NEW d \in Client, NeedOK(d), srvObj \subseteq srvObj',
           pc'[d] = pc[d], mode'[d] = mode[d], cmds'[d] = cmds[d],
           k'[d] = k[d], todo'[d] = todo[d]
    PROVE  NeedOK(d)'
<1>1. Needs(d)' = Needs(d)
  BY DEF Needs, This, Ids
<1> QED
  BY <1>1 DEF NeedOK

\* Complete references and advertisements, with the deleted ones.
LEMMA RefsClosed ==
    ASSUME RefsComplete, srvRef \in [Ref -> Value]
    PROVE  \A r \in Ref : Closure({srvRef[r]}) \subseteq srvObj
BY ClosureNone DEF RefsComplete

\* Starting a push: the advertisement is what the references are now.
LEMMA BeginObjects ==
    ASSUME TypeInv, ObjectInv, NEW c \in Client, NEW m \in Mode,
           NEW q \in PushCmds, NEW at \in PC, NEW objects,
           Begin(c, m, q, at, objects),
           at \in {"sent", "objects"} =>
             m \in {"wire", "dav"} /\ Closure(Ids(q)) \subseteq srvObj \cup objects,
           at \notin {"check", "write"}
    PROVE  ObjectInv'
<1>1. UNCHANGED <<srvRef, srvObj>>
  BY RefsStay DEF Begin, remote
<1>2. RefsComplete' /\ FilesComplete'
  BY <1>1 DEF ObjectInv, RefsComplete, FilesComplete, Begin, remote
<1>3. AdvComplete'
  <2> SUFFICES ASSUME NEW d \in Client, NEW r \in Ref
               PROVE  Closure({adv'[d][r]}) \subseteq srvObj'
    BY DEF AdvComplete
  <2>1. adv'[d] = IF d = c THEN srvRef ELSE adv[d]
    BY DEF Begin, TypeInv, TypeOK
  <2> QED
    BY <1>1, <2>1, RefsClosed DEF ObjectInv, AdvComplete, TypeInv, TypeOK
<1>4. ASSUME NEW d \in Client PROVE NeedOK(d)'
  <2>1. CASE d = c
    <3>1. pc'[c] = at /\ mode'[c] = m /\ cmds'[c] = q /\ todo'[c] = objects
      BY DEF Begin, TypeInv, TypeOK
    <3>2. at \in {"sent", "objects"} => Needs(c)' = Closure(Ids(q))
      BY <3>1 DEF Needs, Ids
    <3> QED
      BY <1>1, <2>1, <3>1, <3>2 DEF NeedOK
  <2>2. CASE d # c
    <3>1. /\ pc'[d] = pc[d] /\ mode'[d] = mode[d] /\ cmds'[d] = cmds[d]
          /\ k'[d] = k[d] /\ todo'[d] = todo[d]
      BY <2>2 DEF Begin, TypeInv, TypeOK
    <3> QED
      BY <1>1, <3>1, NeedStays DEF ObjectInv
  <2> QED
    BY <2>1, <2>2
<1> QED
  BY <1>2, <1>3, <1>4 DEF ObjectInv

\* An action of c that touches neither references nor objects.
LEMMA NeedStep ==
    ASSUME TypeInv, ObjectInv, NEW c \in Client, UNCHANGED <<remote, plan>>,
           NeedOK(c)',
           \A d \in Client \ {c} :
              pc'[d] = pc[d] /\ k'[d] = k[d] /\ todo'[d] = todo[d]
    PROVE  ObjectInv'
<1>1. RefsComplete' /\ FilesComplete' /\ AdvComplete'
  BY ObjectsGrow DEF remote, plan
<1>2. ASSUME NEW d \in Client \ {c} PROVE NeedOK(d)'
  BY <1>2, NeedStays DEF remote, plan, ObjectInv
<1> QED
  BY <1>1, <1>2 DEF ObjectInv

\* An error leaves nothing to be needed.
LEMMA FailObjects ==
    ASSUME TypeInv, ObjectInv, NEW c \in Client, UNCHANGED <<remote, plan, k>>,
           Fail(c)
    PROVE  ObjectInv'
<1>1. NeedOK(c)'
  BY DEF Fail, TypeInv, TypeOK, NeedOK
<1>2. \A d \in Client \ {c} : pc'[d] = pc[d] /\ todo'[d] = todo[d]
  BY DEF Fail, TypeInv, TypeOK
<1> QED
  BY <1>1, <1>2, NeedStep

\* Every step keeps complete what references name and are about to name.
LEMMA ObjectStep ==
    ASSUME TypeInv, ObjectInv, [Next]_vars
    PROVE  ObjectInv'
<1> USE DEF remote, plan
<1>1. ASSUME NEW c \in Client, Start(c) PROVE ObjectInv'
  <2> PICK q \in PushCmds :
        \/ "wire" \in Mode /\ StartWire(c, q)
        \/ "path" \in Mode /\ StartPath(c, q)
        \/ "send" \in Mode /\ StartSend(c, q)
        \/ "dav" \in Mode /\ StartDav(c, q)
    BY <1>1 DEF Start
  <2>1. CASE "wire" \in Mode /\ StartWire(c, q)
    <3> DEFINE ok == \A i \in DOMAIN q : WireAccepts(q[i], srvRef)
               at == IF ok THEN "sent" ELSE "idle"
               objects == IF ok THEN PushPack(c, Ids(q), AdvertisedRoots(srvRef))
                                ELSE {}
    <3>1. at \in PC /\ at \in {"idle", "sent"}
      BY DEF PC
    <3>2. srvRef \in [Ref -> Value]
          /\ \A r \in Ref : Closure({srvRef[r]}) \subseteq srvObj
      BY RefsClosed DEF ObjectInv, TypeInv, TypeOK
    <3>3. at = "sent" => Closure(Ids(q)) \subseteq srvObj \cup objects
      BY <3>2, PackSuffices
    <3>4. Begin(c, "wire", q, at, objects)
      BY <2>1 DEF StartWire
    <3> HIDE DEF at, objects
    <3> QED
      BY <2>1, <3>1, <3>3, <3>4, BeginObjects
  <2>2. CASE "path" \in Mode /\ StartPath(c, q)
    BY <2>2, BeginObjects DEF StartPath, PC
  <2>3. CASE "send" \in Mode /\ StartSend(c, q)
    BY <2>3, BeginObjects DEF StartSend, PC
  <2>4. CASE "dav" \in Mode /\ StartDav(c, q)
    BY <2>4, BeginObjects DEF StartDav, PC
  <2> QED
    BY <2>1, <2>2, <2>3, <2>4
<1>2. ASSUME NEW c \in Client, ReceivePack(c) PROVE ObjectInv'
  <2>1. /\ pc[c] = "sent" /\ mode[c] = "wire"
        /\ pc'[c] = IF Ids(cmds[c]) = {} THEN "check" ELSE "objects"
        /\ \A d \in Client \ {c} : pc'[d] = pc[d]
    BY <1>2 DEF ReceivePack, TypeInv, TypeOK, PhaseInv, PhaseOK
  <2>2. Needs(c) = Closure(Ids(cmds[c])) /\ Needs(c)' = Needs(c)
    BY <1>2, <2>1 DEF ReceivePack, Needs, Ids
  <2>3. Needs(c) \subseteq srvObj \cup todo[c]
    BY <2>1 DEF ObjectInv, NeedOK
  <2>4. NeedOK(c)'
    <3>1. CASE Ids(cmds[c]) = {}
      BY <2>1, <2>2, <3>1, ClosureNone DEF NeedOK
    <3>2. CASE Ids(cmds[c]) # {}
      BY <1>2, <2>1, <2>2, <2>3, <3>2 DEF ReceivePack, NeedOK
    <3> QED
      BY <3>1, <3>2
  <2> QED
    BY <1>2, <2>1, <2>4, NeedStep DEF ReceivePack
<1>3. ASSUME NEW c \in Client, CollectObjects(c) PROVE ObjectInv'
  <2> DEFINE cmd == This(c)
             present == srvRef[cmd.dst] = cmd.id /\ cmd.id \in srvObj
             new == IF mode[c] = "send" THEN Closure({cmd.id}) \ srvObj
                    ELSE IF present THEN {}
                    ELSE PushPack(c, {cmd.id}, AdvertisedRoots(adv[c]))
  <2>1. /\ mode[c] \in {"path", "send"}
        /\ cmd.dst \in Ref /\ cmd.id \in Value
    BY <1>3, ThisType DEF CollectObjects, TypeInv, PhaseInv, PhaseOK
  <2>2. /\ todo'[c] = IF cmd.id = None THEN {} ELSE new
        /\ pc'[c] \in IF cmd.id = None THEN {"check", "write"} ELSE {"objects"}
        /\ \A d \in Client \ {c} : pc'[d] = pc[d] /\ todo'[d] = todo[d]
    BY <1>3 DEF CollectObjects, TypeInv, TypeOK
  <2>3. Needs(c)' = Closure({cmd.id})
    BY <1>3, <2>1 DEF CollectObjects, Needs, This
  <2>4. cmd.id # None => Closure({cmd.id}) \subseteq srvObj \cup new
    <3>1. CASE mode[c] = "send"
      BY <3>1
    <3>2. CASE mode[c] # "send" /\ present
      BY <2>1, <3>2 DEF ObjectInv, RefsComplete
    <3>3. CASE mode[c] # "send" /\ ~present
      <4>1. adv[c] \in [Ref -> Value]
        BY DEF TypeInv, TypeOK
      <4>2. Closure({cmd.id})
              \subseteq srvObj \cup PushPack(c, {cmd.id}, AdvertisedRoots(adv[c]))
        BY <4>1, PackSuffices DEF ObjectInv, AdvComplete
      <4> QED
        BY <3>3, <4>2
    <3> QED
      BY <3>1, <3>2, <3>3
  <2> HIDE DEF new
  <2>5. NeedOK(c)'
    <3>1. CASE cmd.id = None
      BY <2>2, <2>3, <3>1, ClosureNone DEF NeedOK
    <3>2. CASE cmd.id # None
      BY <1>3, <2>2, <2>3, <2>4, <3>2 DEF CollectObjects, NeedOK
    <3> QED
      BY <3>1, <3>2
  <2> QED
    BY <1>3, <2>2, <2>5, NeedStep DEF CollectObjects
<1>4. ASSUME NEW c \in Client, NEW x \in Commit, WriteObject(c, x)
      PROVE  ObjectInv'
  <2>1. RefsComplete' /\ FilesComplete' /\ AdvComplete'
    BY <1>4, ObjectsGrow DEF WriteObject
  <2>2. ASSUME NEW d \in Client PROVE NeedOK(d)'
    <3>1. CASE d = c
      <4>1. Needs(c)' = Needs(c)
        BY <1>4 DEF WriteObject, Needs, This, Ids
      <4>2. srvObj' \cup todo'[c] = srvObj \cup todo[c] /\ pc'[c] = "objects"
        BY <1>4 DEF WriteObject, TypeInv, TypeOK
      <4> QED
        BY <1>4, <3>1, <4>1, <4>2 DEF WriteObject, ObjectInv, NeedOK
    <3>2. CASE d # c
      <4>1. todo'[d] = todo[d]
        BY <1>4, <3>2 DEF WriteObject, TypeInv, TypeOK
      <4> QED
        BY <1>4, <4>1, NeedStays DEF WriteObject, ObjectInv
    <3> QED
      BY <3>1, <3>2
  <2> QED
    BY <2>1, <2>2 DEF ObjectInv
<1>5. ASSUME NEW c \in Client, ObjectsDone(c) PROVE ObjectInv'
  <2>1. /\ pc'[c] \in {"write", "check"}
        /\ \A d \in Client \ {c} : pc'[d] = pc[d]
    BY <1>5 DEF ObjectsDone, TypeInv, TypeOK
  <2>2. Needs(c)' = Needs(c) /\ Needs(c) \subseteq srvObj
    BY <1>5 DEF ObjectsDone, Needs, This, Ids, ObjectInv, NeedOK
  <2>3. NeedOK(c)'
    BY <1>5, <2>1, <2>2 DEF ObjectsDone, NeedOK
  <2> QED
    BY <1>5, <2>1, <2>3, NeedStep DEF ObjectsDone
<1>6. ASSUME NEW c \in Client, Vet(c) PROVE ObjectInv'
  <2>1. CASE Rejects(c) /\ Fail(c) /\ UNCHANGED <<seen, k>>
    BY <1>6, <2>1, FailObjects DEF Vet
  <2>2. CASE /\ k' = [k EXCEPT ![c] = IF Last(c) THEN 1 ELSE k[c] + 1]
             /\ pc' = [pc EXCEPT ![c] = IF Last(c) THEN "collect" ELSE "vet"]
             /\ UNCHANGED <<result, todo>>
    <3>1. /\ pc'[c] \in {"collect", "vet"}
          /\ \A d \in Client \ {c} : pc'[d] = pc[d] /\ k'[d] = k[d]
      BY <2>2 DEF TypeInv, TypeOK
    <3>2. NeedOK(c)'
      BY <3>1 DEF NeedOK
    <3> QED
      BY <1>6, <2>2, <3>1, <3>2, NeedStep DEF Vet
  <2> QED
    BY <1>6, <2>1, <2>2 DEF Vet
<1>7. ASSUME NEW c \in Client, Validate(c) PROVE ObjectInv'
  <2>1. CASE Rejects(c) /\ Fail(c) /\ UNCHANGED seen
    BY <1>7, <2>1, FailObjects DEF Validate
  <2>2. CASE pc' = [pc EXCEPT ![c] = "write"] /\ UNCHANGED <<result, todo>>
    <3>1. /\ pc'[c] = "write"
          /\ \A d \in Client \ {c} : pc'[d] = pc[d]
      BY <2>2 DEF TypeInv, TypeOK
    <3>2. Needs(c)' = Needs(c) /\ Needs(c) \subseteq srvObj
      BY <1>7 DEF Validate, Needs, This, Ids, ObjectInv, NeedOK
    <3>3. NeedOK(c)'
      BY <1>7, <3>1, <3>2 DEF Validate, NeedOK
    <3> QED
      BY <1>7, <2>2, <3>1, <3>3, NeedStep DEF Validate
  <2> QED
    BY <1>7, <2>1, <2>2 DEF Validate
<1>8. ASSUME NEW c \in Client, WriteRef(c) PROVE ObjectInv'
  <2>1. /\ pc[c] = "write" /\ This(c).dst \in Ref /\ This(c).id \in Value
        /\ k[c] \in 1 .. Len(cmds[c]) /\ cmds[c] \in Seq(Cmd)
    BY <1>8, ThisType DEF WriteRef
  <2>2. Needs(c) \subseteq srvObj
    BY <2>1 DEF ObjectInv, NeedOK
  <2>3. Closure({This(c).id}) \subseteq srvObj
    <3>1. CASE mode[c] \notin {"wire", "dav"}
      BY <2>2, <3>1 DEF Needs
    <3>2. CASE mode[c] \in {"wire", "dav"} /\ This(c).id # None
      <4>1. This(c).id \in Ids(cmds[c])
        BY <2>1, <3>2 DEF Ids, This
      <4>2. Closure({This(c).id}) \subseteq Closure(Ids(cmds[c]))
        BY <4>1, ClosureMono
      <4> QED
        BY <2>2, <3>2, <4>2 DEF Needs
    <3>3. CASE This(c).id = None
      BY <3>3, ClosureNone
    <3> QED
      BY <3>1, <3>2, <3>3
  <2>4. FilesComplete'
    <3> SUFFICES ASSUME NEW r \in Ref
                 PROVE  /\ Closure({srvLoose'[r]}) \subseteq srvObj
                        /\ Closure({srvPacked'[r]}) \subseteq srvObj
      BY <1>8 DEF WriteRef, FilesComplete
    <3> QED
      BY <1>8, <2>3, WriteRefs, ClosureNone DEF ObjectInv, FilesComplete
  <2>5. RefsComplete' /\ AdvComplete'
    BY <1>8, <2>4 DEF WriteRef, ObjectInv, AdvComplete, RefsComplete, FilesComplete, srvRef
  <2>6. /\ pc'[c] \in {NextPhase[mode[c]], "upstream", "report", "idle"}
        /\ \A d \in Client \ {c} : pc'[d] = pc[d] /\ k'[d] = k[d]
    BY <1>8 DEF WriteRef, Advance, TypeInv, TypeOK
  <2>7. NeedOK(c)'
    <3>1. mode[c] \in {"wire", "path", "send", "dav"}
      BY PushAssumption DEF TypeInv, TypeOK
    <3>2. NextPhase[mode[c]] \in {"check", "collect"}
          /\ (NextPhase[mode[c]] = "check" => mode[c] \in {"wire", "dav"})
      BY <3>1 DEF NextPhase
    <3>3. mode[c] \in {"wire", "dav"} => Needs(c)' = Needs(c)
      BY <1>8 DEF WriteRef, Needs, Ids
    <3> QED
      BY <1>8, <2>2, <2>6, <3>2, <3>3 DEF WriteRef, NeedOK
  <2>8. ASSUME NEW d \in Client \ {c} PROVE NeedOK(d)'
    BY <1>8, <2>6, <2>8, NeedStays DEF WriteRef, ObjectInv
  <2> QED
    BY <2>4, <2>5, <2>7, <2>8 DEF ObjectInv
<1>9. ASSUME NEW c \in Client, Report(c) PROVE ObjectInv'
  <2>1. /\ pc'[c] = "idle"
        /\ \A d \in Client \ {c} : pc'[d] = pc[d]
    BY <1>9 DEF Report, TypeInv, TypeOK
  <2>2. NeedOK(c)'
    BY <2>1 DEF NeedOK
  <2> QED
    BY <1>9, <2>1, <2>2, NeedStep DEF Report
<1>10. ASSUME NEW c \in Client, LoseConnection(c) PROVE ObjectInv'
  <2>1. /\ pc'[c] \in {pc[c], "idle"}
        /\ \A d \in Client \ {c} : pc'[d] = pc[d]
    BY <1>10 DEF LoseConnection, TypeInv, TypeOK
  <2>2. Needs(c)' = Needs(c)
    BY <1>10 DEF LoseConnection, Needs, This, Ids
  <2>3. NeedOK(c)'
    BY <1>10, <2>1, <2>2 DEF LoseConnection, ObjectInv, NeedOK
  <2> QED
    BY <1>10, <2>1, <2>3, NeedStep DEF LoseConnection
<1>11. ASSUME NEW c \in Client, Kill(c) PROVE ObjectInv'
  BY <1>11, FailObjects DEF Kill
<1>12. CASE UNCHANGED vars
  <2>1. RefsComplete' /\ FilesComplete' /\ AdvComplete'
    BY <1>12, ObjectsGrow DEF vars
  <2> QED
    BY <1>12, <2>1, NeedStays DEF vars, ObjectInv
<1>13. ASSUME NEW c \in Client, SetUpstream(c) PROVE ObjectInv'
  <2>1. pc'[c] = "track" /\ \A d \in Client \ {c} : pc'[d] = pc[d]
    BY <1>13 DEF SetUpstream, TypeInv, TypeOK
  <2>2. NeedOK(c)'
    BY <2>1 DEF NeedOK
  <2> QED
    BY <1>13, <2>1, <2>2, NeedStep DEF SetUpstream
<1>14. ASSUME NEW c \in Client, TrackRef(c) PROVE ObjectInv'
  <2>1. mode[c] = "path"
    BY <1>14 DEF TrackRef, TypeInv, PhaseInv, PhaseOK
  <2>2. /\ pc'[c] \in {"collect", "idle"}
        /\ \A d \in Client \ {c} : pc'[d] = pc[d] /\ k'[d] = k[d]
    BY <1>14, <2>1 DEF TrackRef, Advance, NextPhase, TypeInv, TypeOK
  <2>3. NeedOK(c)'
    BY <2>2 DEF NeedOK
  <2> QED
    BY <1>14, <2>2, <2>3, NeedStep DEF TrackRef
<1>15. CASE PackRefs
  <2>1. \A r \in Ref : srvLoose'[r] = None /\ srvPacked'[r] = srvRef[r]
                       /\ srvRef'[r] = srvRef[r]
    BY <1>15 DEF PackRefs, srvRef
  <2>2. \A r \in Ref : Closure({srvRef[r]}) \subseteq srvObj
    BY RefsClosed DEF ObjectInv, TypeInv
  <2>3. RefsComplete' /\ FilesComplete'
    BY <1>15, <2>1, <2>2, ClosureNone DEF PackRefs, RefsComplete, FilesComplete
  <2>4. AdvComplete' /\ \A d \in Client : NeedOK(d)'
    BY <1>15, NeedStays DEF PackRefs, ObjectInv, AdvComplete
  <2> QED
    BY <2>3, <2>4 DEF ObjectInv
<1> QED
  BY <1>1, <1>2, <1>3, <1>4, <1>5, <1>6, <1>7, <1>8, <1>9, <1>10, <1>11, <1>12,
     <1>13, <1>14, <1>15
  DEF Next, Step

-----------------------------------------------------------------------------
(* What validation read *)

\* Command i of c, whose validation read seen[c][i], may overwrite that.
Vetted(c, i) ==
    seen[c][i] # None =>
        /\ cmds[c][i].id # None /\ ~Forced(mode[c], cmds[c][i])
             => IsAncestor(seen[c][i], cmds[c][i].id)
        /\ mode[c] = "wire" => seen[c][i] = adv[c][cmds[c][i].dst]

\* Validated are the commands before k, with k itself once it may be written;
\* send-pack validates all of them first.  Over the wire the client has held
\* every command against the advertisement before that.
SeenOK(c) ==
    pc[c] \notin {"idle", "report"} =>
        /\ mode[c] = "wire" =>
             \A i \in 1 .. Len(cmds[c]) : WireAccepts(cmds[c][i], adv[c])
        /\ Len(seen[c]) =
             IF mode[c] = "send" /\ pc[c] # "vet" THEN Len(cmds[c])
             ELSE IF pc[c] \in {"write", "upstream", "track"} THEN k[c] ELSE k[c] - 1
        /\ \A i \in 1 .. Len(seen[c]) : Vetted(c, i)

SeenInv == \A c \in Client : SeenOK(c)

\* What a validation lets through, in each way to push.
LEMMA AcceptsVetted ==
    ASSUME TypeInv, NEW c \in Client, pc[c] \notin {"idle", "report"},
           mode[c] = "wire" => WireAccepts(This(c), adv[c]),
           Accepts(c), Current(c) # None
    PROVE  /\ This(c).id # None /\ ~Forced(mode[c], This(c))
                => IsAncestor(Current(c), This(c).id)
           /\ mode[c] = "wire" => Current(c) = adv[c][This(c).dst]
<1> DEFINE cmd == This(c)
           old == Current(c)
<1>1. cmd.dst \in Ref /\ cmd.id \in Value /\ old \in Value
  BY ThisType DEF Current, TypeInv, TypeOK
<1>2. mode[c] \in {"wire", "path", "send", "dav"}
  BY PushAssumption DEF TypeInv, TypeOK
<1>3. CASE mode[c] = "wire"
  BY <1>1, <1>3 DEF Current, Accepts, ReceiveAccepts, WireAccepts
<1>4. CASE mode[c] = "dav"
  BY <1>1, <1>2, <1>4 DEF Current, Accepts, DavAccepts
<1>5. CASE mode[c] \in {"path", "send"}
  <2>1. PathMayAccept(cmd) /\ old = srvRef[cmd.dst] /\ Forced("path", cmd) = Forced(mode[c], cmd)
    BY <1>5 DEF Accepts, Current, Forced
  <2>2. cmd.id # None /\ ~Forced(mode[c], cmd) => MayReach(srvObj, old, cmd.id)
    BY <2>1 DEF PathMayAccept
  <2>3. old = cmd.id => IsAncestor(old, cmd.id)
    BY <1>1, HistoryRefl DEF IsAncestor, Closure, Value
  <2> QED
    BY <1>5, <2>2, <2>3 DEF MayReach
<1> QED
  BY <1>2, <1>3, <1>4, <1>5

\* Commands, modes and advertisements of the others do not change.
LEMMA SeenStays ==
    ASSUME NEW d \in Client, SeenOK(d), pc'[d] = pc[d], mode'[d] = mode[d],
           cmds'[d] = cmds[d], k'[d] = k[d], adv'[d] = adv[d],
           seen'[d] = seen[d]
    PROVE  SeenOK(d)'
BY DEF SeenOK, Vetted, WireAccepts, IsAncestor

\* An action of c that is not a start.
LEMMA SeenStep ==
    ASSUME TypeInv, SeenInv, NEW c \in Client, UNCHANGED plan, SeenOK(c)',
           \A d \in Client \ {c} :
              pc'[d] = pc[d] /\ k'[d] = k[d] /\ seen'[d] = seen[d]
    PROVE  SeenInv'
<1> SUFFICES ASSUME NEW d \in Client, d # c PROVE SeenOK(d)'
  BY DEF SeenInv
<1> QED
  BY SeenStays DEF SeenInv, plan

\* A push that fails or ends has no command left to write.
LEMMA SeenEnds ==
    ASSUME TypeInv, SeenInv, NEW c \in Client, UNCHANGED <<plan, k, seen>>,
           pc' = [pc EXCEPT ![c] = "idle"]
    PROVE  SeenInv'
<1>1. SeenOK(c)' /\ \A d \in Client \ {c} : pc'[d] = pc[d]
  BY DEF SeenOK, TypeInv, TypeOK
<1> QED
  BY <1>1, SeenStep

LEMMA BeginSeen ==
    ASSUME TypeInv, SeenInv, NEW c \in Client, NEW m \in Mode,
           NEW q \in PushCmds, NEW at \in PC, NEW objects,
           Begin(c, m, q, at, objects), at \notin {"write", "upstream", "track"},
           m = "send" => at = "vet",
           m = "wire" /\ at # "idle" =>
              \A i \in 1 .. Len(q) : WireAccepts(q[i], srvRef)
    PROVE  SeenInv'
<1> SUFFICES ASSUME NEW d \in Client PROVE SeenOK(d)'
  BY DEF SeenInv
<1>1. CASE d = c
  <2>1. /\ pc'[c] = at /\ mode'[c] = m /\ cmds'[c] = q /\ k'[c] = 1
        /\ seen'[c] = <<>> /\ adv'[c] = srvRef
    BY DEF Begin, TypeInv, TypeOK
  <2>2. Len(seen'[c]) = 0
    BY <2>1
  <2>3. at # "idle" /\ m = "wire" =>
           \A i \in 1 .. Len(q) : WireAccepts(cmds'[c][i], adv'[c])
    BY <2>1
  <2> QED
    BY <1>1, <2>1, <2>2, <2>3 DEF SeenOK
<1>2. CASE d # c
  <2>1. /\ pc'[d] = pc[d] /\ mode'[d] = mode[d] /\ cmds'[d] = cmds[d]
        /\ k'[d] = k[d] /\ seen'[d] = seen[d] /\ adv'[d] = adv[d]
    BY <1>2 DEF Begin, TypeInv, TypeOK
  <2> QED
    BY <2>1, SeenStays DEF SeenInv
<1> QED
  BY <1>1, <1>2

\* Validating command k appends what was read.
LEMMA ValidateSeen ==
    ASSUME TypeInv, SeenInv, NEW c \in Client, pc[c] \in {"vet", "check"},
           Accepts(c), UNCHANGED plan,
           seen' = [seen EXCEPT ![c] = Append(@, Current(c))]
    PROVE  /\ Len(seen'[c]) = k[c]
           /\ \A i \in 1 .. Len(seen'[c]) : Vetted(c, i)'
           /\ mode[c] = "wire" =>
                \A i \in 1 .. Len(cmds[c]) : WireAccepts(cmds[c][i], adv[c])
<1>1. /\ k[c] \in 1 .. Len(cmds[c]) /\ seen[c] \in Seq(Value)
      /\ This(c).dst \in Ref /\ Current(c) \in Value
  BY ThisType DEF Current, TypeInv, TypeOK
<1>2. Len(seen[c]) = k[c] - 1
  BY DEF SeenInv, SeenOK, TypeInv, PhaseInv, PhaseOK
<1>3. /\ mode[c] = "wire" =>
           \A i \in 1 .. Len(cmds[c]) : WireAccepts(cmds[c][i], adv[c])
      /\ \A i \in 1 .. Len(seen[c]) : Vetted(c, i)
  BY DEF SeenInv, SeenOK
<1>4. /\ seen'[c] = Append(seen[c], Current(c))
      /\ Len(seen'[c]) = k[c]
      /\ seen'[c][k[c]] = Current(c)
      /\ \A i \in 1 .. Len(seen[c]) : seen'[c][i] = seen[c][i]
  <2>1. seen'[c] = Append(seen[c], Current(c))
    BY DEF TypeInv, TypeOK
  <2> QED
    BY <1>1, <1>2, <2>1
<1>5. ASSUME NEW i \in 1 .. Len(cmds[c]), i = k[c] PROVE Vetted(c, i)'
  <2>1. mode[c] = "wire" => WireAccepts(This(c), adv[c])
    BY <1>1, <1>3 DEF This
  <2>2. /\ cmds'[c][i] = This(c) /\ seen'[c][i] = Current(c)
        /\ mode' = mode /\ adv' = adv
    BY <1>4, <1>5 DEF This, plan
  <2> QED
    BY <2>1, <2>2, AcceptsVetted DEF Vetted, IsAncestor
<1>6. \A i \in 1 .. Len(seen[c]) : Vetted(c, i)'
  BY <1>3, <1>4 DEF Vetted, plan
<1>7. \A i \in 1 .. Len(seen'[c]) : i = k[c] \/ i \in 1 .. Len(seen[c])
  BY <1>1, <1>2, <1>4
<1> QED
  BY <1>1, <1>3, <1>4, <1>5, <1>6, <1>7

\* Every step keeps in order what validation read.
LEMMA SeenNext ==
    ASSUME TypeInv, SeenInv, [Next]_vars
    PROVE  SeenInv'
<1> USE DEF plan
<1>0. ASSUME NEW c \in Client
      PROVE  /\ mode[c] \in {"wire", "path", "send", "dav"}
             /\ pc[c] # "idle" => Len(cmds[c]) \in Nat
             /\ k[c] \in Nat
  BY PushAssumption, CmdsType DEF TypeInv, TypeOK, PhaseInv, PhaseOK
<1>1. ASSUME NEW c \in Client, Start(c) PROVE SeenInv'
  <2> PICK q \in PushCmds :
        \/ "wire" \in Mode /\ StartWire(c, q)
        \/ "path" \in Mode /\ StartPath(c, q)
        \/ "send" \in Mode /\ StartSend(c, q)
        \/ "dav" \in Mode /\ StartDav(c, q)
    BY <1>1 DEF Start
  <2>1. CASE "wire" \in Mode /\ StartWire(c, q)
    <3> DEFINE ok == \A i \in DOMAIN q : WireAccepts(q[i], srvRef)
               at == IF ok THEN "sent" ELSE "idle"
               objects == IF ok THEN PushPack(c, Ids(q), AdvertisedRoots(srvRef))
                                ELSE {}
    <3>1. at \in PC /\ at \in {"idle", "sent"}
      BY DEF PC
    <3>2. DOMAIN q = 1 .. Len(q)
      BY CmdsType
    <3>3. at # "idle" => \A i \in 1 .. Len(q) : WireAccepts(q[i], srvRef)
      BY <3>2
    <3>4. Begin(c, "wire", q, at, objects)
      BY <2>1 DEF StartWire
    <3> HIDE DEF at, objects
    <3> QED
      BY <2>1, <3>1, <3>3, <3>4, BeginSeen
  <2>2. CASE "path" \in Mode /\ StartPath(c, q)
    BY <2>2, BeginSeen DEF StartPath, PC
  <2>3. CASE "send" \in Mode /\ StartSend(c, q)
    BY <2>3, BeginSeen DEF StartSend, PC
  <2>4. CASE "dav" \in Mode /\ StartDav(c, q)
    BY <2>4, BeginSeen DEF StartDav, PC
  <2> QED
    BY <2>1, <2>2, <2>3, <2>4
<1>2. ASSUME NEW c \in Client, ReceivePack(c) \/ CollectObjects(c) \/ ObjectsDone(c)
      PROVE  SeenInv'
  <2>1. /\ pc[c] \in {"sent", "collect", "objects"}
        /\ pc'[c] \in {"check", "objects", "write"}
        /\ pc'[c] = "write" => mode[c] = "send"
        /\ \A d \in Client \ {c} : pc'[d] = pc[d]
        /\ UNCHANGED <<plan, k, seen>>
    BY <1>2 DEF ReceivePack, CollectObjects, ObjectsDone, TypeInv, TypeOK
  <2>2. mode[c] = "send" => pc[c] # "vet" /\ pc'[c] # "vet"
    BY <2>1
  <2>3. SeenOK(c)'
    BY <1>0, <2>1, <2>2 DEF SeenInv, SeenOK, Vetted, WireAccepts, IsAncestor
  <2> QED
    BY <2>1, <2>3, SeenStep
<1>3. ASSUME NEW c \in Client, NEW x \in Commit, WriteObject(c, x)
      PROVE  SeenInv'
  BY <1>3, SeenStays DEF WriteObject, SeenInv
<1>4. ASSUME NEW c \in Client, Vet(c) PROVE SeenInv'
  <2>1. CASE Rejects(c) /\ Fail(c) /\ UNCHANGED <<seen, k>>
    BY <1>4, <2>1, SeenEnds DEF Vet, Fail
  <2>2. CASE /\ Accepts(c)
             /\ seen' = [seen EXCEPT ![c] = Append(@, Current(c))]
             /\ k' = [k EXCEPT ![c] = IF Last(c) THEN 1 ELSE k[c] + 1]
             /\ pc' = [pc EXCEPT ![c] = IF Last(c) THEN "collect" ELSE "vet"]
    <3>1. /\ pc[c] = "vet" /\ mode[c] = "send"
          /\ k[c] \in 1 .. Len(cmds[c]) /\ Len(cmds[c]) \in Nat
      BY <1>4, ThisType DEF Vet, TypeInv, PhaseInv, PhaseOK
    <3>2. /\ Len(seen'[c]) = k[c]
          /\ \A i \in 1 .. Len(seen'[c]) : Vetted(c, i)'
      BY <1>4, <2>2, <3>1, ValidateSeen DEF Vet
    <3>3. /\ k'[c] = IF Last(c) THEN 1 ELSE k[c] + 1
          /\ pc'[c] = IF Last(c) THEN "collect" ELSE "vet"
          /\ \A d \in Client \ {c} :
                pc'[d] = pc[d] /\ k'[d] = k[d] /\ seen'[d] = seen[d]
      BY <2>2 DEF TypeInv, TypeOK
    <3>4. UNCHANGED <<mode, cmds, adv>>
      BY <1>4 DEF Vet
    <3>5. SeenOK(c)'
      BY <3>1, <3>2, <3>3, <3>4 DEF SeenOK, Last
    <3> QED
      BY <3>3, <3>4, <3>5, SeenStep
  <2> QED
    BY <1>4, <2>1, <2>2 DEF Vet
<1>5. ASSUME NEW c \in Client, Validate(c) PROVE SeenInv'
  <2>1. CASE Rejects(c) /\ Fail(c) /\ UNCHANGED seen
    BY <1>5, <2>1, SeenEnds DEF Validate, Fail
  <2>2. CASE /\ Accepts(c)
             /\ seen' = [seen EXCEPT ![c] = Append(@, Current(c))]
             /\ pc' = [pc EXCEPT ![c] = "write"]
    <3>1. /\ pc[c] = "check" /\ mode[c] # "send"
      BY <1>5 DEF Validate, TypeInv, PhaseInv, PhaseOK
    <3>2. /\ Len(seen'[c]) = k[c]
          /\ \A i \in 1 .. Len(seen'[c]) : Vetted(c, i)'
          /\ mode[c] = "wire" =>
               \A i \in 1 .. Len(cmds[c]) : WireAccepts(cmds[c][i], adv[c])
      BY <1>5, <2>2, <3>1, ValidateSeen DEF Validate
    <3>3. /\ pc'[c] = "write"
          /\ \A d \in Client \ {c} : pc'[d] = pc[d] /\ seen'[d] = seen[d]
      BY <2>2 DEF TypeInv, TypeOK
    <3>4. UNCHANGED <<mode, cmds, adv, k>>
      BY <1>5 DEF Validate
    <3>5. SeenOK(c)'
      BY <3>1, <3>2, <3>3, <3>4 DEF SeenOK, WireAccepts, IsAncestor
    <3> QED
      BY <3>3, <3>4, <3>5, SeenStep
  <2> QED
    BY <1>5, <2>1, <2>2 DEF Validate
<1>6. ASSUME NEW c \in Client, WriteRef(c) \/ SetUpstream(c) \/ TrackRef(c)
      PROVE  SeenInv'
  <2>1. /\ pc[c] \in {"write", "upstream", "track"}
        /\ pc[c] \in {"upstream", "track"} => mode[c] = "path"
        /\ UNCHANGED <<mode, cmds, adv, seen>>
    BY <1>6 DEF WriteRef, SetUpstream, TrackRef, TypeInv, PhaseInv, PhaseOK
  <2>2. /\ \/ /\ k'[c] = k[c] + 1
              /\ pc'[c] \in {NextPhase[mode[c]], "report", "idle"}
           \/ k'[c] = k[c] /\ pc'[c] \in {"upstream", "track"} /\ mode[c] = "path"
        /\ \A d \in Client \ {c} : pc'[d] = pc[d] /\ k'[d] = k[d]
    BY <1>6, <2>1 DEF WriteRef, SetUpstream, TrackRef, Advance, TypeInv, TypeOK
  <2>3. NextPhase[mode[c]] \in {"check", "collect"}
    BY <1>0 DEF NextPhase
  <2>4. /\ Len(seen[c]) = IF mode[c] = "send" THEN Len(cmds[c]) ELSE k[c]
        /\ \A i \in 1 .. Len(seen[c]) : Vetted(c, i)
        /\ mode[c] = "wire" =>
             \A i \in 1 .. Len(cmds[c]) : WireAccepts(cmds[c][i], adv[c])
    BY <2>1 DEF SeenInv, SeenOK
  <2>5. /\ \A i \in 1 .. Len(seen[c]) : Vetted(c, i)'
        /\ mode[c] = "wire" =>
             \A i \in 1 .. Len(cmds[c]) : WireAccepts(cmds[c][i], adv[c])'
    BY <2>1, <2>4 DEF Vetted, WireAccepts, IsAncestor, Forced
  <2>6. SeenOK(c)'
    BY <1>0, <2>1, <2>2, <2>3, <2>4, <2>5 DEF SeenOK
  <2> QED
    BY <2>1, <2>2, <2>6, SeenStep
<1>7. ASSUME NEW c \in Client, Report(c) PROVE SeenInv'
  BY <1>7, SeenEnds DEF Report
<1>8. ASSUME NEW c \in Client, LoseConnection(c) PROVE SeenInv'
  <2>1. /\ pc'[c] \in {pc[c], "idle"} /\ UNCHANGED <<mode, cmds, adv, k, seen>>
        /\ \A d \in Client \ {c} : pc'[d] = pc[d]
    BY <1>8 DEF LoseConnection, TypeInv, TypeOK
  <2>2. SeenOK(c)'
    BY <2>1, SeenStays DEF SeenInv, SeenOK
  <2> QED
    BY <2>1, <2>2, SeenStep
<1>9. ASSUME NEW c \in Client, Kill(c) PROVE SeenInv'
  BY <1>9, SeenEnds DEF Kill, Fail
<1>10. CASE UNCHANGED vars
  BY <1>10, SeenStays DEF vars, SeenInv
<1>11. CASE PackRefs
  BY <1>11, SeenStays DEF PackRefs, SeenInv
<1> QED
  BY <1>1, <1>2, <1>3, <1>4, <1>5, <1>6, <1>7, <1>8, <1>9, <1>10, <1>11
  DEF Next, Step

-----------------------------------------------------------------------------
(* What a client reports *)

\* The first n commands of c, and no other, are done, but for deletions by
\* http-push.
DoneTo(c, n) == (1 .. n) \ Unsure(c) \subseteq done[c] /\ done[c] \subseteq 1 .. n

\* Exactly the commands before k are done, with k itself after it was written.
DoneOK(c) ==
    /\ pc[c] = "idle" /\ result[c] = "ok" => DOMAIN cmds[c] \ Unsure(c) \subseteq done[c]
    /\ \E n \in 0 .. Len(cmds[c]) : DoneTo(c, n)
    /\ pc[c] = "vet" => done[c] = {}
    /\ pc[c] \notin {"idle", "vet"} =>
          DoneTo(c, IF pc[c] \in {"upstream", "track"} THEN k[c] ELSE k[c] - 1)

\* What a remote-tracking reference names was a value of the remote one, and
\* what it is about to name was, too.
TrackOK(c) ==
    /\ \A r \in Ref : track[c][r] # None => track[c][r] \in past[r]
    /\ pc[c] \in {"upstream", "track"} => This(c).id \in past[This(c).dst]

DoneInv == \A c \in Client : DoneOK(c) /\ TrackOK(c)

\* An action of c that is not a start; the history of values only grows.
LEMMA DoneStep ==
    ASSUME TypeInv, DoneInv, NEW c \in Client, DoneOK(c)', TrackOK(c)',
           \A r \in Ref : past[r] \subseteq past'[r],
           \A d \in Client \ {c} :
              /\ pc'[d] = pc[d] /\ k'[d] = k[d] /\ done'[d] = done[d]
              /\ result'[d] = result[d] /\ track'[d] = track[d]
              /\ cmds'[d] = cmds[d] /\ mode'[d] = mode[d]
    PROVE  DoneInv'
<1> SUFFICES ASSUME NEW d \in Client, d # c PROVE DoneOK(d)' /\ TrackOK(d)'
  BY DEF DoneInv
<1>1. DoneOK(d) /\ TrackOK(d)
  BY DEF DoneInv
<1>2. DoneOK(d)'
  BY <1>1 DEF DoneOK, DoneTo, Unsure
<1>3. TrackOK(d)'
  <2>1. pc[d] \in {"upstream", "track"} => This(d).dst \in Ref
    BY ThisType
  <2>2. This(d)' = This(d)
    BY DEF This
  <2> QED
    BY <1>1, <2>1, <2>2 DEF TrackOK
<1> QED
  BY <1>2, <1>3

\* A push that fails has done a first few commands.
LEMMA DoneFails ==
    ASSUME TypeInv, DoneInv, NEW c \in Client, Fail(c),
           UNCHANGED <<remote, plan, k, done, track>>
    PROVE  DoneInv'
<1>1. /\ pc'[c] = "idle" /\ result'[c] = "error"
      /\ \A d \in Client \ {c} : pc'[d] = pc[d] /\ result'[d] = result[d]
  BY DEF Fail, TypeInv, TypeOK
<1>2. DoneOK(c)' /\ TrackOK(c)'
  BY <1>1 DEF DoneInv, DoneOK, DoneTo, Unsure, TrackOK, remote, plan
<1> QED
  BY <1>1, <1>2, DoneStep DEF remote, plan

LEMMA BeginDone ==
    ASSUME TypeInv, DoneInv, NEW c \in Client, NEW m, NEW q \in PushCmds,
           NEW at, NEW objects, Begin(c, m, q, at, objects),
           at \notin {"upstream", "track"}
    PROVE  DoneInv'
<1>1. /\ pc'[c] = at /\ cmds'[c] = q /\ k'[c] = 1 /\ done'[c] = {}
      /\ result'[c] = IF at = "idle" THEN "error" ELSE "pending"
      /\ UNCHANGED <<track, past>>
      /\ \A d \in Client \ {c} :
              /\ pc'[d] = pc[d] /\ k'[d] = k[d] /\ done'[d] = done[d]
              /\ result'[d] = result[d] /\ cmds'[d] = cmds[d] /\ mode'[d] = mode[d]
  BY DEF Begin, TypeInv, TypeOK, remote
<1>2. Len(q) \in Nat /\ 1 .. 0 = {} /\ 1 - 1 = 0
  BY CmdsType
<1>3. DoneTo(c, 0)' /\ 0 \in 0 .. Len(q)
  BY <1>1, <1>2 DEF DoneTo
<1>4. DoneOK(c)'
  BY <1>1, <1>2, <1>3 DEF DoneOK
<1>5. TrackOK(c)'
  BY <1>1 DEF TrackOK, DoneInv
<1> QED
  BY <1>1, <1>4, <1>5, DoneStep

\* Every step keeps the account of what is done.
LEMMA DoneNext ==
    ASSUME TypeInv, DoneInv, [Next]_vars
    PROVE  DoneInv'
<1> USE DEF remote, plan, outcome
<1>1. ASSUME NEW c \in Client, Start(c) PROVE DoneInv'
  <2> PICK q \in PushCmds, m \in Mode, objects \in SUBSET Commit :
        \E at \in {"sent", "idle", "collect", "vet", "objects"} : Begin(c, m, q, at, objects)
    BY <1>1, ClosureType DEF Start, StartWire, StartPath, StartSend, StartDav, PushPack
  <2> QED
    BY BeginDone
<1>2. ASSUME NEW c \in Client, ReceivePack(c) \/ CollectObjects(c) \/ ObjectsDone(c)
      PROVE  DoneInv'
  <2>1. /\ pc[c] \in {"sent", "collect", "objects"}
        /\ pc'[c] \in {"check", "objects", "write"}
        /\ UNCHANGED <<remote, plan, k, done, outcome>>
        /\ \A d \in Client \ {c} : pc'[d] = pc[d]
    BY <1>2 DEF ReceivePack, CollectObjects, ObjectsDone, TypeInv, TypeOK
  <2>2. DoneOK(c)' /\ TrackOK(c)'
    BY <2>1 DEF DoneInv, DoneOK, DoneTo, Unsure, TrackOK
  <2> QED
    BY <2>1, <2>2, DoneStep
<1>3. ASSUME NEW c \in Client, NEW x \in Commit, WriteObject(c, x)
      PROVE  DoneInv'
  BY <1>3 DEF WriteObject, DoneInv, DoneOK, DoneTo, Unsure, TrackOK, This
<1>4. ASSUME NEW c \in Client, Vet(c) PROVE DoneInv'
  <2>1. CASE Rejects(c) /\ Fail(c) /\ UNCHANGED <<seen, k>>
    BY <1>4, <2>1, DoneFails DEF Vet
  <2>2. CASE /\ k' = [k EXCEPT ![c] = IF Last(c) THEN 1 ELSE k[c] + 1]
             /\ pc' = [pc EXCEPT ![c] = IF Last(c) THEN "collect" ELSE "vet"]
             /\ UNCHANGED <<result, todo>>
    <3>1. /\ pc'[c] = IF Last(c) THEN "collect" ELSE "vet"
          /\ Last(c) => k'[c] = 1
          /\ \A d \in Client \ {c} : pc'[d] = pc[d] /\ k'[d] = k[d]
      BY <2>2 DEF TypeInv, TypeOK
    <3>2. done[c] = {} /\ 1 .. (1 - 1) = {}
      BY <1>4 DEF Vet, DoneInv, DoneOK
    <3>3. DoneOK(c)' /\ TrackOK(c)'
      BY <1>4, <3>1, <3>2 DEF Vet, DoneInv, DoneOK, DoneTo, Unsure, TrackOK
    <3> QED
      BY <1>4, <2>2, <3>1, <3>3, DoneStep DEF Vet
  <2> QED
    BY <1>4, <2>1, <2>2 DEF Vet
<1>5. ASSUME NEW c \in Client, Validate(c) PROVE DoneInv'
  <2>1. CASE Rejects(c) /\ Fail(c) /\ UNCHANGED seen
    BY <1>5, <2>1, DoneFails DEF Validate
  <2>2. CASE pc' = [pc EXCEPT ![c] = "write"] /\ UNCHANGED <<result, todo>>
    <3>1. pc'[c] = "write" /\ \A d \in Client \ {c} : pc'[d] = pc[d]
      BY <2>2 DEF TypeInv, TypeOK
    <3>2. DoneOK(c)' /\ TrackOK(c)'
      BY <1>5, <2>2, <3>1 DEF Validate, DoneInv, DoneOK, DoneTo, Unsure, TrackOK
    <3> QED
      BY <1>5, <2>2, <3>1, <3>2, DoneStep DEF Validate
  <2> QED
    BY <1>5, <2>1, <2>2 DEF Validate
<1>0. ASSUME NEW c \in Client, pc[c] \in {"write", "track"}, Advance(c),
             UNCHANGED <<cmds, mode>>, NEW n, n = k[c], DoneTo(c, n)'
      PROVE  DoneOK(c)' /\ pc'[c] \notin {"upstream", "track"}
  <2>1. /\ k[c] \in 1 .. Len(cmds[c]) /\ Len(cmds[c]) \in Nat
        /\ cmds[c] \in Seq(Cmd)
    BY <1>0, ThisType
  <2>2. /\ k'[c] = k[c] + 1
        /\ pc'[c] = IF ~Last(c) THEN NextPhase[mode[c]]
                    ELSE IF mode[c] = "wire" THEN "report" ELSE "idle"
    BY <1>0 DEF Advance, TypeInv, TypeOK
  <2>3. NextPhase[mode[c]] \in {"check", "collect"}
    <3>1. mode[c] \in {"wire", "path", "send", "dav"}
      BY PushAssumption DEF TypeInv, TypeOK
    <3> QED
      BY <3>1 DEF NextPhase
  <2>4. /\ pc'[c] \notin {"vet", "upstream", "track"} /\ (pc'[c] = "idle" => Last(c))
        /\ k'[c] - 1 = n /\ n \in 0 .. Len(cmds'[c])
    BY <1>0, <2>1, <2>2, <2>3
  <2>5. Last(c) => DOMAIN cmds'[c] = 1 .. n
    BY <1>0, <2>1 DEF Last
  <2>6. Last(c) => DOMAIN cmds'[c] \ Unsure(c)' \subseteq done'[c]
    BY <1>0, <2>5 DEF DoneTo
  <2> QED
    BY <1>0, <2>4, <2>6 DEF DoneOK
<1>6. ASSUME NEW c \in Client, WriteRef(c) PROVE DoneInv'
  <2>1. /\ pc[c] = "write" /\ This(c).dst \in Ref /\ This(c).id \in Value
        /\ k[c] \in 1 .. Len(cmds[c]) /\ Len(cmds[c]) \in Nat
        /\ cmds[c] \in Seq(Cmd)
    BY <1>6, ThisType DEF WriteRef
  <2>2. /\ done'[c] = IF srvRef'[This(c).dst] = This(c).id THEN done[c] \cup {k[c]}
                      ELSE done[c]
        /\ UNCHANGED <<cmds, mode, track>>
        /\ \A d \in Client \ {c} :
              /\ pc'[d] = pc[d] /\ k'[d] = k[d] /\ done'[d] = done[d]
              /\ result'[d] = result[d]
    BY <1>6 DEF WriteRef, Advance, TypeInv, TypeOK
  <2>0. PICK n \in Nat : n = k[c]
    BY <2>1
  <2>3. DoneTo(c, n)'
    <3>1. DoneTo(c, n - 1) /\ Unsure(c)' = Unsure(c)
      BY <2>0, <2>1, <2>2 DEF DoneInv, DoneOK, Unsure
    <3>2. srvRef'[This(c).dst] = This(c).id \/ k[c] \in Unsure(c)
      BY <1>6, <2>1, WriteRefs DEF Unsure, This
    <3> QED
      BY <2>0, <2>1, <2>2, <3>1, <3>2 DEF DoneTo
  <2>4. \A r \in Ref : past[r] \subseteq past'[r]
    BY <1>6, <2>1 DEF WriteRef, TypeInv, TypeOK
  <2>5. CASE Advance(c)
    <3>1. DoneOK(c)' /\ pc'[c] \notin {"upstream", "track"}
      BY <1>0, <2>0, <2>1, <2>2, <2>3, <2>5
    <3>2. TrackOK(c)'
      BY <2>2, <2>4, <3>1 DEF DoneInv, TrackOK
    <3> QED
      BY <2>2, <2>4, <3>1, <3>2, DoneStep
  <2>6. CASE /\ mode[c] = "path" /\ This(c).id # None
             /\ pc' = [pc EXCEPT ![c] = "upstream"] /\ UNCHANGED <<k, result>>
    <3>1. pc'[c] = "upstream" /\ k'[c] = k[c] /\ This(c)' = This(c)
      BY <2>2, <2>6 DEF TypeInv, TypeOK, This
    <3>2. n = k'[c] /\ n \in 0 .. Len(cmds'[c])
      BY <2>0, <2>1, <2>2, <3>1
    <3>3. DoneOK(c)'
      BY <2>3, <3>1, <3>2 DEF DoneOK
    <3>4. srvRef'[This(c).dst] = This(c).id
      BY <1>6, <2>1, <2>6, WriteRefs
    <3>5. This(c).id \in past'[This(c).dst]
      BY <1>6, <2>1, <3>4 DEF WriteRef, TypeInv, TypeOK
    <3>6. TrackOK(c)'
      BY <2>2, <2>4, <3>1, <3>5 DEF DoneInv, TrackOK
    <3> QED
      BY <2>2, <2>4, <3>3, <3>6, DoneStep
  <2> QED
    BY <1>6, <2>5, <2>6 DEF WriteRef
<1>11. ASSUME NEW c \in Client, SetUpstream(c) PROVE DoneInv'
  <2>1. /\ pc[c] = "upstream" /\ pc'[c] = "track"
        /\ UNCHANGED <<remote, plan, k, done, result, track>>
        /\ \A d \in Client \ {c} : pc'[d] = pc[d]
    BY <1>11 DEF SetUpstream, TypeInv, TypeOK
  <2>2. DoneOK(c)' /\ TrackOK(c)'
    BY <2>1 DEF DoneInv, DoneOK, DoneTo, Unsure, TrackOK, This
  <2> QED
    BY <2>1, <2>2, DoneStep
<1>12. ASSUME NEW c \in Client, TrackRef(c) PROVE DoneInv'
  <2>1. /\ pc[c] = "track" /\ This(c).dst \in Ref
        /\ UNCHANGED <<remote, plan, done>>
        /\ \A d \in Client \ {c} :
              /\ pc'[d] = pc[d] /\ k'[d] = k[d] /\ result'[d] = result[d]
              /\ track'[d] = track[d]
    BY <1>12, ThisType DEF TrackRef, Advance, TypeInv, TypeOK
  <2>0. PICK n \in Nat : n = k[c]
    BY DEF TypeInv, TypeOK
  <2>2. DoneTo(c, n)'
    BY <2>0, <2>1 DEF DoneInv, DoneOK, DoneTo, Unsure
  <2>3. DoneOK(c)' /\ pc'[c] \notin {"upstream", "track"}
    BY <1>0, <1>12, <2>0, <2>1, <2>2 DEF TrackRef
  <2>4. \A r \in Ref :
           track'[c][r] = IF r = This(c).dst THEN This(c).id ELSE track[c][r]
    BY <1>12, <2>1 DEF TrackRef, TypeInv, TypeOK
  <2>5. This(c).id \in past[This(c).dst]
    BY <2>1 DEF DoneInv, TrackOK
  <2>6. TrackOK(c)'
    BY <2>1, <2>3, <2>4, <2>5 DEF DoneInv, TrackOK
  <2> QED
    BY <2>1, <2>3, <2>6, DoneStep
<1>13. CASE PackRefs
  BY <1>13 DEF PackRefs, DoneInv, DoneOK, DoneTo, Unsure, TrackOK, This
<1>7. ASSUME NEW c \in Client, Report(c) PROVE DoneInv'
  <2>1. /\ pc[c] = "report" /\ pc'[c] = "idle"
        /\ UNCHANGED <<remote, plan, k, done, track>>
        /\ \A d \in Client \ {c} : pc'[d] = pc[d] /\ result'[d] = result[d]
    BY <1>7 DEF Report, TypeInv, TypeOK
  <2>2. k[c] = Len(cmds[c]) + 1 /\ cmds[c] \in Seq(Cmd) /\ Len(cmds[c]) \in Nat
    BY <2>1, CmdsType DEF TypeInv, PhaseInv, PhaseOK
  <2>3. DOMAIN cmds[c] \ Unsure(c) \subseteq done[c]
    BY <2>1, <2>2 DEF DoneInv, DoneOK, DoneTo
  <2>4. DoneOK(c)' /\ TrackOK(c)'
    BY <2>1, <2>3 DEF DoneInv, DoneOK, DoneTo, Unsure, TrackOK
  <2> QED
    BY <2>1, <2>4, DoneStep
<1>8. ASSUME NEW c \in Client, LoseConnection(c) PROVE DoneInv'
  <2>1. /\ pc[c] # "idle" /\ pc'[c] \in {pc[c], "idle"} /\ result'[c] = "error"
        /\ UNCHANGED <<remote, plan, k, done, track>>
        /\ \A d \in Client \ {c} : pc'[d] = pc[d] /\ result'[d] = result[d]
    BY <1>8 DEF LoseConnection, TypeInv, TypeOK
  <2>2. DoneOK(c)' /\ TrackOK(c)'
    BY <2>1 DEF DoneInv, DoneOK, DoneTo, Unsure, TrackOK, This
  <2> QED
    BY <2>1, <2>2, DoneStep
<1>9. ASSUME NEW c \in Client, Kill(c) PROVE DoneInv'
  BY <1>9, DoneFails DEF Kill
<1>10. CASE UNCHANGED vars
  BY <1>10 DEF vars, DoneInv, DoneOK, DoneTo, Unsure, TrackOK, This
<1> QED
  BY <1>1, <1>2, <1>3, <1>4, <1>5, <1>6, <1>7, <1>8, <1>9, <1>10, <1>11, <1>12, <1>13
  DEF Next, Step

-----------------------------------------------------------------------------
(* The theorems *)

PushInv == TypeInv /\ ObjectInv /\ SeenInv /\ DoneInv

LEMMA PushInit == Init => PushInv
<1> SUFFICES ASSUME Init PROVE PushInv
  OBVIOUS
<1>1. /\ srvLoose \in [Ref -> Value] /\ srvPacked \in [Ref -> Value]
      /\ srvRef \in [Ref -> Value] /\ (CHOOSE m \in Mode : TRUE) \in Mode
  BY PushAssumption, RefType DEF Init
<1>2. srvObj \subseteq Commit
  BY ClosureType DEF Init
<1>3. /\ 0 \in 0 .. MaxOps /\ 0 \in 0 .. MaxFaults /\ 1 .. 0 = {}
      /\ <<>> \in Seq(Value) /\ Len(<<>>) = 0 /\ DOMAIN <<>> = 1 .. 0
  BY PushAssumption
<1>4. TypeInv
  BY <1>1, <1>2, <1>3 DEF Init, TypeInv, TypeOK, PhaseInv, PhaseOK, Value, PC
<1>5. FilesComplete
  <2> SUFFICES ASSUME NEW r \in Ref
               PROVE  /\ Closure({srvLoose[r]}) \subseteq srvObj
                      /\ Closure({srvPacked[r]}) \subseteq srvObj
    BY DEF FilesComplete
  <2> DEFINE S == {srvLoose[q] : q \in Ref} \cup {srvPacked[q] : q \in Ref}
  <2>1. {srvLoose[r]} \subseteq S /\ {srvPacked[r]} \subseteq S
    OBVIOUS
  <2>2. srvObj = Closure(S)
    BY DEF Init
  <2> QED
    BY <2>1, <2>2, ClosureMono
<1>6. ObjectInv
  <2>1. \A r \in Ref : Closure({srvRef[r]}) \subseteq srvObj
    BY <1>5 DEF FilesComplete, srvRef
  <2> QED
    BY <1>5, <2>1 DEF Init, ObjectInv, RefsComplete, AdvComplete, NeedOK
<1>7. SeenInv
  BY DEF Init, SeenInv, SeenOK
<1>8. \A c \in Client : DoneOK(c)
  <2> SUFFICES ASSUME NEW c \in Client PROVE DoneOK(c)
    OBVIOUS
  <2>1. done[c] = {} /\ cmds[c] = <<>> /\ pc[c] = "idle" /\ result[c] = "none"
    BY DEF Init
  <2>2. DoneTo(c, 0) /\ 0 \in 0 .. Len(cmds[c])
    BY <1>3, <2>1 DEF DoneTo
  <2> QED
    BY <2>1, <2>2 DEF DoneOK
<1>9. DoneInv
  BY <1>8 DEF Init, DoneInv, TrackOK
<1> QED
  BY <1>4, <1>6, <1>7, <1>9 DEF PushInv

LEMMA PushInvStep == PushInv /\ [Next]_vars => PushInv'
BY TypeStep, ObjectStep, SeenNext, DoneNext DEF PushInv

LEMMA PushInvariant == Spec => []PushInv
BY PushInit, PushInvStep, PTL DEF Spec

\* Types, and where each push stands, of push, send-pack, http-push and
\* receive-pack, for any number of them at once.
THEOREM PushTypeOK == Spec => []TypeOK
BY PushInvariant, PTL DEF PushInv, TypeInv

\* apply_receive_pack_update, push_to_path and send-pack write a reference
\* after the objects that it needs, whatever is killed, lost or retried: the
\* references of the remote repository always name complete histories.
THEOREM PushRefsComplete == Spec => []RefsComplete
BY PushInvariant, PTL DEF PushInv, ObjectInv

\* What every push reports is what it did.
LEMMA ReportsHold == PushInv => ReportIsTrue
BY DEF PushInv, DoneInv, DoneOK, DoneTo, TrackOK, ReportIsTrue

\* A client's "ok" means that every command took effect, an error that exactly
\* the first few did, but for deletions by http-push, and its tracking
\* references name values of the remote.
THEOREM PushReportIsTrue == Spec => []ReportIsTrue
BY PushInvariant, ReportsHold, PTL

\* The check that allowed a write was made against what is overwritten.
LEMMA WritesVetted ==
    ASSUME PushInv, NEW c \in Client, pc[c] = "write",
           srvRef[This(c).dst] = seen[c][k[c]], srvRef[This(c).dst] # None
    PROVE  /\ This(c).id # None /\ ~Forced(mode[c], This(c))
                => IsAncestor(srvRef[This(c).dst], This(c).id)
           /\ mode[c] = "wire" => srvRef[This(c).dst] = adv[c][This(c).dst]
<1>1. k[c] \in 1 .. Len(cmds[c]) /\ Len(cmds[c]) \in Nat
  BY ThisType DEF PushInv
<1>2. Len(seen[c]) \in {k[c], Len(cmds[c])} /\ \A i \in 1 .. Len(seen[c]) : Vetted(c, i)
  BY DEF PushInv, SeenInv, SeenOK
<1>3. Vetted(c, k[c])
  BY <1>1, <1>2
<1> QED
  BY <1>3 DEF Vetted, This

\* Between validation and write_ref nothing is compared again, but unless the
\* reference was written by somebody else in between, or is packed and written
\* by http-push, only an ancestor (or with force, over the wire, the advertised
\* value) is overwritten.
THEOREM PushNoUnseenOverwrite == Spec => NoUnseenOverwrite
<1> DEFINE Kept == \A c \in Client :
        (pc[c] = "write" /\ WriteRef(c)) =>
            LET cmd == This(c)
                old == srvRef[cmd.dst]
            IN  old = seen[c][k[c]] /\ old # None =>
                /\ cmd.id # None /\ ~Forced(mode[c], cmd) => IsAncestor(old, cmd.id)
                /\ mode[c] = "wire" => old = adv[c][cmd.dst]
<1>1. PushInv => Kept
  BY WritesVetted
<1>2. PushInv /\ [Next]_vars => [Kept]_vars
  BY <1>1
<1>3. Spec => [][Kept]_vars
  BY <1>2, PushInvariant, PTL DEF Spec
<1> QED
  BY <1>3 DEF NoUnseenOverwrite

-----------------------------------------------------------------------------
(* Histories *)

\* The history of a commit holds that of every commit in it.
LEMMA HistoryTrans ==
    \A x \in Commit : \A y \in History[x] : History[y] \subseteq History[x]
<1> SUFFICES ASSUME NEW x \in Commit, NEW y \in History[x], NEW z \in History[y]
             PROVE  z \in History[x]
  OBVIOUS
<1>1. y \in Commit /\ z \in Commit
  BY DEF History
<1>2. ASSUME NEW T \in SUBSET Commit, x \in T, \A w \in T : Parents[w] \subseteq T
      PROVE  z \in T
  <2>1. y \in T
    BY <1>2 DEF History
  <2> QED
    BY <1>1, <1>2, <2>1 DEF History
<1> QED
  BY <1>1, <1>2 DEF History

\* What a set reaches is complete.
LEMMA ClosureIdem == \A S : Closure(Closure(S)) \subseteq Closure(S)
<1> SUFFICES ASSUME NEW S, NEW z \in Closure(Closure(S)) PROVE z \in Closure(S)
  OBVIOUS
<1>1. PICK y \in Closure(S) \cap Commit : z \in History[y]
  BY DEF Closure
<1>2. PICK x \in S \cap Commit : y \in History[x]
  BY <1>1 DEF Closure
<1> QED
  BY <1>1, <1>2, HistoryTrans DEF Closure

\* A set of commits is part of what it reaches.
LEMMA ClosureExtends == \A S \in SUBSET Commit : S \subseteq Closure(S)
BY HistoryRefl DEF Closure

\* Completeness of a union.
LEMMA ClosureUnion == \A S, T : Closure(S \cup T) = Closure(S) \cup Closure(T)
BY DEF Closure

-----------------------------------------------------------------------------
(* Depth *)

\* One level more.
Deeper(S) == S \cup UNION {Parents[x] : x \in S}

\* f[i] is what is within i levels of W.
IsLevels(f, W, n) ==
    f = [i \in 1 .. n |-> IF i = 1 THEN W ELSE Deeper(f[i - 1])]

\* The breadth first walk has a next level: by looking at the least number of
\* levels for which there is no such function.
LEMMA LevelsExist ==
    ASSUME NEW W, NEW n \in Nat
    PROVE  \E f : IsLevels(f, W, n)
<1> DEFINE Bad == {m \in Nat : ~ \E f : IsLevels(f, W, m)}
<1> SUFFICES ASSUME Bad # {} PROVE FALSE
  OBVIOUS
<1>1. PICK m \in Bad : \A j \in Bad : m <= j
  BY LeastNat
<1>2. m # 0
  <2>1. IsLevels([i \in 1 .. 0 |-> W], W, 0)
    BY DEF IsLevels
  <2> QED
    BY <2>1
<1>3. m - 1 \in Nat /\ m - 1 \notin Bad
  BY <1>1, <1>2
<1>4. PICK g : IsLevels(g, W, m - 1)
  BY <1>3
<1> DEFINE f == [i \in 1 .. m |-> IF i < m THEN g[i]
                                  ELSE IF i = 1 THEN W ELSE Deeper(g[i - 1])]
<1>5. ASSUME NEW i \in 1 .. m
      PROVE  f[i] = IF i = 1 THEN W ELSE Deeper(f[i - 1])
  <2>1. CASE i < m
    <3>1. g[i] = IF i = 1 THEN W ELSE Deeper(g[i - 1])
      BY <1>3, <1>4, <2>1 DEF IsLevels
    <3>2. f[i] = g[i] /\ (i # 1 => f[i - 1] = g[i - 1])
      BY <2>1
    <3> QED
      BY <3>1, <3>2
  <2>2. CASE i = m
    <3>1. i # 1 => f[i - 1] = g[i - 1]
      BY <2>2
    <3> QED
      BY <2>2, <3>1
  <2> QED
    BY <2>1, <2>2
<1>6. IsLevels(f, W, m)
  BY <1>5 DEF IsLevels
<1> QED
  BY <1>6

\* How far the walk goes does not change the levels on its way.
LEMMA LevelsAgree ==
    ASSUME NEW W, NEW n \in Nat, NEW m \in Nat, NEW f, NEW g,
           IsLevels(f, W, n), IsLevels(g, W, m)
    PROVE  \A i \in 1 .. n : i \in 1 .. m => f[i] = g[i]
<1> DEFINE Bad == {i \in 1 .. n : i \in 1 .. m /\ f[i] # g[i]}
<1> SUFFICES ASSUME Bad # {} PROVE FALSE
  OBVIOUS
<1>0. Bad \in SUBSET Nat
  OBVIOUS
<1>1. PICK i \in Bad : \A j \in Bad : i <= j
  BY <1>0, LeastNat
<1>2. /\ f[i] = IF i = 1 THEN W ELSE Deeper(f[i - 1])
      /\ g[i] = IF i = 1 THEN W ELSE Deeper(g[i - 1])
  BY DEF IsLevels
<1>3. i # 1 => f[i - 1] = g[i - 1]
  BY <1>1
<1> QED
  BY <1>1, <1>2, <1>3

Levels(W, n) == CHOOSE f : IsLevels(f, W, n)

LEMMA WithinLevels ==
    ASSUME NEW W, NEW n \in Nat
    PROVE  IsLevels(Levels(W, n), W, n) /\ Within(W, n) = Levels(W, n)[n]
<1>1. IsLevels(Levels(W, n), W, n)
  BY LevelsExist DEF Levels
<1>2. Within(W, n) = Levels(W, n)[n]
  BY DEF Within, Levels, IsLevels, Deeper
<1> QED
  BY <1>1, <1>2

\* upload_pack_depth_limited_commits, level by level.
LEMMA WithinStep ==
    ASSUME NEW W, NEW n \in Nat \ {0}
    PROVE  Within(W, 1) = W /\ Within(W, n + 1) = Deeper(Within(W, n))
<1>1. Within(W, 1) = W
  BY WithinLevels DEF IsLevels
<1>2. Within(W, n + 1) = Deeper(Levels(W, n + 1)[n])
  BY WithinLevels DEF IsLevels
<1>3. Levels(W, n + 1)[n] = Levels(W, n)[n]
  BY WithinLevels, LevelsAgree
<1> QED
  BY <1>1, <1>2, <1>3, WithinLevels

\* Only commits are walked.
LEMMA WithinType ==
    ASSUME NEW W \in SUBSET Commit, NEW n \in Nat \ {0}
    PROVE  Within(W, n) \subseteq Commit
<1> DEFINE Bad == {m \in Nat \ {0} : ~(Within(W, m) \subseteq Commit)}
<1> SUFFICES ASSUME Bad # {} PROVE FALSE
  OBVIOUS
<1>0. Bad \in SUBSET Nat
  OBVIOUS
<1>1. PICK m \in Bad : \A j \in Bad : m <= j
  BY <1>0, LeastNat
<1>2. m # 1
  BY WithinStep
<1>3. m - 1 \in Nat \ {0} /\ m - 1 \notin Bad /\ (m - 1) + 1 = m
  BY <1>1, <1>2
<1>4. Within(W, m) = Deeper(Within(W, m - 1)) /\ Within(W, m - 1) \subseteq Commit
  BY <1>3, WithinStep
<1>5. Within(W, m) \subseteq Commit
  BY <1>4, PushAssumption DEF Deeper
<1> QED
  BY <1>5

\* What is near a set is near one of its members.
LEMMA WithinCover ==
    ASSUME NEW W, NEW n \in Nat \ {0}
    PROVE  Within(W, n) \subseteq UNION {Within({x}, n) : x \in W}
<1> DEFINE Bad == {m \in Nat \ {0} :
                ~(Within(W, m) \subseteq UNION {Within({x}, m) : x \in W})}
<1> SUFFICES ASSUME Bad # {} PROVE FALSE
  OBVIOUS
<1>0. Bad \in SUBSET Nat
  OBVIOUS
<1>1. PICK m \in Bad : \A j \in Bad : m <= j
  BY <1>0, LeastNat
<1>2. m # 1
  <2>1. Within(W, 1) = W /\ \A x \in W : Within({x}, 1) = {x}
    BY WithinStep
  <2> QED
    BY <2>1
<1>3. m - 1 \in Nat \ {0} /\ m - 1 \notin Bad /\ (m - 1) + 1 = m
  <2>1. m - 1 \in Nat \ {0} /\ ~(m <= m - 1) /\ (m - 1) + 1 = m
    BY <1>2
  <2> QED
    BY <1>1, <2>1
<1> DEFINE n1 == m - 1
<1>4. /\ Within(W, m) = Deeper(Within(W, n1))
      /\ \A x \in W : Within({x}, m) = Deeper(Within({x}, n1))
  BY <1>3, WithinStep
<1>5. Within(W, n1) \subseteq UNION {Within({x}, n1) : x \in W}
  BY <1>3
<1> HIDE DEF n1
<1>6. Within(W, m) \subseteq UNION {Within({x}, m) : x \in W}
  <2> SUFFICES ASSUME NEW z \in Deeper(Within(W, n1))
               PROVE  \E x \in W : z \in Deeper(Within({x}, n1))
    BY <1>4
  <2>1. PICK y \in Within(W, n1) : z = y \/ z \in Parents[y]
    BY DEF Deeper
  <2>2. PICK x \in W : y \in Within({x}, n1)
    BY <2>1, <1>5
  <2> QED
    BY <2>1, <2>2 DEF Deeper
<1> QED
  BY <1>6

LEMMA WithinNothing == \A n \in Nat \ {0} : Within({}, n) = {}
<1> SUFFICES ASSUME NEW n \in Nat \ {0} PROVE Within({}, n) = {}
  OBVIOUS
<1>1. Within({}, n) \subseteq UNION {Within({x}, n) : x \in {}}
  BY WithinCover
<1> QED
  BY <1>1

\* Walks over a shallow clone stop at the boundary, and meet nothing above it
\* that is not within the depth.
LEMMA CutWithin ==
    ASSUME NEW W \in SUBSET Commit, NEW n \in Nat \ {0}, NEW x \in W
    PROVE  CutHistory(x, Boundaries(W, n)) \subseteq Within(W, n)
<1> DEFINE T == Within(W, n)
<1>1. T \in SUBSET Commit
  BY WithinType
<1>2. x \in T /\ \A z \in T \ Boundaries(W, n) : Parents[z] \subseteq T
  <2>1. CASE n = 1
    BY <2>1, WithinStep DEF Boundaries
  <2>2. CASE n # 1
    <3>1. n - 1 \in Nat \ {0} /\ (n - 1) + 1 = n
      BY <2>2
    <3>2. T = Deeper(Within(W, n - 1))
      BY <3>1, WithinStep
    <3>3. Boundaries(W, n) = T \ Within(W, n - 1)
      BY <2>2 DEF Boundaries
    <3>4. x \in T
      <4> DEFINE Bad == {m \in Nat \ {0} : x \notin Within(W, m)}
      <4> SUFFICES ASSUME Bad # {} PROVE FALSE
        OBVIOUS
      <4>0. Bad \in SUBSET Nat
        OBVIOUS
      <4>1. PICK m \in Bad : \A j \in Bad : m <= j
        BY <4>0, LeastNat
      <4>2. m # 1
        BY WithinStep
      <4>3. m - 1 \in Nat \ {0} /\ m - 1 \notin Bad /\ (m - 1) + 1 = m
        BY <4>1, <4>2
      <4>4. Within(W, m) = Deeper(Within(W, m - 1)) /\ x \in Within(W, m - 1)
        BY <4>3, WithinStep
      <4> QED
        BY <4>4 DEF Deeper
    <3> QED
      BY <3>2, <3>3, <3>4 DEF Deeper
  <2> QED
    BY <2>1, <2>2
<1> HIDE DEF T
<1>3. CutHistory(x, Boundaries(W, n)) \subseteq T
  BY <1>1, <1>2 DEF CutHistory
<1> QED
  BY <1>3 DEF T

-----------------------------------------------------------------------------
(* The invariant of the clone *)

\* The phases that each way to fetch and to clone goes through.
FetchPhase ==
    /\ dir = "absent" => fpc \in {"idle", "connect"} /\ ~tainted
    /\ fpc \notin {"idle", "connect"} => (depth = 0 \/ tainted)
    /\ fpc = "connect" => ~Cloning
    /\ fpc # "idle" /\ Cloning => prune = FALSE /\ (kind = "path" => depth = 0)
    /\ fpc \in {"read", "config"} => Cloning
    /\ fpc \in {"prune", "apply", "branch"} => ~Cloning
    /\ fpc \in {"copy", "read", "prune", "apply"} => kind = "path"
    /\ fpc \in {"read", "prune", "apply"} => depth = 0
    /\ fpc = "refs" /\ kind = "path" => depth # 0
    /\ fpc = "shallow" => depth # 0
    /\ fpc = "pack" => kind # "path"
    /\ fpc = "branch" => rows[HeadRef] # None /\ prune = FALSE
    /\ fpc \notin {"idle", "apply"} => left \subseteq Named(rows)

\* What is still to be copied from the path, of what the fetch needs.
Coming == IF fpc = "copy" THEN pack ELSE {}

\* The objects of a clone that nothing has damaged, with the ones that are
\* being copied, are complete, unless clone stopped before it had them all.
ObjectsWhole ==
    ~(dir = "partial" /\ fpc = "idle") =>
        Closure(cliObj \cup Coming) \subseteq cliObj \cup Coming

\* The references of the remote that the fetch has read, and their objects.
RowsHere ==
    /\ fpc = "pack" =>
        /\ AdvertisedRoots(rows) \subseteq pack \cup cliObj
        /\ Closure(have) \subseteq cliObj
    /\ fpc \notin {"idle", "connect", "pack"} =>
        Closure(AdvertisedRoots(rows)) \subseteq cliObj \cup Coming

WholeInv ==
    ~tainted => ObjectsWhole /\ RowsHere /\ Closure(Tips) \subseteq cliObj

\* A reference that was written is what the remote had.  Only a fetch from a
\* path without --depth reads it a second time.
MirrorInv ==
    /\ steady => rows = srvRef
    /\ fpc # "idle" /\ (steady \/ depth # 0) =>
        \A r \in Named(rows) \ left : cliRef[r] = rows[r]
    /\ fpc \in {"config", "branch"} /\ (steady \/ depth # 0) =>
        \A r \in Named(rows) : cliRef[r] = rows[r]
    /\ fpc \in {"pack", "shallow"} /\ ~Cloning /\ depth # 0 => left = {}
    /\ fpc = "apply" /\ prune /\ steady =>
        \A r \in Ref : rows[r] = None => cliRef[r] = None
    /\ FetchMirrors

\* The commits that are within the depth of one of the references rs.
Near(rs) == UNION {Within({rows[r]}, depth) : r \in rs}

\* A fetch with a depth has the commits that the boundary, once written, ends.
DepthInv ==
    /\ fpc = "refs" /\ kind = "path" => Near(Named(rows) \ left) \subseteq cliObj
    /\ fpc = "copy" /\ depth # 0 => Near(Named(rows) \ left) \subseteq cliObj \cup pack
    /\ fpc \in {"refs", "config", "branch"} /\ depth # 0 /\ (Cloning \/ fpc = "branch") =>
        /\ Within(AdvertisedRoots(rows), depth) \subseteq cliObj
        /\ shallow = Boundaries(AdvertisedRoots(rows), depth)
    /\ fpc = "shallow" => Within(AdvertisedRoots(rows), depth) \subseteq cliObj
    /\ fpc = "pack" /\ depth # 0 => pack = AdvertisedRoots(rows)
    /\ fpc = "refs" /\ depth # 0 /\ kind # "path" /\ ~Cloning => pack = AdvertisedRoots(rows)
    /\ DepthFetchRepairs

FetchInv == PushInv /\ FetchTypeOK /\ FetchPhase /\ WholeInv /\ MirrorInv /\ DepthInv

-----------------------------------------------------------------------------
(* Types and phases *)

\* A fetch changes nothing of the remote repository and of the pushes, except
\* that the bounds count it.
LEMMA PushKept == PushInv /\ [FetchNext]_allVars => PushInv'
<1> SUFFICES ASSUME PushInv, [FetchNext]_allVars PROVE PushInv'
  OBVIOUS
<1>1. CASE [Next]_vars
  BY <1>1, PushInvStep
<1>2. CASE /\ UNCHANGED <<remote, pc, plan, k, todo, seen, done, outcome>>
           /\ ops' \in 0 .. MaxOps /\ faults' \in 0 .. MaxFaults
  <2>1. /\ srvLoose' = srvLoose /\ srvPacked' = srvPacked /\ srvRef' = srvRef
        /\ srvObj' = srvObj /\ past' = past /\ pc' = pc
        /\ mode' = mode /\ cmds' = cmds /\ adv' = adv /\ k' = k /\ todo' = todo
        /\ seen' = seen /\ done' = done
        /\ result' = result /\ track' = track /\ merge' = merge
    BY <1>2, RefsStay DEF remote, plan, outcome
  <2>2. TypeInv'
    BY <1>2, <2>1 DEF PushInv, TypeInv, TypeOK, PhaseInv, PhaseOK, This
  <2>3. ObjectInv'
    BY <2>1 DEF PushInv, ObjectInv, RefsComplete, FilesComplete, AdvComplete, NeedOK,
         Needs, This
  <2>4. SeenInv'
    BY <2>1 DEF PushInv, SeenInv, SeenOK, Vetted
  <2>5. DoneInv'
    BY <2>1 DEF PushInv, DoneInv, DoneOK, DoneTo, TrackOK, Unsure, This
  <2> QED
    BY <2>2, <2>3, <2>4, <2>5 DEF PushInv
<1>3. ops \in 0 .. MaxOps /\ faults \in 0 .. MaxFaults
  BY DEF PushInv, TypeInv, TypeOK
<1>4. ASSUME ops < MaxOps, ops' = ops + 1, UNCHANGED faults
      PROVE  ops' \in 0 .. MaxOps /\ faults' \in 0 .. MaxFaults
  BY <1>3, <1>4, PushAssumption
<1>5. ASSUME faults < MaxFaults, faults' = faults + 1, UNCHANGED ops
      PROVE  ops' \in 0 .. MaxOps /\ faults' \in 0 .. MaxFaults
  BY <1>3, <1>5, PushAssumption
<1>6. ASSUME NEW kd, NEW d, NEW p, NEW at, NEW h, NEW o, Launch(kd, d, p, at, h, o)
      PROVE  PushInv'
  BY <1>2, <1>4, <1>6 DEF Launch
<1>7. CASE FetchStart \/ CloneStart
  BY <1>6, <1>7 DEF FetchStart, CloneStart, FetchWire, FetchWireDepth, FetchPath,
       FetchPathDepth, CloneWire, ClonePath, FetchBegin, CloneBegin
<1>10. CASE \E d \in Depths \cup {0}, p \in BOOLEAN : AwaitDaemon(d, p)
  BY <1>6, <1>10 DEF AwaitDaemon
<1>8. CASE FetchStep
  BY <1>1, <1>8 DEF FetchStep, ReceiveFetchPack, CopyObject, CopyDone, WriteTracking,
       ApplyRefspec, TrackingDone, PruneTracking, ApplyDone, WriteShallow, CloneRefs,
       CloneConfig, CloneBranch
<1>9. CASE FetchFault
  BY <1>2, <1>5, <1>9 DEF FetchFault
<1> QED
  BY <1>1, <1>7, <1>8, <1>9, <1>10 DEF FetchNext, PushStep, allVars

\* What upload-pack and the walks of the clone compute are commits.
LEMMA ComputedType ==
    ASSUME FetchTypeOK
    PROVE  /\ AdvertisedRoots(srvRef) \subseteq Commit /\ Named(srvRef) \subseteq Ref
           /\ AdvertisedRoots(rows) \subseteq Commit /\ Haves \subseteq Commit
           /\ \A kd : Wants(kd, srvRef) \subseteq Commit
           /\ LocalMissing \subseteq Commit
           /\ UploadPackIds(pack, have, depth) \subseteq Commit
           /\ depth # 0 => /\ \A r \in Named(rows) : Within({rows[r]}, depth) \subseteq Commit
                           /\ Boundaries(AdvertisedRoots(rows), depth) \subseteq Commit
<1>1. /\ AdvertisedRoots(srvRef) \subseteq Commit /\ Named(srvRef) \subseteq Ref
      /\ AdvertisedRoots(rows) \subseteq Commit /\ Haves \subseteq Commit
      /\ pack \subseteq Commit /\ depth \in Nat
  BY RefType, FetchAssumption DEF FetchTypeOK, TypeOK, AdvertisedRoots, Named, Value, Haves
<1>2. \A kd : Wants(kd, srvRef) \subseteq Commit
  BY <1>1 DEF Wants
<1>3. LocalMissing \subseteq Commit
  BY RefType, ClosureType DEF FetchTypeOK, TypeOK, LocalMissing, Named, Value
<1>4. UploadPackIds(pack, have, depth) \subseteq Commit
  BY <1>1, WithinType, ClosureType DEF UploadPackIds, DepthLimited
<1>5. ASSUME depth # 0, NEW r \in Named(rows)
      PROVE  Within({rows[r]}, depth) \subseteq Commit
  <2>1. {rows[r]} \in SUBSET Commit
    BY DEF FetchTypeOK, Named, Value
  <2> QED
    BY <1>1, <1>5, <2>1, WithinType
<1>6. ASSUME depth # 0
      PROVE  Boundaries(AdvertisedRoots(rows), depth) \subseteq Commit
  BY <1>1, <1>6, WithinType DEF Boundaries
<1> QED
  BY <1>1, <1>2, <1>3, <1>4, <1>5, <1>6

\* Starting a fetch or a clone.
LEMMA LaunchType ==
    ASSUME FetchTypeOK, TypeOK', NEW kd \in FetchKind, NEW d \in Depths \cup {0},
           NEW p \in BOOLEAN,
           NEW at \in {"connect", "pack", "refs", "copy", "shallow"},
           NEW h \in SUBSET Commit, NEW o \in SUBSET Commit,
           Launch(kd, d, p, at, h, o), dir' \in {"absent", "partial", "ready"},
           tainted' \in BOOLEAN
    PROVE  FetchTypeOK'
<1>1. srvRef \in [Ref -> Value] /\ Named(srvRef) \subseteq Ref
  BY RefType DEF FetchTypeOK, TypeOK, Named
<1> QED
  BY <1>1 DEF Launch, FetchTypeOK

LEMMA FetchTypeStep ==
    ASSUME FetchTypeOK, FetchPhase, TypeOK', [FetchNext]_allVars
    PROVE  FetchTypeOK'
<1> USE ComputedType, FetchAssumption DEF clone, request
<1>0. tainted \in BOOLEAN
  BY DEF FetchTypeOK
<1>1. CASE FetchStart
  <2>1. PICK p \in BOOLEAN : \/ \E kd \in FetchKind : FetchWire(kd, p)
                             \/ \E kd \in FetchKind, d \in Depths : FetchWireDepth(kd, d, p)
                             \/ FetchPath(p)
                             \/ \E d \in Depths : FetchPathDepth(d, p)
    BY <1>1 DEF FetchStart
  <2>2. ASSUME NEW kd \in FetchKind, FetchWire(kd, p) PROVE FetchTypeOK'
    BY <1>0, <2>2, LaunchType DEF FetchWire, FetchBegin
  <2>3. ASSUME NEW kd \in FetchKind, NEW d \in Depths, FetchWireDepth(kd, d, p)
        PROVE  FetchTypeOK'
    BY <1>0, <2>3, LaunchType DEF FetchWireDepth, FetchBegin
  <2>4. CASE FetchPath(p)
    BY <1>0, <2>4, LaunchType DEF FetchPath, FetchBegin
  <2>5. ASSUME NEW d \in Depths, FetchPathDepth(d, p) PROVE FetchTypeOK'
    BY <1>0, <2>5, LaunchType DEF FetchPathDepth, FetchBegin
  <2> QED
    BY <2>1, <2>2, <2>3, <2>4, <2>5
<1>2. CASE CloneStart
  <2>1. ASSUME NEW kd \in FetchKind, NEW d \in Depths \cup {0}, CloneWire(kd, d)
        PROVE  FetchTypeOK'
    BY <1>0, <2>1, LaunchType DEF CloneWire, CloneBegin
  <2>2. CASE ClonePath
    <3>1. srvObj \in SUBSET Commit /\ (tainted \/ ~(Closure(srvObj) \subseteq srvObj)) \in BOOLEAN
      BY DEF FetchTypeOK, TypeOK
    <3> QED
      BY <2>2, <3>1, LaunchType DEF ClonePath, CloneBegin
  <2> QED
    BY <1>2, <2>1, <2>2 DEF CloneStart
<1>3. CASE ReceiveFetchPack
  BY <1>3 DEF ReceiveFetchPack, FetchEndAs, FetchTypeOK
<1>4. ASSUME NEW x \in Commit, CopyObject(x) PROVE FetchTypeOK'
  BY <1>4 DEF CopyObject, FetchTypeOK
<1>5. CASE CopyDone
  BY <1>5 DEF CopyDone, FetchTypeOK
<1>6. ASSUME NEW r \in Ref, WriteTracking(r) PROVE FetchTypeOK'
  <2>1. /\ cliRef' \in [Ref -> Value] /\ left' \subseteq Ref
        /\ fpc' \in {"refs", "copy"} /\ pack' \subseteq Commit
    <3>1. kind = "path" => depth # 0
      BY <1>6 DEF WriteTracking, FetchPhase
    <3>2. kind = "path" => Within({rows[r]}, depth) \subseteq Commit
      BY <1>6, <3>1 DEF WriteTracking, FetchPhase
    <3> QED
      BY <1>6, <3>1, <3>2 DEF WriteTracking, FetchTypeOK, DepthLimited
  <2> QED
    BY <1>6, <2>1 DEF WriteTracking, FetchTypeOK
<1>7. ASSUME NEW r \in Ref, ApplyRefspec(r) PROVE FetchTypeOK'
  <2>0. srvRef \in [Ref -> Value]
    BY RefType DEF FetchTypeOK, TypeOK
  <2>1. cliRef' \in [Ref -> Value] /\ tainted' \in BOOLEAN
    BY <1>7, <2>0 DEF ApplyRefspec, FetchTypeOK
  <2> QED
    BY <1>7, <2>1 DEF ApplyRefspec, FetchEndAs, FetchTypeOK
<1>8. CASE TrackingDone
  BY <1>8 DEF TrackingDone, FetchEndAs, FetchTypeOK
<1>9. CASE PruneTracking
  <2>1. cliRef' \in [Ref -> Value]
    BY <1>9 DEF PruneTracking, FetchTypeOK, Value
  <2> QED
    BY <1>9, <2>1 DEF PruneTracking, FetchTypeOK
<1>10. CASE ApplyDone
  BY <1>10 DEF ApplyDone, FetchEndAs, FetchTypeOK
<1>11. CASE WriteShallow
  <2>1. depth # 0
    BY <1>11 DEF WriteShallow, FetchPhase
  <2> QED
    BY <1>11, <2>1 DEF WriteShallow, FetchEndAs, FetchTypeOK
<1>12. CASE CloneRefs
  <2>1. cliRef' \in [Ref -> Value] /\ tainted' \in BOOLEAN
    BY <1>12, RefType DEF CloneRefs, FetchTypeOK, TypeOK
  <2> QED
    BY <1>12, <2>1 DEF CloneRefs, FetchTypeOK
<1>13. CASE CloneConfig
  BY <1>13 DEF CloneConfig, FetchEndAs, FetchTypeOK
<1>14. CASE CloneBranch
  <2>1. rows[HeadRef] \in Commit
    BY <1>14, PushAssumption DEF CloneBranch, FetchPhase, FetchTypeOK, Value
  <2> QED
    BY <1>14, <2>1 DEF CloneBranch, FetchEndAs, FetchTypeOK
<1>15. CASE FetchFault
  BY <1>15 DEF FetchFault, FetchEndAs, FetchTypeOK
<1>16. CASE PushStep
  BY <1>16 DEF PushStep, FetchTypeOK
<1>18. CASE \E d \in Depths \cup {0}, p \in BOOLEAN : AwaitDaemon(d, p)
  <2>1. PICK d \in Depths \cup {0}, p \in BOOLEAN : AwaitDaemon(d, p)
    BY <1>18
  <2>2. "git" \in FetchKind /\ dir' \in {"absent", "ready"} /\ {} \in SUBSET Commit
    BY <2>1 DEF AwaitDaemon, FetchTypeOK
  <2> QED
    BY <1>0, <2>1, <2>2, LaunchType DEF AwaitDaemon
<1>17. CASE UNCHANGED allVars
  BY <1>17 DEF allVars, fetchVars, FetchTypeOK
<1> QED
  BY <1>1, <1>2, <1>3, <1>4, <1>5, <1>6, <1>7, <1>8, <1>9, <1>10, <1>11, <1>12,
     <1>13, <1>14, <1>15, <1>16, <1>17, <1>18
     DEF FetchNext, FetchStep

LEMMA FetchPhaseStep ==
    ASSUME FetchTypeOK, FetchPhase, [FetchNext]_allVars
    PROVE  FetchPhase'
<1> USE FetchAssumption DEF clone, request, FetchPhase, Named, Cloning
<1>1. CASE FetchStart
  <2>1. PICK p \in BOOLEAN : \/ \E kd \in FetchKind : FetchWire(kd, p)
                             \/ \E kd \in FetchKind, d \in Depths : FetchWireDepth(kd, d, p)
                             \/ FetchPath(p)
                             \/ \E d \in Depths : FetchPathDepth(d, p)
    BY <1>1 DEF FetchStart
  <2>2. ASSUME NEW kd \in FetchKind, FetchWire(kd, p) PROVE FetchPhase'
    BY <2>2 DEF FetchWire, FetchBegin, Launch
  <2>3. ASSUME NEW kd \in FetchKind, NEW d \in Depths, FetchWireDepth(kd, d, p)
        PROVE  FetchPhase'
    BY <2>3 DEF FetchWireDepth, FetchBegin, Launch
  <2>4. CASE FetchPath(p)
    BY <2>4 DEF FetchPath, FetchBegin, Launch
  <2>5. ASSUME NEW d \in Depths, FetchPathDepth(d, p) PROVE FetchPhase'
    BY <2>5 DEF FetchPathDepth, FetchBegin, Launch
  <2> QED
    BY <2>1, <2>2, <2>3, <2>4, <2>5
<1>2. CASE CloneStart
  <2>1. ASSUME NEW kd \in FetchKind, NEW d \in Depths \cup {0}, CloneWire(kd, d)
        PROVE  FetchPhase'
    BY <2>1 DEF CloneWire, CloneBegin, Launch
  <2>2. CASE ClonePath
    BY <2>2 DEF ClonePath, CloneBegin, Launch
  <2> QED
    BY <1>2, <2>1, <2>2 DEF CloneStart
<1>3. CASE ReceiveFetchPack
  BY <1>3 DEF ReceiveFetchPack, FetchEndAs
<1>4. ASSUME NEW x \in Commit, CopyObject(x) PROVE FetchPhase'
  BY <1>4 DEF CopyObject
<1>5. CASE CopyDone
  BY <1>5 DEF CopyDone, FetchTypeOK
<1>6. ASSUME NEW r \in Ref, WriteTracking(r) PROVE FetchPhase'
  BY <1>6 DEF WriteTracking
<1>7. ASSUME NEW r \in Ref, ApplyRefspec(r) PROVE FetchPhase'
  BY <1>7 DEF ApplyRefspec, FetchEndAs
<1>8. CASE TrackingDone
  BY <1>8 DEF TrackingDone, FetchEndAs
<1>9. CASE PruneTracking
  BY <1>9 DEF PruneTracking
<1>10. CASE ApplyDone
  BY <1>10 DEF ApplyDone, FetchEndAs
<1>11. CASE WriteShallow
  BY <1>11 DEF WriteShallow, FetchEndAs
<1>12. CASE CloneRefs
  BY <1>12 DEF CloneRefs
<1>13. CASE CloneConfig
  BY <1>13 DEF CloneConfig, FetchEndAs
<1>14. CASE CloneBranch
  BY <1>14 DEF CloneBranch, FetchEndAs
<1>15. CASE FetchFault
  BY <1>15 DEF FetchFault, FetchEndAs
<1>16. CASE PushStep
  BY <1>16 DEF PushStep
<1>18. CASE \E d \in Depths \cup {0}, p \in BOOLEAN : AwaitDaemon(d, p)
  BY <1>18 DEF AwaitDaemon, Launch, FetchTypeOK
<1>17. CASE UNCHANGED allVars
  BY <1>17 DEF allVars, fetchVars
<1> QED
  BY <1>1, <1>2, <1>3, <1>4, <1>5, <1>6, <1>7, <1>8, <1>9, <1>10, <1>11, <1>12,
     <1>13, <1>14, <1>15, <1>16, <1>17, <1>18
     DEF FetchNext, FetchStep

-----------------------------------------------------------------------------
(* The objects of the clone *)

\* Adding to a complete store what some roots reach and the store lacks.
LEMMA WholeUnion ==
    ASSUME NEW C, NEW D, NEW R, Closure(C) \subseteq C,
           D \subseteq Closure(R), Closure(R) \subseteq C \cup D
    PROVE  Closure(C \cup D) \subseteq C \cup D
<1>1. Closure(D) \subseteq Closure(R)
  BY ClosureMono, ClosureIdem
<1> QED
  BY <1>1, ClosureUnion

\* Everything that a member of a complete store reaches is there.
LEMMA WholeReaches ==
    ASSUME NEW C, NEW R, Closure(C) \subseteq C, R \subseteq C
    PROVE  Closure(R) \subseteq C
BY ClosureMono

\* A step that leaves the objects, what is being copied and the references
\* that were read alone, and makes the references of the clone name only what
\* they named before or what was read.
LEMMA WholeStays ==
    ASSUME WholeInv, ~tainted' => ~tainted,
           UNCHANGED <<cliObj, rows>>, Coming = {}, Coming' = {},
           fpc \notin {"idle", "connect", "pack"}, fpc' # "pack",
           ~tainted' => Tips' \subseteq Tips \cup AdvertisedRoots(rows)
    PROVE  WholeInv'
<1> SUFFICES ASSUME ~tainted' PROVE ObjectsWhole' /\ RowsHere' /\ Closure(Tips') \subseteq cliObj'
  BY DEF WholeInv
<1>1. /\ ~tainted /\ Closure(AdvertisedRoots(rows)) \subseteq cliObj
      /\ Closure(Tips) \subseteq cliObj /\ Closure(cliObj) \subseteq cliObj
      /\ cliObj \cup Coming = cliObj
  BY DEF WholeInv, RowsHere, ObjectsWhole
<1>2. Closure(Tips') \subseteq cliObj
  <2>1. Closure(Tips') \subseteq Closure(Tips \cup AdvertisedRoots(rows))
    BY ClosureMono
  <2>2. Closure(Tips \cup AdvertisedRoots(rows)) \subseteq cliObj
    BY <1>1, ClosureUnion
  <2> QED
    BY <2>1, <2>2
<1>3. RowsHere' /\ ObjectsWhole'
  BY <1>1 DEF RowsHere, ObjectsWhole, AdvertisedRoots
<1> QED
  BY <1>2, <1>3

\* Before a fetch, or a clone, the store is complete.
LEMMA IdleWhole ==
    ASSUME FetchPhase, WholeInv, fpc = "idle", dir \in {"ready", "absent"}, ~tainted
    PROVE  Closure(cliObj) \subseteq cliObj /\ Closure(Tips) \subseteq cliObj
<1>1. Coming = {} /\ ObjectsWhole
  BY DEF Coming, WholeInv
<1> QED
  BY <1>1 DEF WholeInv, ObjectsWhole

\* fetch over the wire asks for every root that it lacks.
LEMMA FetchWireWhole ==
    ASSUME FetchTypeOK, FetchPhase, WholeInv, NEW kd, NEW p, FetchWire(kd, p)
    PROVE  WholeInv'
<1> SUFFICES ASSUME ~tainted' PROVE ObjectsWhole' /\ RowsHere' /\ Closure(Tips') \subseteq cliObj'
  BY DEF WholeInv
<1>1. /\ ~tainted /\ fpc = "idle" /\ dir = "ready" /\ cliObj' = cliObj /\ Tips' = Tips
      /\ rows' = srvRef /\ have' = Haves /\ pack' = Wants(kd, srvRef)
      /\ fpc' = IF Wants(kd, srvRef) = {} THEN "refs" ELSE "pack"
  BY DEF FetchWire, FetchBegin, Launch, Tips
<1>2. Closure(cliObj) \subseteq cliObj /\ Closure(Tips) \subseteq cliObj /\ Coming' = {}
  BY <1>1, IdleWhole DEF Coming
<1>3. AdvertisedRoots(srvRef) \subseteq Wants(kd, srvRef) \cup cliObj
  BY DEF Wants
<1>4. Closure(Haves) \subseteq cliObj
  BY <1>2, ClosureMono DEF Haves
<1>5. Wants(kd, srvRef) = {} => Closure(AdvertisedRoots(srvRef)) \subseteq cliObj
  BY <1>2, <1>3, WholeReaches
<1>6. ObjectsWhole'
  BY <1>1, <1>2 DEF ObjectsWhole
<1>7. RowsHere'
  BY <1>1, <1>2, <1>3, <1>4, <1>5 DEF RowsHere, AdvertisedRoots
<1> QED
  BY <1>1, <1>2, <1>6, <1>7

\* fetch from a path copies what the roots reach and the clone lacks.
LEMMA FetchPathWhole ==
    ASSUME FetchTypeOK, FetchPhase, WholeInv, NEW p, FetchPath(p)
    PROVE  WholeInv'
<1> SUFFICES ASSUME ~tainted' PROVE ObjectsWhole' /\ RowsHere' /\ Closure(Tips') \subseteq cliObj'
  BY DEF WholeInv
<1>1. /\ ~tainted /\ fpc = "idle" /\ dir = "ready" /\ cliObj' = cliObj /\ Tips' = Tips
      /\ rows' = srvRef /\ pack' = LocalMissing /\ fpc' = "copy"
  BY DEF FetchPath, FetchBegin, Launch, Tips
<1>2. /\ Closure(cliObj) \subseteq cliObj /\ Closure(Tips) \subseteq cliObj
      /\ Coming' = LocalMissing
  BY <1>1, IdleWhole DEF Coming
<1> DEFINE R == {srvRef[r] : r \in {q \in Named(srvRef) :
                    cliRef[q] # srvRef[q] \/ srvRef[q] \notin cliObj}}
<1>3. LocalMissing = (R \cup (Closure(R) \ Closure(Tips \cap srvObj))) \ cliObj
  BY DEF LocalMissing
<1>4. R \subseteq Commit
  BY RefType DEF FetchTypeOK, TypeOK, Value, Named
<1>5. AdvertisedRoots(srvRef) \subseteq R \cup cliObj
  BY DEF AdvertisedRoots, Named
<1> HIDE DEF R
<1>6. LocalMissing \subseteq Closure(R)
  BY <1>3, <1>4, ClosureExtends
<1>7. Closure(R) \subseteq cliObj \cup LocalMissing
  <2>1. Closure(Tips \cap srvObj) \subseteq cliObj
    BY <1>2, ClosureMono
  <2> QED
    BY <1>3, <2>1
<1>8. Closure(cliObj \cup LocalMissing) \subseteq cliObj \cup LocalMissing
  BY <1>2, <1>6, <1>7, WholeUnion
<1>9. Closure(AdvertisedRoots(srvRef)) \subseteq cliObj \cup LocalMissing
  <2>1. R \subseteq cliObj \cup LocalMissing
    BY <1>3
  <2>2. AdvertisedRoots(srvRef) \subseteq cliObj \cup LocalMissing
    BY <1>5, <2>1
  <2> QED
    BY <1>8, <2>2, WholeReaches
<1>10. ObjectsWhole' /\ RowsHere'
  BY <1>1, <1>2, <1>8, <1>9 DEF ObjectsWhole, RowsHere, AdvertisedRoots
<1> QED
  BY <1>1, <1>2, <1>10

\* clone asks for every root, or copies every object.
LEMMA CloneWhole ==
    ASSUME FetchTypeOK, FetchPhase, WholeInv, RefsComplete, CloneStart
    PROVE  WholeInv'
<1> SUFFICES ASSUME ~tainted' PROVE ObjectsWhole' /\ RowsHere' /\ Closure(Tips') \subseteq cliObj'
  BY DEF WholeInv
<1> DEFINE R == AdvertisedRoots(srvRef)
<1>1. ASSUME NEW kd, NEW d, CloneWire(kd, d)
      PROVE  ObjectsWhole' /\ RowsHere' /\ Closure(Tips') \subseteq cliObj'
  <2>1. /\ fpc = "idle" /\ dir = "absent" /\ cliObj' = cliObj /\ Tips' = Tips
        /\ rows' = srvRef /\ have' = {} /\ pack' = R /\ d = 0
        /\ fpc' = IF R # {} THEN "pack" ELSE "refs"
    BY <1>1 DEF CloneWire, CloneBegin, Launch, Tips
  <2>2. ~tainted
    BY <2>1 DEF FetchPhase
  <2>3. Closure(cliObj) \subseteq cliObj /\ Closure(Tips) \subseteq cliObj /\ Coming' = {}
    BY <2>1, <2>2, IdleWhole DEF Coming
  <2>4. ObjectsWhole'
    BY <2>1, <2>3 DEF ObjectsWhole
  <2>5. RowsHere'
    BY <2>1, ClosureNone DEF RowsHere, AdvertisedRoots
  <2> QED
    BY <2>1, <2>3, <2>4, <2>5
<1>2. CASE ClonePath
  <2>1. /\ fpc = "idle" /\ dir = "absent" /\ cliObj' = cliObj /\ Tips' = Tips
        /\ rows' = srvRef /\ pack' = srvObj /\ fpc' = "copy"
        /\ ~tainted /\ Closure(srvObj) \subseteq srvObj
    BY <1>2 DEF ClonePath, CloneBegin, Launch, Tips
  <2>2. /\ Closure(cliObj) \subseteq cliObj /\ Closure(Tips) \subseteq cliObj
        /\ Coming' = srvObj
    BY <2>1, IdleWhole DEF Coming
  <2>3. ObjectsWhole'
    BY <2>1, <2>2, ClosureUnion DEF ObjectsWhole
  <2>4. Closure(R) \subseteq srvObj
    BY ClosureMembers DEF AdvertisedRoots, RefsComplete
  <2>5. RowsHere'
    BY <2>1, <2>2, <2>4 DEF RowsHere, AdvertisedRoots
  <2> QED
    BY <2>1, <2>2, <2>3, <2>5
<1> QED
  BY <1>1, <1>2 DEF CloneStart

\* The pack that upload-pack sends completes the clone.
LEMMA PackWhole ==
    ASSUME FetchTypeOK, FetchPhase, WholeInv, ReceiveFetchPack
    PROVE  WholeInv'
<1> SUFFICES ASSUME ~tainted' PROVE ObjectsWhole' /\ RowsHere' /\ Closure(Tips') \subseteq cliObj'
  BY DEF WholeInv
<1>1. /\ ~tainted /\ fpc = "pack" /\ Tips' = Tips /\ rows' = rows /\ dir' = dir
      /\ pack \subseteq Commit /\ depth = 0 /\ Coming = {} /\ Coming' = {}
  BY DEF ReceiveFetchPack, Tips, clone, request, FetchPhase, FetchTypeOK, FetchEndAs, Coming
<1>2. /\ Closure(cliObj) \subseteq cliObj /\ Closure(Tips) \subseteq cliObj
      /\ AdvertisedRoots(rows) \subseteq pack \cup cliObj
      /\ Closure(have) \subseteq cliObj
  BY <1>1 DEF WholeInv, ObjectsWhole, RowsHere
<1>3. CASE have \subseteq srvObj /\ fpc' = "refs" /\ cliObj' = cliObj \cup UploadPackIds(pack, have, depth)
  <2> DEFINE D == UploadPackIds(pack, have, depth)
  <2>1. D = pack \cup (Closure(pack) \ Closure(have))
    BY <1>1 DEF UploadPackIds
  <2> HIDE DEF D
  <2>2. D \subseteq Closure(pack) /\ Closure(pack) \subseteq cliObj \cup D
    BY <1>1, <1>2, <2>1, ClosureExtends
  <2>3. Closure(cliObj \cup D) \subseteq cliObj \cup D
    BY <1>2, <2>2, WholeUnion
  <2>4. AdvertisedRoots(rows) \subseteq cliObj \cup D
    BY <1>2, <2>1
  <2>5. Closure(AdvertisedRoots(rows)) \subseteq cliObj \cup D
    BY <2>3, <2>4, WholeReaches
  <2>6. cliObj' = cliObj \cup D
    BY <1>3 DEF D
  <2> QED
    BY <1>1, <1>2, <1>3, <2>3, <2>5, <2>6 DEF ObjectsWhole, RowsHere, AdvertisedRoots
<1>4. CASE fpc' = "idle" /\ cliObj' = cliObj
  BY <1>1, <1>2, <1>4 DEF ObjectsWhole, RowsHere
<1> QED
  BY <1>1, <1>3, <1>4 DEF ReceiveFetchPack, FetchEndAs

\* A fault may end any phase.
LEMMA FaultWhole ==
    ASSUME FetchTypeOK, FetchPhase, WholeInv, FetchFault
    PROVE  WholeInv'
<1> SUFFICES ASSUME ~tainted' PROVE ObjectsWhole' /\ RowsHere' /\ Closure(Tips') \subseteq cliObj'
  BY DEF WholeInv
<1>1. /\ ~tainted /\ Tips' = Tips /\ cliObj' = cliObj /\ dir' = dir /\ fpc' = "idle"
      /\ fpc # "idle" /\ ~(fpc = "copy" /\ ~Cloning)
  BY DEF FetchFault, FetchEndAs, clone, Tips
<1>2. Coming' = {} /\ (Coming = {} \/ dir = "partial")
  BY <1>1 DEF Coming, Cloning
<1>3. ObjectsWhole'
  BY <1>1, <1>2 DEF WholeInv, ObjectsWhole
<1> QED
  BY <1>1, <1>3 DEF WholeInv, RowsHere

\* A client that waits for the daemon has read nothing.
LEMMA AwaitWhole ==
    ASSUME FetchPhase, WholeInv, NEW d, NEW p, AwaitDaemon(d, p)
    PROVE  WholeInv'
<1> SUFFICES ASSUME ~tainted' PROVE ObjectsWhole' /\ RowsHere' /\ Closure(Tips') \subseteq cliObj'
  BY DEF WholeInv
<1>1. /\ ~tainted /\ fpc = "idle" /\ dir \in {"ready", "absent"} /\ cliObj' = cliObj
      /\ Tips' = Tips /\ fpc' = "connect"
  BY DEF AwaitDaemon, Launch, Tips
<1>2. Closure(cliObj) \subseteq cliObj /\ Closure(Tips) \subseteq cliObj /\ Coming' = {}
  BY <1>1, IdleWhole DEF Coming
<1> QED
  BY <1>1, <1>2 DEF ObjectsWhole, RowsHere

LEMMA WholeStep ==
    ASSUME RefsComplete, FetchTypeOK, FetchPhase, WholeInv, [FetchNext]_allVars
    PROVE  WholeInv'
<1> USE DEF clone, request
<1>0. ASSUME tainted' PROVE WholeInv'
  BY <1>0 DEF WholeInv
<1>1. CASE FetchStart
  BY <1>0, <1>1, FetchWireWhole, FetchPathWhole
     DEF FetchStart, FetchWireDepth, FetchPathDepth
<1>2. CASE CloneStart
  BY <1>2, CloneWhole
<1>3. CASE ReceiveFetchPack
  BY <1>3, PackWhole
<1>4. ASSUME NEW x \in Commit, CopyObject(x) PROVE WholeInv'
  <2>1. /\ cliObj' \cup Coming' = cliObj \cup Coming /\ cliObj \subseteq cliObj'
        /\ fpc = "copy" /\ fpc' = "copy" /\ Tips' = Tips /\ tainted' = tainted
        /\ dir' = dir /\ rows' = rows
    BY <1>4 DEF CopyObject, Coming, Tips
  <2> QED
    BY <2>1 DEF WholeInv, ObjectsWhole, RowsHere, AdvertisedRoots
<1>5. CASE CopyDone
  <2>1. /\ fpc = "copy" /\ fpc' \notin {"copy", "pack"} /\ pack = {}
        /\ tainted' = tainted /\ UNCHANGED <<cliObj, rows>> /\ Tips' = Tips
    BY <1>5 DEF CopyDone, Tips
  <2> QED
    BY <2>1, WholeStays DEF Coming
<1>6. ASSUME NEW r \in Ref, WriteTracking(r) PROVE WholeInv'
  <2>1. fpc = "refs" /\ tainted' = tainted /\ UNCHANGED <<cliObj, rows>> /\ r \in Named(rows)
    BY <1>6 DEF WriteTracking, FetchPhase
  <2>2. CASE kind = "path"
    BY <1>0, <2>1, <2>2 DEF FetchPhase
  <2>3. CASE kind # "path"
    <3>1. Tips' \subseteq Tips \cup AdvertisedRoots(rows)
      BY <1>6, <2>1 DEF WriteTracking, Tips, AdvertisedRoots, Named, FetchTypeOK
    <3>2. fpc' = "refs"
      BY <1>6, <2>1, <2>3 DEF WriteTracking
    <3> QED
      BY <2>1, <3>1, <3>2, WholeStays DEF Coming
  <2> QED
    BY <2>2, <2>3
<1>7. ASSUME NEW r \in Ref, ApplyRefspec(r) PROVE WholeInv'
  <2>1. /\ fpc = "apply" /\ fpc' \in {"apply", "idle"} /\ UNCHANGED <<cliObj, rows>>
        /\ ~tainted' => ~tainted
    BY <1>7 DEF ApplyRefspec, FetchEndAs, FetchTypeOK
  <2>2. ~tainted' => Tips' \subseteq Tips \cup AdvertisedRoots(rows)
    BY <1>7 DEF ApplyRefspec, Tips, AdvertisedRoots, FetchTypeOK
  <2> QED
    BY <2>1, <2>2, WholeStays DEF Coming
<1>8. CASE TrackingDone
  <2>1. /\ fpc = "refs" /\ fpc' # "copy" /\ UNCHANGED <<cliObj, rows>> /\ tainted' = tainted
        /\ Tips' = Tips /\ (fpc' = "pack" => depth # 0)
    BY <1>8 DEF TrackingDone, FetchEndAs, Tips
  <2>2. CASE depth # 0
    BY <1>0, <2>1, <2>2 DEF FetchPhase
  <2>3. CASE depth = 0
    BY <2>1, <2>3, WholeStays DEF Coming
  <2> QED
    BY <2>2, <2>3
<1>9. CASE PruneTracking
  <2>1. /\ fpc = "prune" /\ fpc' = "apply" /\ UNCHANGED <<cliObj, rows>> /\ tainted' = tainted
        /\ Tips' \subseteq Tips
    BY <1>9 DEF PruneTracking, Tips, AdvertisedRoots
  <2> QED
    BY <2>1, WholeStays DEF Coming
<1>10. CASE ApplyDone
  <2>1. /\ fpc = "apply" /\ fpc' = "idle" /\ UNCHANGED <<cliObj, rows>> /\ tainted' = tainted
        /\ Tips' = Tips
    BY <1>10 DEF ApplyDone, FetchEndAs, Tips
  <2> QED
    BY <2>1, WholeStays DEF Coming
<1>11. CASE WriteShallow
  BY <1>0, <1>11 DEF WriteShallow, FetchPhase
<1>12. CASE CloneRefs
  <2>1. /\ fpc = "read" /\ fpc' = "config" /\ UNCHANGED <<cliObj, rows>>
        /\ ~tainted' => ~tainted
    BY <1>12 DEF CloneRefs
  <2>2. ~tainted' => Tips' \subseteq Tips \cup AdvertisedRoots(rows)
    BY <1>12 DEF CloneRefs, Tips, AdvertisedRoots, Named
  <2> QED
    BY <2>1, <2>2, WholeStays DEF Coming
<1>13. CASE CloneConfig
  <2>1. /\ fpc = "config" /\ fpc' \in {"branch", "idle"} /\ UNCHANGED <<cliObj, rows>>
        /\ tainted' = tainted /\ Tips' = Tips
    BY <1>13 DEF CloneConfig, FetchEndAs, Tips
  <2> QED
    BY <2>1, WholeStays DEF Coming
<1>14. CASE CloneBranch
  <2>1. /\ fpc = "branch" /\ fpc' = "idle" /\ UNCHANGED <<cliObj, rows>>
        /\ tainted' = tainted
    BY <1>14 DEF CloneBranch, FetchEndAs
  <2>2. Tips' \subseteq Tips \cup AdvertisedRoots(rows)
    BY <1>14, PushAssumption DEF CloneBranch, FetchPhase, Tips, AdvertisedRoots
  <2> QED
    BY <2>1, <2>2, WholeStays DEF Coming
<1>15. CASE FetchFault
  BY <1>15, FaultWhole
<1>17. CASE \E d \in Depths \cup {0}, p \in BOOLEAN : AwaitDaemon(d, p)
  BY <1>17, AwaitWhole
<1>16. CASE UNCHANGED <<clone, fpc, request, left, pack, tainted>>
  BY <1>16 DEF WholeInv, ObjectsWhole, RowsHere, Coming, Tips, AdvertisedRoots
<1> QED
  BY <1>1, <1>2, <1>3, <1>4, <1>5, <1>6, <1>7, <1>8, <1>9, <1>10, <1>11, <1>12,
     <1>13, <1>14, <1>15, <1>16, <1>17
     DEF FetchNext, FetchStep, PushStep, allVars, fetchVars

-----------------------------------------------------------------------------
(* The references of the clone *)

\* A fetch that starts has all references to write.
LEMMA LaunchMirror ==
    ASSUME FetchTypeOK, NEW kd, NEW d, NEW p,
           NEW at \in {"connect", "pack", "refs", "copy", "shallow"}, NEW h, NEW o,
           Launch(kd, d, p, at, h, o),
           at \in {"pack", "shallow"} => dir' = "partial" \/ d = 0
    PROVE  MirrorInv'
<1>1. srvRef' = srvRef
  BY RefsStay DEF Launch, remote
<1> QED
  BY <1>1 DEF Launch, MirrorInv, FetchMirrors, Cloning

LEMMA MirrorStep ==
    ASSUME FetchTypeOK, FetchPhase, MirrorInv, [FetchNext]_allVars
    PROVE  MirrorInv'
<1> USE RefsStay DEF clone, request, vars, remote, Cloning
<1>1. CASE FetchStart
  <2>1. PICK p \in BOOLEAN : \/ \E kd \in FetchKind : FetchWire(kd, p)
                             \/ \E kd \in FetchKind, d \in Depths : FetchWireDepth(kd, d, p)
                             \/ FetchPath(p)
                             \/ \E d \in Depths : FetchPathDepth(d, p)
    BY <1>1 DEF FetchStart
  <2>2. ASSUME NEW kd \in FetchKind, FetchWire(kd, p) PROVE MirrorInv'
    BY <2>2, LaunchMirror DEF FetchWire, FetchBegin
  <2>3. ASSUME NEW kd \in FetchKind, NEW d \in Depths, FetchWireDepth(kd, d, p)
        PROVE  MirrorInv'
    BY <2>3, LaunchMirror DEF FetchWireDepth, FetchBegin
  <2>4. CASE FetchPath(p)
    BY <2>4, LaunchMirror DEF FetchPath, FetchBegin
  <2>5. ASSUME NEW d \in Depths, FetchPathDepth(d, p) PROVE MirrorInv'
    BY <2>5, LaunchMirror DEF FetchPathDepth, FetchBegin
  <2> QED
    BY <2>1, <2>2, <2>3, <2>4, <2>5
<1>2. CASE CloneStart
  BY <1>2, LaunchMirror DEF CloneStart, CloneWire, ClonePath, CloneBegin
<1>3. CASE ReceiveFetchPack
  BY <1>3 DEF ReceiveFetchPack, FetchEndAs, MirrorInv, FetchMirrors
<1>4. ASSUME NEW x \in Commit, CopyObject(x) PROVE MirrorInv'
  BY <1>4 DEF CopyObject, MirrorInv, FetchMirrors
<1>5. CASE CopyDone
  BY <1>5 DEF CopyDone, FetchPhase, MirrorInv, FetchMirrors, Named
<1>6. ASSUME NEW r \in Ref, WriteTracking(r) PROVE MirrorInv'
  BY <1>6 DEF WriteTracking, FetchPhase, FetchTypeOK, MirrorInv, FetchMirrors
<1>7. ASSUME NEW r \in Ref, ApplyRefspec(r) PROVE MirrorInv'
  <2>1. /\ UNCHANGED <<rows, steady, srvRef, depth, prune, kind>>
        /\ fpc = "apply" /\ depth = 0 /\ left' = left \ {r}
    BY <1>7 DEF ApplyRefspec, FetchPhase
  <2>2. CASE /\ srvRef[r] # None /\ cliRef' = [cliRef EXCEPT ![r] = srvRef[r]]
             /\ UNCHANGED <<fpc, got>>
    <3>1. \A q \in Ref : cliRef'[q] = IF q = r THEN srvRef[r] ELSE cliRef[q]
      BY <2>2 DEF FetchTypeOK
    <3> QED
      BY <2>1, <2>2, <3>1 DEF MirrorInv, FetchMirrors, Named
  <2>3. CASE fpc' = "idle" /\ got' = "error"
    BY <2>1, <2>3 DEF MirrorInv, FetchMirrors
  <2> QED
    BY <1>7, <2>2, <2>3 DEF ApplyRefspec, FetchEndAs
<1>8. CASE TrackingDone
  BY <1>8 DEF TrackingDone, FetchEndAs, FetchPhase, MirrorInv, FetchMirrors, Named
<1>9. CASE PruneTracking
  BY <1>9 DEF PruneTracking, FetchPhase, MirrorInv, FetchMirrors, Named
<1>10. CASE ApplyDone
  BY <1>10 DEF ApplyDone, FetchEndAs, FetchPhase, MirrorInv, FetchMirrors, Named
<1>11. CASE WriteShallow
  BY <1>11 DEF WriteShallow, FetchEndAs, FetchPhase, MirrorInv, FetchMirrors, Named
<1>12. CASE CloneRefs
  BY <1>12 DEF CloneRefs, FetchPhase, MirrorInv, FetchMirrors, Named
<1>13. CASE CloneConfig
  BY <1>13 DEF CloneConfig, FetchEndAs, FetchPhase, MirrorInv, FetchMirrors, Named
<1>14. CASE CloneBranch
  BY <1>14 DEF CloneBranch, FetchEndAs, FetchPhase, MirrorInv, FetchMirrors, Named
<1>15. CASE FetchFault
  BY <1>15 DEF FetchFault, FetchEndAs, MirrorInv, FetchMirrors
<1>16. CASE PushStep
  BY <1>16 DEF PushStep, FetchTypeOK, MirrorInv, FetchMirrors
<1>18. CASE \E d \in Depths \cup {0}, p \in BOOLEAN : AwaitDaemon(d, p)
  <2>1. PICK d \in Depths \cup {0}, p \in BOOLEAN : AwaitDaemon(d, p)
    BY <1>18
  <2> QED
    BY <2>1, LaunchMirror DEF AwaitDaemon
<1>17. CASE UNCHANGED allVars
  BY <1>17 DEF allVars, fetchVars, MirrorInv, FetchMirrors
<1> QED
  BY <1>1, <1>2, <1>3, <1>4, <1>5, <1>6, <1>7, <1>8, <1>9, <1>10, <1>11, <1>12,
     <1>13, <1>14, <1>15, <1>16, <1>17, <1>18
     DEF FetchNext, FetchStep

-----------------------------------------------------------------------------
(* Depth *)

LEMMA DepthType ==
    ASSUME FetchTypeOK
    PROVE  /\ depth \in Nat /\ AdvertisedRoots(rows) \in SUBSET Commit
           /\ AdvertisedRoots(rows) = {rows[r] : r \in Named(rows)}
BY FetchAssumption DEF FetchTypeOK, AdvertisedRoots, Named, Value

\* Walking from each reference is walking from all of them.
LEMMA NearAll ==
    ASSUME FetchTypeOK, depth # 0
    PROVE  Within(AdvertisedRoots(rows), depth) \subseteq Near(Named(rows))
<1>1. Within(AdvertisedRoots(rows), depth)
        \subseteq UNION {Within({x}, depth) : x \in AdvertisedRoots(rows)}
  BY DepthType, WithinCover
<1> QED
  BY <1>1, DepthType DEF Near

\* With the boundary written and the references as read, there is no gap.
LEMMA NoGap ==
    ASSUME FetchTypeOK, depth # 0,
           \A r \in Named(rows) : cliRef[r] = rows[r],
           Within(AdvertisedRoots(rows), depth) \subseteq cliObj,
           NEW r \in Named(rows)
    PROVE  CutHistory(cliRef[r], Boundaries(AdvertisedRoots(rows), depth)) \subseteq cliObj
<1>1. rows[r] \in AdvertisedRoots(rows)
  BY DepthType
<1>2. CutHistory(rows[r], Boundaries(AdvertisedRoots(rows), depth))
        \subseteq Within(AdvertisedRoots(rows), depth)
  BY <1>1, DepthType, CutWithin
<1> QED
  BY <1>2

LEMMA DepthStep ==
    ASSUME FetchTypeOK, FetchPhase, MirrorInv, DepthInv, [FetchNext]_allVars
    PROVE  DepthInv'
<1> USE DEF clone, request, Cloning
<1>0. depth \in Nat
  BY DepthType
<1>1. CASE FetchStart
  <2>1. PICK p \in BOOLEAN : \/ \E kd \in FetchKind : FetchWire(kd, p)
                             \/ \E kd \in FetchKind, d \in Depths : FetchWireDepth(kd, d, p)
                             \/ FetchPath(p)
                             \/ \E d \in Depths : FetchPathDepth(d, p)
    BY <1>1 DEF FetchStart
  <2>2. ASSUME NEW kd \in FetchKind, FetchWire(kd, p) PROVE DepthInv'
    BY <2>2 DEF FetchWire, FetchBegin, Launch, DepthInv, DepthFetchRepairs
  <2>3. ASSUME NEW kd \in FetchKind, NEW d \in Depths, FetchWireDepth(kd, d, p)
        PROVE  DepthInv'
    BY <2>3 DEF FetchWireDepth, FetchBegin, Launch, DepthInv, DepthFetchRepairs,
         AdvertisedRoots
  <2>4. CASE FetchPath(p)
    BY <2>4 DEF FetchPath, FetchBegin, Launch, DepthInv, DepthFetchRepairs
  <2>5. ASSUME NEW d \in Depths, FetchPathDepth(d, p) PROVE DepthInv'
    BY <2>5 DEF FetchPathDepth, FetchBegin, Launch, DepthInv, DepthFetchRepairs, Near, Named
  <2> QED
    BY <2>1, <2>2, <2>3, <2>4, <2>5
<1>2. CASE CloneStart
  <2>1. ASSUME NEW kd \in FetchKind, NEW d \in Depths \cup {0}, CloneWire(kd, d)
        PROVE  DepthInv'
    <3> DEFINE R == AdvertisedRoots(srvRef)
    <3>1. /\ rows' = srvRef /\ depth' = d /\ pack' = R /\ got' = "pending"
          /\ fpc' = IF R # {} THEN "pack" ELSE IF d = 0 THEN "refs" ELSE "shallow"
          /\ AdvertisedRoots(rows') = R /\ kind' = kd /\ kd # "path"
      BY <2>1 DEF CloneWire, CloneBegin, Launch, AdvertisedRoots
    <3>2. R = {} /\ d # 0 => Within(R, d) = {}
      BY WithinNothing, FetchAssumption
    <3> HIDE DEF R
    <3> QED
      BY <3>1, <3>2 DEF DepthInv, DepthFetchRepairs
  <2>2. CASE ClonePath
    BY <2>2 DEF ClonePath, CloneBegin, Launch, DepthInv, DepthFetchRepairs
  <2> QED
    BY <1>2, <2>1, <2>2 DEF CloneStart
<1>3. CASE ReceiveFetchPack
  <2>1. /\ fpc = "pack" /\ UNCHANGED <<rows, depth, shallow, pack>>
        /\ \/ /\ fpc' = IF depth = 0 THEN "refs" ELSE "shallow"
              /\ cliObj' = cliObj \cup UploadPackIds(pack, have, depth)
              /\ UNCHANGED got
           \/ fpc' = "idle" /\ got' = "error"
        /\ AdvertisedRoots(rows') = AdvertisedRoots(rows)
        /\ kind' = kind /\ kind # "path"
    BY <1>3 DEF ReceiveFetchPack, FetchEndAs, AdvertisedRoots, FetchPhase
  <2>2. depth # 0 => UploadPackIds(pack, have, depth) = Within(AdvertisedRoots(rows), depth)
    BY <2>1 DEF DepthInv, UploadPackIds, DepthLimited
  <2> QED
    BY <2>1, <2>2 DEF DepthInv, DepthFetchRepairs
<1>4. ASSUME NEW x \in Commit, CopyObject(x) PROVE DepthInv'
  BY <1>4 DEF CopyObject, DepthInv, DepthFetchRepairs, Near, Named
<1>5. CASE CopyDone
  BY <1>5 DEF CopyDone, FetchPhase, DepthInv, DepthFetchRepairs, Near, Named
<1>6. ASSUME NEW r \in Ref, WriteTracking(r) PROVE DepthInv'
  <2>1. /\ fpc = "refs" /\ UNCHANGED <<rows, depth, shallow, cliObj, kind, got, dir>>
        /\ left' = left \ {r} /\ r \in Named(rows)
        /\ AdvertisedRoots(rows') = AdvertisedRoots(rows) /\ Named(rows') = Named(rows)
    BY <1>6 DEF WriteTracking, AdvertisedRoots, Named, FetchPhase
  <2>2. CASE kind # "path"
    BY <1>6, <2>1, <2>2 DEF WriteTracking, DepthInv, DepthFetchRepairs
  <2>3. CASE kind = "path"
    <3>1. /\ depth # 0 /\ fpc' = "copy"
          /\ pack' = Within({rows[r]}, depth) \ cliObj
      BY <1>6, <2>1, <2>3 DEF WriteTracking, FetchPhase, DepthLimited
    <3>2. Near(Named(rows) \ left) \subseteq cliObj
      BY <2>1, <2>3 DEF DepthInv
    <3>3. Near(Named(rows) \ left)' \subseteq cliObj' \cup pack'
      BY <2>1, <3>1, <3>2 DEF Near
    <3> QED
      BY <2>1, <3>1, <3>3 DEF DepthInv, DepthFetchRepairs
  <2> QED
    BY <2>2, <2>3
<1>7. ASSUME NEW r \in Ref, ApplyRefspec(r) PROVE DepthInv'
  BY <1>7 DEF ApplyRefspec, FetchEndAs, FetchPhase, DepthInv, DepthFetchRepairs
<1>8. CASE TrackingDone
  <2>1. /\ fpc = "refs" /\ left = {}
        /\ UNCHANGED <<rows, depth, shallow, cliObj, cliRef, kind, dir, pack, left>>
        /\ AdvertisedRoots(rows') = AdvertisedRoots(rows) /\ Named(rows') = Named(rows)
    BY <1>8 DEF TrackingDone, AdvertisedRoots, Named
  <2>2. CASE Cloning
    BY <1>8, <2>1, <2>2 DEF TrackingDone, FetchEndAs, DepthInv, DepthFetchRepairs
  <2>3. CASE ~Cloning /\ depth = 0
    BY <1>8, <2>1, <2>3 DEF TrackingDone, FetchEndAs, DepthInv, DepthFetchRepairs
  <2>4. CASE ~Cloning /\ depth # 0
    <3>1. fpc' = IF kind = "path" \/ pack = {} THEN "shallow" ELSE "pack"
      BY <1>8, <2>4 DEF TrackingDone
    <3>2. kind # "path" => pack = AdvertisedRoots(rows)
      BY <2>1, <2>4 DEF DepthInv
    <3>3. kind # "path" /\ pack = {} => Within(AdvertisedRoots(rows), depth) = {}
      BY <1>0, <2>4, <3>2, WithinNothing
    <3>4. kind = "path" => Within(AdvertisedRoots(rows), depth) \subseteq cliObj
      <4>1. kind = "path" => Near(Named(rows)) \subseteq cliObj
        BY <2>1 DEF DepthInv
      <4> QED
        BY <4>1, <2>4, NearAll
    <3> QED
      BY <2>1, <2>4, <3>1, <3>2, <3>3, <3>4 DEF DepthInv, DepthFetchRepairs
  <2> QED
    BY <2>2, <2>3, <2>4
<1>9. CASE PruneTracking
  BY <1>9 DEF PruneTracking, FetchPhase, DepthInv, DepthFetchRepairs
<1>10. CASE ApplyDone
  BY <1>10 DEF ApplyDone, FetchEndAs, FetchPhase, DepthInv, DepthFetchRepairs
<1>11. CASE WriteShallow
  <2>1. /\ fpc = "shallow" /\ depth # 0
        /\ UNCHANGED <<rows, depth, cliObj, cliRef, kind, dir, pack, left>>
        /\ shallow' = Boundaries(AdvertisedRoots(rows), depth)
        /\ AdvertisedRoots(rows') = AdvertisedRoots(rows) /\ Named(rows') = Named(rows)
    BY <1>11 DEF WriteShallow, AdvertisedRoots, Named, FetchPhase
  <2>2. Within(AdvertisedRoots(rows), depth) \subseteq cliObj
    BY <2>1 DEF DepthInv
  <2>3. CASE Cloning
    <3>1. fpc' = "refs" /\ kind # "path"
      BY <1>11, <2>1, <2>3 DEF WriteShallow, FetchPhase
    <3> QED
      BY <2>1, <2>2, <2>3, <3>1 DEF DepthInv, DepthFetchRepairs
  <2>4. CASE ~Cloning
    <3>1. fpc' = "idle"
      BY <1>11, <2>4 DEF WriteShallow, FetchEndAs
    <3>2. \A r \in Named(rows) : cliRef[r] = rows[r]
      BY <2>1, <2>4 DEF MirrorInv
    <3>3. \A r \in Named(rows) : CutHistory(cliRef[r], shallow') \subseteq cliObj
      BY <2>1, <2>2, <3>2, NoGap
    <3> QED
      BY <2>1, <3>1, <3>3 DEF DepthInv, DepthFetchRepairs
  <2> QED
    BY <2>3, <2>4
<1>12. CASE CloneRefs
  BY <1>12 DEF CloneRefs, FetchPhase, DepthInv, DepthFetchRepairs
<1>13. CASE CloneConfig \/ CloneBranch
  <2>1. /\ fpc \in {"config", "branch"} /\ fpc' \in {"branch", "idle"}
        /\ UNCHANGED <<rows, depth, cliObj, cliRef, kind, pack, left, shallow>>
        /\ AdvertisedRoots(rows') = AdvertisedRoots(rows) /\ Named(rows') = Named(rows)
    BY <1>13 DEF CloneConfig, CloneBranch, FetchEndAs, AdvertisedRoots, Named
  <2>2. depth # 0 => /\ Within(AdvertisedRoots(rows), depth) \subseteq cliObj
                     /\ shallow = Boundaries(AdvertisedRoots(rows), depth)
    BY <2>1 DEF DepthInv, FetchPhase
  <2>3. depth # 0 => \A r \in Named(rows) : cliRef[r] = rows[r]
    BY <2>1 DEF MirrorInv
  <2>4. depth # 0 => \A r \in Named(rows) : CutHistory(cliRef[r], shallow) \subseteq cliObj
    BY <2>2, <2>3, NoGap
  <2> QED
    BY <2>1, <2>2, <2>4 DEF DepthInv, DepthFetchRepairs
<1>14. CASE FetchFault
  BY <1>14 DEF FetchFault, FetchEndAs, DepthInv, DepthFetchRepairs
<1>16. CASE \E d \in Depths \cup {0}, p \in BOOLEAN : AwaitDaemon(d, p)
  BY <1>16 DEF AwaitDaemon, Launch, DepthInv, DepthFetchRepairs
<1>15. CASE UNCHANGED <<clone, fpc, request, left, pack, got>>
  BY <1>15 DEF DepthInv, DepthFetchRepairs, Near, Named, AdvertisedRoots
<1> QED
  BY <1>1, <1>2, <1>3, <1>4, <1>5, <1>6, <1>7, <1>8, <1>9, <1>10, <1>11, <1>12,
     <1>13, <1>14, <1>15, <1>16
     DEF FetchNext, FetchStep, PushStep, allVars, fetchVars

-----------------------------------------------------------------------------
(* The theorems *)

LEMMA FetchInitInv == FetchInit => FetchInv
<1> SUFFICES ASSUME FetchInit PROVE FetchInv
  OBVIOUS
<1>1. PushInv /\ TypeOK
  BY PushInit DEF FetchInit, PushInv, TypeInv
<1>2. PICK c \in InitClone : own = c.own /\ cliRef = c.tracking /\ dir = c.dir
  BY DEF FetchInit
<1>3. /\ own \subseteq Commit /\ cliRef \in [Ref -> Value] /\ dir \in {"absent", "ready"}
  BY <1>2, FetchAssumption
<1>4. cliObj = Closure(Tips) /\ cliObj \subseteq Commit
  BY ClosureType DEF FetchInit, Tips
<1>5. (CHOOSE x \in FetchKind : TRUE) \in FetchKind
  BY FetchAssumption
<1>6. FetchTypeOK
  BY <1>1, <1>3, <1>4, <1>5, RefType DEF FetchInit, FetchTypeOK, TypeOK
<1>7. FetchPhase
  BY <1>3 DEF FetchInit, FetchPhase, Cloning
<1>8. WholeInv
  BY <1>4, ClosureIdem DEF FetchInit, WholeInv, ObjectsWhole, RowsHere, Coming
<1>9. MirrorInv /\ DepthInv
  BY DEF FetchInit, MirrorInv, DepthInv, FetchMirrors, DepthFetchRepairs
<1> QED
  BY <1>1, <1>6, <1>7, <1>8, <1>9 DEF FetchInv

LEMMA FetchInvStep == FetchInv /\ [FetchNext]_allVars => FetchInv'
<1> SUFFICES ASSUME FetchInv, [FetchNext]_allVars PROVE FetchInv'
  OBVIOUS
<1>1. PushInv' /\ TypeOK' /\ RefsComplete
  BY PushKept DEF FetchInv, PushInv, TypeInv, ObjectInv
<1>2. FetchTypeOK' /\ FetchPhase' /\ WholeInv' /\ MirrorInv' /\ DepthInv'
  BY <1>1, FetchTypeStep, FetchPhaseStep, WholeStep, MirrorStep, DepthStep DEF FetchInv
<1> QED
  BY <1>1, <1>2 DEF FetchInv

LEMMA FetchInvariant == FetchSpec => []FetchInv
BY FetchInitInv, FetchInvStep, PTL DEF FetchSpec

\* Types of clone, fetch and push together.
THEOREM TransportTypeOK == FetchSpec => []FetchTypeOK
BY FetchInvariant, PTL DEF FetchInv

\* However fetches, clones and pushes interleave and stop, what the clone's
\* references name is complete, except after one of the events that tainted
\* stands for.
THEOREM CloneStaysComplete == FetchSpec => []CloneComplete
BY FetchInvariant, PTL DEF FetchInv, WholeInv, CloneComplete

\* A fetch with --depth that reports success has everything above the boundary
\* that it wrote, whatever the clone held before and whatever is pushed.
THEOREM DepthLeavesNoGap == FetchSpec => []DepthFetchRepairs
BY FetchInvariant, PTL DEF FetchInv, DepthInv

\* A fetch that reports success while nothing is pushed mirrors the remote.
THEOREM FetchMirrorsRemote == FetchSpec => []FetchMirrors
BY FetchInvariant, PTL DEF FetchInv, MirrorInv

\* What is proved of push holds beside a clone that fetches: complete
\* references and true reports always, and no unseen overwrite in any step.
THEOREM PushesBesideFetches ==
    FetchSpec => /\ [](RefsComplete /\ ReportIsTrue)
                 /\ NoUnseenOverwrite
<1> DEFINE Kept == \A c \in Client :
        (pc[c] = "write" /\ WriteRef(c)) =>
            LET cmd == This(c)
                old == srvRef[cmd.dst]
            IN  old = seen[c][k[c]] /\ old # None =>
                /\ cmd.id # None /\ ~Forced(mode[c], cmd) => IsAncestor(old, cmd.id)
                /\ mode[c] = "wire" => old = adv[c][cmd.dst]
<1>1. FetchInv => Kept
  BY WritesVetted DEF FetchInv
<1>2. FetchInv /\ [FetchNext]_allVars => [Kept]_vars
  BY <1>1
<1>3. FetchSpec => [][Kept]_vars
  BY <1>2, FetchInvariant, PTL DEF FetchSpec
<1>4. FetchSpec => [](RefsComplete /\ ReportIsTrue)
  BY FetchInvariant, ReportsHold, PTL DEF FetchInv, PushInv, ObjectInv
<1> QED
  BY <1>3, <1>4 DEF NoUnseenOverwrite
=============================================================================
