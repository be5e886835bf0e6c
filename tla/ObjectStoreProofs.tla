------------------------- MODULE ObjectStoreProofs -------------------------
(***************************************************************************)
(* Type correctness of ObjectStore; that incremental maintenance (repack   *)
(* without -a and prune-packed) neither loses an object nor makes a read   *)
(* miss one, whatever runs and dies at the same time; and what the         *)
(* commands that rewrite packs or prune preserve when they run alone.      *)
(***************************************************************************)
EXTENDS ObjectStore, TLAPS

LEMMA ReachableType == ASSUME NEW S PROVE Reachable(S) \subseteq Obj
  BY DEF Reachable

LEMMA PackIsName ==
  ASSUME NEW S \in SUBSET Obj, S # {}, NEW e \in Enc
  PROVE  [objs |-> S, enc |-> e] \in PackName
  BY DEF PackName

LEMMA ObjsOfType == ASSUME NEW S \in SUBSET PackName PROVE ObjsOf(S) \subseteq Obj
  BY DEF ObjsOf, PackName

\* A command that ends leaves well-typed locals behind.
LEMMA QuitType == ASSUME MaintOK, NEW m \in Maint, Quit(m) PROVE MaintOK'
  BY DEF MaintOK, Quit, Commands

LEMMA ReturnType == ASSUME MaintOK, NEW m \in Maint, Return(m) PROVE MaintOK'
  BY QuitType DEF MaintOK, Return, Goto, locals

\* The type invariant of the object database and of its processes.
THEOREM ObjectStoreTypeOK == Spec => []TypeOK
<1>1. Init => TypeOK
  <2> SUFFICES ASSUME Init PROVE TypeOK
    OBVIOUS
  <2>1. FilesOK
    BY DEF Init, FilesOK
  <2>2. WritersOK /\ ReadersOK
    BY DEF Init, WritersOK, ReadersOK
  <2>3. MaintOK
    BY DEF Init, MaintOK, Commands
  <2> QED
    BY <2>1, <2>2, <2>3, ObjectStoreAssumption
       DEF Init, TypeOK, ObjectStoreAssumption
<1>2. TypeOK /\ [Next]_vars => TypeOK'
  <2> SUFFICES ASSUME TypeOK, [Next]_vars PROVE TypeOK'
    OBVIOUS
  <2> USE DEF TypeOK, FilesOK, WritersOK, ReadersOK, files, writers, readers,
             locals, counters, others
  <2>1. ASSUME NEW w \in Writer, NEW o \in Obj, WriteObject(w, o) PROVE TypeOK'
    BY <2>1 DEF WriteObject, MaintOK
  <2>2. ASSUME NEW o \in Obj, DropRoot(o) PROVE TypeOK'
    BY <2>2 DEF DropRoot, MaintOK
  <2>3. ASSUME NEW r \in Reader, NEW o \in Obj, StartRead(r, o) PROVE TypeOK'
    BY <2>3 DEF StartRead, MaintOK
  <2>4. ASSUME NEW w \in Writer, Install(w) PROVE TypeOK'
    BY <2>4 DEF Install, MaintOK
  <2>5. ASSUME NEW w \in Writer, Publish(w) PROVE TypeOK'
    BY <2>5 DEF Publish, MaintOK
  <2>6. ASSUME NEW w \in Writer, CrashWriter(w) PROVE TypeOK'
    BY <2>6, ObjectStoreAssumption DEF ObjectStoreAssumption, CrashWriter, MaintOK
  <2>7. ASSUME NEW r \in Reader, ReadLoose(r) PROVE TypeOK'
    BY <2>7 DEF ReadLoose, Found, ReadOn, MaintOK
  <2>8. ASSUME NEW r \in Reader, ReadIdx(r) PROVE TypeOK'
    BY <2>8 DEF ReadIdx, Found, ReadOn, MaintOK
  <2>9. ASSUME NEW r \in Reader, ReadPack(r) PROVE TypeOK'
    BY <2>9 DEF ReadPack, Found, ReadOn, MaintOK
  <2>10. ASSUME NEW m \in Maint, NEW c \in Command, Start(m, c) PROVE TypeOK'
    BY <2>10, ObjectStoreAssumption
       DEF Start, Goto, MaintOK, ObjectStoreAssumption
  <2>11. ASSUME NEW m \in Maint, RepackCollect(m) PROVE TypeOK'
    <3>1. CASE Quit(m)
      BY <2>11, <3>1, QuitType DEF RepackCollect
    <3>2. CASE ~Quit(m)
      <4>1. /\ Reachable(roots) \subseteq Obj
            /\ ObjsOf(idxs) \subseteq Obj
            /\ loose \ ObjsOf(kept[m]) \subseteq Obj
        BY ReachableType, ObjsOfType
      <4>2. CASE CmdAll(m)
        <5>1. PICK pc \in {"loosen", "select"} : mpc' = [mpc EXCEPT ![m] = pc]
          BY <2>11, <3>2, <4>2 DEF RepackCollect, Goto
        <5>2. /\ reach' = [reach EXCEPT ![m] = Reachable(roots)]
              /\ scan' = [scan EXCEPT ![m] = ObjsOf(idxs)]
              /\ UNCHANGED <<cmd, oldp, kept, newp, victim, files, others>>
          BY <2>11, <3>2, <4>2 DEF RepackCollect
        <5> QED
          BY <4>1, <5>1, <5>2 DEF MaintOK
      <4>3. CASE ~CmdAll(m)
        BY <2>11, <3>2, <4>1, <4>3, ZenonT(40) DEF RepackCollect, Goto, MaintOK
      <4> QED
        BY <4>2, <4>3
    <3> QED
      BY <3>1, <3>2
  <2>12. ASSUME NEW m \in Maint, Loosen(m) PROVE TypeOK'
    <3>0. scan[m] \subseteq Obj
      BY DEF MaintOK
    <3>1. CASE Quit(m)
      BY <2>12, <3>0, <3>1, QuitType DEF Loosen
    <3>2. CASE ~Quit(m)
      <4>1. PICK o \in scan[m] :
              /\ loose' = IF o \in reach[m] THEN loose ELSE loose \cup {o}
              /\ scan' = [scan EXCEPT ![m] = @ \ {o}]
              /\ UNCHANGED <<mpc, cmd, oldp, kept, reach, newp, victim>>
        BY <2>12, <3>2 DEF Loosen
      <4>2. o \in Obj
        BY <3>0, <4>1
      <4> QED
        BY <2>12, <4>1, <4>2 DEF Loosen, MaintOK
    <3> QED
      BY <3>1, <3>2
  <2>13. ASSUME NEW m \in Maint, LoosenDone(m) PROVE TypeOK'
    BY <2>13 DEF LoosenDone, Goto, MaintOK
  <2>14. ASSUME NEW m \in Maint, RepackSelect(m) PROVE TypeOK'
    BY <2>14, ReachableType DEF RepackSelect, Goto, MaintOK
  <2>15. ASSUME NEW m \in Maint, RepackWrite(m) PROVE TypeOK'
    <3>1. CASE Quit(m)
      BY <2>15, <3>1, QuitType DEF RepackWrite
    <3>2. CASE Return(m)
      BY <2>15, <3>2, ReturnType DEF RepackWrite
    <3>3. CASE ~Quit(m) /\ ~Return(m)
      <4>1. PICK e \in Enc :
              newp' = [newp EXCEPT ![m] = [objs |-> scan[m], enc |-> e]]
        BY <2>15, <3>3 DEF RepackWrite
      <4>2. [objs |-> scan[m], enc |-> e] \in PackName
        <5>1. scan[m] # {}
          BY <2>15, <3>3 DEF RepackWrite
        <5>2. scan[m] \subseteq Obj
          BY DEF MaintOK
        <5> QED
          BY <4>1, <5>1, <5>2, PackIsName
      <4>3. /\ mpc' = [mpc EXCEPT ![m] = "install"]
            /\ UNCHANGED <<cmd, oldp, kept, reach, scan, victim, files, others>>
        BY <2>15, <3>3 DEF RepackWrite, Goto
      <4> QED
        BY <4>1, <4>2, <4>3 DEF MaintOK
    <3> QED
      BY <3>1, <3>2, <3>3
  <2>16. ASSUME NEW m \in Maint, RepackInstall(m) PROVE TypeOK'
    BY <2>16 DEF RepackInstall, Goto, MaintOK
  <2>17. ASSUME NEW m \in Maint, RepackIdx(m) PROVE TypeOK'
    <3>1. idxs' \subseteq PackName
      BY <2>17 DEF RepackIdx, MaintOK
    <3>2. MaintOK'
      <4>1. CASE Quit(m)
        BY <4>1, QuitType
      <4>2. CASE ~Quit(m)
        BY <2>17, <4>2 DEF RepackIdx, Goto, MaintOK
      <4> QED
        BY <4>1, <4>2
    <3> QED
      BY <2>17, <3>1, <3>2 DEF RepackIdx
  <2>18. ASSUME NEW m \in Maint, RemovePack(m) PROVE TypeOK'
    BY <2>18 DEF RemovePack, Replaced, Goto, MaintOK
  <2>19. ASSUME NEW m \in Maint, RemoveIdx(m) PROVE TypeOK'
    BY <2>19 DEF RemoveIdx, Goto, MaintOK
  <2>20. ASSUME NEW m \in Maint, RemoveDone(m) PROVE TypeOK'
    BY <2>20 DEF RemoveDone, Goto, MaintOK
  <2>21. ASSUME NEW m \in Maint, ListPacked(m) PROVE TypeOK'
    BY <2>21, ObjsOfType DEF ListPacked, Goto, MaintOK
  <2>22. ASSUME NEW m \in Maint, UnlinkDuplicate(m) PROVE TypeOK'
    BY <2>22 DEF UnlinkDuplicate, MaintOK
  <2>23. ASSUME NEW m \in Maint, UnlinkDone(m) PROVE TypeOK'
    BY <2>23, ReturnType DEF UnlinkDone
  <2>24. ASSUME NEW m \in Maint, Expire(m) PROVE TypeOK'
    <3>1. CASE Quit(m)
      BY <2>24, <3>1, QuitType DEF Expire
    <3>2. CASE ~Quit(m)
      BY <2>24, <3>2, ReachableType DEF Expire, Goto, MaintOK
    <3> QED
      BY <3>1, <3>2
  <2>25. ASSUME NEW m \in Maint, Prune(m) PROVE TypeOK'
    BY <2>25 DEF Prune, MaintOK
  <2>26. ASSUME NEW m \in Maint, PruneDone(m) PROVE TypeOK'
    BY <2>26, QuitType DEF PruneDone
  <2>27. ASSUME NEW m \in Maint, CrashMaint(m) PROVE TypeOK'
    BY <2>27, QuitType, ObjectStoreAssumption
       DEF CrashMaint, ObjectStoreAssumption
  <2>28. CASE UNCHANGED vars
    BY <2>28 DEF vars, MaintOK
  <2> QED
    BY <2>1, <2>2, <2>3, <2>4, <2>5, <2>6, <2>7, <2>8, <2>9, <2>10,
       <2>11, <2>12, <2>13, <2>14, <2>15, <2>16, <2>17, <2>18, <2>19, <2>20,
       <2>21, <2>22, <2>23, <2>24, <2>25, <2>26, <2>27, <2>28
       DEF Next, WriterNext, ReaderNext, MaintNext, MaintStep
<1> QED
  BY <1>1, <1>2, PTL DEF Spec

-----------------------------------------------------------------------------
(* Reachability *)

LEMMA ReachableContains ==
  ASSUME NEW S \in SUBSET Obj PROVE S \subseteq Reachable(S)
  BY DEF Reachable

LEMMA ReachableClosed ==
  ASSUME NEW S, NEW x \in Reachable(S) PROVE Links[x] \subseteq Reachable(S)
  <1>1. x \in Obj /\ Links[x] \subseteq Obj
    BY ReachableType, ObjectStoreAssumption DEF ObjectStoreAssumption
  <1> QED
    BY <1>1 DEF Reachable

\* Whatever contains S and is closed contains all that is reachable from S.
LEMMA ReachableLeast ==
  ASSUME NEW S, NEW T \in SUBSET Obj, S \subseteq T,
         \A x \in T : Links[x] \subseteq T
  PROVE  Reachable(S) \subseteq T
  BY DEF Reachable

\* Naming one more object adds that object and what it leads to.
LEMMA ReachablePublish ==
  ASSUME NEW S \in SUBSET Obj, NEW o \in Obj
  PROVE  Reachable(S \cup {o})
           \subseteq Reachable(S) \cup {o} \cup Reachable(Links[o])
  <1> DEFINE T == Reachable(S) \cup {o} \cup Reachable(Links[o])
  <1>0. Links[o] \in SUBSET Obj
    BY ObjectStoreAssumption DEF ObjectStoreAssumption
  <1>1. T \in SUBSET Obj
    BY ReachableType
  <1>2. S \cup {o} \subseteq T
    BY ReachableContains
  <1>3. ASSUME NEW x \in T PROVE Links[x] \subseteq T
    <2>1. CASE x = o
      BY <2>1, <1>0, ReachableContains
    <2>2. CASE x \in Reachable(S)
      BY <2>2, ReachableClosed
    <2>3. CASE x \in Reachable(Links[o])
      BY <2>3, ReachableClosed
    <2> QED
      BY <2>1, <2>2, <2>3
  <1> HIDE DEF T
  <1>4. Reachable(S \cup {o}) \subseteq T
    BY <1>1, <1>2, <1>3, ReachableLeast
  <1> QED
    BY <1>4 DEF T

LEMMA ReachableWithin ==
  ASSUME NEW S \in SUBSET Obj, NEW R \in SUBSET Obj, R \subseteq Reachable(S)
  PROVE  Reachable(R) \subseteq Reachable(S)
  <1>1. Reachable(S) \in SUBSET Obj
    BY ReachableType
  <1>2. \A x \in Reachable(S) : Links[x] \subseteq Reachable(S)
    BY ReachableClosed
  <1> QED
    BY <1>1, <1>2, ReachableLeast

-----------------------------------------------------------------------------
(* Incremental maintenance *)

IncrementalCommand == {"prune-packed", "repack", "repack -d"}

\* Every index has its pack; repack removes a loose file only once an index
\* lists the object; a reader that is past the loose path will find an index,
\* and one that has an index will find the pack; what a writer is about to
\* publish is stored, with all that it leads to.
MaintInv ==
    \A m \in Maint :
        /\ mpc[m] \in {"idle", "collect", "write", "install", "idx",
                        "duplicates", "unlink"}
        /\ mpc[m] # "idle" => cmd[m] \in IncrementalCommand
        /\ mpc[m] = "idx" => newp[m] \in packs
        /\ mpc[m] = "unlink" => scan[m] \subseteq ObjsOf(idxs)

ReadInv ==
    \A r \in Reader :
        /\ rpc[r] # "missing"
        /\ rpc[r] = "loose" => Stored(want[r])
        /\ rpc[r] = "idx" => want[r] \in ObjsOf(idxs)
        /\ rpc[r] = "pack" => hit[r] \in packs

WriteInv ==
    \A w \in Writer :
        /\ wpc[w] # "idle" => \A o \in Reachable(Links[goal[w]]) : Stored(o)
        /\ wpc[w] = "publish" => Stored(goal[w])

IncInv ==
    /\ TypeOK
    /\ idxs \subseteq packs
    /\ MaintInv /\ ReadInv /\ WriteInv /\ ReachableStored

\* Nothing that a lookup could find goes away.
Grows ==
    /\ packs \subseteq packs' /\ idxs \subseteq idxs'
    /\ \A o \in Obj : Stored(o) => Stored(o)'

\* One step of incremental maintenance, of a writer or of a reader.
LEMMA IncGrows ==
  ASSUME IncInv, [Next]_vars PROVE Grows
<1> USE DEF Grows
<1>1. CASE UNCHANGED files
  BY <1>1 DEF files, Stored, ObjsOf
<1>2. ASSUME NEW w \in Writer, Install(w) PROVE Grows
  BY <1>2 DEF Install, Stored
<1>3. ASSUME NEW m \in Maint, RepackInstall(m) PROVE Grows
  BY <1>3 DEF RepackInstall, Stored, ObjsOf
<1>4. ASSUME NEW m \in Maint, RepackIdx(m) PROVE Grows
  BY <1>4 DEF RepackIdx, Stored, ObjsOf
<1>5. ASSUME NEW m \in Maint, UnlinkDuplicate(m) PROVE Grows
  <2>1. packs' = packs /\ idxs' = idxs
    BY <1>5 DEF UnlinkDuplicate
  <2>2. scan[m] \subseteq ObjsOf(packs \cap idxs)
    BY <1>5 DEF UnlinkDuplicate, IncInv, MaintInv, ObjsOf
  <2> QED
    BY <1>5, <2>1, <2>2 DEF UnlinkDuplicate, Stored, ObjsOf
<1>6. ASSUME NEW m \in Maint,
             Loosen(m) \/ RemovePack(m) \/ RemoveIdx(m) \/ Prune(m)
      PROVE  FALSE
  BY <1>6 DEF Loosen, RemovePack, RemoveIdx, Prune, IncInv, MaintInv
<1> QED
  <2>1. CASE UNCHANGED vars
    BY <2>1, <1>1 DEF vars, files
  <2>2. CASE Next
    <3>1. ASSUME NEW w \in Writer, WriterNext(w) PROVE Grows
      BY <3>1, <1>1, <1>2 DEF WriterNext, WriteObject, Publish, CrashWriter, files
    <3>2. ASSUME NEW r \in Reader, ReaderNext(r) PROVE Grows
      BY <3>2, <1>1 DEF ReaderNext, StartRead, ReadLoose, ReadIdx, ReadPack
    <3>3. ASSUME NEW o \in Obj, DropRoot(o) PROVE Grows
      BY <3>3, <1>1 DEF DropRoot
    <3>4. ASSUME NEW m \in Maint, MaintNext(m) PROVE Grows
      <4>1. CASE UNCHANGED files
        BY <4>1, <1>1
      <4>2. CASE ~UNCHANGED files
        BY <3>4, <4>2, <1>3, <1>4, <1>5, <1>6
           DEF MaintNext, MaintStep, Start, CrashMaint, RepackCollect,
               LoosenDone, RepackSelect, RepackWrite, RemoveDone, ListPacked,
               UnlinkDone, Expire, PruneDone
      <4> QED
        BY <4>1, <4>2
    <3> QED
      BY <2>2, <3>1, <3>2, <3>3, <3>4 DEF Next
  <2> QED
    BY <2>1, <2>2

LEMMA ObjsOfGrows ==
  ASSUME NEW S, NEW T, S \subseteq T PROVE ObjsOf(S) \subseteq ObjsOf(T)
  BY DEF ObjsOf

\* An index is only written for a pack that is in place, and neither goes.
LEMMA IncIdxs ==
  ASSUME IncInv, [Next]_vars, Grows PROVE (idxs \subseteq packs)'
<1>1. CASE idxs' = idxs
  BY <1>1 DEF IncInv, Grows
<1>2. ASSUME NEW m \in Maint, RepackIdx(m) PROVE (idxs \subseteq packs)'
  BY <1>2 DEF RepackIdx, IncInv, MaintInv
<1>3. ASSUME NEW m \in Maint, RemoveIdx(m) PROVE FALSE
  BY <1>3 DEF RemoveIdx, IncInv, MaintInv
<1>4. CASE idxs' # idxs
  <2>1. PICK m \in Maint : MaintNext(m)
    BY <1>4 DEF Next, vars, WriterNext, ReaderNext, WriteObject, Install,
       Publish, CrashWriter, StartRead, ReadLoose, ReadIdx, ReadPack, DropRoot,
       files
  <2> QED
    BY <1>2, <1>3, <1>4, <2>1
       DEF MaintNext, MaintStep, Start, CrashMaint, RepackCollect, Loosen,
           LoosenDone, RepackSelect, RepackWrite, RepackInstall, RemovePack,
           RemoveDone, ListPacked, UnlinkDuplicate, UnlinkDone, Expire, Prune,
           PruneDone, files
<1> QED
  BY <1>1, <1>4

\* The local facts about a maintenance process survive its own steps and, as
\* packs and indexes only grow, everybody else's.
LEMMA IncMaint ==
  ASSUME Command \subseteq IncrementalCommand, IncInv, [Next]_vars, Grows
  PROVE  MaintInv'
<1> DEFINE MI(m) ==
      /\ mpc[m] \in {"idle", "collect", "write", "install", "idx",
                      "duplicates", "unlink"}
      /\ mpc[m] # "idle" => cmd[m] \in IncrementalCommand
      /\ mpc[m] = "idx" => newp[m] \in packs
      /\ mpc[m] = "unlink" => scan[m] \subseteq ObjsOf(idxs)
<1>0. MaintOK /\ \A m \in Maint : MI(m)
  BY DEF IncInv, MaintInv, TypeOK
<1>1. ObjsOf(idxs) \subseteq ObjsOf(idxs') /\ packs \subseteq packs'
  BY ObjsOfGrows DEF Grows
<1>2. ASSUME NEW m \in Maint, UNCHANGED <<mpc[m], cmd[m], newp[m], scan[m]>>
      PROVE  MI(m)'
  BY <1>0, <1>1, <1>2 DEF ObjsOf
<1>3. ASSUME NEW m \in Maint, Quit(m), NEW n \in Maint PROVE MI(n)'
  <2>1. CASE n = m
    BY <2>1, <1>3, <1>0 DEF Quit, MaintOK
  <2>2. CASE n # m
    BY <2>2, <1>2, <1>3, <1>0 DEF Quit, MaintOK
  <2> QED
    BY <2>1, <2>2
<1>4. ASSUME NEW m \in Maint, MaintNext(m), NEW n \in Maint PROVE MI(n)'
  <2>1. CASE Quit(m)
    BY <2>1, <1>3
  <2>2. CASE n # m /\ ~Quit(m)
    <3>1. UNCHANGED <<mpc[n], cmd[n], newp[n], scan[n]>>
      BY <1>4, <2>2, <1>0, ZenonT(40)
         DEF MaintNext, MaintStep, Start, CrashMaint, RepackCollect, Loosen,
             LoosenDone, RepackSelect, RepackWrite, RepackInstall, RepackIdx,
             RemovePack, RemoveIdx, RemoveDone, ListPacked, UnlinkDuplicate,
             UnlinkDone, Expire, Prune, PruneDone, Return, Goto, locals, MaintOK
    <3> QED
      BY <3>1, <1>2
  <2>3. CASE n = m /\ ~Quit(m)
    <3> USE <2>3, <1>0, <1>1 DEF MaintOK, Goto, locals
    <3>1. ASSUME NEW c \in Command, Start(m, c) PROVE MI(m)'
      BY <3>1 DEF Start, IncrementalCommand
    <3>2. CASE RepackCollect(m)
      BY <3>2 DEF RepackCollect, CmdAll, IncrementalCommand
    <3>3. CASE RepackWrite(m)
      BY <3>3 DEF RepackWrite, Return, IncrementalCommand
    <3>4. CASE RepackInstall(m)
      BY <3>4 DEF RepackInstall
    <3>5. CASE RepackIdx(m)
      BY <3>5 DEF RepackIdx, CmdAll, IncrementalCommand
    <3>6. CASE ListPacked(m)
      BY <3>6 DEF ListPacked, files
    <3>7. CASE UnlinkDuplicate(m)
      BY <3>7 DEF UnlinkDuplicate
    <3>8. CASE UnlinkDone(m)
      BY <3>8 DEF UnlinkDone, Return, IncrementalCommand
    <3> QED
      BY <1>4, <3>1, <3>2, <3>3, <3>4, <3>5, <3>6, <3>7, <3>8
         DEF MaintNext, MaintStep, CrashMaint, Loosen, LoosenDone, RepackSelect,
             RemovePack, RemoveIdx, RemoveDone, Expire, Prune, PruneDone
  <2> QED
    BY <2>1, <2>2, <2>3
<1>5. CASE UNCHANGED <<mpc, locals>>
  BY <1>2, <1>5 DEF locals, MaintInv
<1> QED
  <2>1. CASE UNCHANGED vars
    BY <2>1, <1>5 DEF vars, locals
  <2>2. ASSUME NEW w \in Writer, WriterNext(w) PROVE MaintInv'
    BY <2>2, <1>5 DEF WriterNext, WriteObject, Install, Publish, CrashWriter
  <2>3. ASSUME NEW r \in Reader, ReaderNext(r) PROVE MaintInv'
    BY <2>3, <1>5 DEF ReaderNext, StartRead, ReadLoose, ReadIdx, ReadPack
  <2>4. ASSUME NEW o \in Obj, DropRoot(o) PROVE MaintInv'
    BY <2>4, <1>5 DEF DropRoot
  <2>5. ASSUME NEW m \in Maint, MaintNext(m) PROVE MaintInv'
    BY <2>5, <1>4 DEF MaintInv
  <2> QED
    BY <2>1, <2>2, <2>3, <2>4, <2>5 DEF Next

\* A reader that missed the loose file finds an index, because the object was
\* stored all along.
LEMMA IncRead ==
  ASSUME IncInv, [Next]_vars, Grows PROVE ReadInv'
<1> DEFINE RI(r) ==
      /\ rpc[r] # "missing"
      /\ rpc[r] = "loose" => Stored(want[r])
      /\ rpc[r] = "idx" => want[r] \in ObjsOf(idxs)
      /\ rpc[r] = "pack" => hit[r] \in packs
      /\ rpc[r] = "loose" => want[r] \in Obj
<1>0. /\ ReadersOK /\ idxs \subseteq packs /\ None \notin Obj
      /\ packs \subseteq PackName
      /\ \A r \in Reader : RI(r)
  BY NoneAssumption
     DEF IncInv, ReadInv, TypeOK, FilesOK, Stored, ObjsOf, PackName
<1>1. ObjsOf(idxs) \subseteq ObjsOf(idxs') /\ packs \subseteq packs'
  BY ObjsOfGrows DEF Grows
<1>2. ASSUME NEW r \in Reader, UNCHANGED <<rpc[r], want[r], hit[r]>>
      PROVE  RI(r)'
  <2>1. rpc[r] = "loose" => Stored(want[r])'
    BY <1>0, <1>2 DEF Grows, Stored
  <2> QED
    BY <1>0, <1>1, <1>2, <2>1
<1>3. ASSUME NEW r \in Reader, ReaderNext(r), NEW q \in Reader PROVE RI(q)'
  <2>1. CASE q # r
    BY <1>2, <1>3, <1>0, <2>1
       DEF ReaderNext, StartRead, ReadLoose, ReadIdx, ReadPack, Found, ReadOn,
           ReadersOK
  <2>2. CASE q = r
    <3> USE <1>0, <2>2 DEF ReadersOK, Found, ReadOn
    <3>1. ASSUME NEW o \in Obj, StartRead(r, o) PROVE RI(r)'
      BY <3>1 DEF StartRead, Stored, Grows
    <3>2. CASE ReadLoose(r)
      <4>1. want[r] \notin loose => want[r] \in ObjsOf(idxs)
        BY <3>2 DEF ReadLoose, Stored, ObjsOf
      <4> QED
        BY <3>2, <4>1 DEF ReadLoose, files
    <3>3. CASE ReadIdx(r)
      BY <3>3 DEF ReadIdx, files
    <3>4. CASE ReadPack(r)
      BY <3>4 DEF ReadPack, files
    <3> QED
      BY <1>3, <3>1, <3>2, <3>3, <3>4 DEF ReaderNext
  <2> QED
    BY <2>1, <2>2
<1>4. CASE UNCHANGED readers
  BY <1>2, <1>4 DEF readers, ReadInv
<1> QED
  <2>1. CASE UNCHANGED vars
    BY <2>1, <1>4 DEF vars, readers
  <2>2. ASSUME NEW w \in Writer, WriterNext(w) PROVE ReadInv'
    BY <2>2, <1>4 DEF WriterNext, WriteObject, Install, Publish, CrashWriter
  <2>3. ASSUME NEW r \in Reader, ReaderNext(r) PROVE ReadInv'
    BY <2>3, <1>3 DEF ReadInv
  <2>4. ASSUME NEW o \in Obj, DropRoot(o) PROVE ReadInv'
    BY <2>4, <1>4 DEF DropRoot
  <2>5. ASSUME NEW m \in Maint, MaintNext(m) PROVE ReadInv'
    BY <2>5, <1>4
       DEF MaintNext, MaintStep, Start, CrashMaint, RepackCollect, Loosen,
           LoosenDone, RepackSelect, RepackWrite, RepackInstall, RepackIdx,
           RemovePack, RemoveIdx, RemoveDone, ListPacked, UnlinkDuplicate,
           UnlinkDone, Expire, Prune, PruneDone, others
  <2> QED
    BY <2>1, <2>2, <2>3, <2>4, <2>5 DEF Next

\* Maintenance and readers leave writers and roots alone.
LEMMA IncOthers ==
  ASSUME NEW m \in Maint, MaintNext(m) PROVE UNCHANGED <<roots, writers>>
  BY DEF MaintNext, MaintStep, Start, CrashMaint, RepackCollect, Loosen,
         LoosenDone, RepackSelect, RepackWrite, RepackInstall, RepackIdx,
         RemovePack, RemoveIdx, RemoveDone, ListPacked, UnlinkDuplicate,
         UnlinkDone, Expire, Prune, PruneDone, others

LEMMA ReaderOthers ==
  ASSUME NEW r \in Reader, ReaderNext(r) PROVE UNCHANGED <<roots, writers>>
  BY DEF ReaderNext, StartRead, ReadLoose, ReadIdx, ReadPack

\* What a writer is about to publish is stored, and what it leads to.
LEMMA IncWrite ==
  ASSUME IncInv, [Next]_vars, Grows PROVE WriteInv' /\ ReachableStored'
<1> DEFINE WI(w) ==
      /\ wpc[w] # "idle" => \A o \in Reachable(Links[goal[w]]) : Stored(o)
      /\ wpc[w] = "publish" => Stored(goal[w])
<1>0. /\ WritersOK /\ ReachableStored /\ roots \in SUBSET Obj
      /\ Links \in [Obj -> SUBSET Obj]
      /\ \A w \in Writer : WI(w)
  BY ObjectStoreAssumption
     DEF IncInv, WriteInv, TypeOK, FilesOK, ObjectStoreAssumption
<1>1. \A S : \A o \in Reachable(S) : Stored(o) => Stored(o)'
  BY ReachableType DEF Grows
<1>2. ASSUME NEW w \in Writer, UNCHANGED <<wpc[w], goal[w]>> PROVE WI(w)'
  BY <1>0, <1>1, <1>2 DEF Grows, WritersOK, Reachable
<1>3. ASSUME UNCHANGED roots PROVE ReachableStored'
  BY <1>0, <1>1, <1>3 DEF ReachableStored, Reachable
<1>4. CASE UNCHANGED <<roots, writers>>
  BY <1>2, <1>3, <1>4 DEF writers, WriteInv
<1>5. ASSUME NEW o \in Obj, DropRoot(o) PROVE WriteInv' /\ ReachableStored'
  <2>1. Reachable(roots \ {o}) \subseteq Reachable(roots)
    BY <1>0, ReachableWithin, ReachableContains
  <2>2. ReachableStored'
    BY <1>0, <1>1, <1>5, <2>1 DEF DropRoot, ReachableStored, Reachable
  <2> QED
    BY <1>2, <1>5, <2>2 DEF DropRoot, writers, WriteInv
<1>6. ASSUME NEW w \in Writer, NEW o \in Obj, WriteObject(w, o)
      PROVE  WriteInv' /\ ReachableStored'
  <2>1. Reachable(Links[o]) \subseteq Reachable(roots)
    BY <1>0, <1>6, ReachableWithin DEF WriteObject
  <2>2. \A x \in Reachable(Links[o]) : Stored(x)'
    BY <1>0, <1>1, <2>1 DEF ReachableStored
  <2>3. o \in loose => Stored(o)'
    BY <1>6 DEF WriteObject, files, Stored
  <2>4. WI(w)'
    BY <1>0, <1>6, <2>2, <2>3 DEF WriteObject, WritersOK, Reachable
  <2>5. \A v \in Writer \ {w} : WI(v)'
    BY <1>0, <1>2, <1>6 DEF WriteObject, WritersOK
  <2> QED
    BY <1>3, <1>6, <2>4, <2>5 DEF WriteObject, WriteInv
<1>7. ASSUME NEW w \in Writer, Install(w) PROVE WriteInv' /\ ReachableStored'
  <2>1. Stored(goal[w])'
    BY <1>7 DEF Install, Stored
  <2>2. WI(w)'
    BY <1>0, <1>1, <1>7, <2>1 DEF Install, WritersOK, Stored, Reachable
  <2>3. \A v \in Writer \ {w} : WI(v)'
    BY <1>0, <1>2, <1>7 DEF Install, WritersOK
  <2> QED
    BY <1>3, <1>7, <2>2, <2>3 DEF Install, WriteInv
<1>8. ASSUME NEW w \in Writer, Publish(w) PROVE WriteInv' /\ ReachableStored'
  <2>1. goal[w] \in Obj /\ Stored(goal[w])
    BY <1>0, <1>8 DEF Publish, WritersOK
  <2>2. Reachable(roots \cup {goal[w]})
          \subseteq Reachable(roots) \cup {goal[w]} \cup Reachable(Links[goal[w]])
    BY <1>0, <2>1, ReachablePublish
  <2>3. \A x \in Reachable(roots \cup {goal[w]}) : Stored(x)
    BY <1>0, <1>8, <2>1, <2>2 DEF Publish, ReachableStored
  <2>4. ReachableStored'
    BY <1>1, <1>8, <2>3 DEF Publish, ReachableStored, Reachable
  <2>5. \A v \in Writer : WI(v)'
    BY <1>0, <1>2, <1>8 DEF Publish, WritersOK
  <2> QED
    BY <2>4, <2>5 DEF WriteInv
<1>9. ASSUME NEW w \in Writer, CrashWriter(w)
      PROVE  WriteInv' /\ ReachableStored'
  <2>1. \A v \in Writer : WI(v)'
    BY <1>0, <1>2, <1>9 DEF CrashWriter, WritersOK
  <2> QED
    BY <1>3, <1>9, <2>1 DEF CrashWriter, WriteInv
<1>10. CASE UNCHANGED vars
  BY <1>4, <1>10 DEF vars, writers
<1> QED
  BY <1>4, <1>5, <1>6, <1>7, <1>8, <1>9, <1>10, IncOthers, ReaderOthers
     DEF Next, WriterNext

LEMMA IncInit == Init => MaintInv /\ ReadInv /\ WriteInv /\ ReachableStored
  BY DEF Init, MaintInv, ReadInv, WriteInv, ReachableStored

\* Incremental maintenance beside writers and readers: the invariant.
LEMMA Incremental ==
  ASSUME Command \subseteq IncrementalCommand PROVE Spec => []IncInv
<1>1. Init /\ TypeOK => IncInv
  BY IncInit DEF IncInv, Init
<1>2. IncInv /\ TypeOK' /\ [Next]_vars => IncInv'
  <2> SUFFICES ASSUME IncInv, TypeOK', [Next]_vars PROVE IncInv'
    OBVIOUS
  <2>1. Grows
    BY IncGrows
  <2> QED
    BY <2>1, IncIdxs, IncMaint, IncRead, IncWrite DEF IncInv
<1> QED
  BY <1>1, <1>2, ObjectStoreTypeOK, PTL DEF Spec

\* However repack without -a, prune-packed, writers, readers and kills
\* interleave, no stored object is lost (maintenance_impl.rs repack, loose.rs
\* prune_packed).
THEOREM IncrementalNeverLoses ==
  ASSUME Command \subseteq IncrementalCommand PROVE Spec => StoredNeverVanishes
<1>1. IncInv /\ [Next]_vars => [\A o \in Obj : Stored(o) => Stored(o)']_vars
  BY IncGrows DEF Grows
<1> QED
  BY <1>1, Incremental, PTL DEF Spec, StoredNeverVanishes

\* Under the same conditions everything that a root leads to stays on disk.
THEOREM IncrementalKeepsReachable ==
  ASSUME Command \subseteq IncrementalCommand PROVE Spec => []ReachableStored
<1>1. IncInv => ReachableStored
  BY DEF IncInv
<1> QED
  BY <1>1, Incremental, PTL

\* Under the same conditions read_object never misses a stored object.
THEOREM IncrementalReads ==
  ASSUME Command \subseteq IncrementalCommand PROVE Spec => []ReadsFindStored
<1>1. IncInv => ReadsFindStored
  BY DEF IncInv, ReadInv, ReadsFindStored
<1> QED
  BY <1>1, Incremental, PTL

-----------------------------------------------------------------------------
(* Maintenance that runs alone: every command, killed or not *)

\* Commands only run while no writer is at work, and one at a time.
Alone ==
    /\ \A m, n \in Maint : mpc[m] # "idle" /\ mpc[n] # "idle" => m = n
    /\ MaintIdle \/ WritersIdle

\* What a writer is about to publish is in place and leads to reachable
\* objects only.
WriterInv ==
    \A w \in Writer :
        /\ wpc[w] # "idle" => Links[goal[w]] \subseteq Reachable(roots)
        /\ wpc[w] = "publish" => goal[w] \in loose

\* No kill has left an index without its pack, or nobody would believe it.
Sound == "prune-packed" \notin Command \/ crashes = 0

\* repack up to the new index.  The new pack has all that the kept ones lack.
GatherInv(m) ==
    mpc[m] \in {"collect", "loosen", "select", "write", "install", "idx"} =>
        /\ cmd[m] \notin {"prune", "prune-packed"}
        /\ kept[m] \subseteq packs \cap idxs
        /\ mpc[m] \in {"loosen", "select"} => CmdAll(m) /\ reach[m] = Reachable(roots)
        /\ mpc[m] = "loosen" => cmd[m] = "repack -A -d"
        /\ mpc[m] \in {"write", "install", "idx"} =>
              scan[m] = (IF CmdAll(m) THEN Reachable(roots) ELSE loose)
                            \ ObjsOf(kept[m])
        /\ mpc[m] \in {"install", "idx"} => newp[m].objs = scan[m]
        /\ mpc[m] = "idx" => newp[m] \in packs

\* The removal of the packs that the new one replaces.
RemoveInv(m) ==
    mpc[m] \in {"remove", "removeidx"} =>
        /\ CmdAll(m)
        /\ {newp[m]} \cup kept[m] \subseteq packs \cap idxs
        /\ Reachable(roots) \subseteq newp[m].objs \cup ObjsOf(kept[m])
        /\ mpc[m] = "removeidx" => victim[m] \notin {newp[m]} \cup kept[m]

\* The removal of loose duplicates.
DuplicateInv(m) ==
    mpc[m] \in {"duplicates", "unlink"} =>
        /\ cmd[m] \notin {"prune", "repack"}
        /\ CmdAll(m) => Reachable(roots) \subseteq ObjsOf(packs \cap idxs)
        /\ cmd[m] = "repack -d" => loose \subseteq ObjsOf(packs \cap idxs)
        /\ mpc[m] = "unlink" => scan[m] \subseteq ObjsOf(idxs)

ExpireInv(m) ==
    mpc[m] \in {"expire", "prune"} =>
        /\ cmd[m] \in {"gc", "prune"}
        /\ mpc[m] = "prune" => reach[m] = Reachable(roots)

\* As long as nobody was killed: which packs and indexes there are, and that -A
\* has a loose file of every unreachable object of the packs it will remove.
ListInv(m) ==
    /\ mpc[m] \in {"collect", "loosen", "select", "write", "install", "idx"}
         => /\ idxs = oldp[m]
            /\ packs = IF mpc[m] = "idx" THEN oldp[m] \cup {newp[m]} ELSE oldp[m]
    /\ mpc[m] \in {"remove", "removeidx"}
         => /\ idxs = oldp[m] \cup {newp[m]}
            /\ packs = IF mpc[m] = "removeidx" THEN idxs \ {victim[m]} ELSE idxs
    /\ mpc[m] \in {"idle", "duplicates", "unlink", "expire", "prune"}
         => idxs = packs
    /\ mpc[m] = "loosen" =>
          ObjsOf(oldp[m]) \ (Reachable(roots) \cup scan[m]) \subseteq loose
    /\ cmd[m] = "repack -A -d" /\ mpc[m] \in {"select", "write", "install", "idx",
                                               "remove", "removeidx"}
         => ObjsOf(oldp[m]) \ Reachable(roots) \subseteq loose

CommandInv(m) ==
    /\ cmd[m] \in Command
    /\ GatherInv(m) /\ RemoveInv(m) /\ DuplicateInv(m) /\ ExpireInv(m)
    /\ crashes = 0 => ListInv(m)

AloneInv ==
    /\ TypeOK /\ Alone /\ WriterInv
    /\ Sound => ReachableStored
    /\ \A m \in Maint : mpc[m] # "idle" => CommandInv(m)
    /\ crashes = 0 /\ MaintIdle => idxs = packs

LEMMA AlonePrimes ==
  ASSUME NEW m \in Maint
  PROVE  /\ Reachable(roots)' = Reachable(roots')
         /\ ObjsOf(kept[m])' = ObjsOf(kept'[m])
         /\ ObjsOf(oldp[m])' = ObjsOf(oldp'[m])
         /\ ObjsOf(idxs)' = ObjsOf(idxs')
         /\ ObjsOf(packs \cap idxs)' = ObjsOf(packs' \cap idxs')
  BY DEF Reachable, ObjsOf

\* What only adds files loses no reachable object.
LEMMA AloneGrows ==
  ASSUME UNCHANGED roots, ReachableStored,
         loose \subseteq loose', packs \subseteq packs', idxs \subseteq idxs'
  PROVE  ReachableStored'
  <1>1. Reachable(roots)' = Reachable(roots)
    BY DEF Reachable
  <1>2. ASSUME NEW o, Stored(o) PROVE Stored(o)'
    BY <1>2 DEF Stored, ObjsOf
  <1> QED
    BY <1>1, <1>2 DEF ReachableStored

\* A step of a command at work only concerns that command.
LEMMA AloneStep ==
  ASSUME AloneInv, TypeOK', NEW m \in Maint, mpc[m] # "idle", mpc'[m] # "idle",
         \A n \in Maint \ {m} : mpc'[n] = mpc[n],
         UNCHANGED <<roots, writers, crashes>>,
         CommandInv(m)', Sound /\ ReachableStored => ReachableStored'
  PROVE  AloneInv'
  <1>1. \A n \in Maint \ {m} : mpc[n] = "idle" /\ mpc'[n] = "idle"
    BY DEF AloneInv, Alone
  <1>2. WritersIdle /\ WritersIdle'
    BY DEF AloneInv, Alone, MaintIdle, WritersIdle, writers
  <1>3. WriterInv'
    BY <1>2 DEF WriterInv, WritersIdle
  <1>4. Alone' /\ ~MaintIdle'
    BY <1>1, <1>2 DEF Alone, MaintIdle
  <1>5. Sound' => ReachableStored'
    BY DEF AloneInv, Sound
  <1>6. \A n \in Maint : mpc'[n] # "idle" => CommandInv(n)'
    BY <1>1
  <1> QED
    BY <1>3, <1>4, <1>5, <1>6 DEF AloneInv

\* Nor does its end, after which nobody is at work.
LEMMA AloneQuit ==
  ASSUME AloneInv, TypeOK', NEW m \in Maint, mpc[m] # "idle", Quit(m),
         UNCHANGED <<roots, writers>>, Sound' => Sound,
         ReachableStored => ReachableStored',
         crashes' = 0 => idxs' = packs'
  PROVE  AloneInv'
  <1>0. mpc \in [Maint -> {"idle", "collect", "loosen", "select", "write",
                          "install", "idx", "remove", "removeidx",
                          "duplicates", "unlink", "expire", "prune"}]
    BY DEF AloneInv, TypeOK, MaintOK
  <1>1. \A n \in Maint : mpc'[n] = "idle"
    BY <1>0 DEF AloneInv, Alone, Quit
  <1>2. WritersIdle /\ WritersIdle'
    BY DEF AloneInv, Alone, MaintIdle, WritersIdle, writers
  <1>3. WriterInv' /\ Alone'
    BY <1>1, <1>2 DEF WriterInv, WritersIdle, Alone
  <1>4. Sound' => ReachableStored'
    BY DEF AloneInv
  <1> QED
    BY <1>1, <1>3, <1>4 DEF AloneInv

\* One step of a command that runs alone.
LEMMA AloneMaint ==
  ASSUME AloneInv, TypeOK', NEW m \in Maint, MaintStep(m) PROVE AloneInv'
<1> DEFINE R == Reachable(roots)
<1>0. /\ MaintOK /\ FilesOK
      /\ mpc[m] # "idle" => CommandInv(m)
      /\ Sound => ReachableStored
  BY DEF AloneInv, TypeOK
<1>r. ASSUME UNCHANGED roots PROVE Reachable(roots)' = R
  BY <1>r DEF Reachable
<1>s. ASSUME UNCHANGED <<roots, files>> PROVE ReachableStored => ReachableStored'
  BY <1>s, AloneGrows DEF files
<1>i. ASSUME UNCHANGED files
      PROVE  /\ UNCHANGED <<loose, packs, idxs>>
             /\ ObjsOf(idxs)' = ObjsOf(idxs)
             /\ ObjsOf(packs \cap idxs)' = ObjsOf(packs \cap idxs)
  BY <1>i, AlonePrimes DEF files
<1>q. ASSUME mpc[m] # "idle", Quit(m), UNCHANGED <<files, others>>,
             crashes = 0 => idxs = packs
      PROVE  AloneInv'
  BY <1>q, <1>s, AloneQuit DEF others, counters, files, Sound
<1> HIDE DEF R
<1> USE <1>0 DEF MaintOK, Goto, CmdAll
<1>1. CASE RepackCollect(m)
  <2>1. CASE Quit(m)
    BY <1>1, <1>q, <2>1 DEF RepackCollect, CommandInv, ListInv
  <2>2. CASE ~Quit(m)
    <3>1. /\ UNCHANGED <<files, others, cmd, oldp, kept, newp>>
          /\ mpc[m] = "collect"
          /\ \A n \in Maint \ {m} : mpc'[n] = mpc[n]
      BY <1>1, <2>2 DEF RepackCollect
    <3>2. /\ Reachable(roots)' = R
          /\ ObjsOf(kept[m])' = ObjsOf(kept[m])
          /\ ObjsOf(oldp[m])' = ObjsOf(oldp[m])
      BY <3>1, <1>r, AlonePrimes DEF others
    <3>3. /\ cmd[m] \notin {"prune", "prune-packed"}
          /\ kept[m] \subseteq packs \cap idxs
          /\ cmd[m] \in Command
          /\ crashes = 0 => idxs = oldp[m] /\ packs = oldp[m]
      BY <3>1 DEF CommandInv, GatherInv, ListInv
    <3>4. CASE CmdAll(m)
      <4>1. /\ reach'[m] = R /\ scan'[m] = ObjsOf(idxs)
            /\ mpc'[m] = IF cmd[m] = "repack -A -d" THEN "loosen" ELSE "select"
        BY <1>1, <2>2, <3>4 DEF RepackCollect, R
      <4>2. GatherInv(m)'
        BY <3>1, <3>2, <3>3, <3>4, <4>1 DEF GatherInv, files
      <4>3. crashes = 0 => ListInv(m)'
        BY <3>1, <3>2, <3>3, <3>4, <4>1 DEF ListInv, files
      <4>4. CommandInv(m)'
        BY <3>1, <3>3, <3>4, <4>1, <4>2, <4>3
           DEF CommandInv, RemoveInv, DuplicateInv, ExpireInv, others, counters
      <4> QED
        BY <3>1, <4>1, <4>4, <1>s, AloneStep DEF others, counters
    <3>5. CASE ~CmdAll(m)
      <4>1. scan'[m] = loose \ ObjsOf(kept[m]) /\ mpc'[m] = "write"
        BY <1>1, <2>2, <3>5 DEF RepackCollect
      <4>2. GatherInv(m)'
        BY <3>1, <3>2, <3>3, <3>5, <4>1 DEF GatherInv, files
      <4>3. crashes = 0 => ListInv(m)'
        BY <3>1, <3>2, <3>3, <3>5, <4>1 DEF ListInv, files
      <4>4. CommandInv(m)'
        BY <3>1, <3>3, <4>1, <4>2, <4>3
           DEF CommandInv, RemoveInv, DuplicateInv, ExpireInv, others, counters
      <4> QED
        BY <3>1, <4>1, <4>4, <1>s, AloneStep DEF others, counters
    <3> QED
      BY <3>4, <3>5
  <2> QED
    BY <2>1, <2>2
<1>2. CASE Loosen(m)
  <2>1. CASE Quit(m)
    <3>1. mpc[m] = "loosen" /\ mpc'[m] = "idle" /\ UNCHANGED <<packs, idxs, others>>
      BY <1>2, <2>1 DEF Loosen, Quit
    <3>2. UNCHANGED loose
      BY <1>2, <3>1 DEF Loosen
    <3> QED
      BY <1>q, <2>1, <3>1, <3>2 DEF CommandInv, ListInv, files
  <2>2. CASE ~Quit(m)
    <3>1. PICK o \in scan[m] :
            /\ loose' = IF o \in reach[m] THEN loose ELSE loose \cup {o}
            /\ scan' = [scan EXCEPT ![m] = @ \ {o}]
            /\ UNCHANGED <<mpc, cmd, oldp, kept, reach, newp, victim>>
      BY <1>2, <2>2 DEF Loosen
    <3>2. mpc[m] = "loosen" /\ UNCHANGED <<packs, idxs, others>>
      BY <1>2 DEF Loosen
    <3>3. /\ Reachable(roots)' = R
          /\ ObjsOf(kept[m])' = ObjsOf(kept[m])
          /\ ObjsOf(oldp[m])' = ObjsOf(oldp[m])
      BY <3>1, <3>2, <1>r, AlonePrimes DEF others
    <3>4. /\ GatherInv(m)
          /\ reach[m] = R
          /\ crashes = 0 => ListInv(m)
          /\ cmd[m] \in Command
      BY <3>2 DEF CommandInv, GatherInv, R
    <3>5. GatherInv(m)'
      BY <3>1, <3>2, <3>3, <3>4 DEF GatherInv, R
    <3>6. crashes = 0 => ListInv(m)'
      BY <3>1, <3>2, <3>3, <3>4 DEF ListInv, R
    <3>7. CommandInv(m)'
      BY <3>1, <3>2, <3>4, <3>5, <3>6
         DEF CommandInv, RemoveInv, DuplicateInv, ExpireInv, others, counters
    <3>8. ReachableStored => ReachableStored'
      BY <3>1, <3>2, AloneGrows DEF others
    <3> QED
      BY <3>1, <3>2, <3>7, <3>8, AloneStep DEF others, counters
  <2> QED
    BY <2>1, <2>2
<1>3. CASE LoosenDone(m)
  <2>1. /\ mpc[m] = "loosen" /\ scan[m] = {} /\ mpc'[m] = "select"
        /\ UNCHANGED <<files, locals, others>>
        /\ \A n \in Maint \ {m} : mpc'[n] = mpc[n]
    BY <1>3 DEF LoosenDone
  <2>2. /\ Reachable(roots)' = R
        /\ ObjsOf(kept[m])' = ObjsOf(kept[m])
        /\ ObjsOf(oldp[m])' = ObjsOf(oldp[m])
    BY <2>1, <1>r, AlonePrimes DEF others, locals
  <2>3. GatherInv(m) /\ (crashes = 0 => ListInv(m)) /\ cmd[m] \in Command
    BY <2>1 DEF CommandInv
  <2>4. GatherInv(m)'
    BY <2>1, <2>2, <2>3 DEF GatherInv, files, locals, R
  <2>5. crashes = 0 => ListInv(m)'
    BY <2>1, <2>2, <2>3 DEF ListInv, files, locals, R
  <2>6. CommandInv(m)'
    BY <2>1, <2>3, <2>4, <2>5
       DEF CommandInv, RemoveInv, DuplicateInv, ExpireInv, others, counters, locals
  <2> QED
    BY <2>1, <2>6, <1>s, AloneStep DEF others, counters
<1>4. CASE RepackSelect(m)
  <2>1. /\ mpc[m] = "select" /\ mpc'[m] = "write"
        /\ scan'[m] = (reach[m] \cap R) \ ObjsOf(kept[m])
        /\ UNCHANGED <<files, others, cmd, oldp, kept, reach, newp, victim>>
        /\ \A n \in Maint \ {m} : mpc'[n] = mpc[n]
    BY <1>4 DEF RepackSelect, R
  <2>2. /\ Reachable(roots)' = R
        /\ ObjsOf(kept[m])' = ObjsOf(kept[m])
        /\ ObjsOf(oldp[m])' = ObjsOf(oldp[m])
    BY <2>1, <1>r, AlonePrimes DEF others
  <2>3. GatherInv(m) /\ (crashes = 0 => ListInv(m)) /\ cmd[m] \in Command
    BY <2>1 DEF CommandInv
  <2>4. GatherInv(m)'
    BY <2>1, <2>2, <2>3 DEF GatherInv, files, R
  <2>5. crashes = 0 => ListInv(m)'
    BY <2>1, <2>2, <2>3 DEF ListInv, files, R
  <2>6. CommandInv(m)'
    BY <2>1, <2>3, <2>4, <2>5
       DEF CommandInv, RemoveInv, DuplicateInv, ExpireInv, others, counters
  <2> QED
    BY <2>1, <2>6, <1>s, AloneStep DEF others, counters
<1>5. CASE RepackWrite(m)
  <2>0. mpc[m] = "write" /\ UNCHANGED <<files, others>>
    BY <1>5 DEF RepackWrite
  <2>1. /\ crashes = 0 => idxs = packs
        /\ cmd[m] \in Command /\ cmd[m] \notin {"prune", "prune-packed"}
    BY <2>0 DEF CommandInv, ListInv, GatherInv
  <2>2. CASE Quit(m)
    BY <1>q, <2>0, <2>1, <2>2
  <2>3. CASE ~Quit(m) /\ Return(m)
    <3>1. /\ cmd[m] = "gc" /\ mpc'[m] = "expire" /\ UNCHANGED locals
          /\ \A n \in Maint \ {m} : mpc'[n] = mpc[n]
      BY <2>3 DEF Return
    <3>2. CommandInv(m)'
      BY <2>0, <2>1, <3>1
         DEF CommandInv, GatherInv, RemoveInv, DuplicateInv, ExpireInv, ListInv,
             others, counters, locals, files
    <3> QED
      BY <2>0, <3>1, <3>2, <1>s, AloneStep DEF others, counters
  <2>4. CASE ~Quit(m) /\ ~Return(m)
    <3>1. /\ mpc'[m] = "install" /\ newp'[m].objs = scan[m]
          /\ UNCHANGED <<cmd, oldp, kept, reach, scan, victim>>
          /\ \A n \in Maint \ {m} : mpc'[n] = mpc[n]
      <4>1. PICK e \in Enc : newp' = [newp EXCEPT ![m] = [objs |-> scan[m], enc |-> e]]
        BY <1>5, <2>4 DEF RepackWrite
      <4> QED
        BY <1>5, <2>4, <4>1 DEF RepackWrite
    <3>2. /\ Reachable(roots)' = R
          /\ ObjsOf(kept[m])' = ObjsOf(kept[m])
          /\ ObjsOf(oldp[m])' = ObjsOf(oldp[m])
      BY <2>0, <3>1, <1>r, AlonePrimes DEF others
    <3>3. GatherInv(m) /\ (crashes = 0 => ListInv(m))
      BY <2>0 DEF CommandInv
    <3>4. GatherInv(m)'
      BY <2>0, <3>1, <3>2, <3>3 DEF GatherInv, files, R
    <3>5. crashes = 0 => ListInv(m)'
      BY <2>0, <3>1, <3>2, <3>3 DEF ListInv, files, R
    <3>6. CommandInv(m)'
      BY <2>0, <2>1, <3>1, <3>4, <3>5
         DEF CommandInv, RemoveInv, DuplicateInv, ExpireInv, others, counters
    <3> QED
      BY <2>0, <3>1, <3>6, <1>s, AloneStep DEF others, counters
  <2> QED
    BY <2>2, <2>3, <2>4
<1>6. CASE RepackInstall(m)
  <2>1. /\ mpc[m] = "install" /\ mpc'[m] = "idx"
        /\ packs' = packs \cup {newp[m]}
        /\ UNCHANGED <<loose, idxs, locals, others>>
        /\ \A n \in Maint \ {m} : mpc'[n] = mpc[n]
    BY <1>6 DEF RepackInstall
  <2>2. /\ Reachable(roots)' = R
        /\ ObjsOf(kept[m])' = ObjsOf(kept[m])
        /\ ObjsOf(oldp[m])' = ObjsOf(oldp[m])
    BY <2>1, <1>r, AlonePrimes DEF others, locals
  <2>3. GatherInv(m) /\ (crashes = 0 => ListInv(m)) /\ cmd[m] \in Command
    BY <2>1 DEF CommandInv
  <2>4. GatherInv(m)'
    BY <2>1, <2>2, <2>3 DEF GatherInv, locals, R
  <2>5. crashes = 0 => ListInv(m)'
    BY <2>1, <2>2, <2>3 DEF ListInv, locals, R
  <2>6. CommandInv(m)'
    BY <2>1, <2>3, <2>4, <2>5
       DEF CommandInv, RemoveInv, DuplicateInv, ExpireInv, others, counters, locals
  <2>7. ReachableStored => ReachableStored'
    BY <2>1, AloneGrows DEF others
  <2> QED
    BY <2>1, <2>6, <2>7, AloneStep DEF others, counters
<1>7. CASE RepackIdx(m)
  <2>1. /\ mpc[m] = "idx" /\ idxs' = idxs \cup {newp[m]}
        /\ UNCHANGED <<loose, packs, others>>
    BY <1>7 DEF RepackIdx
  <2>2. GatherInv(m) /\ (crashes = 0 => ListInv(m)) /\ cmd[m] \in Command
    BY <2>1 DEF CommandInv
  <2>3. ReachableStored => ReachableStored'
    BY <2>1, AloneGrows DEF others
  <2>4. CASE Quit(m)
    <3>1. crashes' = 0 => idxs' = packs'
      BY <2>1, <2>2 DEF ListInv, others, counters
    <3> QED
      BY <2>1, <2>3, <2>4, <3>1, AloneQuit DEF others, counters, Sound
  <2>5. CASE ~Quit(m)
    <3>1. /\ CmdDelete(m) /\ UNCHANGED locals
          /\ mpc'[m] = IF CmdAll(m) THEN "remove" ELSE "duplicates"
          /\ \A n \in Maint \ {m} : mpc'[n] = mpc[n]
      BY <1>7, <2>5 DEF RepackIdx
    <3>2. /\ Reachable(roots)' = R
          /\ ObjsOf(kept[m])' = ObjsOf(kept[m])
          /\ ObjsOf(oldp[m])' = ObjsOf(oldp[m])
          /\ ObjsOf(packs \cap idxs)' = ObjsOf(packs' \cap idxs')
      BY <2>1, <3>1, <1>r, AlonePrimes DEF others, locals
    <3>3. /\ {newp[m]} \cup kept[m] \subseteq packs' \cap idxs'
          /\ scan[m] = (IF CmdAll(m) THEN R ELSE loose) \ ObjsOf(kept[m])
          /\ newp[m].objs = scan[m]
      BY <2>1, <2>2 DEF GatherInv, R
    <3>4. newp[m].objs \cup ObjsOf(kept[m]) \subseteq ObjsOf(packs' \cap idxs')
      <4>1. {newp[m]} \cup kept[m] \subseteq packs' \cap idxs'
        BY <3>3
      <4> QED
        BY <4>1 DEF ObjsOf
    <3>5. RemoveInv(m)'
      BY <2>1, <3>1, <3>2, <3>3 DEF RemoveInv, locals
    <3>6. DuplicateInv(m)'
      BY <2>1, <2>2, <3>1, <3>2, <3>3, <3>4
         DEF DuplicateInv, GatherInv, CmdDelete, locals
    <3>7. crashes = 0 => ListInv(m)'
      BY <2>1, <2>2, <3>1, <3>2 DEF ListInv, locals, R
    <3>8. CommandInv(m)'
      BY <2>1, <2>2, <3>1, <3>5, <3>6, <3>7
         DEF CommandInv, GatherInv, ExpireInv, others, counters, locals
    <3> QED
      BY <2>1, <2>3, <3>1, <3>8, AloneStep DEF others, counters
  <2> QED
    BY <2>4, <2>5
<1>8. CASE RemovePack(m)
  <2>1. PICK p \in Replaced(m) :
          /\ packs' = packs \ {p} /\ victim' = [victim EXCEPT ![m] = p]
    BY <1>8 DEF RemovePack
  <2>2. /\ mpc[m] = "remove" /\ mpc'[m] = "removeidx" /\ victim'[m] = p
        /\ UNCHANGED <<loose, idxs, cmd, oldp, kept, reach, scan, newp, others>>
        /\ \A n \in Maint \ {m} : mpc'[n] = mpc[n]
    BY <1>8, <2>1 DEF RemovePack
  <2>3. /\ Reachable(roots)' = R
        /\ ObjsOf(kept[m])' = ObjsOf(kept[m])
        /\ ObjsOf(oldp[m])' = ObjsOf(oldp[m])
    BY <2>2, <1>r, AlonePrimes DEF others
  <2>4. RemoveInv(m) /\ (crashes = 0 => ListInv(m)) /\ cmd[m] \in Command
    BY <2>2 DEF CommandInv
  <2>5. p \in oldp[m] /\ p \notin {newp[m]} \cup kept[m]
    BY <2>1 DEF Replaced
  <2>6. RemoveInv(m)'
    BY <2>1, <2>2, <2>3, <2>4, <2>5 DEF RemoveInv, R
  <2>7. crashes = 0 => ListInv(m)'
    BY <2>1, <2>2, <2>3, <2>4, <2>5 DEF ListInv, R
  <2>8. CommandInv(m)'
    BY <2>2, <2>4, <2>6, <2>7
       DEF CommandInv, GatherInv, DuplicateInv, ExpireInv, others, counters
  <2>9. ReachableStored'
    <3>1. R \subseteq newp[m].objs \cup ObjsOf(kept[m])
      BY <2>2, <2>4 DEF RemoveInv, R
    <3>2. {newp[m]} \cup kept[m] \subseteq packs' \cap idxs'
      BY <2>2, <2>6 DEF RemoveInv
    <3>3. R \subseteq ObjsOf(packs' \cap idxs')
      BY <3>1, <3>2 DEF ObjsOf
    <3> QED
      BY <2>3, <3>3, AlonePrimes DEF ReachableStored, Stored
  <2> QED
    BY <2>2, <2>8, <2>9, AloneStep DEF others, counters
<1>9. CASE RemoveIdx(m)
  <2>1. /\ mpc[m] = "removeidx" /\ mpc'[m] = "remove"
        /\ idxs' = idxs \ {victim[m]}
        /\ oldp'[m] = oldp[m] \ {victim[m]}
        /\ UNCHANGED <<loose, packs, cmd, kept, reach, scan, newp, others>>
        /\ \A n \in Maint \ {m} : mpc'[n] = mpc[n]
    BY <1>9 DEF RemoveIdx
  <2>2. /\ Reachable(roots)' = R
        /\ ObjsOf(kept[m])' = ObjsOf(kept[m])
        /\ ObjsOf(oldp[m])' \subseteq ObjsOf(oldp[m])
    <3>1. ObjsOf(oldp'[m]) \subseteq ObjsOf(oldp[m])
      BY <2>1 DEF ObjsOf
    <3> QED
      BY <2>1, <3>1, <1>r, AlonePrimes DEF others
  <2>4. RemoveInv(m) /\ (crashes = 0 => ListInv(m)) /\ cmd[m] \in Command
    BY <2>1 DEF CommandInv
  <2>6. RemoveInv(m)'
    BY <2>1, <2>2, <2>4 DEF RemoveInv, R
  <2>7. crashes = 0 => ListInv(m)'
    <3>1. crashes = 0 => /\ idxs' = oldp'[m] \cup {newp[m]}
                         /\ packs = idxs'
      BY <2>1, <2>4 DEF ListInv, RemoveInv
    <3>2. crashes = 0 /\ cmd[m] = "repack -A -d" => ObjsOf(oldp[m]) \ R \subseteq loose
      BY <2>1, <2>4 DEF ListInv, R
    <3> QED
      BY <2>1, <2>2, <3>1, <3>2 DEF ListInv
  <2>8. CommandInv(m)'
    BY <2>1, <2>4, <2>6, <2>7
       DEF CommandInv, GatherInv, DuplicateInv, ExpireInv, others, counters
  <2>9. ReachableStored'
    <3>1. R \subseteq newp[m].objs \cup ObjsOf(kept[m])
      BY <2>1, <2>4 DEF RemoveInv, R
    <3>2. {newp[m]} \cup kept[m] \subseteq packs' \cap idxs'
      BY <2>1, <2>6 DEF RemoveInv
    <3>3. R \subseteq ObjsOf(packs' \cap idxs')
      BY <3>1, <3>2 DEF ObjsOf
    <3> QED
      BY <2>2, <3>3, AlonePrimes DEF ReachableStored, Stored
  <2> QED
    BY <2>1, <2>8, <2>9, AloneStep DEF others, counters
<1>10. CASE RemoveDone(m)
  <2>1. /\ mpc[m] = "remove" /\ mpc'[m] = "duplicates"
        /\ UNCHANGED <<files, locals, others>>
        /\ \A n \in Maint \ {m} : mpc'[n] = mpc[n]
    BY <1>10 DEF RemoveDone
  <2>2. /\ Reachable(roots)' = R
        /\ ObjsOf(packs \cap idxs)' = ObjsOf(packs \cap idxs)
    BY <2>1, <1>r, <1>i DEF others
  <2>3. RemoveInv(m) /\ (crashes = 0 => ListInv(m)) /\ cmd[m] \in Command
    BY <2>1 DEF CommandInv
  <2>4. R \subseteq ObjsOf(packs \cap idxs)
    <3>1. /\ {newp[m]} \cup kept[m] \subseteq packs \cap idxs
          /\ R \subseteq newp[m].objs \cup ObjsOf(kept[m])
      BY <2>1, <2>3 DEF RemoveInv, R
    <3> QED
      BY <3>1 DEF ObjsOf
  <2>5. DuplicateInv(m)'
    BY <2>1, <2>2, <2>3, <2>4 DEF DuplicateInv, RemoveInv, locals
  <2>6. crashes = 0 => ListInv(m)'
    BY <2>1, <2>3 DEF ListInv, locals, files
  <2>7. CommandInv(m)'
    BY <2>1, <2>3, <2>5, <2>6
       DEF CommandInv, GatherInv, RemoveInv, ExpireInv, others, counters, locals
  <2> QED
    BY <2>1, <2>7, <1>s, AloneStep DEF others, counters
<1>11. CASE ListPacked(m)
  <2>1. /\ mpc[m] = "duplicates" /\ mpc'[m] = "unlink"
        /\ scan'[m] = ObjsOf(idxs)
        /\ UNCHANGED <<files, others, cmd, oldp, kept, reach, newp, victim>>
        /\ \A n \in Maint \ {m} : mpc'[n] = mpc[n]
    BY <1>11 DEF ListPacked
  <2>2. /\ Reachable(roots)' = R
        /\ ObjsOf(idxs)' = ObjsOf(idxs)
        /\ ObjsOf(packs \cap idxs)' = ObjsOf(packs \cap idxs)
    BY <2>1, <1>r, <1>i DEF others
  <2>3. DuplicateInv(m) /\ (crashes = 0 => ListInv(m)) /\ cmd[m] \in Command
    BY <2>1 DEF CommandInv
  <2>4. DuplicateInv(m)'
    BY <2>1, <2>2, <2>3 DEF DuplicateInv, files, R
  <2>5. crashes = 0 => ListInv(m)'
    BY <2>1, <2>3 DEF ListInv, files
  <2>6. CommandInv(m)'
    BY <2>1, <2>3, <2>4, <2>5
       DEF CommandInv, GatherInv, RemoveInv, ExpireInv, others, counters
  <2> QED
    BY <2>1, <2>6, <1>s, AloneStep DEF others, counters
<1>12. CASE UnlinkDuplicate(m)
  <2>1. PICK o \in scan[m] :
          loose' = loose \ {o} /\ scan' = [scan EXCEPT ![m] = @ \ {o}]
    BY <1>12 DEF UnlinkDuplicate
  <2>2. /\ mpc[m] = "unlink"
        /\ UNCHANGED <<packs, idxs, mpc, cmd, oldp, kept, reach, newp, victim, others>>
    BY <1>12 DEF UnlinkDuplicate
  <2>3. /\ Reachable(roots)' = R
        /\ ObjsOf(idxs)' = ObjsOf(idxs)
        /\ ObjsOf(packs \cap idxs)' = ObjsOf(packs \cap idxs)
    BY <2>2, <1>r, AlonePrimes DEF others
  <2>4. DuplicateInv(m) /\ (crashes = 0 => ListInv(m)) /\ cmd[m] \in Command
    BY <2>2 DEF CommandInv
  <2>5. DuplicateInv(m)'
    BY <2>1, <2>2, <2>3, <2>4 DEF DuplicateInv, R
  <2>6. crashes = 0 => ListInv(m)'
    BY <2>1, <2>2, <2>4 DEF ListInv
  <2>7. CommandInv(m)'
    BY <2>1, <2>2, <2>4, <2>5, <2>6
       DEF CommandInv, GatherInv, RemoveInv, ExpireInv, others, counters
  <2>8. Sound /\ ReachableStored => ReachableStored'
    <3> SUFFICES ASSUME Sound, ReachableStored PROVE ReachableStored'
      OBVIOUS
    <3>1. CASE CmdAll(m)
      BY <2>2, <2>3, <2>4, <3>1 DEF ReachableStored, Stored, DuplicateInv, R
    <3>2. CASE cmd[m] = "repack -d"
      BY <2>2, <2>3, <2>4, <3>2 DEF ReachableStored, Stored, DuplicateInv, R
    <3>3. CASE cmd[m] = "prune-packed"
      <4>1. idxs = packs
        BY <2>2, <2>4, <3>3 DEF Sound, ListInv
      <4>2. o \in ObjsOf(packs \cap idxs)
        <5>1. packs \cap idxs = idxs
          BY <4>1
        <5> QED
          BY <2>1, <2>2, <2>4, <5>1 DEF DuplicateInv
      <4> QED
        BY <2>1, <2>2, <2>3, <4>2 DEF ReachableStored, Stored, R
    <3> QED
      BY <2>2, <2>4, <3>1, <3>2, <3>3 DEF DuplicateInv, Commands
  <2> QED
    BY <2>2, <2>7, <2>8, AloneStep DEF others, counters
<1>13. CASE UnlinkDone(m)
  <2>0. mpc[m] = "unlink" /\ UNCHANGED <<files, others>>
    BY <1>13 DEF UnlinkDone
  <2>1. (crashes = 0 => idxs = packs) /\ cmd[m] \in Command
    BY <2>0 DEF CommandInv, ListInv
  <2>2. CASE Quit(m)
    BY <1>q, <2>0, <2>1, <2>2
  <2>3. CASE ~Quit(m)
    <3>1. /\ cmd[m] = "gc" /\ mpc'[m] = "expire" /\ UNCHANGED locals
          /\ \A n \in Maint \ {m} : mpc'[n] = mpc[n]
      BY <1>13, <2>3 DEF UnlinkDone, Return
    <3>2. CommandInv(m)'
      BY <2>0, <2>1, <3>1
         DEF CommandInv, GatherInv, RemoveInv, DuplicateInv, ExpireInv, ListInv,
             others, counters, locals, files
    <3> QED
      BY <2>0, <3>1, <3>2, <1>s, AloneStep DEF others, counters
  <2> QED
    BY <2>2, <2>3
<1>14. CASE Expire(m)
  <2>0. mpc[m] = "expire" /\ UNCHANGED <<files, others>>
    BY <1>14 DEF Expire
  <2>1. /\ crashes = 0 => idxs = packs
        /\ cmd[m] \in Command /\ cmd[m] \in {"gc", "prune"}
    BY <2>0 DEF CommandInv, ListInv, ExpireInv
  <2>2. CASE Quit(m)
    BY <1>q, <2>0, <2>1, <2>2
  <2>3. CASE ~Quit(m)
    <3>1. /\ reach'[m] = R /\ mpc'[m] = "prune"
          /\ UNCHANGED <<cmd, oldp, kept, newp, victim>>
          /\ \A n \in Maint \ {m} : mpc'[n] = mpc[n]
      BY <1>14, <2>3 DEF Expire, R
    <3>2. CommandInv(m)'
      BY <2>0, <2>1, <3>1, <1>r
         DEF CommandInv, GatherInv, RemoveInv, DuplicateInv, ExpireInv, ListInv,
             others, counters, files
    <3> QED
      BY <2>0, <3>1, <3>2, <1>s, AloneStep DEF others, counters
  <2> QED
    BY <2>2, <2>3
<1>15. CASE Prune(m)
  <2>1. PICK o \in scan[m] \ reach[m] :
          loose' = loose \ {o} /\ scan' = [scan EXCEPT ![m] = @ \ {o}]
    BY <1>15 DEF Prune
  <2>2. /\ mpc[m] = "prune"
        /\ UNCHANGED <<packs, idxs, mpc, cmd, oldp, kept, reach, newp, victim, others>>
    BY <1>15 DEF Prune
  <2>3. /\ Reachable(roots)' = R
        /\ ObjsOf(packs \cap idxs)' = ObjsOf(packs \cap idxs)
    BY <2>2, <1>r, AlonePrimes DEF others
  <2>4. /\ crashes = 0 => idxs = packs
        /\ cmd[m] \in Command /\ cmd[m] \in {"gc", "prune"} /\ reach[m] = R
    BY <2>2 DEF CommandInv, ListInv, ExpireInv, R
  <2>5. CommandInv(m)'
    BY <2>1, <2>2, <2>3, <2>4
       DEF CommandInv, GatherInv, RemoveInv, DuplicateInv, ExpireInv, ListInv,
           others, counters
  <2>6. ReachableStored => ReachableStored'
    BY <2>1, <2>2, <2>3, <2>4 DEF ReachableStored, Stored, R
  <2> QED
    BY <2>2, <2>5, <2>6, AloneStep DEF others, counters
<1>16. CASE PruneDone(m)
  <2>1. /\ mpc[m] = "prune" /\ Quit(m) /\ UNCHANGED <<files, others>>
    BY <1>16 DEF PruneDone
  <2>2. crashes = 0 => idxs = packs
    BY <2>1 DEF CommandInv, ListInv
  <2> QED
    BY <1>q, <2>1, <2>2
<1> QED
  BY <1>1, <1>2, <1>3, <1>4, <1>5, <1>6, <1>7, <1>8, <1>9, <1>10, <1>11,
     <1>12, <1>13, <1>14, <1>15, <1>16 DEF MaintStep

\* Steps that leave files, roots, writers and maintenance alone.
LEMMA AloneStutter ==
  ASSUME AloneInv, TypeOK', UNCHANGED <<files, roots, writers, mpc, locals, counters>>
  PROVE  AloneInv'
<1> USE DEF files, writers, locals, counters
<1>1. Alone' /\ (crashes = 0 /\ MaintIdle => idxs = packs)'
  BY DEF AloneInv, Alone, MaintIdle, WritersIdle
<1>2. Reachable(roots)' = Reachable(roots)
  BY DEF Reachable
<1>3. WriterInv'
  BY <1>2 DEF AloneInv, WriterInv
<1>4. (Sound => ReachableStored)'
  BY AloneGrows DEF AloneInv, Sound
<1>5. ASSUME NEW m \in Maint, mpc'[m] # "idle" PROVE CommandInv(m)'
  <2>1. /\ ObjsOf(kept[m])' = ObjsOf(kept[m])
        /\ ObjsOf(oldp[m])' = ObjsOf(oldp[m])
        /\ ObjsOf(idxs)' = ObjsOf(idxs)
        /\ ObjsOf(packs \cap idxs)' = ObjsOf(packs \cap idxs)
    BY AlonePrimes
  <2>2. CommandInv(m)
    BY <1>5 DEF AloneInv
  <2>3. GatherInv(m)' /\ RemoveInv(m)'
    BY <1>2, <2>1, <2>2 DEF CommandInv, GatherInv, RemoveInv, CmdAll
  <2>4. DuplicateInv(m)' /\ ExpireInv(m)'
    BY <1>2, <2>1, <2>2 DEF CommandInv, DuplicateInv, ExpireInv, CmdAll
  <2>5. (crashes = 0 => ListInv(m))'
    BY <1>2, <2>1, <2>2 DEF CommandInv, ListInv
  <2> QED
    BY <2>2, <2>3, <2>4, <2>5 DEF CommandInv
<1> QED
  BY <1>1, <1>3, <1>4, <1>5 DEF AloneInv

\* A command starts while nobody is at work.
LEMMA AloneStart ==
  ASSUME Exclusive, AloneInv, TypeOK', NEW m \in Maint, NEW c \in Command, Start(m, c)
  PROVE  AloneInv'
<1>1. /\ MaintIdle /\ WritersIdle
      /\ UNCHANGED <<files, roots, writers, newp, victim, crashes>>
  BY DEF Start
<1>2. cmd'[m] = c /\ \A n \in Maint \ {m} : mpc'[n] = "idle"
  BY <1>1 DEF AloneInv, TypeOK, MaintOK, Start, Goto, MaintIdle
<1>3. crashes = 0 => idxs = packs
  BY <1>1 DEF AloneInv
<1>4. /\ mpc'[m] \in {"duplicates", "expire", "collect"}
      /\ mpc'[m] = "duplicates" => c = "prune-packed"
      /\ mpc'[m] = "expire" => c = "prune"
      /\ mpc'[m] = "collect" =>
            /\ c \notin {"prune", "prune-packed"}
            /\ oldp'[m] = packs \cap idxs /\ kept'[m] \subseteq packs \cap idxs
  BY DEF AloneInv, TypeOK, MaintOK, Start, Goto
<1>5. CommandInv(m)'
  <2>1. GatherInv(m)' /\ RemoveInv(m)'
    BY <1>1, <1>2, <1>4 DEF GatherInv, RemoveInv, files
  <2>2. DuplicateInv(m)' /\ ExpireInv(m)'
    BY <1>1, <1>2, <1>4 DEF DuplicateInv, ExpireInv, CmdAll
  <2>3. (crashes = 0 => ListInv(m))'
    BY <1>1, <1>2, <1>3, <1>4 DEF ListInv, files
  <2> QED
    BY <1>2, <2>1, <2>2, <2>3 DEF CommandInv
<1>6. Alone' /\ WriterInv' /\ ~MaintIdle'
  BY <1>1, <1>2, <1>4 DEF Alone, WriterInv, WritersIdle, MaintIdle, writers
<1>7. (Sound => ReachableStored)'
  BY <1>1, AloneGrows DEF AloneInv, Sound, files
<1> QED
  BY <1>2, <1>5, <1>6, <1>7 DEF AloneInv

\* A kill leaves the files as they are.
LEMMA AloneCrash ==
  ASSUME AloneInv, TypeOK', NEW m \in Maint, CrashMaint(m) PROVE AloneInv'
<1>1. /\ mpc[m] # "idle" /\ Quit(m) /\ UNCHANGED <<files, roots, writers>>
      /\ crashes \in Nat /\ crashes' = crashes + 1
  BY ObjectStoreAssumption DEF AloneInv, TypeOK, CrashMaint, ObjectStoreAssumption
<1>2. Sound' => Sound
  BY <1>1 DEF Sound
<1>3. ReachableStored => ReachableStored'
  BY <1>1, AloneGrows DEF files
<1> QED
  BY <1>1, <1>2, <1>3, AloneQuit

\* Writers and the removal of roots, which maintenance does not overlap.
LEMMA AloneWriter ==
  ASSUME Exclusive, AloneInv, TypeOK', NEW w \in Writer, WriterNext(w)
  PROVE  AloneInv'
<1>0. /\ WritersOK /\ FilesOK /\ Links \in [Obj -> SUBSET Obj] /\ None \notin Obj
      /\ WriterInv /\ (Sound => ReachableStored)
  BY ObjectStoreAssumption, NoneAssumption
     DEF AloneInv, TypeOK, ObjectStoreAssumption
<1>1. /\ MaintIdle /\ MaintIdle' /\ UNCHANGED <<packs, idxs, mpc, locals>>
      /\ crashes' = 0 => crashes = 0
  <2>1. MaintIdle /\ UNCHANGED <<packs, idxs, mpc, locals>>
    BY DEF WriterNext, WriteObject, Install, Publish, CrashWriter, AloneInv, Alone,
           WritersIdle, files
  <2>2. crashes' = 0 => crashes = 0
    BY ObjectStoreAssumption
       DEF WriterNext, WriteObject, Install, Publish, CrashWriter, AloneInv, TypeOK,
           counters, ObjectStoreAssumption
  <2> QED
    BY <2>1, <2>2 DEF MaintIdle
<1>2. SUFFICES WriterInv' /\ (ReachableStored => ReachableStored')
  BY <1>1 DEF AloneInv, Alone, MaintIdle, Sound
<1>3. ASSUME NEW o \in Obj, WriteObject(w, o) 
      PROVE  WriterInv' /\ (ReachableStored => ReachableStored')
  <2>1. Reachable(roots)' = Reachable(roots)
    BY <1>3 DEF WriteObject, Reachable
  <2>2. ReachableStored => ReachableStored'
    BY <1>3, AloneGrows DEF WriteObject, files
  <2>3. WriterInv'
    BY <1>0, <1>3, <2>1 DEF WriteObject, WriterInv, WritersOK, files
  <2> QED
    BY <2>2, <2>3
<1>4. CASE Install(w)
  <2>1. Reachable(roots)' = Reachable(roots)
    BY <1>4 DEF Install, Reachable
  <2>2. ReachableStored => ReachableStored'
    BY <1>4, AloneGrows DEF Install
  <2>3. WriterInv'
    BY <1>0, <1>4, <2>1 DEF Install, WriterInv, WritersOK
  <2> QED
    BY <2>2, <2>3
<1>5. CASE CrashWriter(w)
  <2>1. Reachable(roots)' = Reachable(roots)
    BY <1>5 DEF CrashWriter, Reachable
  <2>2. ReachableStored => ReachableStored'
    BY <1>5, AloneGrows DEF CrashWriter, files
  <2>3. WriterInv'
    BY <1>0, <1>5, <2>1 DEF CrashWriter, WriterInv, WritersOK, files
  <2> QED
    BY <2>2, <2>3
<1>6. CASE Publish(w)
  <2>0. /\ wpc[w] = "publish" /\ goal[w] \in Obj /\ goal[w] \in loose
        /\ roots' = roots \cup {goal[w]}
        /\ Links[goal[w]] \subseteq Reachable(roots)
        /\ UNCHANGED <<loose, packs, idxs>>
    BY <1>0, <1>6 DEF Publish, WritersOK, WriterInv, files
  <2>1. Reachable(roots)' \subseteq Reachable(roots) \cup {goal[w]}
    <3>1. Reachable(roots \cup {goal[w]})
            \subseteq Reachable(roots) \cup {goal[w]} \cup Reachable(Links[goal[w]])
      BY <1>0, <2>0, ReachablePublish DEF FilesOK
    <3>2. Reachable(Links[goal[w]]) \subseteq Reachable(roots)
      BY <1>0, <2>0, ReachableWithin DEF FilesOK
    <3> QED
      BY <2>0, <3>1, <3>2 DEF Reachable
  <2>2. ReachableStored => ReachableStored'
    <3>1. \A x : Stored(x)' <=> Stored(x)
      BY <2>0 DEF Stored, ObjsOf
    <3>2. Stored(goal[w])
      BY <2>0 DEF Stored
    <3> QED
      BY <2>1, <3>1, <3>2 DEF ReachableStored
  <2>3. Reachable(roots) \subseteq Reachable(roots)'
    <3>1. roots \in SUBSET Obj /\ roots' \in SUBSET Obj
      BY <1>0, <2>0 DEF FilesOK
    <3>2. Reachable(roots) \subseteq Reachable(roots')
      BY <2>0, <3>1, ReachableWithin, ReachableContains
    <3> QED
      BY <3>2 DEF Reachable
  <2>4. WriterInv'
    BY <1>0, <1>6, <2>0, <2>3 DEF Publish, WriterInv, WritersOK
  <2> QED
    BY <2>2, <2>4
<1> QED
  BY <1>3, <1>4, <1>5, <1>6 DEF WriterNext

LEMMA AloneDrop ==
  ASSUME Exclusive, AloneInv, TypeOK', NEW o \in Obj, DropRoot(o) PROVE AloneInv'
<1>1. /\ MaintIdle /\ WritersIdle /\ roots' = roots \ {o}
      /\ UNCHANGED <<loose, packs, idxs, wpc, mpc, crashes>>
  BY DEF DropRoot, files, writers, counters
<1>2. Reachable(roots)' \subseteq Reachable(roots)
  <2>1. roots \in SUBSET Obj /\ roots' \in SUBSET Obj
    BY <1>1 DEF AloneInv, TypeOK, FilesOK
  <2>2. Reachable(roots') \subseteq Reachable(roots)
    BY <1>1, <2>1, ReachableWithin, ReachableContains
  <2> QED
    BY <2>2 DEF Reachable
<1>3. \A x : Stored(x)' <=> Stored(x)
  BY <1>1 DEF Stored, ObjsOf
<1>4. (Sound => ReachableStored)'
  BY <1>1, <1>2, <1>3 DEF AloneInv, Sound, ReachableStored
<1> QED
  BY <1>1, <1>4 DEF AloneInv, Alone, WriterInv, WritersIdle, MaintIdle

\* Maintenance that runs alone: the invariant.
LEMMA AloneAlways == ASSUME Exclusive PROVE Spec => []AloneInv
<1>1. Init /\ TypeOK => AloneInv
  BY DEF Init, AloneInv, Alone, WriterInv, WritersIdle, ReachableStored
<1>2. AloneInv /\ TypeOK' /\ [Next]_vars => AloneInv'
  <2> SUFFICES ASSUME AloneInv, TypeOK', [Next]_vars PROVE AloneInv'
    OBVIOUS
  <2>1. CASE UNCHANGED vars
    BY <2>1, AloneStutter DEF vars, files, writers, locals, counters
  <2>2. ASSUME NEW r \in Reader, ReaderNext(r) PROVE AloneInv'
    BY <2>2, AloneStutter DEF ReaderNext, StartRead, ReadLoose, ReadIdx, ReadPack
  <2>3. ASSUME NEW m \in Maint, MaintNext(m) PROVE AloneInv'
    BY <2>3, AloneMaint, AloneStart, AloneCrash DEF MaintNext
  <2> QED
    BY <2>1, <2>2, <2>3, AloneWriter, AloneDrop DEF Next
<1> QED
  BY <1>1, <1>2, ObjectStoreTypeOK, PTL DEF Spec

\* Whatever command runs alone, and wherever it is killed, everything that a
\* root leads to stays on disk, unless prune-packed is ever run: after a kill
\* it takes an index without its pack at its word (the run ObjectsOrphanIndex).
THEOREM AloneKeepsReachable ==
  ASSUME Exclusive, "prune-packed" \notin Command PROVE Spec => []ReachableStored
<1>1. AloneInv => ReachableStored
  BY DEF AloneInv, Sound
<1> QED
  BY <1>1, AloneAlways, PTL

\* Between commands that ran alone and to their end, prune-packed included,
\* read_object finds every object that a root leads to: every index has its
\* pack again.
THEOREM AloneLeavesReadable ==
  ASSUME Exclusive PROVE Spec => []ReachableReadable
<1>1. AloneInv => ReachableReadable
  <2> SUFFICES ASSUME AloneInv, MaintIdle, crashes = 0, NEW o \in Reachable(roots)
               PROVE  ~MayMiss(o)
    BY DEF ReachableReadable
  <2>1. Stored(o) /\ idxs = packs
    BY DEF AloneInv, Sound, ReachableStored
  <2> QED
    BY <2>1 DEF Stored, MayMiss, ObjsOf
<1> QED
  BY <1>1, AloneAlways, PTL

\* Of the commands that run alone and to their end only repack -a -d, gc and
\* prune drop an object, and none drops a reachable one.
THEOREM AloneDropsUnreachable ==
  ASSUME Exclusive PROVE Spec => OnlyPruningDrops
<1> DEFINE Allowed(o) ==
      crashes = 0 /\ Stored(o) /\ ~Stored(o)' =>
        /\ o \notin Reachable(roots)
        /\ \E m \in Maint : cmd[m] \in {"repack -a -d", "gc", "prune"}
<1>1. ASSUME AloneInv, TypeOK', Next, NEW o \in Obj PROVE Allowed(o)
  <2>0. SUFFICES ASSUME crashes = 0, Stored(o), ~Stored(o)'
                 PROVE  /\ o \notin Reachable(roots)
                        /\ \E m \in Maint : cmd[m] \in {"repack -a -d", "gc", "prune"}
    OBVIOUS
  <2>1. ~(loose \subseteq loose' /\ packs \subseteq packs' /\ idxs \subseteq idxs')
    BY <2>0 DEF Stored, ObjsOf
  <2>2. PICK m \in Maint : MaintStep(m)
    BY <1>1, <2>1
       DEF Next, WriterNext, WriteObject, Install, Publish, CrashWriter,
           ReaderNext, StartRead, ReadLoose, ReadIdx, ReadPack, DropRoot,
           MaintNext, Start, CrashMaint, files
  <2>3. RemovePack(m) \/ RemoveIdx(m) \/ UnlinkDuplicate(m) \/ Prune(m)
    BY <2>1, <2>2
       DEF MaintStep, RepackCollect, Loosen, LoosenDone, RepackSelect, RepackWrite,
           RepackInstall, RepackIdx, RemoveDone, ListPacked, UnlinkDone, Expire,
           PruneDone, files
  <2>4. MaintOK /\ (mpc[m] # "idle" => CommandInv(m) /\ ListInv(m))
    BY <1>1, <2>0 DEF AloneInv, TypeOK, CommandInv
  <2>5. CASE RemovePack(m)
    <3>1. PICK p \in Replaced(m) : packs' = packs \ {p}
      BY <2>5 DEF RemovePack
    <3>2. mpc[m] = "remove" /\ UNCHANGED <<loose, idxs>>
      BY <2>5 DEF RemovePack
    <3>3. /\ CmdAll(m)
          /\ {newp[m]} \cup kept[m] \subseteq packs \cap idxs
          /\ Reachable(roots) \subseteq newp[m].objs \cup ObjsOf(kept[m])
          /\ cmd[m] = "repack -A -d" => ObjsOf(oldp[m]) \ Reachable(roots) \subseteq loose
      BY <2>4, <3>2 DEF CommandInv, RemoveInv, ListInv
    <3>4. p \in oldp[m] /\ p \notin {newp[m]} \cup kept[m]
      BY <3>1 DEF Replaced
    <3>5. {newp[m]} \cup kept[m] \subseteq packs' \cap idxs'
      BY <3>1, <3>2, <3>3, <3>4
    <3>6. o \notin newp[m].objs \cup ObjsOf(kept[m])
      BY <2>0, <3>5 DEF Stored, ObjsOf
    <3>7. o \in p.objs /\ o \notin loose
      BY <2>0, <3>1, <3>2 DEF Stored, ObjsOf
    <3>8. o \in ObjsOf(oldp[m])
      BY <3>4, <3>7 DEF ObjsOf
    <3> QED
      BY <3>3, <3>6, <3>7, <3>8 DEF CmdAll
  <2>6. CASE RemoveIdx(m)
    <3>1. mpc[m] = "removeidx" /\ idxs' = idxs \ {victim[m]} /\ UNCHANGED <<loose, packs>>
      BY <2>6 DEF RemoveIdx
    <3>2. packs' \cap idxs' = packs \cap idxs
      BY <2>4, <3>1 DEF ListInv
    <3> QED
      BY <2>0, <3>1, <3>2 DEF Stored, ObjsOf
  <2>7. CASE UnlinkDuplicate(m)
    <3>1. PICK x \in scan[m] : loose' = loose \ {x}
      BY <2>7 DEF UnlinkDuplicate
    <3>2. mpc[m] = "unlink" /\ UNCHANGED <<packs, idxs>>
      BY <2>7 DEF UnlinkDuplicate
    <3>3. scan[m] \subseteq ObjsOf(idxs) /\ idxs = packs
      BY <2>4, <3>2 DEF CommandInv, DuplicateInv, ListInv
    <3> QED
      BY <2>0, <3>1, <3>2, <3>3 DEF Stored, ObjsOf
  <2>8. CASE Prune(m)
    <3>1. PICK x \in scan[m] \ reach[m] : loose' = loose \ {x}
      BY <2>8 DEF Prune
    <3>2. mpc[m] = "prune" /\ UNCHANGED <<packs, idxs>>
      BY <2>8 DEF Prune
    <3>3. reach[m] = Reachable(roots) /\ cmd[m] \in {"gc", "prune"}
      BY <2>4, <3>2 DEF CommandInv, ExpireInv
    <3> QED
      BY <2>0, <3>1, <3>2, <3>3 DEF Stored, ObjsOf
  <2> QED
    BY <2>3, <2>5, <2>6, <2>7, <2>8
<1>2. AloneInv /\ TypeOK' /\ [Next]_vars => [\A o \in Obj : Allowed(o)]_vars
  BY <1>1
<1> QED
  BY <1>2, AloneAlways, ObjectStoreTypeOK, PTL DEF Spec, OnlyPruningDrops
=============================================================================
